---------------------------- MODULE StreamService ----------------------------
(***************************************************************************)
(* What the plugin's streaming executor promises the host, apart from how  *)
(* it keeps the promise: a stream is prepared, admitted while the service  *)
(* is up, decided once, and gone before a drain is reported complete.      *)
(* StreamLifecycle is the mechanism that implements this module.           *)
(***************************************************************************)
CONSTANT Streams

VARIABLES
  phase,    \* "serving", "draining" (some shutdown call has not returned), "stopped"
  pending,  \* the streams being prepared
  open,     \* the admitted streams whose worker has not left
  outcome   \* how each stream ended: "none" until it is decided

vars == <<phase, pending, open, outcome>>

Outcome == {"none", "completed", "failed"}

TypeOK ==
  /\ phase \in {"serving", "draining", "stopped"}
  /\ pending \subseteq Streams
  /\ open \subseteq Streams
  /\ outcome \in [Streams -> Outcome]

Init ==
  /\ phase = "serving"
  /\ pending = {}
  /\ open = {}
  /\ outcome = [s \in Streams |-> "none"]

-----------------------------------------------------------------------------
(* A preparation starts only while the service is up.                      *)
Accept(s) ==
  /\ phase = "serving"
  /\ s \notin pending \union open
  /\ pending' = pending \union {s}
  /\ UNCHANGED <<phase, open, outcome>>

(* A prepared stream is admitted only while the service is up ...          *)
Admit(s) ==
  /\ phase = "serving"
  /\ s \in pending
  /\ pending' = pending \ {s}
  /\ open' = open \union {s}
  /\ UNCHANGED <<phase, outcome>>

(* ... and may be abandoned at any time.                                   *)
Abandon(s) ==
  /\ s \in pending
  /\ pending' = pending \ {s}
  /\ UNCHANGED <<phase, open, outcome>>

(* The outcome of a stream is decided once.                                *)
Decide(s) ==
  /\ s \in open
  /\ outcome[s] = "none"
  /\ \E o \in Outcome \ {"none"} : outcome' = [outcome EXCEPT ![s] = o]
  /\ UNCHANGED <<phase, pending, open>>

(* No worker leaves undecided.                                             *)
Leave(s) ==
  /\ s \in open
  /\ outcome[s] # "none"
  /\ open' = open \ {s}
  /\ UNCHANGED <<phase, pending, outcome>>

(* A drain fails every open stream that is still undecided, in one step.   *)
Drain ==
  /\ phase' = "draining"
  /\ outcome' = [s \in Streams |->
                   IF s \in open /\ outcome[s] = "none" THEN "failed" ELSE outcome[s]]
  /\ UNCHANGED <<pending, open>>

(* The drain is reported complete only when nothing is left running.       *)
Stopped ==
  /\ phase = "draining"
  /\ pending = {}
  /\ open = {}
  /\ phase' = "stopped"
  /\ UNCHANGED <<pending, open, outcome>>

Restart ==
  /\ phase = "stopped"
  /\ phase' = "serving"
  /\ UNCHANGED <<pending, open, outcome>>

Next ==
  \/ \E s \in Streams : Accept(s) \/ Admit(s) \/ Abandon(s) \/ Decide(s) \/ Leave(s)
  \/ Drain \/ Stopped \/ Restart

Spec == Init /\ [][Next]_vars
=============================================================================
