----------------------------- MODULE PluginLifetime -----------------------------
(***************************************************************************)
(* The native plugin from cliproxy_plugin_init to cliproxyPluginShutdown   *)
(* (abi_cgo.go, main.go): the host callback, the executor streams of       *)
(* StreamService, and the caller-pattern cache.  The host's API is valid   *)
(* from init until shutdown returns; the plugin may be loaded again.  The  *)
(* host calls init and shutdown from one thread, and the RPCs from others; *)
(* whether it waits for its RPCs before it shuts the plugin down is the    *)
(* host's guard.                                                           *)
(***************************************************************************)
EXTENDS Naturals

CONSTANTS
  Streams,    \* executor.execute_stream calls
  Calls,      \* model.route and executor.execute calls in progress
  MaxInits    \* loads of the plugin

ASSUME CallsAssumption == Calls \intersect Streams = {}
ASSUME MaxInitsAssumption == MaxInits \in Nat \ {0}

VARIABLES
  guarded,    \* whether this host has no call in progress when it calls shutdown
  lpc,        \* the host's lifecycle thread
  inits,      \* loads so far
  api,        \* the load whose host API is valid, or 0
  callback,   \* hostCallbackFn: the load it was set in, or 0 for nil
  cache,      \* the loads whose calls left an entry in callerPatternCache
  running,    \* per call: the load it was made in, or 0
  held,       \* per call and stream: the callback it is in, or 0
  refused,    \* history: streams that found no callback
  phase, pending, open, outcome   \* StreamService

Executor == INSTANCE StreamService

streams == <<phase, pending, open, outcome>>
thread == <<lpc, inits, api>>
vars == <<guarded, thread, callback, cache, running, held, refused, streams>>

Load == 0 .. MaxInits

Init ==
  /\ guarded \in BOOLEAN
  /\ lpc = "absent" /\ inits = 0 /\ api = 0
  /\ callback = 0 /\ cache = {}
  /\ running = [c \in Calls |-> 0]
  /\ held = [x \in Calls \union Streams |-> 0]
  /\ refused = {}
  /\ Executor!Init

-----------------------------------------------------------------------------
(* cliproxy_plugin_init of an acceptable host, in the order of the code.   *)
BeginInit ==
  /\ lpc = "absent" /\ inits < MaxInits
  /\ inits' = inits + 1 /\ api' = inits + 1
  /\ lpc' = "resetStreams"
  /\ UNCHANGED <<guarded, callback, cache, running, held, refused, streams>>

(* Mistake: the streams of a plugin that is loaded again stay refused.     *)
InitResetStreamsForgotten ==
  /\ lpc = "resetStreams" /\ lpc' = "resetCache"
  /\ UNCHANGED <<guarded, inits, api, callback, cache, running, held, refused, streams>>

(* resetExecutorStreamLifecycle does nothing while streams are left.       *)
InitResetStreams ==
  /\ lpc = "resetStreams" /\ lpc' = "resetCache"
  /\ IF phase = "stopped" /\ pending = {} /\ open = {}
     THEN Executor!Restart ELSE UNCHANGED streams
  /\ UNCHANGED <<guarded, inits, api, callback, cache, running, held, refused>>

InitResetCache ==
  /\ lpc = "resetCache" /\ lpc' = "setCallback"
  /\ cache' = {}
  /\ UNCHANGED <<guarded, inits, api, callback, running, held, refused, streams>>

InitSetCallback ==
  /\ lpc = "setCallback" /\ lpc' = "ready"
  /\ callback' = api
  /\ UNCHANGED <<guarded, inits, api, cache, running, held, refused, streams>>

NoCallInProgress == pending = {} /\ \A c \in Calls : running[c] = 0

(* Mistake: the callback is cleared before the streams are waited for.     *)
BeginShutdownClears ==
  /\ lpc = "ready" /\ (guarded => NoCallInProgress)
  /\ Executor!Drain
  /\ lpc' = "drain"
  /\ callback' = 0
  /\ UNCHANGED <<guarded, inits, api, cache, running, held, refused>>

(* cliproxyPluginShutdown: shutdownExecutorStreams begins ...              *)
BeginShutdown ==
  /\ lpc = "ready" /\ (guarded => NoCallInProgress)
  /\ Executor!Drain
  /\ lpc' = "drain"
  /\ UNCHANGED <<guarded, inits, api, callback, cache, running, held, refused>>

(* ... and returns when no stream is left.                                 *)
DrainEnds ==
  /\ lpc = "drain" /\ Executor!Stopped
  /\ lpc' = "resetCacheAgain"
  /\ UNCHANGED <<guarded, inits, api, callback, cache, running, held, refused>>

(* Mistake: the entries are left for the next load.                        *)
ShutdownResetCacheForgotten ==
  /\ lpc = "resetCacheAgain" /\ lpc' = "clearCallback"
  /\ UNCHANGED <<guarded, inits, api, callback, cache, running, held, refused, streams>>

ShutdownResetCache ==
  /\ lpc = "resetCacheAgain" /\ lpc' = "clearCallback"
  /\ cache' = {}
  /\ UNCHANGED <<guarded, inits, api, callback, running, held, refused, streams>>

ShutdownClearCallback ==
  /\ lpc = "clearCallback" /\ lpc' = "return"
  /\ callback' = 0
  /\ UNCHANGED <<guarded, inits, api, cache, running, held, refused, streams>>

(* The host frees its API when shutdown has returned.                      *)
ShutdownReturns ==
  /\ lpc = "return" /\ lpc' = "absent"
  /\ api' = 0
  /\ UNCHANGED <<guarded, inits, callback, cache, running, held, refused, streams>>

-----------------------------------------------------------------------------
(* The host calls the plugin once init has returned, and a host without a  *)
(* guard goes on while it shuts the plugin down.                           *)
Callable ==
  \/ lpc = "ready"
  \/ ~guarded /\ lpc \in {"drain", "resetCacheAgain", "clearCallback"}

(* A route or execute call, which may look up a caller pattern.            *)
BeginCall(c) ==
  /\ Callable /\ running[c] = 0
  /\ running' = [running EXCEPT ![c] = inits]
  /\ UNCHANGED <<guarded, thread, callback, cache, held, refused, streams>>

MatchCaller(c) ==
  /\ running[c] # 0 /\ held[c] = 0
  /\ cache' = cache \union {running[c]}
  /\ UNCHANGED <<guarded, thread, callback, running, held, refused, streams>>

(* callHost: the callback is read under the lock and called outside it.    *)
CallHost(c) ==
  /\ running[c] # 0 /\ held[c] = 0 /\ callback # 0
  /\ held' = [held EXCEPT ![c] = callback]
  /\ UNCHANGED <<guarded, thread, callback, cache, running, refused, streams>>

HostReturns(c) ==
  /\ held[c] # 0
  /\ held' = [held EXCEPT ![c] = 0]
  /\ UNCHANGED <<guarded, thread, callback, cache, running, refused, streams>>

(* With an answer, or with "host API not initialized".                     *)
EndCall(c) ==
  /\ running[c] # 0 /\ held[c] = 0
  /\ running' = [running EXCEPT ![c] = 0]
  /\ UNCHANGED <<guarded, thread, callback, cache, held, refused, streams>>

-----------------------------------------------------------------------------
(* executor.execute_stream: prepared by the call, forwarded by a worker.   *)
BeginStream(s) ==
  /\ Callable /\ Executor!Accept(s)
  /\ \E caller \in BOOLEAN : cache' = IF caller THEN cache \union {inits} ELSE cache
  /\ UNCHANGED <<guarded, thread, callback, running, held, refused>>

StreamCallsHost(s) ==
  /\ s \in pending \union open /\ held[s] = 0
  /\ IF callback = 0
     THEN refused' = refused \union {s} /\ UNCHANGED held
     ELSE held' = [held EXCEPT ![s] = callback] /\ UNCHANGED refused
  /\ UNCHANGED <<guarded, thread, callback, cache, running, streams>>

StreamHostReturns(s) ==
  /\ held[s] # 0
  /\ held' = [held EXCEPT ![s] = 0]
  /\ UNCHANGED <<guarded, thread, callback, cache, running, refused, streams>>

StreamStep(s) ==
  /\ held[s] = 0
  /\ Executor!Admit(s) \/ Executor!Abandon(s) \/ Executor!Decide(s) \/ Executor!Leave(s)
  /\ UNCHANGED <<guarded, thread, callback, cache, running, held, refused>>

Next ==
  \/ BeginInit \/ InitResetStreams \/ InitResetCache \/ InitSetCallback
  \/ BeginShutdown \/ DrainEnds \/ ShutdownResetCache \/ ShutdownClearCallback \/ ShutdownReturns
  \/ \E c \in Calls :
       BeginCall(c) \/ MatchCaller(c) \/ CallHost(c) \/ HostReturns(c) \/ EndCall(c)
  \/ \E s \in Streams :
       BeginStream(s) \/ StreamCallsHost(s) \/ StreamHostReturns(s) \/ StreamStep(s)

Spec == Init /\ [][Next]_vars

-----------------------------------------------------------------------------
(* A stream's calls, its last close included, reach the host that loaded   *)
(* the plugin while that host's API is valid, whether or not the host      *)
(* waits for its calls: shutdown waits for the streams before it clears    *)
(* the callback.                                                           *)
StreamsCallALiveHost ==
  /\ refused = {}
  /\ \A s \in Streams : held[s] # 0 => held[s] = api

(* A plugin that was loaded, for the first time or again, serves streams   *)
(* with the callback of this load; and, given the guard, no decision that  *)
(* a call of another load cached.                                          *)
ReadyIsFresh ==
  lpc = "ready" =>
    /\ callback = api /\ phase = "serving"
    /\ guarded => cache \subseteq {api}

(* When shutdown has returned, no stream of the plugin is left in the host *)
(* and the callback is gone; given the guard, no call is left either, and  *)
(* nothing of the callers is kept.                                         *)
NothingLeftBehind ==
  lpc = "absent" =>
    /\ callback = 0 /\ pending = {} /\ open = {}
    /\ \A s \in Streams : held[s] = 0
    /\ guarded => cache = {} /\ \A c \in Calls : held[c] = 0
=============================================================================
