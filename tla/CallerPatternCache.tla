-------------------------- MODULE CallerPatternCache --------------------------
(***************************************************************************)
(* The two-generation cache of caller-pattern results (model_router.go),   *)
(* shared by the route and executor RPCs that run at the same time.  Every *)
(* critical section of callerPatternCacheMu is one step; between the       *)
(* lookup and the store of a miss, other callers store, rotate and reset.  *)
(*                                                                         *)
(* A principal stands for its scope digest and its key alike: a request    *)
(* carries a key only when the key hashes to its scope (callerAPIKey).     *)
(***************************************************************************)
EXTENDS Naturals, FiniteSets

CONSTANTS
  Callers,         \* RPCs in progress
  Scopes,          \* authenticated principals
  Patterns,        \* texts of wildcard key patterns
  Positions,       \* places of scoped rules in the configuration
  Match,           \* the pairs <<scope, pattern>> whose key the pattern accepts
  GenerationSize   \* callerPatternCacheGenerationSize

ASSUME MatchAssumption == Match \subseteq Scopes \X Patterns
ASSUME GenerationAssumption == GenerationSize \in Nat \ {0}

VARIABLES
  config,    \* the published configuration: the pattern at each position
  current,   \* callerPatternCache.current, a function on the keys it holds
  previous,  \* callerPatternCache.previous
  pc,        \* of each caller
  request,   \* what each caller asks: its scope and a rule of its snapshot
  matched    \* its local variable of that name

vars == <<config, current, previous, pc, request, matched>>

Request == [scope : Scopes, position : Positions, pattern : Patterns]
Key == [scope : Scopes, pattern : Patterns]

Empty == [k \in {} |-> TRUE]
Generation == UNION {[D -> BOOLEAN] : D \in SUBSET Key}

TypeOK ==
  /\ config \in [Positions -> Patterns]
  /\ current \in Generation
  /\ previous \in Generation
  /\ pc \in [Callers -> {"idle", "lookup", "match", "store", "answered", "unavailable"}]
  /\ request \in [Callers -> Request]
  /\ matched \in [Callers -> BOOLEAN]

Init ==
  /\ config \in [Positions -> Patterns]
  /\ current = Empty
  /\ previous = Empty
  /\ pc = [c \in Callers |-> "idle"]
  /\ request \in [Callers -> Request]
  /\ matched = [c \in Callers |-> FALSE]

(* Mistake: results kept per place of a rule.                              *)
CacheKeyOfPosition(c) == [scope |-> request[c].scope, position |-> request[c].position]

CacheKey(c) == [scope |-> request[c].scope, pattern |-> request[c].pattern]

-----------------------------------------------------------------------------
(* A rule of the configuration loaded by the RPC is tried.  Without a key  *)
(* of the caller's own scope there is no answer and the rule is skipped.   *)
Ask(c) ==
  /\ pc[c] = "idle"
  /\ \E s \in Scopes, p \in Positions :
        request' = [request EXCEPT
                      ![c] = [scope |-> s, position |-> p, pattern |-> config[p]]]
  /\ \E next \in {"lookup", "unavailable"} : pc' = [pc EXCEPT ![c] = next]
  /\ UNCHANGED <<config, current, previous, matched>>

(* Under the read lock: a hit in either generation answers.                *)
Lookup(c) ==
  /\ pc[c] = "lookup"
  /\ \/ /\ CacheKey(c) \in DOMAIN current
        /\ matched' = [matched EXCEPT ![c] = current[CacheKey(c)]]
        /\ pc' = [pc EXCEPT ![c] = "answered"]
     \/ /\ CacheKey(c) \in DOMAIN previous \ DOMAIN current
        /\ matched' = [matched EXCEPT ![c] = previous[CacheKey(c)]]
        /\ pc' = [pc EXCEPT ![c] = "answered"]
     \/ /\ CacheKey(c) \notin DOMAIN current \union DOMAIN previous
        /\ pc' = [pc EXCEPT ![c] = "match"]
        /\ UNCHANGED matched
  /\ UNCHANGED <<config, current, previous, request>>

(* matchTokens of the key and the compiled pattern, outside the lock.      *)
MatchTokens(c) ==
  /\ pc[c] = "match"
  /\ matched' = [matched EXCEPT
                   ![c] = <<request[c].scope, request[c].pattern>> \in Match]
  /\ pc' = [pc EXCEPT ![c] = "store"]
  /\ UNCHANGED <<config, current, previous, request>>

With(generation, k, value) ==
  [x \in DOMAIN generation \union {k} |-> IF x = k THEN value ELSE generation[x]]

(* Mistakes: one entry too many, and a full cache emptied all at once.     *)
InsertLate(k, value) ==
  IF Cardinality(DOMAIN current) > GenerationSize
  THEN /\ previous' = current
       /\ current' = With(Empty, k, value)
  ELSE /\ current' = With(current, k, value)
       /\ UNCHANGED previous

InsertClears(k, value) ==
  IF Cardinality(DOMAIN current) >= GenerationSize
  THEN /\ previous' = Empty
       /\ current' = With(Empty, k, value)
  ELSE /\ current' = With(current, k, value)
       /\ UNCHANGED previous

(* A full current generation becomes the previous one.                     *)
Insert(k, value) ==
  IF Cardinality(DOMAIN current) >= GenerationSize
  THEN /\ previous' = current
       /\ current' = With(Empty, k, value)
  ELSE /\ current' = With(current, k, value)
       /\ UNCHANGED previous

(* Under the write lock: the entry another caller stored meanwhile wins.   *)
Store(c) ==
  /\ pc[c] = "store"
  /\ \/ /\ CacheKey(c) \in DOMAIN current
        /\ matched' = [matched EXCEPT ![c] = current[CacheKey(c)]]
        /\ UNCHANGED <<current, previous>>
     \/ /\ CacheKey(c) \in DOMAIN previous \ DOMAIN current
        /\ matched' = [matched EXCEPT ![c] = previous[CacheKey(c)]]
        /\ UNCHANGED <<current, previous>>
     \/ /\ CacheKey(c) \notin DOMAIN current \union DOMAIN previous
        /\ Insert(CacheKey(c), matched[c])
        /\ UNCHANGED matched
  /\ pc' = [pc EXCEPT ![c] = "answered"]
  /\ UNCHANGED <<config, request>>

(* The RPC goes on to its next rule, or ends.                              *)
Return(c) ==
  /\ pc[c] \in {"answered", "unavailable"}
  /\ pc' = [pc EXCEPT ![c] = "idle"]
  /\ UNCHANGED <<config, current, previous, request, matched>>

(* resetCallerPatternCache, by plugin init and by shutdown.                *)
Reset ==
  /\ current' = Empty
  /\ previous' = Empty
  /\ UNCHANGED <<config, pc, request, matched>>

(* applyLifecycleConfig of a configuration that decodes and compiles.      *)
Reconfigure ==
  /\ config' \in [Positions -> Patterns]
  /\ UNCHANGED <<current, previous, pc, request, matched>>

Next ==
  \/ \E c \in Callers : Ask(c) \/ Lookup(c) \/ MatchTokens(c) \/ Store(c) \/ Return(c)
  \/ Reset
  \/ Reconfigure

Spec == Init /\ [][Next]_vars

-----------------------------------------------------------------------------
(* Cross-RPC state is capped: each generation holds at most GenerationSize *)
(* entries, and no key is in both, so a stale copy can never outlive it.   *)
Bounded ==
  /\ Cardinality(DOMAIN current) <= GenerationSize
  /\ Cardinality(DOMAIN previous) <= GenerationSize
  /\ DOMAIN current \intersect DOMAIN previous = {}

(* A caller is told whether its own key matches the pattern of the rule in *)
(* the configuration it loaded, whatever was cached for whom, and whatever *)
(* was reconfigured, rotated or reset since it asked.                      *)
AnswersOwnQuestion ==
  \A c \in Callers : pc[c] = "answered" =>
     matched[c] = (<<request[c].scope, request[c].pattern>> \in Match)

(* Other than by a reset, an entry is dropped only when a full generation  *)
(* of entries stored after it stays behind.                                *)
EvictsOnlyOldest ==
  [][/\ DOMAIN current' # {}
     /\ ~(DOMAIN current \union DOMAIN previous \subseteq DOMAIN current' \union DOMAIN previous')
     => /\ Cardinality(DOMAIN previous') = GenerationSize
        /\ DOMAIN current \subseteq DOMAIN previous']_vars

(* README.md: "Reconfiguration clears the cache."                          *)
ReconfigurationClears ==
  [][config' # config => current' = Empty /\ previous' = Empty]_vars
=============================================================================
