------------------------ MODULE CallerPatternCacheProofs ------------------------
(***************************************************************************)
(* The caller-pattern cache is bounded and never answers a caller for      *)
(* another principal or pattern, for any callers, scopes, patterns and     *)
(* size of a generation.  An entry is stored with the answer of its own    *)
(* key, and the key says all that the answer depends on: neither a         *)
(* rotation, a reset, a reconfiguration nor another caller's store can     *)
(* make it wrong.                                                          *)
(***************************************************************************)
EXTENDS CallerPatternCache, FiniteSetTheorems, TLAPS

Answer(k) == <<k.scope, k.pattern>> \in Match

(* Every entry is the answer of its key, whoever stored it.                *)
Truthful(generation) == \A k \in DOMAIN generation : generation[k] = Answer(k)
EntriesTruthful == Truthful(current) /\ Truthful(previous)

(* A caller that has matched its tokens, or was answered, knows its answer.*)
CallersInformed ==
  \A c \in Callers : pc[c] \in {"store", "answered"} => matched[c] = Answer(CacheKey(c))

Finite == IsFiniteSet(DOMAIN current) /\ IsFiniteSet(DOMAIN previous)

IInv ==
  /\ TypeOK
  /\ Finite
  /\ Bounded
  /\ EntriesTruthful
  /\ CallersInformed

-----------------------------------------------------------------------------
(* Generations are the partial functions on the keys.                      *)
LEMMA GenerationIsPartial ==
  ASSUME NEW g
  PROVE  g \in Generation <=> DOMAIN g \subseteq Key /\ g \in [DOMAIN g -> BOOLEAN]
BY DEF Generation

(* The empty generation.                                                   *)
LEMMA EmptyGeneration ==
  /\ Empty \in Generation /\ DOMAIN Empty = {}
  /\ IsFiniteSet(DOMAIN Empty) /\ Cardinality(DOMAIN Empty) = 0
  /\ Truthful(Empty)
<1>1. DOMAIN Empty = {} /\ Empty \in [{} -> BOOLEAN]
  BY DEF Empty
<1> QED BY <1>1, GenerationIsPartial, FS_EmptySet DEF Truthful

(* Adding an entry to a generation that does not have it.                  *)
LEMMA WithEntry ==
  ASSUME NEW g \in Generation, NEW k \in Key, NEW value \in BOOLEAN,
         IsFiniteSet(DOMAIN g), k \notin DOMAIN g
  PROVE  /\ With(g, k, value) \in Generation
         /\ DOMAIN With(g, k, value) = DOMAIN g \union {k}
         /\ IsFiniteSet(DOMAIN With(g, k, value))
         /\ Cardinality(DOMAIN With(g, k, value)) = Cardinality(DOMAIN g) + 1
         /\ Truthful(g) /\ value = Answer(k) => Truthful(With(g, k, value))
<1> DEFINE w == With(g, k, value)
<1>1. DOMAIN w = DOMAIN g \union {k} /\ w[k] = value /\ \A x \in DOMAIN g : w[x] = g[x]
  BY DEF With
<1>2. DOMAIN g \subseteq Key /\ g \in [DOMAIN g -> BOOLEAN]
  BY GenerationIsPartial
<1>3. w \in [DOMAIN w -> BOOLEAN] /\ DOMAIN w \subseteq Key
  BY <1>1, <1>2 DEF With
<1>4. w \in Generation
  BY <1>3, GenerationIsPartial
<1>5. IsFiniteSet(DOMAIN w) /\ Cardinality(DOMAIN w) = Cardinality(DOMAIN g) + 1
  BY <1>1, FS_AddElement
<1>6. Truthful(g) /\ value = Answer(k) => Truthful(w)
  BY <1>1 DEF Truthful
<1> QED BY <1>1, <1>4, <1>5, <1>6

(* The key of a caller is a key.                                           *)
LEMMA CallerKey ==
  ASSUME TypeOK, NEW c \in Callers
  PROVE  CacheKey(c) \in Key
BY DEF TypeOK, Request, Key, CacheKey

-----------------------------------------------------------------------------
(* A fresh cache.                                                          *)
LEMMA InitIInv == ASSUME Init PROVE IInv
<1>1. TypeOK /\ Finite /\ EntriesTruthful
  BY EmptyGeneration DEF Init, TypeOK, Finite, EntriesTruthful
<1>2. Bounded
  BY EmptyGeneration, GenerationAssumption DEF Init, Bounded
<1>3. CallersInformed
  BY DEF Init, CallersInformed
<1> QED BY <1>1, <1>2, <1>3 DEF IInv

(* A step of a caller that leaves the cache alone keeps the invariant when *)
(* it keeps the types and what the callers know.                           *)
LEMMA CacheAlone ==
  ASSUME IInv, TypeOK', CallersInformed', UNCHANGED <<current, previous>>
  PROVE  IInv'
BY DEF IInv, Finite, Bounded, EntriesTruthful

(* The lookup under the read lock.                                         *)
LEMMA LookupKeepsIInv == ASSUME IInv, NEW c \in Callers, Lookup(c) PROVE IInv'
<1> USE DEF IInv
<1>1. matched'[c] \in BOOLEAN /\ matched' = [matched EXCEPT ![c] = matched'[c]]
  <2>1. matched[c] \in BOOLEAN /\ matched = [matched EXCEPT ![c] = matched[c]]
    BY DEF TypeOK
  <2>2. \A k \in DOMAIN current : current[k] \in BOOLEAN
    BY GenerationIsPartial DEF TypeOK
  <2>3. \A k \in DOMAIN previous : previous[k] \in BOOLEAN
    BY GenerationIsPartial DEF TypeOK
  <2> QED BY <2>1, <2>2, <2>3 DEF Lookup, TypeOK
<1>2. pc'[c] \in {"answered", "match"} /\ pc' = [pc EXCEPT ![c] = pc'[c]]
  BY DEF Lookup, TypeOK
<1>3. TypeOK'
  BY <1>1, <1>2 DEF Lookup, TypeOK
<1>4. CacheKey(c)' = CacheKey(c)
  BY DEF Lookup, CacheKey
<1>5. pc'[c] = "answered" => matched'[c] = Answer(CacheKey(c))
  BY DEF Lookup, TypeOK, EntriesTruthful, Truthful
<1>6. CallersInformed'
  BY <1>1, <1>2, <1>5 DEF CallersInformed, Lookup, TypeOK, CacheKey, Answer
<1> QED BY <1>3, <1>6, CacheAlone DEF Lookup

(* The store under the write lock: a hit answers, a miss is inserted.      *)
LEMMA StoreKeepsIInv == ASSUME IInv, NEW c \in Callers, Store(c) PROVE IInv'
<1> USE DEF IInv
<1> DEFINE k == CacheKey(c)
<1>0. k \in Key /\ UNCHANGED request /\ matched[c] \in BOOLEAN /\ matched[c] = Answer(k)
  BY CallerKey DEF Store, CallersInformed, TypeOK
<1>1. matched'[c] = Answer(k) /\ matched' = [matched EXCEPT ![c] = matched'[c]]
  <2>1. matched = [matched EXCEPT ![c] = matched[c]]
    BY DEF TypeOK
  <2> QED BY <1>0, <2>1 DEF Store, TypeOK, EntriesTruthful, Truthful
<1>2. CallersInformed'
  BY <1>0, <1>1 DEF CallersInformed, Store, TypeOK, CacheKey, Answer
<1>3. matched' \in [Callers -> BOOLEAN] /\ pc' = [pc EXCEPT ![c] = "answered"]
  <2>1. Answer(k) \in BOOLEAN
    BY DEF Answer
  <2>2. matched'[c] \in BOOLEAN
    BY <1>1, <2>1
  <2> QED BY <1>1, <2>2 DEF TypeOK, Store
<1>4. CASE k \in DOMAIN current \union DOMAIN previous
  <2>1. UNCHANGED <<current, previous>>
    BY <1>4 DEF Store
  <2>2. TypeOK'
    BY <1>3, <2>1 DEF TypeOK, Store
  <2> QED BY <1>2, <2>1, <2>2, CacheAlone
<1>5. CASE k \notin DOMAIN current \union DOMAIN previous
  <2>1. Insert(k, matched[c])
    BY <1>5 DEF Store
  <2>2. CASE Cardinality(DOMAIN current) >= GenerationSize
    <3>1. previous' = current /\ current' = With(Empty, k, matched[c])
      BY <2>1, <2>2 DEF Insert
    <3>2. /\ current' \in Generation /\ DOMAIN current' = {k}
          /\ IsFiniteSet(DOMAIN current') /\ Cardinality(DOMAIN current') = 1
          /\ Truthful(current')
      <4>1. Empty \in Generation /\ IsFiniteSet(DOMAIN Empty) /\ k \notin DOMAIN Empty
        BY EmptyGeneration
      <4>2. /\ With(Empty, k, matched[c]) \in Generation
            /\ DOMAIN With(Empty, k, matched[c]) = DOMAIN Empty \union {k}
            /\ IsFiniteSet(DOMAIN With(Empty, k, matched[c]))
            /\ Cardinality(DOMAIN With(Empty, k, matched[c])) = Cardinality(DOMAIN Empty) + 1
            /\ Truthful(Empty) /\ matched[c] = Answer(k) => Truthful(With(Empty, k, matched[c]))
        BY <1>0, <4>1, WithEntry
      <4>3. Truthful(With(Empty, k, matched[c]))
        BY <1>0, <4>2, EmptyGeneration
      <4> QED BY <3>1, <4>2, <4>3, EmptyGeneration DEF Truthful
    <3>3. TypeOK'
      BY <1>3, <3>1, <3>2 DEF TypeOK, Store
    <3>4. Bounded'
      BY <1>5, <3>1, <3>2, GenerationAssumption DEF Bounded
    <3> QED BY <1>2, <3>1, <3>2, <3>3, <3>4 DEF Finite, EntriesTruthful
  <2>3. CASE ~(Cardinality(DOMAIN current) >= GenerationSize)
    <3>1. UNCHANGED previous /\ current' = With(current, k, matched[c])
      BY <2>1, <2>3 DEF Insert
    <3>2. /\ current' \in Generation /\ DOMAIN current' = DOMAIN current \union {k}
          /\ IsFiniteSet(DOMAIN current')
          /\ Cardinality(DOMAIN current') = Cardinality(DOMAIN current) + 1
          /\ Truthful(current')
      BY <1>0, <1>5, <3>1, WithEntry DEF TypeOK, Finite, EntriesTruthful
    <3>3. TypeOK'
      BY <1>3, <3>1, <3>2 DEF TypeOK, Store
    <3>4. Cardinality(DOMAIN current) \in Nat
      BY FS_CardinalityType DEF Finite
    <3>5. Bounded'
      BY <1>5, <2>3, <3>1, <3>2, <3>4, GenerationAssumption DEF Bounded
    <3> QED BY <1>2, <3>1, <3>2, <3>3, <3>5 DEF Finite, EntriesTruthful
  <2> QED BY <2>2, <2>3
<1> QED BY <1>4, <1>5

(* Every step keeps the invariant.                                         *)
LEMMA NextKeepsIInv == ASSUME IInv, [Next]_vars PROVE IInv'
<1> USE DEF IInv
<1>1. ASSUME NEW c \in Callers, Ask(c) PROVE IInv'
  <2>1. PICK s \in Scopes, p \in Positions :
          request' = [request EXCEPT ![c] = [scope |-> s, position |-> p, pattern |-> config[p]]]
    BY <1>1 DEF Ask
  <2>2. PICK next \in {"lookup", "unavailable"} : pc' = [pc EXCEPT ![c] = next]
    BY <1>1 DEF Ask
  <2>3. [scope |-> s, position |-> p, pattern |-> config[p]] \in Request
    BY DEF Request, TypeOK
  <2>4. TypeOK'
    BY <1>1, <2>1, <2>2, <2>3 DEF Ask, TypeOK
  <2>5. CallersInformed'
    BY <1>1, <2>1, <2>2 DEF Ask, CallersInformed, TypeOK, CacheKey, Answer
  <2> QED BY <1>1, <2>4, <2>5, CacheAlone DEF Ask
<1>2. ASSUME NEW c \in Callers, MatchTokens(c) PROVE IInv'
  <2>1. TypeOK'
    BY <1>2 DEF MatchTokens, TypeOK
  <2>2. CallersInformed'
    BY <1>2 DEF MatchTokens, CallersInformed, TypeOK, CacheKey, Answer
  <2> QED BY <1>2, <2>1, <2>2, CacheAlone DEF MatchTokens
<1>3. ASSUME NEW c \in Callers, Return(c) PROVE IInv'
  <2>1. TypeOK'
    BY <1>3 DEF Return, TypeOK
  <2>2. CallersInformed'
    BY <1>3 DEF Return, CallersInformed, TypeOK, CacheKey, Answer
  <2> QED BY <1>3, <2>1, <2>2, CacheAlone DEF Return
<1>4. CASE Reset
  <2>1. TypeOK' /\ Finite' /\ EntriesTruthful'
    BY <1>4, EmptyGeneration DEF Reset, TypeOK, Finite, EntriesTruthful
  <2>2. Bounded'
    BY <1>4, EmptyGeneration, GenerationAssumption DEF Reset, Bounded
  <2>3. CallersInformed'
    BY <1>4 DEF Reset, CallersInformed, CacheKey, Answer
  <2> QED BY <2>1, <2>2, <2>3
<1>5. CASE Reconfigure
  <2>1. TypeOK' /\ CallersInformed'
    BY <1>5 DEF Reconfigure, TypeOK, CallersInformed, CacheKey, Answer
  <2> QED BY <1>5, <2>1, CacheAlone DEF Reconfigure
<1>6. CASE UNCHANGED vars
  <2>1. TypeOK' /\ CallersInformed'
    BY <1>6 DEF vars, TypeOK, CallersInformed, CacheKey, Answer
  <2> QED BY <1>6, <2>1, CacheAlone DEF vars
<1> QED
  BY <1>1, <1>2, <1>3, <1>4, <1>5, <1>6, LookupKeepsIInv, StoreKeepsIInv DEF Next

-----------------------------------------------------------------------------
(* The invariant holds throughout.                                         *)
THEOREM CacheInvariant == Spec => []IInv
BY InitIInv, NextKeepsIInv, PTL DEF Spec

(* The variables of the cache keep their types.                            *)
THEOREM CacheTypeCorrect == Spec => []TypeOK
<1>1. IInv => TypeOK
  BY DEF IInv
<1> QED BY <1>1, CacheInvariant, PTL

(* Neither generation exceeds its size and no key is in both.              *)
THEOREM CacheIsBounded == Spec => []Bounded
<1>1. IInv => Bounded
  BY DEF IInv
<1> QED BY <1>1, CacheInvariant, PTL

(* Every caller is answered for its own key and pattern.                   *)
THEOREM CacheAnswersOwnQuestion == Spec => []AnswersOwnQuestion
<1>1. IInv => AnswersOwnQuestion
  BY DEF IInv, AnswersOwnQuestion, CallersInformed, Answer, CacheKey
<1> QED BY <1>1, CacheInvariant, PTL

(* A store drops entries only by a rotation, which keeps a whole           *)
(* generation of younger ones (storeCallerPatternMatch, model_router.go).  *)
LEMMA StoreEvictsOldest ==
  ASSUME IInv, NEW c \in Callers, Store(c),
         ~(DOMAIN current \union DOMAIN previous \subseteq DOMAIN current' \union DOMAIN previous')
  PROVE  /\ Cardinality(DOMAIN previous') = GenerationSize
         /\ DOMAIN current \subseteq DOMAIN previous'
<1> DEFINE k == CacheKey(c)
<1>0. k \in Key /\ matched[c] \in BOOLEAN
  BY CallerKey DEF IInv, TypeOK
<1>1. k \notin DOMAIN current \union DOMAIN previous /\ Insert(k, matched[c])
  BY DEF Store
<1>2. CASE Cardinality(DOMAIN current) >= GenerationSize
  <2>1. previous' = current
    BY <1>1, <1>2 DEF Insert
  <2>2. Cardinality(DOMAIN current) \in Nat /\ Cardinality(DOMAIN current) <= GenerationSize
    BY FS_CardinalityType DEF IInv, Finite, Bounded
  <2> QED BY <1>2, <2>1, <2>2, GenerationAssumption
<1>3. CASE ~(Cardinality(DOMAIN current) >= GenerationSize)
  <2>1. UNCHANGED previous /\ current' = With(current, k, matched[c])
    BY <1>1, <1>3 DEF Insert
  <2>2. DOMAIN current' = DOMAIN current \union {k}
    BY <1>0, <1>1, <2>1, WithEntry DEF IInv, TypeOK, Finite
  <2> QED BY <2>1, <2>2
<1> QED BY <1>2, <1>3

(* Other than by a reset, an entry is dropped only when a full generation  *)
(* of entries stored after it stays behind.                                *)
THEOREM CacheEvictsOnlyOldest == Spec => EvictsOnlyOldest
<1> DEFINE Dropped == ~(DOMAIN current \union DOMAIN previous \subseteq DOMAIN current' \union DOMAIN previous')
           Left == /\ Cardinality(DOMAIN previous') = GenerationSize
                   /\ DOMAIN current \subseteq DOMAIN previous'
           Step == DOMAIN current' # {} /\ Dropped => Left
<1>1. IInv /\ [Next]_vars => [Step]_vars
  <2> SUFFICES ASSUME IInv, Next, DOMAIN current' # {}, Dropped PROVE Left
    BY DEF vars
  <2>1. ASSUME NEW c \in Callers, Store(c) PROVE Left
    BY <2>1, StoreEvictsOldest
  <2>2. ASSUME NEW c \in Callers, Ask(c) \/ Lookup(c) \/ MatchTokens(c) \/ Return(c) PROVE FALSE
    BY <2>2 DEF Ask, Lookup, MatchTokens, Return
  <2>3. ~Reset /\ ~Reconfigure
    BY EmptyGeneration DEF Reset, Reconfigure
  <2> QED BY <2>1, <2>2, <2>3 DEF Next
<1> QED BY <1>1, CacheInvariant, PTL DEF Spec, EvictsOnlyOldest
=============================================================================
