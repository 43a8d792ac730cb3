---------------------------- MODULE JsonModelProofs ----------------------------
(***************************************************************************)
(* The rewritings of JSON bodies (json_model.go), whatever the bodies are. *)
(* From below: a text is read in at most one way, and texts that differ in *)
(* their strings only are read alike; the walk of the decoder finds the    *)
(* members that are read; the edits of a response replace strings that are *)
(* no keys, so that a second walk finds the same members and nothing to    *)
(* edit; the scan of a request, which counts marks, ends where the decoder *)
(* does, because the marks of a value nest; and the pieces that a request  *)
(* keeps stand in the written text in their order, where they are read as  *)
(* before. Each recursive function is unrolled with the lemmas of          *)
(* Induction.                                                              *)
(***************************************************************************)
EXTENDS JsonModelProperties, Induction, SequenceTheorems

IsText(doc) == doc \in Seq({doc[i] : i \in DOMAIN doc})

(* A text has a length, and its places count from 1.                       *)
LEMMA TextIs ==
  ASSUME NEW doc, IsText(doc)
  PROVE  Len(doc) \in Nat /\ DOMAIN doc = 1 .. Len(doc)
BY DEF IsText

(* The marks are all different, and none is a string.                      *)
LEMMA MarksDiffer ==
  /\ ObjectStart # ObjectEnd /\ ObjectStart # ArrayStart /\ ObjectStart # ArrayEnd
  /\ ObjectStart # Comma /\ ObjectStart # Colon /\ ObjectStart # Number /\ ObjectStart # Space
  /\ ObjectEnd # ArrayStart /\ ObjectEnd # ArrayEnd /\ ObjectEnd # Comma /\ ObjectEnd # Colon
  /\ ObjectEnd # Number /\ ObjectEnd # Space /\ ArrayStart # ArrayEnd /\ ArrayStart # Comma
  /\ ArrayStart # Colon /\ ArrayStart # Number /\ ArrayStart # Space /\ ArrayEnd # Comma
  /\ ArrayEnd # Colon /\ ArrayEnd # Number /\ ArrayEnd # Space /\ Comma # Colon /\ Comma # Number
  /\ Comma # Space /\ Colon # Number /\ Colon # Space /\ Number # Space
  /\ ~IsString(ObjectStart) /\ ~IsString(ObjectEnd) /\ ~IsString(ArrayStart) /\ ~IsString(ArrayEnd)
  /\ ~IsString(Comma) /\ ~IsString(Colon) /\ ~IsString(Number) /\ ~IsString(Space)
  /\ AValue # ObjectEnd /\ AValue # ArrayEnd
BY DEF ObjectStart, ObjectEnd, ArrayStart, ArrayEnd, Comma, Colon, Number, Space, AValue, IsString

(* However it is spelled, a string is a string and has its text.           *)
LEMMA StringsAre ==
  ASSUME NEW t
  PROVE  IsString(String(t)) /\ Text(String(t)) = t /\ IsString(Spelled(t)) /\ Text(Spelled(t)) = t
BY DEF IsString, String, Spelled, Text

(* Nothing of JSON stands after the end of a text.                         *)
LEMMA EndIsNone ==
  ASSUME NEW doc, Len(doc) \in Nat, NEW i \in Nat, i > 0
  PROVE  /\ i <= Len(doc) => At(doc, i) = doc[i]
         /\ i > Len(doc) => /\ At(doc, i) = <<"end">> /\ At(doc, i) # Space /\ ~IsString(At(doc, i))
                            /\ At(doc, i) \notin {ObjectStart, ObjectEnd, ArrayStart, ArrayEnd, Comma, Colon, Number}
<1>1. <<"end">> \notin {ObjectStart, ObjectEnd, ArrayStart, ArrayEnd, Comma, Colon, Number}
  BY DEF ObjectStart, ObjectEnd, ArrayStart, ArrayEnd, Comma, Colon, Number
<1>2. <<"end">> # Space /\ ~IsString(<<"end">>)
  BY DEF Space, IsString
<1> QED
  BY <1>1, <1>2 DEF At

(* skipTopLevelModelJSONSpace ends at the first place that holds no space. *)
LEMMA SkipSpaceEnds ==
  ASSUME NEW doc, Len(doc) \in Nat, NEW i \in 1 .. Len(doc) + 1
  PROVE  /\ SkipSpace(doc, i) \in i .. Len(doc) + 1
         /\ SkipSpace(doc, i) \in Nat /\ SkipSpace(doc, i) > 0
         /\ At(doc, SkipSpace(doc, i)) # Space
         /\ \A k \in i .. SkipSpace(doc, i) - 1 : doc[k] = Space
<1> DEFINE S == {j \in i .. Len(doc) + 1 : At(doc, j) # Space}
<1>1. Len(doc) + 1 \in S
  BY EndIsNone
<1>2. PICK m \in S : \A k \in S : m <= k
  <2>1. S \subseteq Nat /\ S # {}
    BY <1>1
  <2> HIDE DEF S
  <2> QED
    BY <2>1, LeastNumber
<1>3. \A k \in i .. m - 1 : doc[k] = Space
  BY <1>2, EndIsNone
<1>4. \E j \in i .. Len(doc) + 1 : At(doc, j) # Space /\ \A k \in i .. j - 1 : doc[k] = Space
  BY <1>2, <1>3
<1> DEFINE Ends(j) == j \in i .. Len(doc) + 1 /\ At(doc, j) # Space /\ \A k \in i .. j - 1 : doc[k] = Space
<1>5. SkipSpace(doc, i) = CHOOSE j : Ends(j)
  BY DEF SkipSpace
<1>6. Ends(SkipSpace(doc, i))
  <2> HIDE DEF Ends
  <2>1. \E j : Ends(j)
    BY <1>4 DEF Ends
  <2> QED
    BY <1>5, <2>1
<1> QED
  BY <1>6

(* ... and at no other.                                                    *)
LEMMA SkipSpaceIs ==
  ASSUME NEW doc, Len(doc) \in Nat, NEW i \in 1 .. Len(doc) + 1, NEW j \in i .. Len(doc) + 1,
         At(doc, j) # Space, \A k \in i .. j - 1 : At(doc, k) = Space
  PROVE  SkipSpace(doc, i) = j
<1> DEFINE s == SkipSpace(doc, i)
<1>1. /\ s \in i .. Len(doc) + 1 /\ At(doc, s) # Space
      /\ \A k \in i .. s - 1 : doc[k] = Space
  BY SkipSpaceEnds
<1> HIDE DEF s
<1>2. ~(j \in i .. s - 1)
  BY <1>1, EndIsNone
<1>3. ~(s \in i .. j - 1)
  BY <1>1
<1> QED
  BY <1>1, <1>2, <1>3 DEF s

Closers == {ObjectEnd, ArrayEnd}
Whats == {AValue, ObjectEnd, ArrayEnd}
Places(doc) == Whats \X (1 .. Len(doc) + 1)
Step(doc, read, what, i) ==
  IF what = AValue THEN Value(doc, read, i) ELSE Rest(doc, read, what, i)

Bounded(doc, at, results) == \A r \in results : r.next \in at + 1 .. Len(doc) + 1

Agree(doc, g, h, i) ==
  \A what \in Whats : \A j \in i .. Len(doc) + 1 :
    g[<<what, j>>] = h[<<what, j>>] /\ Bounded(doc, j, g[<<what, j>>])

(* What is read of items depends on readings from later places only.       *)
LEMMA ItemsLocal ==
  ASSUME NEW doc, Len(doc) \in Nat, NEW g, NEW h, NEW i \in 1 .. Len(doc) + 1,
         Agree(doc, g, h, i), NEW close \in Closers
  PROVE  /\ Items(doc, g, close, i) = Items(doc, h, close, i)
         /\ Bounded(doc, i, Items(doc, g, close, i))
<1> DEFINE key == SkipSpace(doc, i)
           colon == SkipSpace(doc, key + 1)
           from == IF close = ObjectEnd THEN colon + 1 ELSE i
           item(tree) == IF close = ObjectEnd THEN <<Text(doc[key]), tree>> ELSE tree
           fails == close = ObjectEnd /\ (~IsString(At(doc, key)) \/ At(doc, colon) # Colon)
           Of(read, v) == {[list |-> <<item(v.tree)>> \o rest.list, next |-> rest.next] :
                             rest \in read[<<close, v.next>>]}
<1>1. /\ Items(doc, g, close, i) = IF fails THEN {} ELSE UNION {Of(g, v) : v \in g[<<AValue, from>>]}
      /\ Items(doc, h, close, i) = IF fails THEN {} ELSE UNION {Of(h, v) : v \in h[<<AValue, from>>]}
  BY DEF Items
<1>2. CASE fails
  BY <1>1, <1>2 DEF Bounded
<1>3. CASE ~fails
  <2>1. from \in i .. Len(doc) + 1
    <3>1. CASE close = ArrayEnd
      BY <3>1, MarksDiffer
    <3>2. CASE close = ObjectEnd
      <4>1. key \in i .. Len(doc) + 1 /\ key \in Nat /\ key > 0
        BY SkipSpaceEnds
      <4>2. key <= Len(doc)
        BY <1>3, <3>2, <4>1, EndIsNone
      <4>3. key + 1 \in 1 .. Len(doc) + 1
        BY <4>1, <4>2
      <4>4. colon \in key + 1 .. Len(doc) + 1 /\ colon \in Nat /\ colon > 0
        BY <4>3, SkipSpaceEnds
      <4>5. colon <= Len(doc)
        BY <1>3, <3>2, <4>4, EndIsNone
      <4> HIDE DEF key, colon
      <4> QED
        BY <3>2, <4>1, <4>4, <4>5
    <3> QED
      BY <3>1, <3>2
  <2> HIDE DEF from, item, fails
  <2>2. g[<<AValue, from>>] = h[<<AValue, from>>] /\ Bounded(doc, from, g[<<AValue, from>>])
    BY <2>1 DEF Agree, Whats, Closers
  <2>3. ASSUME NEW v \in g[<<AValue, from>>]
        PROVE  Of(g, v) = Of(h, v) /\ Bounded(doc, i, Of(g, v))
    <3>1. v.next \in i + 1 .. Len(doc) + 1
      BY <2>1, <2>2 DEF Bounded
    <3>2. g[<<close, v.next>>] = h[<<close, v.next>>] /\ Bounded(doc, v.next, g[<<close, v.next>>])
      BY <3>1 DEF Agree, Whats, Closers
    <3>3. ASSUME NEW r \in Of(g, v) PROVE r.next \in i + 1 .. Len(doc) + 1
      <4>1. PICK rest \in g[<<close, v.next>>] : r = [list |-> <<item(v.tree)>> \o rest.list, next |-> rest.next]
        OBVIOUS
      <4>2. rest.next \in v.next + 1 .. Len(doc) + 1
        BY <3>2 DEF Bounded
      <4>3. r.next = rest.next
        BY <4>1
      <4> QED
        BY <2>1, <3>1, <4>2, <4>3
    <3> QED
      BY <3>2, <3>3 DEF Bounded
  <2>4. {Of(g, v) : v \in g[<<AValue, from>>]} = {Of(h, v) : v \in h[<<AValue, from>>]}
    <3> HIDE DEF Of
    <3> QED
      BY <2>2, <2>3
  <2>5. Bounded(doc, i, UNION {Of(g, v) : v \in g[<<AValue, from>>]})
    <3> HIDE DEF Of
    <3> QED
      BY <2>3 DEF Bounded
  <2> QED
    BY <1>1, <1>3, <2>4, <2>5
<1> QED
  BY <1>2, <1>3

(* ... and so does what is read at any place.                              *)
LEMMA StepLocal ==
  ASSUME NEW doc, Len(doc) \in Nat, NEW g, NEW h, NEW i \in 1 .. Len(doc) + 1,
         Agree(doc, g, h, i + 1), NEW what \in Whats
  PROVE  /\ Step(doc, g, what, i) = Step(doc, h, what, i)
         /\ Bounded(doc, i, Step(doc, g, what, i))
<1> DEFINE at == SkipSpace(doc, i)
<1>1. at \in i .. Len(doc) + 1 /\ at \in Nat /\ at > 0
  BY SkipSpaceEnds
<1>2. ASSUME at <= Len(doc), NEW close \in Closers
      PROVE  /\ Items(doc, g, close, at + 1) = Items(doc, h, close, at + 1)
             /\ Bounded(doc, i, Items(doc, g, close, at + 1))
  <2> HIDE DEF at
  <2>1. at + 1 \in 1 .. Len(doc) + 1 /\ Agree(doc, g, h, at + 1)
    BY <1>1, <1>2 DEF Agree, Whats, Closers
  <2>2. /\ Items(doc, g, close, at + 1) = Items(doc, h, close, at + 1)
        /\ Bounded(doc, at + 1, Items(doc, g, close, at + 1))
    BY <2>1, ItemsLocal
  <2> QED
    BY <1>1, <2>2 DEF Bounded
<1>3. CASE what \in Closers
  <2>1. ASSUME NEW read PROVE Step(doc, read, what, i) =
          CASE At(doc, at) = what -> {[list |-> <<>>, next |-> at + 1]}
            [] At(doc, at) = Comma -> Items(doc, read, what, at + 1)
            [] OTHER -> {}
    BY <1>3, MarksDiffer DEF Step, Rest, Closers
  <2>2. At(doc, at) = what \/ At(doc, at) = Comma => at <= Len(doc)
    BY <1>1, <1>3, EndIsNone DEF Closers
  <2>3. Comma # what
    BY <1>3, MarksDiffer DEF Closers
  <2> HIDE DEF at
  <2>4. CASE At(doc, at) = what
    <3>1. \A read : Step(doc, read, what, i) = {[list |-> <<>>, next |-> at + 1]}
      BY <2>1, <2>3, <2>4
    <3>2. Bounded(doc, i, {[list |-> <<>>, next |-> at + 1]})
      BY <1>1, <2>2, <2>4 DEF Bounded
    <3> QED
      BY <3>1, <3>2
  <2>5. CASE At(doc, at) = Comma
    BY <1>2, <1>3, <2>1, <2>2, <2>3, <2>5
  <2>6. CASE At(doc, at) # Comma /\ At(doc, at) # what
    BY <1>3, <2>1, <2>6 DEF Bounded
  <2> QED
    BY <2>4, <2>5, <2>6
<1>4. CASE what = AValue
  <2> DEFINE atom == At(doc, at)
             inside == SkipSpace(doc, at + 1)
             all(read, close) ==
               IF At(doc, inside) = close THEN {[list |-> <<>>, next |-> inside + 1]}
               ELSE Items(doc, read, close, at + 1)
  <2>1. ASSUME NEW read PROVE Step(doc, read, what, i) =
          CASE IsString(atom) -> {[tree |-> String(Text(atom)), next |-> at + 1]}
            [] atom = Number -> {[tree |-> Number, next |-> at + 1]}
            [] atom = ObjectStart -> {[tree |-> <<"object", m.list>>, next |-> m.next] : m \in all(read, ObjectEnd)}
            [] atom = ArrayStart -> {[tree |-> <<"array", e.list>>, next |-> e.next] : e \in all(read, ArrayEnd)}
            [] OTHER -> {}
    BY <1>4 DEF Step, Value
  <2>2. atom \in {Number, ObjectStart, ArrayStart} \/ IsString(atom) => at <= Len(doc)
    BY <1>1, EndIsNone
  <2>3. ASSUME at <= Len(doc), NEW close \in Closers
        PROVE  all(g, close) = all(h, close) /\ Bounded(doc, i, all(g, close))
    <3>1. inside \in at + 1 .. Len(doc) + 1 /\ inside \in Nat /\ inside > 0
      <4>1. at + 1 \in 1 .. Len(doc) + 1
        BY <1>1, <2>3
      <4> HIDE DEF at
      <4> QED
        BY <1>1, <4>1, SkipSpaceEnds
    <3>2. At(doc, inside) = close => inside <= Len(doc)
      BY <2>3, <3>1, EndIsNone DEF Closers
    <3> HIDE DEF inside, at
    <3>3. Items(doc, g, close, at + 1) = Items(doc, h, close, at + 1) /\ Bounded(doc, i, Items(doc, g, close, at + 1))
      BY <1>2, <2>3
    <3>4. CASE At(doc, inside) = close
      BY <1>1, <3>1, <3>2, <3>4 DEF Bounded
    <3>5. CASE At(doc, inside) # close
      BY <3>3, <3>5
    <3> QED
      BY <3>4, <3>5
  <2>4. /\ Number # ObjectStart /\ Number # ArrayStart /\ ObjectStart # ArrayStart
        /\ ~IsString(Number) /\ ~IsString(ObjectStart) /\ ~IsString(ArrayStart)
    BY MarksDiffer
  <2> HIDE DEF all, atom, at
  <2>5. CASE IsString(atom) \/ atom = Number
    <3>1. \E tree : \A read : Step(doc, read, what, i) = {[tree |-> tree, next |-> at + 1]}
      BY <2>1, <2>4, <2>5
    <3>2. \A tree : Bounded(doc, i, {[tree |-> tree, next |-> at + 1]})
      BY <1>1, <2>2, <2>5 DEF Bounded
    <3> QED
      BY <3>1, <3>2
  <2>6. ASSUME NEW close \in Closers, at <= Len(doc), NEW name
        PROVE  Bounded(doc, i, {[tree |-> <<name, m.list>>, next |-> m.next] : m \in all(g, close)})
    BY <2>3, <2>6 DEF Bounded
  <2>7. CASE atom = ObjectStart
    <3>1. \A read : Step(doc, read, what, i) =
            {[tree |-> <<"object", m.list>>, next |-> m.next] : m \in all(read, ObjectEnd)}
      BY <2>1, <2>4, <2>7
    <3>2. ObjectEnd \in Closers
      BY DEF Closers
    <3>3. all(g, ObjectEnd) = all(h, ObjectEnd) /\ at <= Len(doc)
      BY <2>2, <2>3, <2>7, <3>2
    <3>4. Step(doc, g, what, i) = Step(doc, h, what, i)
      BY <3>1, <3>3
    <3>5. Bounded(doc, i, {[tree |-> <<"object", m.list>>, next |-> m.next] : m \in all(g, ObjectEnd)})
      BY <2>6, <3>2, <3>3
    <3> QED
      BY <3>1, <3>4, <3>5
  <2>9. CASE atom = ArrayStart
    <3>1. \A read : Step(doc, read, what, i) =
            {[tree |-> <<"array", m.list>>, next |-> m.next] : m \in all(read, ArrayEnd)}
      BY <2>1, <2>4, <2>9
    <3>2. ArrayEnd \in Closers
      BY DEF Closers
    <3>3. all(g, ArrayEnd) = all(h, ArrayEnd) /\ at <= Len(doc)
      BY <2>2, <2>3, <2>9, <3>2
    <3>4. Step(doc, g, what, i) = Step(doc, h, what, i)
      BY <3>1, <3>3
    <3>5. Bounded(doc, i, {[tree |-> <<"array", m.list>>, next |-> m.next] : m \in all(g, ArrayEnd)})
      BY <2>6, <3>2, <3>3
    <3> QED
      BY <3>1, <3>4, <3>5
  <2>8. CASE ~IsString(atom) /\ atom \notin {Number, ObjectStart, ArrayStart}
    BY <2>1, <2>8 DEF Bounded
  <2> QED
    BY <2>5, <2>7, <2>8, <2>9
<1> QED
  BY <1>3, <1>4 DEF Whats, Closers

(* The reading of a text is what it is defined to be, and gets ahead.      *)
LEMMA ReadingUnrolled ==
  ASSUME NEW doc, Len(doc) \in Nat, NEW what \in Whats, NEW i \in 1 .. Len(doc) + 1
  PROVE  /\ Reading(doc)[<<what, i>>] = Step(doc, Reading(doc), what, i)
         /\ Bounded(doc, i, Reading(doc)[<<what, i>>])
<1> DEFINE N == Len(doc) + 1
           K == Whats
           Reads(g, n) == \A w \in K : \A j \in 1 .. N : N - j < n =>
             g[<<w, j>>] = Step(doc, g, w, j) /\ Bounded(doc, j, g[<<w, j>>])
           S == {n \in Nat : \E g : Reads(g, n)}
<1>1. 0 \in S
  OBVIOUS
<1>2. ASSUME NEW n \in Nat, n \in S PROVE n + 1 \in S
  <2>1. PICK g : Reads(g, n)
    BY <1>2
  <2> DEFINE h == [at \in Places(doc) |->
                     IF N - at[2] < n THEN g[at] ELSE Step(doc, g, at[1], at[2])]
  <2>2. ASSUME NEW w \in K, NEW j \in 1 .. N, N - j < n + 1
        PROVE  h[<<w, j>>] = Step(doc, h, w, j) /\ Bounded(doc, j, h[<<w, j>>])
    <3>1. \A v \in K : \A k \in 1 .. N : h[<<v, k>>] = IF N - k < n THEN g[<<v, k>>] ELSE Step(doc, g, v, k)
      BY DEF Places
    <3>2. Agree(doc, g, h, j + 1)
      <4> HIDE DEF h
      <4> QED
        BY <2>1, <2>2, <3>1 DEF Agree, Whats, Closers
    <3>3. Step(doc, g, w, j) = Step(doc, h, w, j) /\ Bounded(doc, j, Step(doc, g, w, j))
      <4> HIDE DEF h
      <4> QED
        BY <3>2, StepLocal
    <3> HIDE DEF h
    <3> QED
      BY <2>1, <3>1, <3>3
  <2> HIDE DEF h
  <2>3. Reads(h, n + 1)
    BY <2>2
  <2> HIDE DEF Reads
  <2> QED
    BY <2>3
<1>3. N + 1 \in S
  <2> HIDE DEF S
  <2> QED
    BY <1>1, <1>2, NatInductionOnSets
<1>4. PICK g : Reads(g, N + 1)
  BY <1>3
<1> DEFINE read == [at \in Places(doc) |-> g[at]]
           Is(f) == f = [at \in Places(doc) |->
                           IF at[1] = AValue THEN Value(doc, f, at[2]) ELSE Rest(doc, f, at[1], at[2])]
<1>5. \A w \in K : \A j \in 1 .. N : read[<<w, j>>] = g[<<w, j>>]
  BY DEF Places
<1>6. ASSUME NEW w \in K, NEW j \in 1 .. N
      PROVE  g[<<w, j>>] = Step(doc, g, w, j) /\ Bounded(doc, j, g[<<w, j>>])
  BY <1>4
<1>7. \A w \in K : \A j \in 1 .. N : read[<<w, j>>] = Step(doc, read, w, j)
  <2> TAKE w \in K
  <2> TAKE j \in 1 .. N
  <2> HIDE DEF read
  <2>1. Agree(doc, g, read, j + 1)
    BY <1>5, <1>6 DEF Agree, Whats, Closers
  <2> QED
    BY <1>5, <1>6, <2>1, StepLocal
<1>8. Is(read)
  <2>1. \A at \in Places(doc) : at = <<at[1], at[2]>> /\ at[1] \in K /\ at[2] \in 1 .. N
    BY DEF Places
  <2>2. \A at \in Places(doc) :
          read[at] = IF at[1] = AValue THEN Value(doc, read, at[2]) ELSE Rest(doc, read, at[1], at[2])
    <3> HIDE DEF read
    <3> QED
      BY <1>7, <2>1 DEF Step
  <2> QED
    BY <2>2
<1>9. Reading(doc) = CHOOSE f : Is(f)
  BY DEF Reading, Places, Whats
<1>10. Is(Reading(doc))
  <2> HIDE DEF Is, read
  <2> QED
    BY <1>8, <1>9
<1>11. \A w \in K : \A j \in 1 .. N : Reading(doc)[<<w, j>>] = Step(doc, Reading(doc), w, j)
  <2> DEFINE R == Reading(doc)
  <2>1. R = [at \in Places(doc) |-> Step(doc, R, at[1], at[2])]
    BY <1>10 DEF Step
  <2> HIDE DEF R
  <2>2. \A w \in K : \A j \in 1 .. N : R[<<w, j>>] = Step(doc, R, w, j)
    BY <2>1 DEF Places
  <2> QED
    BY <2>2 DEF R
<1> DEFINE T == {n \in Nat : \A w \in K : \A j \in 1 .. N : N - j < n => Bounded(doc, j, Reading(doc)[<<w, j>>])}
<1>12. ASSUME NEW n \in Nat, n \in T PROVE n + 1 \in T
  <2>1. ASSUME NEW w \in K, NEW j \in 1 .. N, N - j < n + 1
        PROVE  Bounded(doc, j, Reading(doc)[<<w, j>>])
    <3>1. Agree(doc, Reading(doc), Reading(doc), j + 1)
      BY <1>12, <2>1 DEF Agree, Whats, Closers
    <3> QED
      BY <1>11, <3>1, StepLocal
  <2> QED
    BY <2>1
<1>13. N + 1 \in T
  <2>1. 0 \in T
    OBVIOUS
  <2> HIDE DEF T
  <2> QED
    BY <1>12, <2>1, NatInductionOnSets
<1> QED
  BY <1>11, <1>13

-----------------------------------------------------------------------------
(* Readings, unrolled.                                                     *)

(* Downwards: what holds at every place if it holds at all later ones.     *)
LEMMA DownInduction ==
  ASSUME NEW N \in Nat, NEW S, \A p \in 1 .. N : (\A q \in p + 1 .. N : q \in S) => p \in S
  PROVE  1 .. N \subseteq S
<1> DEFINE T == {n \in Nat : \A p \in 1 .. N : N - p < n => p \in S}
<1>1. 0 \in T
  OBVIOUS
<1>2. ASSUME NEW n \in Nat, n \in T PROVE n + 1 \in T
  <2>1. ASSUME NEW p \in 1 .. N, N - p < n + 1 PROVE p \in S
    <3>1. \A q \in p + 1 .. N : q \in S
      BY <1>2, <2>1
    <3> QED
      BY <3>1
  <2> QED
    BY <2>1
<1>3. N + 1 \in T
  <2> HIDE DEF T
  <2> QED
    BY <1>1, <1>2, NatInductionOnSets
<1> QED
  BY <1>3

(* What is read at a place.                                                *)
ValueOf(doc, i) == Reading(doc)[<<AValue, i>>]
RestOf(doc, close, i) == Reading(doc)[<<close, i>>]
ItemsOf(doc, close, i) == Items(doc, Reading(doc), close, i)
InsideOf(doc, close, i) ==
  IF At(doc, SkipSpace(doc, i)) = close THEN {[list |-> <<>>, next |-> SkipSpace(doc, i) + 1]}
  ELSE ItemsOf(doc, close, i)

ObjectsOf(lists) == {[tree |-> <<"object", m.list>>, next |-> m.next] : m \in lists}
ArraysOf(lists) == {[tree |-> <<"array", m.list>>, next |-> m.next] : m \in lists}

(* What is read where a value is expected, mark by mark.                   *)
LEMMA ValueReading ==
  ASSUME NEW doc, Len(doc) \in Nat, NEW i \in 1 .. Len(doc) + 1
  PROVE  LET at == SkipSpace(doc, i)
             atom == At(doc, at)
         IN /\ IsString(atom) => ValueOf(doc, i) = {[tree |-> String(Text(atom)), next |-> at + 1]}
            /\ atom = Number => ValueOf(doc, i) = {[tree |-> Number, next |-> at + 1]}
            /\ atom = ObjectStart =>
                 ValueOf(doc, i) = ObjectsOf(InsideOf(doc, ObjectEnd, at + 1))
            /\ atom = ArrayStart =>
                 ValueOf(doc, i) = ArraysOf(InsideOf(doc, ArrayEnd, at + 1))
            /\ ~IsString(atom) /\ atom \notin {Number, ObjectStart, ArrayStart} => ValueOf(doc, i) = {}
            /\ ValueOf(doc, i) # {} => at \in i .. Len(doc)
<1> DEFINE at == SkipSpace(doc, i)
           atom == At(doc, at)
           R == Reading(doc)
<1>1. ValueOf(doc, i) = Value(doc, R, i)
  BY ReadingUnrolled DEF ValueOf, Step, Whats
<1>2. ValueOf(doc, i) =
        CASE IsString(atom) -> {[tree |-> String(Text(atom)), next |-> at + 1]}
          [] atom = Number -> {[tree |-> Number, next |-> at + 1]}
          [] atom = ObjectStart -> ObjectsOf(InsideOf(doc, ObjectEnd, at + 1))
          [] atom = ArrayStart -> ArraysOf(InsideOf(doc, ArrayEnd, at + 1))
          [] OTHER -> {}
  BY <1>1 DEF Value, InsideOf, ItemsOf, ObjectsOf, ArraysOf
<1>3. at \in i .. Len(doc) + 1 /\ at \in Nat /\ at > 0
  BY SkipSpaceEnds
<1>4. at > Len(doc) => ~IsString(atom) /\ atom \notin {Number, ObjectStart, ArrayStart}
  BY <1>3, EndIsNone
<1> HIDE DEF at, atom, R
<1>5. IsString(atom) => ValueOf(doc, i) = {[tree |-> String(Text(atom)), next |-> at + 1]}
  BY <1>2, MarksDiffer
<1>6. atom = Number => ValueOf(doc, i) = {[tree |-> Number, next |-> at + 1]}
  BY <1>2, MarksDiffer
<1>7. atom = ObjectStart =>
                 ValueOf(doc, i) = ObjectsOf(InsideOf(doc, ObjectEnd, at + 1))
  BY <1>2, MarksDiffer
<1>8. atom = ArrayStart =>
                 ValueOf(doc, i) = ArraysOf(InsideOf(doc, ArrayEnd, at + 1))
  BY <1>2, MarksDiffer
<1>9. ~IsString(atom) /\ atom \notin {Number, ObjectStart, ArrayStart} => ValueOf(doc, i) = {}
  BY <1>2
<1>10. ValueOf(doc, i) # {} => at \in i .. Len(doc)
  BY <1>3, <1>4, <1>9
<1> QED
  BY <1>5, <1>6, <1>7, <1>8, <1>9, <1>10 DEF at, atom

(* What is read after an item, mark by mark.                               *)
LEMMA RestReading ==
  ASSUME NEW doc, Len(doc) \in Nat, NEW i \in 1 .. Len(doc) + 1, NEW close \in Closers
  PROVE  LET at == SkipSpace(doc, i)
         IN /\ At(doc, at) = close => RestOf(doc, close, i) = {[list |-> <<>>, next |-> at + 1]}
            /\ At(doc, at) = Comma => RestOf(doc, close, i) = ItemsOf(doc, close, at + 1)
            /\ At(doc, at) \notin {close, Comma} => RestOf(doc, close, i) = {}
            /\ RestOf(doc, close, i) # {} => at \in i .. Len(doc)
<1> DEFINE at == SkipSpace(doc, i)
<1>1. close \in Whats /\ close # AValue /\ close # Comma
  BY MarksDiffer DEF Closers, Whats
<1>2. RestOf(doc, close, i) =
        CASE At(doc, at) = close -> {[list |-> <<>>, next |-> at + 1]}
          [] At(doc, at) = Comma -> ItemsOf(doc, close, at + 1)
          [] OTHER -> {}
  BY <1>1, ReadingUnrolled DEF RestOf, Step, Rest, ItemsOf
<1>3. at \in i .. Len(doc) + 1 /\ at \in Nat /\ at > 0
  BY SkipSpaceEnds
<1>4. at > Len(doc) => At(doc, at) \notin {close, Comma}
  BY <1>3, EndIsNone DEF Closers
<1> HIDE DEF at
<1> QED
  BY <1>1, <1>2, <1>3, <1>4 DEF at

(* An item at i and what follows it.                                       *)
KeyAt(doc, i) == SkipSpace(doc, i)
ColonAt(doc, i) == SkipSpace(doc, SkipSpace(doc, i) + 1)
From(doc, close, i) == IF close = ObjectEnd THEN ColonAt(doc, i) + 1 ELSE i
Keyed(doc, close, i) ==
  close = ObjectEnd => IsString(At(doc, KeyAt(doc, i))) /\ At(doc, ColonAt(doc, i)) = Colon
Item(doc, close, i, tree) == IF close = ObjectEnd THEN <<Text(doc[KeyAt(doc, i)]), tree>> ELSE tree

ReadAs(doc, close, i, t) ==
  \E v \in ValueOf(doc, From(doc, close, i)) : \E rest \in RestOf(doc, close, v.next) :
    t = [list |-> <<Item(doc, close, i, v.tree)>> \o rest.list, next |-> rest.next]

(* Where a member is expected, a string and a colon are found in this      *)
(* order.                                                                  *)
LEMMA KeyedIs ==
  ASSUME NEW doc, Len(doc) \in Nat, NEW i \in 1 .. Len(doc) + 1, NEW close \in Closers,
         Keyed(doc, close, i)
  PROVE  /\ From(doc, close, i) \in i .. Len(doc) + 1
         /\ close = ObjectEnd =>
              /\ KeyAt(doc, i) \in i .. Len(doc) /\ ColonAt(doc, i) \in KeyAt(doc, i) + 1 .. Len(doc)
              /\ IsString(doc[KeyAt(doc, i)]) /\ doc[ColonAt(doc, i)] = Colon
<1> DEFINE key == SkipSpace(doc, i)
           colon == SkipSpace(doc, key + 1)
<1>1. CASE close = ObjectEnd
  <2>1. key \in i .. Len(doc) + 1 /\ key \in Nat /\ key > 0
    BY SkipSpaceEnds
  <2>2. key <= Len(doc) /\ IsString(doc[key])
    BY <1>1, <2>1, EndIsNone DEF Keyed, KeyAt
  <2>3. key + 1 \in 1 .. Len(doc) + 1
    BY <2>1, <2>2
  <2>4. colon \in key + 1 .. Len(doc) + 1 /\ colon \in Nat /\ colon > 0
    BY <2>3, SkipSpaceEnds
  <2>5. colon <= Len(doc) /\ doc[colon] = Colon
    BY <1>1, <2>4, EndIsNone DEF Keyed, ColonAt
  <2>6. KeyAt(doc, i) = key /\ ColonAt(doc, i) = colon /\ From(doc, close, i) = colon + 1
    BY <1>1 DEF KeyAt, ColonAt, From
  <2> HIDE DEF key, colon
  <2> QED
    BY <2>1, <2>2, <2>4, <2>5, <2>6
<1>2. CASE close # ObjectEnd
  BY <1>2 DEF From
<1> QED
  BY <1>1, <1>2

(* What is read of items is an item and then the rest, and nothing else.   *)
LEMMA ItemsReading ==
  ASSUME NEW doc, Len(doc) \in Nat, NEW i \in 1 .. Len(doc) + 1, NEW close \in Closers, NEW t
  PROVE  t \in ItemsOf(doc, close, i) <=> Keyed(doc, close, i) /\ ReadAs(doc, close, i, t)
<1> DEFINE key == SkipSpace(doc, i)
           colon == SkipSpace(doc, key + 1)
           from == IF close = ObjectEnd THEN colon + 1 ELSE i
           item(tree) == IF close = ObjectEnd THEN <<Text(doc[key]), tree>> ELSE tree
           R == Reading(doc)
           fails == close = ObjectEnd /\ (~IsString(At(doc, key)) \/ At(doc, colon) # Colon)
           Of(v) == {[list |-> <<item(v.tree)>> \o rest.list, next |-> rest.next] :
                       rest \in R[<<close, v.next>>]}
<1>1. ItemsOf(doc, close, i) = IF fails THEN {} ELSE UNION {Of(v) : v \in R[<<AValue, from>>]}
  BY DEF ItemsOf, Items
<1>2. fails <=> ~Keyed(doc, close, i)
  BY DEF Keyed, KeyAt, ColonAt
<1>3. from = From(doc, close, i) /\ R[<<AValue, from>>] = ValueOf(doc, from)
  BY DEF From, ColonAt, ValueOf
<1>4. \A tree : item(tree) = Item(doc, close, i, tree)
  BY DEF Item, KeyAt
<1>5. \A v : R[<<close, v.next>>] = RestOf(doc, close, v.next)
  BY DEF RestOf
<1> HIDE DEF from, fails, item, R
<1>6. t \in UNION {Of(v) : v \in R[<<AValue, from>>]} <=>
        \E v \in R[<<AValue, from>>] : \E rest \in R[<<close, v.next>>] :
          t = [list |-> <<item(v.tree)>> \o rest.list, next |-> rest.next]
  <2>1. \A v : t \in Of(v) <=> \E rest \in R[<<close, v.next>>] :
                   t = [list |-> <<item(v.tree)>> \o rest.list, next |-> rest.next]
    OBVIOUS
  <2>2. t \in UNION {Of(v) : v \in R[<<AValue, from>>]} <=> \E v \in R[<<AValue, from>>] : t \in Of(v)
    <3> HIDE DEF Of
    <3> QED
      OBVIOUS
  <2> HIDE DEF Of
  <2> QED
    BY <2>1, <2>2
<1> QED
  BY <1>1, <1>2, <1>3, <1>4, <1>5, <1>6 DEF ReadAs

(* There is at most one reading.                                           *)
AtMostOne(S) == \A r, s \in S : r = s

(* If later places are read in one way, so are items.                      *)
LEMMA ItemsAtMostOne ==
  ASSUME NEW doc, Len(doc) \in Nat, NEW i \in 1 .. Len(doc) + 1, NEW close \in Closers,
         \A what \in Whats : \A j \in i .. Len(doc) + 1 : AtMostOne(Reading(doc)[<<what, j>>])
  PROVE  AtMostOne(ItemsOf(doc, close, i))
<1> SUFFICES ASSUME NEW r \in ItemsOf(doc, close, i), NEW s \in ItemsOf(doc, close, i) PROVE r = s
  BY DEF AtMostOne
<1>1. Keyed(doc, close, i) /\ From(doc, close, i) \in i .. Len(doc) + 1
  BY ItemsReading, KeyedIs
<1>2. PICK v \in ValueOf(doc, From(doc, close, i)) : \E rest \in RestOf(doc, close, v.next) :
                r = [list |-> <<Item(doc, close, i, v.tree)>> \o rest.list, next |-> rest.next]
  <2>1. ReadAs(doc, close, i, r)
    BY ItemsReading
  <2> QED
    BY <2>1 DEF ReadAs
<1>3. PICK w \in ValueOf(doc, From(doc, close, i)) : \E rest \in RestOf(doc, close, w.next) :
                s = [list |-> <<Item(doc, close, i, w.tree)>> \o rest.list, next |-> rest.next]
  <2>1. ReadAs(doc, close, i, s)
    BY ItemsReading
  <2> QED
    BY <2>1 DEF ReadAs
<1>4. v = w
  BY <1>1 DEF ValueOf, AtMostOne, Whats
<1>5. v.next \in From(doc, close, i) + 1 .. Len(doc) + 1
  BY <1>1, ReadingUnrolled DEF ValueOf, Bounded, Whats
<1>6. AtMostOne(RestOf(doc, close, v.next))
  BY <1>1, <1>5 DEF RestOf, Whats, Closers
<1> QED
  BY <1>2, <1>3, <1>4, <1>6 DEF AtMostOne

(* A text is read in at most one way at every place.                       *)
LEMMA OneReading ==
  ASSUME NEW doc, Len(doc) \in Nat, NEW i \in 1 .. Len(doc) + 1, NEW what \in Whats
  PROVE  AtMostOne(Reading(doc)[<<what, i>>])
<1> DEFINE N == Len(doc) + 1
           S == {j \in 1 .. N : \A w \in Whats : AtMostOne(Reading(doc)[<<w, j>>])}
<1>1. ASSUME NEW p \in 1 .. N, \A q \in p + 1 .. N : q \in S PROVE p \in S
  <2> DEFINE at == SkipSpace(doc, p)
  <2>1. at \in p .. N /\ at \in Nat /\ at > 0
    BY SkipSpaceEnds
  <2>2. ASSUME at <= Len(doc), NEW close \in Closers PROVE AtMostOne(ItemsOf(doc, close, at + 1))
    <3> HIDE DEF at
    <3>1. at + 1 \in 1 .. Len(doc) + 1 /\ \A w \in Whats : \A j \in at + 1 .. Len(doc) + 1 : AtMostOne(Reading(doc)[<<w, j>>])
      BY <1>1, <2>1, <2>2
    <3> QED
      BY <3>1, ItemsAtMostOne
  <2>3. ASSUME NEW close \in Closers PROVE AtMostOne(RestOf(doc, close, p))
    <3>1. At(doc, at) = Comma => at <= Len(doc)
      BY <2>1, EndIsNone
    <3>2. CASE At(doc, at) = close
      BY <3>2, RestReading DEF AtMostOne
    <3>3. CASE At(doc, at) = Comma
      BY <2>2, <3>1, <3>3, RestReading
    <3>4. CASE At(doc, at) \notin {close, Comma}
      BY <3>4, RestReading DEF AtMostOne
    <3> QED
      BY <3>2, <3>3, <3>4
  <2>4. AtMostOne(ValueOf(doc, p))
    <3> DEFINE atom == At(doc, at)
    <3>1. atom \in {ObjectStart, ArrayStart} => at <= Len(doc)
      BY <2>1, EndIsNone
    <3>2. ASSUME at <= Len(doc), NEW close \in Closers PROVE AtMostOne(InsideOf(doc, close, at + 1))
      BY <2>2, <3>2 DEF InsideOf, AtMostOne
    <3>3. ObjectEnd \in Closers /\ ArrayEnd \in Closers
      BY DEF Closers
    <3>4. CASE IsString(atom) \/ atom = Number
      BY <3>4, ValueReading DEF AtMostOne
    <3>5. CASE atom = ObjectStart
      <4>1. AtMostOne(InsideOf(doc, ObjectEnd, at + 1))
        BY <3>1, <3>2, <3>3, <3>5
      <4>2. ValueOf(doc, p) = ObjectsOf(InsideOf(doc, ObjectEnd, at + 1))
        BY <3>5, ValueReading
      <4> QED
        BY <4>1, <4>2 DEF AtMostOne, ObjectsOf, ArraysOf
    <3>6. CASE atom = ArrayStart
      <4>1. AtMostOne(InsideOf(doc, ArrayEnd, at + 1))
        BY <3>1, <3>2, <3>3, <3>6
      <4>2. ValueOf(doc, p) = ArraysOf(InsideOf(doc, ArrayEnd, at + 1))
        BY <3>6, ValueReading
      <4> QED
        BY <4>1, <4>2 DEF AtMostOne, ObjectsOf, ArraysOf
    <3>7. CASE ~IsString(atom) /\ atom \notin {Number, ObjectStart, ArrayStart}
      BY <3>7, ValueReading DEF AtMostOne
    <3> QED
      BY <3>4, <3>5, <3>6, <3>7
  <2> QED
    BY <2>3, <2>4 DEF ValueOf, RestOf, Whats, Closers
<1>2. N \in Nat /\ 1 .. N \subseteq S
  <2>1. N \in Nat
    OBVIOUS
  <2> HIDE DEF S, N
  <2> QED
    BY <1>1, <2>1, DownInduction
<1> QED
  BY <1>2

-----------------------------------------------------------------------------
(* Texts of the same shape are read alike.                                 *)

(* Two texts that differ in the texts of strings only.                     *)
SameShape(a, b) ==
  /\ Len(a) \in Nat /\ Len(b) = Len(a)
  /\ \A i \in 1 .. Len(a) : a[i] = b[i] \/ (IsString(a[i]) /\ IsString(b[i]))

(* Neither of two texts of the same shape comes first.                     *)
LEMMA ShapeIsSymmetric ==
  ASSUME NEW a, NEW b, SameShape(a, b) PROVE SameShape(b, a)
BY DEF SameShape

(* Texts of the same shape have the same marks, and strings at the same    *)
(* places.                                                                 *)
LEMMA ShapeOfAtoms ==
  ASSUME NEW a, NEW b, SameShape(a, b), NEW i \in Nat, i > 0
  PROVE  /\ IsString(At(a, i)) = IsString(At(b, i))
         /\ ~IsString(At(a, i)) => At(a, i) = At(b, i)
         /\ \A m \in {Space, ObjectStart, ObjectEnd, ArrayStart, ArrayEnd, Comma, Colon, Number} :
              (At(a, i) = m) = (At(b, i) = m)
<1>1. IsString(At(a, i)) = IsString(At(b, i)) /\ (~IsString(At(a, i)) => At(a, i) = At(b, i))
  <2>1. CASE i <= Len(a)
    BY <2>1, EndIsNone DEF SameShape, IsString
  <2>2. CASE i > Len(a)
    BY <2>2, EndIsNone DEF SameShape, IsString
  <2> QED
    BY <2>1, <2>2 DEF SameShape
<1> QED
  BY <1>1, MarksDiffer

(* ... and their spaces end at the same places.                            *)
LEMMA ShapeOfSpace ==
  ASSUME NEW a, NEW b, SameShape(a, b), NEW i \in 1 .. Len(a) + 1
  PROVE  SkipSpace(a, i) = SkipSpace(b, i)
<1> DEFINE s == SkipSpace(a, i)
<1>1. /\ s \in i .. Len(a) + 1 /\ s \in Nat /\ s > 0 /\ At(a, s) # Space
      /\ \A k \in i .. s - 1 : a[k] = Space
  BY SkipSpaceEnds DEF SameShape
<1> HIDE DEF s
<1>2. At(b, s) # Space
  BY <1>1, ShapeOfAtoms
<1>3. \A k \in i .. s - 1 : At(b, k) = Space
  <2> TAKE k \in i .. s - 1
  <2>1. k \in Nat /\ k > 0 /\ k <= Len(a) /\ a[k] = Space
    BY <1>1 DEF SameShape
  <2>2. At(a, k) = Space
    BY <2>1, EndIsNone DEF SameShape
  <2> QED
    BY <2>1, <2>2, ShapeOfAtoms
<1>4. Len(b) \in Nat /\ Len(b) = Len(a)
  BY DEF SameShape
<1>5. SkipSpace(b, i) = s
  BY <1>1, <1>2, <1>3, <1>4, SkipSpaceIs
<1> QED
  BY <1>5 DEF s

(* Whatever is read of A ends where something read of B does.              *)
EndsAs(A, B) == \A r \in A : \E s \in B : s.next = r.next

(* If later readings of both end at the same places, so do items.          *)
LEMMA ShapeOfItems ==
  ASSUME NEW a, NEW b, SameShape(a, b), NEW i \in 1 .. Len(a) + 1, NEW close \in Closers,
         \A what \in Whats : \A j \in i .. Len(a) + 1 :
           EndsAs(Reading(a)[<<what, j>>], Reading(b)[<<what, j>>])
  PROVE  EndsAs(ItemsOf(a, close, i), ItemsOf(b, close, i))
<1> SUFFICES ASSUME NEW r \in ItemsOf(a, close, i)
             PROVE  \E s \in ItemsOf(b, close, i) : s.next = r.next
  BY DEF EndsAs
<1>0. Len(a) \in Nat /\ Len(b) = Len(a) /\ Len(b) \in Nat /\ close \in Whats /\ AValue \in Whats
  BY DEF SameShape, Closers, Whats
<1>1. Keyed(a, close, i) /\ ReadAs(a, close, i, r)
  BY <1>0, ItemsReading
<1>2. /\ From(a, close, i) \in i .. Len(a) + 1
      /\ close = ObjectEnd => KeyAt(a, i) \in i .. Len(a) /\ ColonAt(a, i) \in KeyAt(a, i) + 1 .. Len(a)
  BY <1>0, <1>1, KeyedIs
<1>3. From(b, close, i) = From(a, close, i) /\ Keyed(b, close, i)
  <2>1. CASE close = ObjectEnd
    <3>1. KeyAt(b, i) = KeyAt(a, i) /\ KeyAt(a, i) \in Nat /\ KeyAt(a, i) > 0
      BY <1>0, <1>2, <2>1, ShapeOfSpace DEF KeyAt
    <3>2. KeyAt(a, i) + 1 \in 1 .. Len(a) + 1
      BY <1>0, <1>2, <2>1
    <3>3. ColonAt(b, i) = ColonAt(a, i) /\ ColonAt(a, i) \in Nat /\ ColonAt(a, i) > 0
      BY <1>0, <1>2, <2>1, <3>1, <3>2, ShapeOfSpace DEF ColonAt, KeyAt
    <3> QED
      BY <1>1, <2>1, <3>1, <3>3, ShapeOfAtoms DEF Keyed, From
  <2>2. CASE close # ObjectEnd
    BY <2>2 DEF From, Keyed
  <2> QED
    BY <2>1, <2>2
<1>4. PICK v \in ValueOf(a, From(a, close, i)) : \E rest \in RestOf(a, close, v.next) :
                r = [list |-> <<Item(a, close, i, v.tree)>> \o rest.list, next |-> rest.next]
  BY <1>1 DEF ReadAs
<1>5. PICK rest \in RestOf(a, close, v.next) :
                r = [list |-> <<Item(a, close, i, v.tree)>> \o rest.list, next |-> rest.next]
  BY <1>4
<1>6. PICK w \in ValueOf(b, From(b, close, i)) : w.next = v.next
  BY <1>0, <1>2, <1>3 DEF ValueOf, EndsAs
<1>7. v.next \in From(a, close, i) + 1 .. Len(a) + 1
  BY <1>0, <1>2, ReadingUnrolled DEF ValueOf, Bounded
<1>8. v.next \in i .. Len(a) + 1
  BY <1>0, <1>2, <1>7
<1>9. PICK rests \in RestOf(b, close, w.next) : rests.next = rest.next
  BY <1>0, <1>6, <1>8 DEF RestOf, EndsAs
<1> DEFINE s == [list |-> <<Item(b, close, i, w.tree)>> \o rests.list, next |-> rests.next]
<1>10. ReadAs(b, close, i, s)
  BY <1>9 DEF ReadAs
<1>11. s \in ItemsOf(b, close, i)
  <2> HIDE DEF s
  <2> QED
    BY <1>0, <1>3, <1>10, ItemsReading
<1>12. s.next = r.next
  BY <1>5, <1>9
<1> QED
  BY <1>11, <1>12

(* What is read of texts of the same shape ends at the same places.        *)
LEMMA ShapeOfReadings ==
  ASSUME NEW a, NEW b, SameShape(a, b), NEW i \in 1 .. Len(a) + 1, NEW what \in Whats
  PROVE  EndsAs(Reading(a)[<<what, i>>], Reading(b)[<<what, i>>])
<1> DEFINE N == Len(a) + 1
           S == {j \in 1 .. N : \A w \in Whats : EndsAs(Reading(a)[<<w, j>>], Reading(b)[<<w, j>>])}
<1>0. Len(a) \in Nat /\ Len(b) = Len(a) /\ Len(b) \in Nat
  BY DEF SameShape
<1>1. ASSUME NEW p \in 1 .. N, \A q \in p + 1 .. N : q \in S PROVE p \in S
  <2> DEFINE at == SkipSpace(a, p)
  <2>1. at \in p .. N /\ at \in Nat /\ at > 0 /\ SkipSpace(b, p) = at
    BY <1>0, SkipSpaceEnds, ShapeOfSpace
  <2>2. ASSUME at <= Len(a), NEW close \in Closers
        PROVE  EndsAs(ItemsOf(a, close, at + 1), ItemsOf(b, close, at + 1))
    <3> HIDE DEF at
    <3>1. /\ at + 1 \in 1 .. Len(a) + 1
          /\ \A w \in Whats : \A j \in at + 1 .. Len(a) + 1 :
               EndsAs(Reading(a)[<<w, j>>], Reading(b)[<<w, j>>])
      BY <1>0, <1>1, <2>1, <2>2
    <3> QED
      BY <3>1, ShapeOfItems
  <2>3. ASSUME NEW close \in Closers PROVE EndsAs(RestOf(a, close, p), RestOf(b, close, p))
    <3>1. At(a, at) = Comma => at <= Len(a)
      BY <1>0, <2>1, EndIsNone
    <3>2. (At(a, at) = Comma) = (At(b, at) = Comma) /\ (At(a, at) = close) = (At(b, at) = close)
      BY <2>1, ShapeOfAtoms DEF Closers
    <3>3. CASE At(a, at) = close
      <4>1. RestOf(a, close, p) = RestOf(b, close, p)
        <5>1. RestOf(a, close, p) = {[list |-> <<>>, next |-> at + 1]}
          BY <1>0, <3>3, RestReading
        <5>2. RestOf(b, close, p) = {[list |-> <<>>, next |-> at + 1]}
          <6>1. At(b, SkipSpace(b, p)) = close /\ SkipSpace(b, p) = at
            BY <2>1, <3>2, <3>3
          <6> HIDE DEF at
          <6>2. RestOf(b, close, p) = {[list |-> <<>>, next |-> SkipSpace(b, p) + 1]}
            BY <1>0, <6>1, RestReading
          <6> QED
            BY <6>1, <6>2
        <5> QED
          BY <5>1, <5>2
      <4> QED
        BY <4>1 DEF EndsAs
    <3>4. CASE At(a, at) = Comma
      BY <1>0, <2>1, <2>2, <3>1, <3>2, <3>4, RestReading
    <3>5. CASE At(a, at) \notin {close, Comma}
      BY <1>0, <3>5, RestReading DEF EndsAs
    <3> QED
      BY <3>3, <3>4, <3>5
  <2>4. EndsAs(ValueOf(a, p), ValueOf(b, p))
    <3> DEFINE atom == At(a, at)
               other == At(b, at)
    <3>0. /\ IsString(atom) = IsString(other)
          /\ \A m \in {ObjectStart, ArrayStart, Number} : (atom = m) = (other = m)
      BY <2>1, ShapeOfAtoms
    <3>1. atom \in {ObjectStart, ArrayStart} => at <= Len(a)
      BY <1>0, <2>1, EndIsNone
    <3>2. ASSUME at <= Len(a), NEW close \in Closers
          PROVE  EndsAs(InsideOf(a, close, at + 1), InsideOf(b, close, at + 1))
      <4>1. SkipSpace(a, at + 1) = SkipSpace(b, at + 1) /\ SkipSpace(a, at + 1) \in Nat /\ SkipSpace(a, at + 1) > 0
        <5> HIDE DEF at
        <5>1. at + 1 \in 1 .. Len(a) + 1
          BY <1>0, <2>1, <3>2
        <5> QED
          BY <1>0, <5>1, SkipSpaceEnds, ShapeOfSpace
      <4>2. (At(a, SkipSpace(a, at + 1)) = close) = (At(b, SkipSpace(b, at + 1)) = close)
        BY <4>1, ShapeOfAtoms DEF Closers
      <4> QED
        BY <2>2, <3>2, <4>1, <4>2 DEF InsideOf, EndsAs
    <3>3. ObjectEnd \in Closers /\ ArrayEnd \in Closers
      BY DEF Closers
    <3>4. CASE IsString(atom) \/ atom = Number
      <4>1. \E t : ValueOf(a, p) = {[tree |-> t, next |-> at + 1]}
        BY <1>0, <3>4, ValueReading
      <4>2. \E t : ValueOf(b, p) = {[tree |-> t, next |-> SkipSpace(b, p) + 1]}
        <5>1. IsString(At(b, SkipSpace(b, p))) \/ At(b, SkipSpace(b, p)) = Number
          BY <2>1, <3>0, <3>4
        <5> QED
          BY <1>0, <5>1, ValueReading
      <4> QED
        BY <2>1, <4>1, <4>2 DEF EndsAs
    <3>5. ASSUME NEW A, NEW B, EndsAs(A, B)
          PROVE  EndsAs(ObjectsOf(A), ObjectsOf(B)) /\ EndsAs(ArraysOf(A), ArraysOf(B))
      <4>1. ASSUME NEW m \in A
            PROVE  /\ \E s \in ObjectsOf(B) : s.next = m.next
                   /\ \E s \in ArraysOf(B) : s.next = m.next
        <5>1. PICK n \in B : n.next = m.next
          BY <3>5 DEF EndsAs
        <5>2. [tree |-> <<"object", n.list>>, next |-> n.next] \in ObjectsOf(B)
          BY DEF ObjectsOf
        <5>3. [tree |-> <<"array", n.list>>, next |-> n.next] \in ArraysOf(B)
          BY DEF ArraysOf
        <5> QED
          BY <5>1, <5>2, <5>3
      <4>2. ASSUME NEW r \in ObjectsOf(A) PROVE \E s \in ObjectsOf(B) : s.next = r.next
        <5>1. PICK m \in A : r.next = m.next
          BY DEF ObjectsOf
        <5> QED
          BY <4>1, <5>1
      <4>3. ASSUME NEW r \in ArraysOf(A) PROVE \E s \in ArraysOf(B) : s.next = r.next
        <5>1. PICK m \in A : r.next = m.next
          BY DEF ArraysOf
        <5> QED
          BY <4>1, <5>1
      <4> QED
        BY <4>2, <4>3 DEF EndsAs
    <3>6. CASE atom = ObjectStart
      <4>1. EndsAs(InsideOf(a, ObjectEnd, at + 1), InsideOf(b, ObjectEnd, at + 1))
        BY <3>1, <3>2, <3>3, <3>6
      <4>2. ValueOf(a, p) = ObjectsOf(InsideOf(a, ObjectEnd, at + 1))
        BY <1>0, <3>6, ValueReading
      <4>3. At(b, SkipSpace(b, p)) = ObjectStart /\ SkipSpace(b, p) = at
        BY <2>1, <3>0, <3>6
      <4>4. ValueOf(b, p) = ObjectsOf(InsideOf(b, ObjectEnd, SkipSpace(b, p) + 1))
        BY <1>0, <4>3, ValueReading
      <4> QED
        BY <3>5, <4>1, <4>2, <4>3, <4>4
    <3>7. CASE atom = ArrayStart
      <4>1. EndsAs(InsideOf(a, ArrayEnd, at + 1), InsideOf(b, ArrayEnd, at + 1))
        BY <3>1, <3>2, <3>3, <3>7
      <4>2. ValueOf(a, p) = ArraysOf(InsideOf(a, ArrayEnd, at + 1))
        BY <1>0, <3>7, ValueReading
      <4>3. At(b, SkipSpace(b, p)) = ArrayStart /\ SkipSpace(b, p) = at
        BY <2>1, <3>0, <3>7
      <4>4. ValueOf(b, p) = ArraysOf(InsideOf(b, ArrayEnd, SkipSpace(b, p) + 1))
        BY <1>0, <4>3, ValueReading
      <4> QED
        BY <3>5, <4>1, <4>2, <4>3, <4>4
    <3>8. CASE ~IsString(atom) /\ atom \notin {Number, ObjectStart, ArrayStart}
      BY <1>0, <3>8, ValueReading DEF EndsAs
    <3> QED
      BY <3>4, <3>6, <3>7, <3>8
  <2> QED
    BY <2>3, <2>4 DEF ValueOf, RestOf, Whats, Closers
<1>2. 1 .. N \subseteq S
  <2>1. N \in Nat
    BY <1>0
  <2> HIDE DEF S, N
  <2> QED
    BY <1>1, <2>1, DownInduction
<1> QED
  BY <1>2

(* The decoder moves forward, and ends where the value that is read ends.  *)
LEMMA EndOfValue ==
  ASSUME NEW doc, Len(doc) \in Nat, NEW i \in 1 .. Len(doc)
  PROVE  /\ DecodedEnd(doc)[i] \in i + 1 .. Len(doc) + 1
         /\ \A v \in ValueOf(doc, i) : v.next = DecodedEnd(doc)[i]
<1>1. DecodedEnd(doc)[i] = IF ValueOf(doc, i) = {} THEN Len(doc) + 1
                           ELSE (CHOOSE v \in ValueOf(doc, i) : TRUE).next
  BY DEF DecodedEnd, ValueOf
<1>2. AtMostOne(ValueOf(doc, i)) /\ Bounded(doc, i, ValueOf(doc, i))
  <2>1. i \in 1 .. Len(doc) + 1 /\ AValue \in Whats
    BY DEF Whats
  <2> QED
    BY <2>1, OneReading, ReadingUnrolled DEF ValueOf
<1>3. CASE ValueOf(doc, i) = {}
  BY <1>1, <1>3
<1>4. ASSUME NEW v \in ValueOf(doc, i)
      PROVE  DecodedEnd(doc)[i] = v.next /\ v.next \in i + 1 .. Len(doc) + 1
  BY <1>1, <1>2, <1>4 DEF AtMostOne, Bounded
<1> QED
  BY <1>3, <1>4

(* The decoder ends at the same places of texts of the same shape.         *)
LEMMA ShapeOfEnds ==
  ASSUME NEW a, NEW b, SameShape(a, b)
  PROVE  DecodedEnd(a) = DecodedEnd(b)
<1>0. Len(a) \in Nat /\ Len(b) = Len(a) /\ Len(b) \in Nat
  BY DEF SameShape
<1>1. ASSUME NEW i \in 1 .. Len(a) PROVE DecodedEnd(a)[i] = DecodedEnd(b)[i]
  <2>1. EndsAs(ValueOf(a, i), ValueOf(b, i)) /\ EndsAs(ValueOf(b, i), ValueOf(a, i))
    <3>1. SameShape(b, a) /\ i \in 1 .. Len(a) + 1 /\ i \in 1 .. Len(b) + 1 /\ AValue \in Whats
      BY <1>0, ShapeIsSymmetric DEF Whats
    <3> QED
      BY <3>1, ShapeOfReadings DEF ValueOf
  <2>2. CASE ValueOf(a, i) = {}
    BY <1>0, <2>1, <2>2 DEF EndsAs, DecodedEnd, ValueOf
  <2>3. ASSUME NEW v \in ValueOf(a, i) PROVE DecodedEnd(a)[i] = DecodedEnd(b)[i]
    <3>1. PICK w \in ValueOf(b, i) : w.next = v.next
      BY <2>1 DEF EndsAs
    <3> QED
      BY <1>0, <3>1, EndOfValue
  <2> QED
    BY <2>2, <2>3
<1> QED
  BY <1>0, <1>1 DEF DecodedEnd

-----------------------------------------------------------------------------
(* The walks, unrolled.                                                    *)

(* Ends of values as both scans find them.                                 *)
Ends(doc, End) == \A i \in 1 .. Len(doc) : End[i] \in i + 1 .. Len(doc) + 1

(* The member after the mark at p.                                         *)
ValuePlace(doc, p) == SkipSpace(doc, ColonAt(doc, p + 1) + 1)
IsMember(doc, p) ==
  /\ IsString(At(doc, KeyAt(doc, p + 1))) /\ At(doc, ColonAt(doc, p + 1)) = Colon
  /\ ~(ValuePlace(doc, p) > Len(doc))
MemberAt(doc, p, End) ==
  [before |-> p, key |-> KeyAt(doc, p + 1), value |-> ValuePlace(doc, p), end |-> End[ValuePlace(doc, p)]]
After(doc, p, End) == SkipSpace(doc, End[ValuePlace(doc, p)])

(* The places of a member come in their order, within the text.            *)
LEMMA MemberPlaces ==
  ASSUME NEW doc, Len(doc) \in Nat, NEW p \in 1 .. Len(doc), IsMember(doc, p)
  PROVE  /\ KeyAt(doc, p + 1) \in p + 1 .. Len(doc) /\ IsString(doc[KeyAt(doc, p + 1)])
         /\ ColonAt(doc, p + 1) \in KeyAt(doc, p + 1) + 1 .. Len(doc) /\ doc[ColonAt(doc, p + 1)] = Colon
         /\ ColonAt(doc, p + 1) = SkipSpace(doc, KeyAt(doc, p + 1) + 1)
         /\ ValuePlace(doc, p) \in ColonAt(doc, p + 1) + 1 .. Len(doc)
         /\ doc[ValuePlace(doc, p)] # Space
<1>1. Keyed(doc, ObjectEnd, p + 1) /\ ObjectEnd \in Closers /\ p + 1 \in 1 .. Len(doc) + 1
  BY DEF Keyed, IsMember, Closers
<1>2. /\ KeyAt(doc, p + 1) \in p + 1 .. Len(doc) /\ IsString(doc[KeyAt(doc, p + 1)])
      /\ ColonAt(doc, p + 1) \in KeyAt(doc, p + 1) + 1 .. Len(doc) /\ doc[ColonAt(doc, p + 1)] = Colon
  BY <1>1, KeyedIs
<1>3. ColonAt(doc, p + 1) + 1 \in 1 .. Len(doc) + 1
  BY <1>2
<1>4. /\ ValuePlace(doc, p) \in ColonAt(doc, p + 1) + 1 .. Len(doc) + 1
      /\ At(doc, ValuePlace(doc, p)) # Space
  BY <1>3, SkipSpaceEnds DEF ValuePlace
<1>5. ValuePlace(doc, p) \in Nat /\ ValuePlace(doc, p) > 0 /\ ValuePlace(doc, p) <= Len(doc)
  BY <1>2, <1>4 DEF IsMember
<1> QED
  BY <1>2, <1>4, <1>5, EndIsNone DEF ColonAt, KeyAt

(* Both walks move forward.                                                *)
LEMMA AfterMember ==
  ASSUME NEW doc, Len(doc) \in Nat, NEW p \in 1 .. Len(doc), IsMember(doc, p), NEW End, Ends(doc, End)
  PROVE  /\ End[ValuePlace(doc, p)] \in ValuePlace(doc, p) + 1 .. Len(doc) + 1
         /\ After(doc, p, End) \in End[ValuePlace(doc, p)] .. Len(doc) + 1
         /\ After(doc, p, End) \in Nat /\ After(doc, p, End) > p
<1>1. ValuePlace(doc, p) \in 1 .. Len(doc) /\ ValuePlace(doc, p) > p
  BY MemberPlaces
<1>2. End[ValuePlace(doc, p)] \in ValuePlace(doc, p) + 1 .. Len(doc) + 1
  BY <1>1 DEF Ends
<1>3. End[ValuePlace(doc, p)] \in 1 .. Len(doc) + 1
  BY <1>1, <1>2
<1>4. After(doc, p, End) \in End[ValuePlace(doc, p)] .. Len(doc) + 1
  BY <1>3, SkipSpaceEnds DEF After
<1> QED
  BY <1>1, <1>2, <1>4

WalkStep(doc, End, from, p) ==
  IF ~IsMember(doc, p) THEN {}
  ELSE {MemberAt(doc, p, End)}
         \union IF At(doc, After(doc, p, End)) = Comma THEN from[After(doc, p, End)] ELSE {}

(* A walk finds a member, and goes on after a comma only.                  *)
LEMMA WalkUnrolled ==
  ASSUME NEW doc, Len(doc) \in Nat, NEW End, Ends(doc, End), NEW p \in 1 .. Len(doc)
  PROVE  Walk(doc, p, End) =
           IF ~IsMember(doc, p) THEN {}
           ELSE {MemberAt(doc, p, End)}
                  \union IF At(doc, After(doc, p, End)) = Comma THEN Walk(doc, After(doc, p, End), End) ELSE {}
<1> DEFINE N == Len(doc)
           D == 1 .. N
           M == [before : Nat, key : Nat, value : Nat, end : Nat]
           T == SUBSET M
           rank == [q \in D |-> N - q]
           step == [q \in D |-> [g \in [D -> T] |-> WalkStep(doc, End, g, q)]]
           Is(f) == f = [before \in 1 .. Len(doc) |->
             LET key == SkipSpace(doc, before + 1)
                 colon == SkipSpace(doc, key + 1)
                 value == SkipSpace(doc, colon + 1)
                 next == SkipSpace(doc, End[value])
             IN IF ~IsString(At(doc, key)) \/ At(doc, colon) # Colon \/ value > Len(doc) THEN {}
                ELSE {[before |-> before, key |-> key, value |-> value, end |-> End[value]]}
                       \union IF At(doc, next) = Comma THEN f[next] ELSE {}]
<1>1. ASSUME NEW q \in D, IsMember(doc, q)
      PROVE  /\ MemberAt(doc, q, End) \in M
             /\ At(doc, After(doc, q, End)) = Comma => After(doc, q, End) \in D /\ After(doc, q, End) > q
  <2>1. MemberAt(doc, q, End) \in M
    BY <1>1, MemberPlaces, AfterMember DEF MemberAt
  <2>2. After(doc, q, End) \in Nat /\ After(doc, q, End) > q
    BY <1>1, AfterMember
  <2> QED
    BY <2>1, <2>2, EndIsNone
<1>2. step \in [D -> [[D -> T] -> T]]
  <2> SUFFICES ASSUME NEW q \in D, NEW g \in [D -> T] PROVE WalkStep(doc, End, g, q) \in T
    OBVIOUS
  <2> QED
    BY <1>1 DEF WalkStep
<1>3. ASSUME NEW q \in D, NEW g \in [D -> T], NEW h \in [D -> T],
             \A e \in D : rank[e] < rank[q] => g[e] = h[e]
      PROVE  step[q][g] = step[q][h]
  <2>1. WalkStep(doc, End, g, q) = WalkStep(doc, End, h, q)
    <3>1. IsMember(doc, q) /\ At(doc, After(doc, q, End)) = Comma =>
            g[After(doc, q, End)] = h[After(doc, q, End)]
      BY <1>1, <1>3
    <3> QED
      BY <3>1 DEF WalkStep
  <2> QED
    BY <2>1
<1>4. Recursion(D, T, N, rank, step)
  <2>1. rank \in [D -> 0 .. N] /\ T # {}
    <3>1. {} \in T
      OBVIOUS
    <3>2. rank \in [D -> 0 .. N]
      OBVIOUS
    <3> HIDE DEF T
    <3> QED
      BY <3>1, <3>2
  <2> HIDE DEF D, T, rank, step
  <2> QED
    BY <1>2, <1>3, <2>1 DEF Recursion
<1>5. PICK f : Solution(D, T, step, f)
  <2> HIDE DEF D, T, N, rank, step
  <2> QED
    BY <1>4, RecursionSolved
<1>6. \A g : Is(g) <=> g = [q \in D |-> WalkStep(doc, End, g, q)]
  BY DEF WalkStep, IsMember, MemberAt, After, ValuePlace, KeyAt, ColonAt
<1>7. Is(f)
  <2>1. f \in [D -> T] /\ \A q \in D : f[q] = step[q][f]
    BY <1>5 DEF Solution
  <2>2. \A q \in D : f[q] = WalkStep(doc, End, f, q)
    BY <2>1
  <2>3. f = [q \in D |-> WalkStep(doc, End, f, q)]
    BY <2>1, <2>2
  <2> HIDE DEF Is
  <2> QED
    BY <1>6, <2>3
<1> DEFINE w == CHOOSE g : Is(g)
<1>8. Is(w)
  <2> HIDE DEF Is
  <2> QED
    BY <1>7
<1>9. \A q : Walk(doc, q, End) = w[q]
  BY DEF Walk
<1>10. w = [q \in D |-> WalkStep(doc, End, w, q)]
  <2> HIDE DEF Is, w
  <2> QED
    BY <1>6, <1>8
<1>11. w[p] = WalkStep(doc, End, w, p)
  <2> HIDE DEF Is, w
  <2> QED
    BY <1>10
<1> HIDE DEF w, Is
<1> QED
  BY <1>9, <1>11 DEF WalkStep

(* The decoder ends after the place where it begins.                       *)
LEMMA DecodedEnds ==
  ASSUME NEW doc, Len(doc) \in Nat PROVE Ends(doc, DecodedEnd(doc))
BY EndOfValue DEF Ends

ElementsStep(doc, from, p) ==
  LET value == SkipSpace(doc, p + 1)
      next == SkipSpace(doc, DecodedEnd(doc)[value])
  IN IF value > Len(doc) \/ At(doc, value) = ArrayEnd THEN {}
     ELSE {value} \union IF At(doc, next) = Comma THEN from[next] ELSE {}

(* The walk over an array finds an element, and goes on after a comma      *)
(* only.                                                                   *)
LEMMA ElementPlacesUnrolled ==
  ASSUME NEW doc, Len(doc) \in Nat, NEW p \in 1 .. Len(doc)
  PROVE  LET value == SkipSpace(doc, p + 1)
             next == SkipSpace(doc, DecodedEnd(doc)[value])
         IN /\ value \in p + 1 .. Len(doc) + 1
            /\ value <= Len(doc) => DecodedEnd(doc)[value] \in value + 1 .. Len(doc) + 1
                                    /\ next \in DecodedEnd(doc)[value] .. Len(doc) + 1
            /\ ElementPlaces(doc, p) =
                 IF value > Len(doc) \/ At(doc, value) = ArrayEnd THEN {}
                 ELSE {value} \union IF At(doc, next) = Comma THEN ElementPlaces(doc, next) ELSE {}
<1> DEFINE N == Len(doc)
           D == 1 .. N
           T == SUBSET Nat
           rank == [q \in D |-> N - q]
           step == [q \in D |-> [g \in [D -> T] |-> ElementsStep(doc, g, q)]]
           Value1(q) == SkipSpace(doc, q + 1)
           Next1(q) == SkipSpace(doc, DecodedEnd(doc)[Value1(q)])
           Is(f) == f = [before \in 1 .. Len(doc) |->
             LET value == SkipSpace(doc, before + 1)
                 next == SkipSpace(doc, DecodedEnd(doc)[value])
             IN IF value > Len(doc) \/ At(doc, value) = ArrayEnd THEN {}
                ELSE {value} \union IF At(doc, next) = Comma THEN f[next] ELSE {}]
<1>1. ASSUME NEW q \in D
      PROVE  /\ Value1(q) \in q + 1 .. Len(doc) + 1
             /\ Value1(q) <= Len(doc) => /\ DecodedEnd(doc)[Value1(q)] \in Value1(q) + 1 .. Len(doc) + 1
                                         /\ Next1(q) \in DecodedEnd(doc)[Value1(q)] .. Len(doc) + 1
             /\ Value1(q) <= Len(doc) /\ At(doc, Next1(q)) = Comma => Next1(q) \in D /\ Next1(q) > q
  <2>1. q + 1 \in 1 .. Len(doc) + 1
    OBVIOUS
  <2>2. Value1(q) \in q + 1 .. Len(doc) + 1
    BY <2>1, SkipSpaceEnds
  <2> HIDE DEF Value1
  <2>3. ASSUME Value1(q) <= Len(doc)
        PROVE  /\ DecodedEnd(doc)[Value1(q)] \in Value1(q) + 1 .. Len(doc) + 1
               /\ Next1(q) \in DecodedEnd(doc)[Value1(q)] .. Len(doc) + 1
               /\ At(doc, Next1(q)) = Comma => Next1(q) \in D /\ Next1(q) > q
    <3>1. Value1(q) \in 1 .. Len(doc)
      BY <2>2, <2>3
    <3>2. DecodedEnd(doc)[Value1(q)] \in Value1(q) + 1 .. Len(doc) + 1
      BY <3>1, EndOfValue
    <3>3. DecodedEnd(doc)[Value1(q)] \in 1 .. Len(doc) + 1
      BY <3>1, <3>2
    <3>4. Next1(q) \in DecodedEnd(doc)[Value1(q)] .. Len(doc) + 1
      BY <3>3, SkipSpaceEnds
    <3> HIDE DEF Next1
    <3>5. Next1(q) \in Nat /\ Next1(q) > 0 /\ Next1(q) > q
      BY <3>1, <3>2, <3>4, <2>2
    <3> QED
      BY <3>2, <3>4, <3>5, EndIsNone
  <2> QED
    BY <2>2, <2>3
<1>0. \A g : \A q : ElementsStep(doc, g, q) = IF Value1(q) > Len(doc) \/ At(doc, Value1(q)) = ArrayEnd THEN {}
                ELSE {Value1(q)} \union IF At(doc, Next1(q)) = Comma THEN g[Next1(q)] ELSE {}
  BY DEF ElementsStep
<1>2. step \in [D -> [[D -> T] -> T]]
  <2> SUFFICES ASSUME NEW q \in D, NEW g \in [D -> T] PROVE ElementsStep(doc, g, q) \in T
    OBVIOUS
  <2>1. Value1(q) \in Nat /\ (Value1(q) <= Len(doc) /\ At(doc, Next1(q)) = Comma => Next1(q) \in D)
    BY <1>1
  <2> HIDE DEF Value1, Next1
  <2>2. Value1(q) <= Len(doc) /\ At(doc, Next1(q)) = Comma => g[Next1(q)] \in SUBSET Nat
    BY <2>1
  <2>3. ~(Value1(q) > Len(doc)) => Value1(q) <= Len(doc)
    BY <2>1
  <2> QED
    BY <1>0, <2>1, <2>2, <2>3
<1>3. ASSUME NEW q \in D, NEW g \in [D -> T], NEW h \in [D -> T],
             \A e \in D : rank[e] < rank[q] => g[e] = h[e]
      PROVE  step[q][g] = step[q][h]
  <2>1. ElementsStep(doc, g, q) = ElementsStep(doc, h, q)
    <3>1. Value1(q) <= Len(doc) /\ At(doc, Next1(q)) = Comma => g[Next1(q)] = h[Next1(q)]
      <4> HIDE DEF Value1, Next1
      <4> QED
        BY <1>1, <1>3
    <3>2. ~(Value1(q) > Len(doc)) => Value1(q) <= Len(doc)
      BY <1>1
    <3> HIDE DEF Value1, Next1
    <3> QED
      BY <1>0, <3>1, <3>2
  <2> QED
    BY <2>1
<1>4. Recursion(D, T, N, rank, step)
  <2>1. rank \in [D -> 0 .. N] /\ T # {}
    <3>1. {} \in T
      OBVIOUS
    <3>2. rank \in [D -> 0 .. N]
      OBVIOUS
    <3> HIDE DEF T
    <3> QED
      BY <3>1, <3>2
  <2> HIDE DEF D, T, rank, step
  <2> QED
    BY <1>2, <1>3, <2>1 DEF Recursion
<1>5. PICK f : Solution(D, T, step, f)
  <2> HIDE DEF D, T, N, rank, step
  <2> QED
    BY <1>4, RecursionSolved
<1>6. \A g : Is(g) <=> g = [q \in D |-> ElementsStep(doc, g, q)]
  BY DEF ElementsStep
<1>7. Is(f)
  <2>1. f \in [D -> T] /\ \A q \in D : f[q] = step[q][f]
    BY <1>5 DEF Solution
  <2>2. \A q \in D : f[q] = ElementsStep(doc, f, q)
    BY <2>1
  <2>3. f = [q \in D |-> ElementsStep(doc, f, q)]
    BY <2>1, <2>2
  <2> HIDE DEF Is
  <2> QED
    BY <1>6, <2>3
<1> DEFINE w == CHOOSE g : Is(g)
<1>8. Is(w)
  <2> HIDE DEF Is
  <2> QED
    BY <1>7
<1>9. \A q : ElementPlaces(doc, q) = w[q]
  BY DEF ElementPlaces
<1>10. w = [q \in D |-> ElementsStep(doc, w, q)]
  <2> HIDE DEF Is, w
  <2> QED
    BY <1>6, <1>8
<1>11. w[p] = ElementsStep(doc, w, p)
  <2> HIDE DEF Is, w
  <2> QED
    BY <1>10
<1>12. p \in D
  OBVIOUS
<1> HIDE DEF w, Is
<1> QED
  BY <1>1, <1>9, <1>11, <1>12 DEF ElementsStep

(* Texts of the same shape have the same members and elements, place by    *)
(* place.                                                                  *)
LEMMA ShapeOfWalk ==
  ASSUME NEW a, NEW b, SameShape(a, b), NEW p \in 1 .. Len(a)
  PROVE  Walk(a, p, DecodedEnd(a)) = Walk(b, p, DecodedEnd(b)) /\ ElementPlaces(a, p) = ElementPlaces(b, p)
<1> DEFINE N == Len(a)
           E == DecodedEnd(a)
           S == {q \in 1 .. N : Walk(a, q, E) = Walk(b, q, E) /\ ElementPlaces(a, q) = ElementPlaces(b, q)}
<1>0. Len(a) \in Nat /\ Len(b) = Len(a) /\ Len(b) \in Nat
  BY DEF SameShape
<1>1. DecodedEnd(b) = E /\ Ends(a, E) /\ Ends(b, E)
  BY <1>0, ShapeOfEnds, DecodedEnds DEF Ends
<1>2. ASSUME NEW q \in 1 .. N, \A r \in q + 1 .. N : r \in S PROVE q \in S
  <2>1. Walk(a, q, E) = Walk(b, q, E)
    <3>1. /\ KeyAt(b, q + 1) = KeyAt(a, q + 1)
          /\ KeyAt(a, q + 1) \in Nat /\ KeyAt(a, q + 1) > 0 /\ KeyAt(a, q + 1) <= Len(a) + 1
      <4>1. q + 1 \in 1 .. Len(a) + 1
        BY <1>0
      <4> QED
        BY <1>0, <4>1, ShapeOfSpace, SkipSpaceEnds DEF KeyAt
    <3>2. IsString(At(a, KeyAt(a, q + 1))) = IsString(At(b, KeyAt(b, q + 1)))
      BY <3>1, ShapeOfAtoms
    <3>3. ASSUME IsString(At(a, KeyAt(a, q + 1)))
          PROVE  /\ ColonAt(b, q + 1) = ColonAt(a, q + 1)
                 /\ (At(a, ColonAt(a, q + 1)) = Colon) = (At(b, ColonAt(b, q + 1)) = Colon)
                 /\ At(a, ColonAt(a, q + 1)) = Colon => ValuePlace(a, q) = ValuePlace(b, q)
      <4>1. KeyAt(a, q + 1) + 1 \in 1 .. Len(a) + 1
        BY <1>0, <3>1, <3>3, EndIsNone
      <4>2. /\ ColonAt(b, q + 1) = ColonAt(a, q + 1)
            /\ ColonAt(a, q + 1) \in Nat /\ ColonAt(a, q + 1) > 0
        BY <1>0, <3>1, <4>1, ShapeOfSpace, SkipSpaceEnds DEF ColonAt, KeyAt
      <4>3. (At(a, ColonAt(a, q + 1)) = Colon) = (At(b, ColonAt(b, q + 1)) = Colon)
        BY <4>2, ShapeOfAtoms
      <4>4. ASSUME At(a, ColonAt(a, q + 1)) = Colon PROVE ValuePlace(a, q) = ValuePlace(b, q)
        <5>1. ColonAt(a, q + 1) + 1 \in 1 .. Len(a) + 1
          BY <1>0, <4>2, <4>4, EndIsNone
        <5> QED
          BY <4>2, <5>1, ShapeOfSpace DEF ValuePlace
      <4> QED
        BY <4>2, <4>3, <4>4
    <3>4. IsMember(a, q) = IsMember(b, q)
      BY <1>0, <3>2, <3>3 DEF IsMember
    <3>5. CASE ~IsMember(a, q)
      BY <1>0, <1>1, <3>4, <3>5, WalkUnrolled
    <3>6. CASE IsMember(a, q)
      <4>1. MemberAt(a, q, E) = MemberAt(b, q, E)
        BY <3>1, <3>3, <3>6 DEF IsMember, MemberAt
      <4>2. E[ValuePlace(a, q)] \in 1 .. Len(a) + 1
        BY <1>0, <1>1, <3>6, MemberPlaces, AfterMember
      <4>3. After(a, q, E) = After(b, q, E)
        BY <3>3, <3>6, <4>2, ShapeOfSpace DEF IsMember, After
      <4>4. After(a, q, E) \in Nat /\ After(a, q, E) > q
        BY <1>0, <1>1, <3>6, AfterMember
      <4>5. (At(a, After(a, q, E)) = Comma) = (At(b, After(b, q, E)) = Comma)
        BY <4>3, <4>4, ShapeOfAtoms
      <4>6. At(a, After(a, q, E)) = Comma => After(a, q, E) \in S
        BY <1>0, <1>2, <4>4, EndIsNone
      <4>7. At(a, After(a, q, E)) = Comma => Walk(a, After(a, q, E), E) = Walk(b, After(b, q, E), E)
        BY <4>3, <4>6
      <4>8. Walk(a, q, E) = {MemberAt(a, q, E)}
              \union IF At(a, After(a, q, E)) = Comma THEN Walk(a, After(a, q, E), E) ELSE {}
        BY <1>0, <1>1, <3>6, WalkUnrolled
      <4>9. Walk(b, q, E) = {MemberAt(b, q, E)}
              \union IF At(b, After(b, q, E)) = Comma THEN Walk(b, After(b, q, E), E) ELSE {}
        BY <1>0, <1>1, <3>4, <3>6, WalkUnrolled
      <4> QED
        BY <4>1, <4>5, <4>7, <4>8, <4>9
    <3> QED
      BY <3>5, <3>6
  <2>2. ElementPlaces(a, q) = ElementPlaces(b, q)
    <3> DEFINE value == SkipSpace(a, q + 1)
               next == SkipSpace(a, E[value])
    <3>1. q + 1 \in 1 .. Len(a) + 1 /\ q \in 1 .. Len(b)
      BY <1>0
    <3>2. SkipSpace(b, q + 1) = value /\ value \in q + 1 .. Len(a) + 1
      BY <1>0, <3>1, ShapeOfSpace, SkipSpaceEnds
    <3>3. value <= Len(a) => E[value] \in value + 1 .. Len(a) + 1 /\ next \in E[value] .. Len(a) + 1
      BY <1>0, ElementPlacesUnrolled
    <3>4. ElementPlaces(a, q) = IF value > Len(a) \/ At(a, value) = ArrayEnd THEN {}
            ELSE {value} \union IF At(a, next) = Comma THEN ElementPlaces(a, next) ELSE {}
      BY <1>0, ElementPlacesUnrolled
    <3>5. ElementPlaces(b, q) =
            LET v == SkipSpace(b, q + 1)
                n == SkipSpace(b, DecodedEnd(b)[v])
            IN IF v > Len(b) \/ At(b, v) = ArrayEnd THEN {}
               ELSE {v} \union IF At(b, n) = Comma THEN ElementPlaces(b, n) ELSE {}
      BY <1>0, <3>1, ElementPlacesUnrolled
    <3>6. ElementPlaces(b, q) = IF value > Len(a) \/ At(b, value) = ArrayEnd THEN {}
            ELSE {value} \union IF At(b, SkipSpace(b, E[value])) = Comma
                                THEN ElementPlaces(b, SkipSpace(b, E[value])) ELSE {}
      BY <1>0, <1>1, <3>2, <3>5
    <3> HIDE DEF value
    <3>7. (At(a, value) = ArrayEnd) = (At(b, value) = ArrayEnd)
      <4>1. value \in Nat /\ value > 0
        BY <1>0, <3>2
      <4> QED
        BY <4>1, ShapeOfAtoms
    <3>8. ASSUME value <= Len(a)
          PROVE  /\ SkipSpace(b, E[value]) = next /\ (At(a, next) = Comma) = (At(b, next) = Comma)
                 /\ At(a, next) = Comma => ElementPlaces(a, next) = ElementPlaces(b, next)
      <4>1. E[value] \in 1 .. Len(a) + 1 /\ next \in Nat /\ next > q
        BY <1>0, <3>2, <3>3, <3>8
      <4>2. SkipSpace(b, E[value]) = next
        BY <4>1, ShapeOfSpace
      <4> HIDE DEF next
      <4>3. (At(a, next) = Comma) = (At(b, next) = Comma)
        BY <4>1, ShapeOfAtoms
      <4>4. At(a, next) = Comma => next \in S
        BY <1>0, <1>2, <4>1, EndIsNone
      <4> QED
        BY <4>2, <4>3, <4>4
    <3>9. ~(value > Len(a)) => value <= Len(a)
      BY <1>0, <3>2
    <3> HIDE DEF next
    <3> QED
      BY <3>4, <3>6, <3>7, <3>8, <3>9
  <2> QED
    BY <2>1, <2>2
<1>3. 1 .. N \subseteq S
  <2>1. N \in Nat
    BY <1>0
  <2> HIDE DEF S, N
  <2> QED
    BY <1>2, <2>1, DownInduction
<1> QED
  BY <1>1, <1>3

-----------------------------------------------------------------------------
(* Joining pieces.                                                         *)

(* A flattened sequence is its pieces one after the other.                 *)
Joins(T, n, parts, f) ==
  /\ f \in [0 .. n -> Seq(T)] /\ f[0] = <<>>
  /\ \A k \in 1 .. n : f[k] = f[k - 1] \o parts[k]

(* The text t is s and then u.                                             *)
Extends(T, t, s, u) ==
  /\ t \in Seq(T) /\ s \in Seq(T) /\ u \in Seq(T) /\ Len(t) = Len(s) + Len(u)
  /\ \A i \in 1 .. Len(s) : t[i] = s[i]
  /\ \A i \in 1 .. Len(u) : t[Len(s) + i] = u[i]

(* Every piece extends what was joined before it.                          *)
LEMMA JoinsStep ==
  ASSUME NEW T, NEW n \in Nat, NEW parts \in [1 .. n -> Seq(T)], NEW f, Joins(T, n, parts, f)
  PROVE  \A k \in 0 .. n - 1 : Extends(T, f[k + 1], f[k], parts[k + 1])
<1> TAKE k \in 0 .. n - 1
<1>1. k \in 0 .. n /\ k + 1 \in 0 .. n /\ k + 1 \in 1 .. n /\ (k + 1) - 1 = k
  OBVIOUS
<1> DEFINE s == f[k]
           u == parts[k + 1]
           t == f[k + 1]
<1>2. f[k + 1] = f[(k + 1) - 1] \o parts[k + 1]
  BY <1>1 DEF Joins
<1>3. t = s \o u
  BY <1>1, <1>2
<1>4. t \in Seq(T) /\ s \in Seq(T) /\ u \in Seq(T)
  BY <1>1 DEF Joins
<1> HIDE DEF t, s, u
<1>5. Extends(T, t, s, u)
  BY <1>3, <1>4 DEF Extends
<1> QED
  BY <1>5 DEF t, s, u

(* FlattenSeq joins its pieces one by one.                                 *)
LEMMA FlattenJoins ==
  ASSUME NEW T, NEW n \in Nat, NEW parts \in [1 .. n -> Seq(T)]
  PROVE  \E f : Joins(T, n, parts, f) /\ FlattenSeq(parts) = f[n]
<1> DEFINE step == [k \in 1 .. n |-> [s \in Seq(T) |-> s \o parts[k]]]
           base == <<>>
<1>1. PICK f : Unrolled(n, Seq(T), base, step, f)
  <2>1. base \in Seq(T) /\ step \in [1 .. n -> [Seq(T) -> Seq(T)]]
    OBVIOUS
  <2> HIDE DEF step, base
  <2>2. Loop(n, Seq(T), base, step)
    BY <2>1 DEF Loop
  <2> QED
    BY <2>2, LoopSolved
<1>2. Joins(T, n, parts, f)
  <2>1. f \in [0 .. n -> Seq(T)] /\ f[0] = <<>>
    BY <1>1 DEF Unrolled
  <2>2. ASSUME NEW k \in 1 .. n PROVE f[k] = f[k - 1] \o parts[k]
    <3>1. f[k] = step[k][f[k - 1]] /\ f[k - 1] \in Seq(T)
      <4>1. k - 1 \in 0 .. n
        OBVIOUS
      <4> QED
        BY <1>1, <2>1, <4>1 DEF Unrolled
    <3> QED
      BY <3>1
  <2> QED
    BY <2>1, <2>2 DEF Joins
<1>3. Len(parts) = n /\ parts \in Seq(Seq(T))
  OBVIOUS
<1>4. CASE n = 0
  <2>1. parts = <<>>
    BY <1>3, <1>4
  <2> QED
    BY <1>2, <1>3, <1>4, <2>1 DEF FlattenSeq, Joins
<1>5. CASE n > 0
  <2> DEFINE Equation(g) == g = [k \in 1 .. n |-> IF k = 1 THEN parts[k] ELSE g[k - 1] \o parts[k]]
             flatten == CHOOSE g : Equation(g)
             known == [k \in 1 .. n |-> f[k]]
  <2>1. Equation(known)
    <3>1. \A k \in 1 .. n : f[k] = IF k = 1 THEN parts[k] ELSE known[k - 1] \o parts[k]
      <4> TAKE k \in 1 .. n
      <4>1. CASE k = 1
        <5>1. f[1] = <<>> \o parts[1] /\ parts[1] \in Seq(T)
          <6>1. 1 \in 1 .. n /\ 1 - 1 = 0
            BY <1>5
          <6> QED
            BY <1>2, <6>1 DEF Joins
        <5> QED
          BY <4>1, <5>1
      <4>2. CASE k # 1
        <5>1. k - 1 \in 1 .. n
          BY <4>2
        <5> QED
          BY <1>2, <4>2, <5>1 DEF Joins
      <4> QED
        BY <4>1, <4>2
    <3>2. known = [k \in 1 .. n |-> f[k]]
      OBVIOUS
    <3> HIDE DEF known
    <3> QED
      BY <3>1, <3>2, Zenon
  <2>2. Equation(flatten)
    <3> HIDE DEF Equation
    <3> QED
      BY <2>1
  <2> HIDE DEF flatten
  <2> DEFINE S == {k \in 0 .. n : k = 0 \/ flatten[k] = f[k]}
  <2>3. 0 \in S
    OBVIOUS
  <2>4. ASSUME NEW k \in 0 .. n - 1, k \in S PROVE k + 1 \in S
    <3>1. k + 1 \in 1 .. n
      OBVIOUS
    <3>2. flatten[k + 1] = IF k + 1 = 1 THEN parts[k + 1] ELSE flatten[(k + 1) - 1] \o parts[k + 1]
      BY <2>2, <3>1
    <3>3. known[k + 1] = IF k + 1 = 1 THEN parts[k + 1] ELSE known[(k + 1) - 1] \o parts[k + 1]
      <4> HIDE DEF known
      <4> QED
        BY <2>1, <3>1
    <3>4. (k + 1) - 1 = k /\ known[k + 1] = f[k + 1] /\ (k # 0 => known[k] = f[k])
      BY <3>1
    <3>5. flatten[k + 1] = f[k + 1]
      <4> HIDE DEF known
      <4>1. k # 0 => flatten[k] = f[k]
        BY <2>4
      <4> QED
        BY <3>2, <3>3, <3>4, <4>1
    <3> QED
      BY <3>1, <3>5
  <2>5. n \in S
    <3>1. 0 .. n \subseteq S
      <4> HIDE DEF S
      <4> QED
        BY <2>3, <2>4, UpToInduction
    <3> QED
      BY <3>1
  <2>6. FlattenSeq(parts) = flatten[n]
    BY <1>3, <1>5 DEF FlattenSeq, flatten
  <2> QED
    BY <1>2, <1>5, <2>5, <2>6
<1> QED
  BY <1>4, <1>5

(* ... as one text of the same length when each piece is one atom.         *)
LEMMA FlattenAtoms ==
  ASSUME NEW T, NEW n \in Nat, NEW atoms \in [1 .. n -> T],
         NEW parts \in [1 .. n -> Seq(T)], \A i \in 1 .. n : parts[i] = <<atoms[i]>>
  PROVE  FlattenSeq(parts) = atoms
<1>2. PICK f : Joins(T, n, parts, f) /\ FlattenSeq(parts) = f[n]
  BY FlattenJoins
<1> DEFINE S == {k \in 0 .. n : Len(f[k]) = k /\ \A i \in 1 .. k : f[k][i] = atoms[i]}
<1>3. 0 \in S
  BY <1>2 DEF Joins
<1>4. ASSUME NEW k \in 0 .. n - 1, k \in S PROVE k + 1 \in S
  <2>1. Extends(T, f[k + 1], f[k], parts[k + 1])
    BY <1>2, JoinsStep
  <2>2. Len(f[k]) = k /\ \A i \in 1 .. k : f[k][i] = atoms[i]
    BY <1>4
  <2>3. Len(parts[k + 1]) = 1 /\ parts[k + 1][1] = atoms[k + 1]
    <3>1. k + 1 \in 1 .. n
      OBVIOUS
    <3>2. parts[k + 1] = <<atoms[k + 1]>>
      BY <3>1
    <3> QED
      BY <3>2
  <2>4. Len(f[k + 1]) = k + 1
    BY <2>1, <2>2, <2>3 DEF Extends
  <2>5. ASSUME NEW i \in 1 .. k + 1 PROVE f[k + 1][i] = atoms[i]
    <3>1. CASE i = k + 1
      BY <2>1, <2>2, <2>3, <3>1 DEF Extends
    <3>2. CASE i # k + 1
      <4>1. i \in 1 .. k
        BY <3>2
      <4>2. f[k][i] = atoms[i]
        BY <2>2, <4>1
      <4>3. i \in 1 .. Len(f[k])
        BY <2>2, <4>1
      <4> HIDE DEF S
      <4> QED
        BY <2>1, <4>2, <4>3 DEF Extends
    <3> QED
      BY <3>1, <3>2
  <2> QED
    BY <2>4, <2>5
<1>5. n \in S
  <2>1. 0 .. n \subseteq S
    <3> HIDE DEF S
    <3> QED
      BY <1>3, <1>4, UpToInduction
  <2> QED
    BY <2>1
<1>6. f[n] \in Seq(T) /\ atoms \in Seq(T) /\ Len(atoms) = n
  BY <1>2 DEF Joins
<1> QED
  BY <1>2, <1>5, <1>6

-----------------------------------------------------------------------------
(* Members that can be read.                                               *)

(* What is read at a place does not depend on the spaces before it.        *)
LEMMA SpaceIsSkipped ==
  ASSUME NEW doc, Len(doc) \in Nat, NEW i \in 1 .. Len(doc) + 1
  PROVE  /\ SkipSpace(doc, SkipSpace(doc, i)) = SkipSpace(doc, i)
         /\ ValueOf(doc, SkipSpace(doc, i)) = ValueOf(doc, i)
<1> DEFINE at == SkipSpace(doc, i)
<1>1. at \in i .. Len(doc) + 1 /\ at \in 1 .. Len(doc) + 1 /\ At(doc, at) # Space
  BY SkipSpaceEnds
<1> HIDE DEF at
<1>2. SkipSpace(doc, at) = at
  BY <1>1, SkipSpaceIs
<1>3. \A read : Value(doc, read, at) = Value(doc, read, i)
  BY <1>2 DEF Value, at
<1>4. AValue \in Whats
  BY DEF Whats
<1>5. ValueOf(doc, at) = ValueOf(doc, i)
  BY <1>1, <1>3, <1>4, ReadingUnrolled DEF ValueOf, Step
<1> QED
  BY <1>2, <1>5 DEF at

(* An item and what follows it.                                            *)
ItemPlace(doc, close, i) == SkipSpace(doc, From(doc, close, i))
ItemEnd(doc, close, i) == DecodedEnd(doc)[ItemPlace(doc, close, i)]
AfterItem(doc, close, i) == SkipSpace(doc, ItemEnd(doc, close, i))
Follows(list, first, rest) == list = <<first>> \o rest

(* What is read of items, with the places the walk finds.                  *)
LEMMA ItemIs ==
  ASSUME NEW doc, Len(doc) \in Nat, NEW i \in 1 .. Len(doc) + 1, NEW close \in Closers,
         NEW t \in ItemsOf(doc, close, i)
  PROVE  /\ Keyed(doc, close, i)
         /\ ItemPlace(doc, close, i) \in i .. Len(doc) /\ ItemPlace(doc, close, i) >= From(doc, close, i)
         /\ ItemEnd(doc, close, i) \in ItemPlace(doc, close, i) + 1 .. Len(doc) + 1
         /\ AfterItem(doc, close, i) \in ItemEnd(doc, close, i) .. Len(doc)
         /\ \E v \in ValueOf(doc, ItemPlace(doc, close, i)) :
              /\ v.next = ItemEnd(doc, close, i)
              /\ \/ /\ doc[AfterItem(doc, close, i)] = close
                    /\ Follows(t.list, Item(doc, close, i, v.tree), <<>>) /\ t.next = AfterItem(doc, close, i) + 1
                 \/ /\ doc[AfterItem(doc, close, i)] = Comma
                    /\ \E rest \in ItemsOf(doc, close, AfterItem(doc, close, i) + 1) :
                         Follows(t.list, Item(doc, close, i, v.tree), rest.list) /\ t.next = rest.next
<1> DEFINE from == From(doc, close, i)
           value == ItemPlace(doc, close, i)
           end == ItemEnd(doc, close, i)
           after == AfterItem(doc, close, i)
<1>1. Keyed(doc, close, i) /\ ReadAs(doc, close, i, t)
  BY ItemsReading
<1>2. from \in i .. Len(doc) + 1 /\ from \in 1 .. Len(doc) + 1
  BY <1>1, KeyedIs
<1>3. PICK v \in ValueOf(doc, from) : \E rest \in RestOf(doc, close, v.next) :
        t = [list |-> <<Item(doc, close, i, v.tree)>> \o rest.list, next |-> rest.next]
  BY <1>1 DEF ReadAs
<1>4. PICK rest \in RestOf(doc, close, v.next) :
        t = [list |-> <<Item(doc, close, i, v.tree)>> \o rest.list, next |-> rest.next]
  BY <1>3
<1>5. Follows(t.list, Item(doc, close, i, v.tree), rest.list) /\ t.next = rest.next
  BY <1>4 DEF Follows
<1>6. value \in from .. Len(doc) /\ v \in ValueOf(doc, value)
  BY <1>2, <1>3, ValueReading, SpaceIsSkipped DEF ItemPlace
<1>7. value \in i .. Len(doc) /\ value \in 1 .. Len(doc) /\ value >= from
  BY <1>2, <1>6
<1>8. v.next = end /\ end \in value + 1 .. Len(doc) + 1
  BY <1>6, <1>7, EndOfValue DEF ItemEnd
<1>9. end \in 1 .. Len(doc) + 1
  BY <1>7, <1>8
<1> HIDE DEF from, value, end
<1>10. /\ after \in end .. Len(doc) /\ At(doc, after) \in {close, Comma}
       /\ At(doc, after) = close => RestOf(doc, close, end) = {[list |-> <<>>, next |-> after + 1]}
       /\ At(doc, after) = Comma => RestOf(doc, close, end) = ItemsOf(doc, close, after + 1)
  <2>1. RestOf(doc, close, end) # {} /\ after = SkipSpace(doc, end)
    BY <1>8 DEF AfterItem, end
  <2> HIDE DEF after
  <2> QED
    BY <1>9, <2>1, RestReading
<1>11. At(doc, after) = doc[after]
  BY <1>9, <1>10, EndIsNone
<1>12. \/ /\ doc[after] = close
          /\ Follows(t.list, Item(doc, close, i, v.tree), <<>>) /\ t.next = after + 1
       \/ /\ doc[after] = Comma
          /\ \E r \in ItemsOf(doc, close, after + 1) :
               Follows(t.list, Item(doc, close, i, v.tree), r.list) /\ t.next = r.next
  <2>1. CASE doc[after] = close
    <3>1. rest = [list |-> <<>>, next |-> after + 1]
      BY <1>8, <1>10, <1>11, <2>1
    <3>2. rest.list = <<>> /\ rest.next = after + 1
      BY <3>1
    <3> QED
      BY <1>5, <2>1, <3>2
  <2>2. CASE doc[after] = Comma
    BY <1>5, <1>8, <1>10, <1>11, <2>2
  <2> QED
    BY <1>10, <1>11, <2>1, <2>2
<1> QED
  BY <1>1, <1>6, <1>7, <1>8, <1>10, <1>12 DEF value, from, end

(* The walk through an object that can be read.                            *)
Good(doc, p) == ItemsOf(doc, ObjectEnd, p + 1) # {}

(* Where items of an object can be read, the walk finds a member, and      *)
(* after its comma the next.                                               *)
LEMMA GoodIsMember ==
  ASSUME NEW doc, Len(doc) \in Nat, NEW p \in 1 .. Len(doc), Good(doc, p)
  PROVE  /\ IsMember(doc, p) /\ ValueOf(doc, ValuePlace(doc, p)) # {}
         /\ ItemPlace(doc, ObjectEnd, p + 1) = ValuePlace(doc, p)
         /\ AfterItem(doc, ObjectEnd, p + 1) = After(doc, p, DecodedEnd(doc))
         /\ After(doc, p, DecodedEnd(doc)) \in p + 1 .. Len(doc)
         /\ doc[After(doc, p, DecodedEnd(doc))] \in {ObjectEnd, Comma}
         /\ doc[After(doc, p, DecodedEnd(doc))] = Comma => Good(doc, After(doc, p, DecodedEnd(doc)))
<1>1. PICK t : t \in ItemsOf(doc, ObjectEnd, p + 1)
  BY DEF Good
<1>2. /\ From(doc, ObjectEnd, p + 1) = ColonAt(doc, p + 1) + 1
      /\ ItemPlace(doc, ObjectEnd, p + 1) = ValuePlace(doc, p)
      /\ ItemEnd(doc, ObjectEnd, p + 1) = DecodedEnd(doc)[ValuePlace(doc, p)]
      /\ AfterItem(doc, ObjectEnd, p + 1) = After(doc, p, DecodedEnd(doc))
  BY DEF From, ItemPlace, ItemEnd, AfterItem, ValuePlace, After
<1>3. p + 1 \in 1 .. Len(doc) + 1 /\ ObjectEnd \in Closers
  BY DEF Closers
<1> DEFINE value == ItemPlace(doc, ObjectEnd, p + 1)
           after == AfterItem(doc, ObjectEnd, p + 1)
           end == ItemEnd(doc, ObjectEnd, p + 1)
<1>4. /\ Keyed(doc, ObjectEnd, p + 1)
      /\ value \in p + 1 .. Len(doc) /\ end \in value + 1 .. Len(doc) + 1 /\ after \in end .. Len(doc)
      /\ ValueOf(doc, value) # {} /\ doc[after] \in {ObjectEnd, Comma}
      /\ doc[after] = Comma => ItemsOf(doc, ObjectEnd, after + 1) # {} \/ ObjectEnd = Comma
  BY <1>1, <1>3, ItemIs
<1> HIDE DEF value, after, end
<1>5. after \in p + 1 .. Len(doc) /\ ~(value > Len(doc))
  BY <1>4
<1>6. IsMember(doc, p)
  BY <1>2, <1>4, <1>5 DEF IsMember, Keyed, value
<1> QED
  BY <1>2, <1>4, <1>5, <1>6, MarksDiffer DEF Good, value, after

-----------------------------------------------------------------------------
(* The edits of a response.                                                *)

GoodMember(doc, p, m) ==
  /\ m.before \in p .. Len(doc) /\ Good(doc, m.before)
  /\ m = MemberAt(doc, m.before, DecodedEnd(doc))

(* ... so that all the members it finds can be read.                       *)
LEMMA WalkOfGood ==
  ASSUME NEW doc, Len(doc) \in Nat, NEW p \in 1 .. Len(doc), Good(doc, p)
  PROVE  \A m \in Walk(doc, p, DecodedEnd(doc)) : GoodMember(doc, p, m)
<1> DEFINE N == Len(doc)
           E == DecodedEnd(doc)
           S == {q \in 1 .. N : Good(doc, q) => \A m \in Walk(doc, q, E) : GoodMember(doc, q, m)}
<1>1. ASSUME NEW q \in 1 .. N, \A r \in q + 1 .. N : r \in S PROVE q \in S
  <2> SUFFICES ASSUME Good(doc, q), NEW m \in Walk(doc, q, E) PROVE GoodMember(doc, q, m)
    OBVIOUS
  <2> DEFINE after == After(doc, q, E)
  <2>1. /\ IsMember(doc, q) /\ after \in q + 1 .. N /\ doc[after] \in {ObjectEnd, Comma}
        /\ doc[after] = Comma => Good(doc, after)
    BY GoodIsMember
  <2>2. Walk(doc, q, E) = {MemberAt(doc, q, E)}
          \union IF At(doc, after) = Comma THEN Walk(doc, after, E) ELSE {}
    BY <2>1, DecodedEnds, WalkUnrolled
  <2>3. At(doc, after) = doc[after]
    BY <2>1, EndIsNone
  <2> HIDE DEF after
  <2>4. CASE m = MemberAt(doc, q, E)
    <3>1. m.before = q
      BY <2>4 DEF MemberAt
    <3> QED
      BY <2>4, <3>1 DEF GoodMember
  <2>5. CASE m # MemberAt(doc, q, E)
    <3>1. doc[after] = Comma /\ m \in Walk(doc, after, E)
      BY <2>2, <2>3, <2>5
    <3>2. GoodMember(doc, after, m)
      BY <1>1, <2>1, <3>1
    <3> QED
      BY <2>1, <3>2 DEF GoodMember
  <2> QED
    BY <2>4, <2>5
<1>2. 1 .. N \subseteq S
  <2> HIDE DEF S
  <2> QED
    BY <1>1, DownInduction
<1> QED
  BY <1>2

(* No member is found in an empty object.                                  *)
LEMMA EmptyWalk ==
  ASSUME NEW doc, Len(doc) \in Nat, NEW End, Ends(doc, End), NEW p \in 1 .. Len(doc),
         At(doc, SkipSpace(doc, p + 1)) = ObjectEnd
  PROVE  Walk(doc, p, End) = {}
<1>1. ~IsMember(doc, p)
  BY MarksDiffer DEF IsMember, KeyAt
<1> QED
  BY <1>1, WalkUnrolled

(* An object that can be read is empty or has members that can be read.    *)
LEMMA ObjectInside ==
  ASSUME NEW doc, Len(doc) \in Nat, NEW i \in 1 .. Len(doc), doc[i] = ObjectStart, ValueOf(doc, i) # {}
  PROVE  /\ SkipSpace(doc, i) = i /\ ValueOf(doc, i) = ObjectsOf(InsideOf(doc, ObjectEnd, i + 1))
         /\ At(doc, SkipSpace(doc, i + 1)) = ObjectEnd \/ Good(doc, i)
<1>1. i \in 1 .. Len(doc) + 1 /\ At(doc, i) = ObjectStart /\ ObjectStart # Space
  BY EndIsNone, MarksDiffer
<1>2. SkipSpace(doc, i) = i
  BY <1>1, SkipSpaceIs
<1>3. ValueOf(doc, i) = ObjectsOf(InsideOf(doc, ObjectEnd, SkipSpace(doc, i) + 1))
  BY <1>1, <1>2, ValueReading
<1>4. InsideOf(doc, ObjectEnd, i + 1) # {}
  BY <1>2, <1>3 DEF ObjectsOf
<1> QED
  BY <1>2, <1>3, <1>4 DEF InsideOf, Good

(* The walk over an object that can be read finds members that can be      *)
(* read.                                                                   *)
LEMMA MembersOfObject ==
  ASSUME NEW doc, Len(doc) \in Nat, NEW i \in 1 .. Len(doc), doc[i] = ObjectStart, ValueOf(doc, i) # {}
  PROVE  \A m \in Walk(doc, i, DecodedEnd(doc)) : GoodMember(doc, i, m)
BY ObjectInside, WalkOfGood, EmptyWalk, DecodedEnds

(* The places of a member that can be read: key, colon, value, end, and    *)
(* the mark after it.                                                      *)
LEMMA MemberParts ==
  ASSUME NEW doc, Len(doc) \in Nat, NEW p \in 1 .. Len(doc), NEW m, GoodMember(doc, p, m)
  PROVE  /\ m.before \in p .. Len(doc) /\ IsMember(doc, m.before)
         /\ m.key \in m.before + 1 .. Len(doc) /\ IsString(doc[m.key])
         /\ SkipSpace(doc, m.key + 1) \in m.key + 1 .. Len(doc) /\ doc[SkipSpace(doc, m.key + 1)] = Colon
         /\ m.value \in m.key + 2 .. Len(doc) /\ doc[m.value] # Space /\ ValueOf(doc, m.value) # {}
         /\ m.end = DecodedEnd(doc)[m.value] /\ m.end \in m.value + 1 .. Len(doc)
         /\ SkipSpace(doc, m.end) \in m.end .. Len(doc)
         /\ doc[SkipSpace(doc, m.end)] \in {ObjectEnd, Comma}
<1> DEFINE q == m.before
           E == DecodedEnd(doc)
<1>1. q \in p .. Len(doc) /\ q \in 1 .. Len(doc) /\ Good(doc, q)
  BY DEF GoodMember
<1>2. /\ m.key = KeyAt(doc, q + 1) /\ m.value = ValuePlace(doc, q) /\ m.end = E[ValuePlace(doc, q)]
      /\ SkipSpace(doc, m.end) = After(doc, q, E)
  BY DEF GoodMember, MemberAt, After
<1> HIDE DEF q
<1>3. /\ IsMember(doc, q) /\ ValueOf(doc, ValuePlace(doc, q)) # {}
      /\ After(doc, q, E) \in q + 1 .. Len(doc) /\ doc[After(doc, q, E)] \in {ObjectEnd, Comma}
  BY <1>1, GoodIsMember
<1>4. /\ E[ValuePlace(doc, q)] \in ValuePlace(doc, q) + 1 .. Len(doc) + 1
      /\ After(doc, q, E) \in E[ValuePlace(doc, q)] .. Len(doc) + 1
  BY <1>1, <1>3, DecodedEnds, AfterMember
<1>5. /\ KeyAt(doc, q + 1) \in q + 1 .. Len(doc) /\ IsString(doc[KeyAt(doc, q + 1)])
      /\ ColonAt(doc, q + 1) \in KeyAt(doc, q + 1) + 1 .. Len(doc) /\ doc[ColonAt(doc, q + 1)] = Colon
      /\ ColonAt(doc, q + 1) = SkipSpace(doc, KeyAt(doc, q + 1) + 1)
      /\ ValuePlace(doc, q) \in ColonAt(doc, q + 1) + 1 .. Len(doc)
      /\ doc[ValuePlace(doc, q)] # Space
  BY <1>1, <1>3, MemberPlaces
<1> HIDE DEF E
<1> QED
  BY <1>1, <1>2, <1>3, <1>4, <1>5 DEF q, E

(* A string ends after itself.                                             *)
LEMMA StringEnds ==
  ASSUME NEW doc, Len(doc) \in Nat, NEW i \in 1 .. Len(doc), IsString(doc[i])
  PROVE  /\ SkipSpace(doc, i) = i /\ DecodedEnd(doc)[i] = i + 1
         /\ ValueOf(doc, i) = {[tree |-> String(Text(doc[i])), next |-> i + 1]}
<1>1. i \in 1 .. Len(doc) + 1 /\ At(doc, i) = doc[i] /\ At(doc, i) # Space
  BY EndIsNone, MarksDiffer
<1>2. SkipSpace(doc, i) = i
  BY <1>1, SkipSpaceIs
<1>3. ValueOf(doc, i) = {[tree |-> String(Text(doc[i])), next |-> i + 1]}
  <2>1. ValueOf(doc, i) = {[tree |-> String(Text(At(doc, SkipSpace(doc, i)))), next |-> SkipSpace(doc, i) + 1]}
    BY <1>1, <1>2, ValueReading
  <2> QED
    BY <1>1, <1>2, <2>1
<1> QED
  BY <1>2, <1>3, EndOfValue

(* The edits of a response: strings followed by a comma or the end of an   *)
(* object, which the model replaces.                                       *)
IsEdit(doc, e) ==
  \E q \in 1 .. Len(doc) :
    /\ IsString(doc[q]) /\ Text(doc[q]) # Model /\ At(doc, SkipSpace(doc, q + 1)) # Colon
    /\ e = Edit(q, q + 1, <<String(Model)>>)

(* ModelEdit replaces one string, which is not a key.                      *)
LEMMA EditsOfMember ==
  ASSUME NEW doc, Len(doc) \in Nat, NEW p \in 1 .. Len(doc), NEW m, GoodMember(doc, p, m), NEW parent,
         NEW e \in ModelEdit(doc, m, parent)
  PROVE  IsEdit(doc, e)
<1>1. /\ IsString(doc[m.value]) /\ Text(doc[m.value]) # Model
      /\ e = Edit(m.value, m.end, <<String(Model)>>)
  BY DEF ModelEdit
<1>2. /\ m.value \in 1 .. Len(doc) /\ m.end = DecodedEnd(doc)[m.value]
      /\ SkipSpace(doc, m.end) \in 1 .. Len(doc) /\ doc[SkipSpace(doc, m.end)] # Colon
  BY MemberParts, MarksDiffer
<1>3. m.end = m.value + 1
  BY <1>1, <1>2, StringEnds
<1>4. At(doc, SkipSpace(doc, m.value + 1)) # Colon
  BY <1>2, <1>3, EndIsNone
<1> QED
  BY <1>1, <1>2, <1>3, <1>4 DEF IsEdit

(* ... and so do all the edits of an object.                               *)
LEMMA EditsOfObject ==
  ASSUME NEW doc, Len(doc) \in Nat, NEW i \in 1 .. Len(doc), ValueOf(doc, i) # {},
         NEW e \in collectResponseModelEdits(doc, i)
  PROVE  IsEdit(doc, e)
<1> DEFINE Inner(m) == Text(doc[m.key]) \in {"response", "message", "interaction"}
<1>1. doc[i] = ObjectStart
  BY DEF collectResponseModelEdits
<1>2. PICK m \in Walk(doc, i, DecodedEnd(doc)) :
        e \in IF Inner(m) THEN InnerEdits(doc, m.value, Text(doc[m.key])) ELSE ModelEdit(doc, m, Outermost)
  BY DEF collectResponseModelEdits
<1> HIDE DEF Inner
<1>3. GoodMember(doc, i, m)
  BY <1>1, MembersOfObject
<1>4. m.value \in 1 .. Len(doc) /\ ValueOf(doc, m.value) # {}
  BY <1>3, MemberParts
<1>5. ASSUME NEW parent, e \in InnerEdits(doc, m.value, parent) PROVE IsEdit(doc, e)
  <2>1. doc[m.value] = ObjectStart
    BY <1>5 DEF InnerEdits
  <2>2. PICK n \in Walk(doc, m.value, DecodedEnd(doc)) : e \in ModelEdit(doc, n, parent)
    BY <1>5 DEF InnerEdits
  <2>3. GoodMember(doc, m.value, n)
    BY <1>4, <2>1, MembersOfObject
  <2> QED
    BY <1>4, <2>2, <2>3, EditsOfMember
<1> QED
  BY <1>2, <1>3, <1>5, EditsOfMember

(* The elements of an array that can be read.                              *)
LEMMA ElementsOfGood ==
  ASSUME NEW doc, Len(doc) \in Nat, NEW p \in 1 .. Len(doc), ItemsOf(doc, ArrayEnd, p + 1) # {}
  PROVE  \A v \in ElementPlaces(doc, p) : v \in p + 1 .. Len(doc) /\ ValueOf(doc, v) # {}
<1> DEFINE N == Len(doc)
           S == {q \in 1 .. N : ItemsOf(doc, ArrayEnd, q + 1) # {} =>
                   \A v \in ElementPlaces(doc, q) : v \in q + 1 .. Len(doc) /\ ValueOf(doc, v) # {}}
<1>1. ASSUME NEW q \in 1 .. N, \A r \in q + 1 .. N : r \in S PROVE q \in S
  <2> SUFFICES ASSUME ItemsOf(doc, ArrayEnd, q + 1) # {}, NEW v \in ElementPlaces(doc, q)
               PROVE  v \in q + 1 .. Len(doc) /\ ValueOf(doc, v) # {}
    OBVIOUS
  <2> DEFINE value == SkipSpace(doc, q + 1)
             after == SkipSpace(doc, DecodedEnd(doc)[value])
  <2>1. /\ value = ItemPlace(doc, ArrayEnd, q + 1) /\ after = AfterItem(doc, ArrayEnd, q + 1)
        /\ DecodedEnd(doc)[value] = ItemEnd(doc, ArrayEnd, q + 1)
    BY MarksDiffer DEF ItemPlace, AfterItem, ItemEnd, From
  <2>2. /\ value \in q + 1 .. N /\ ValueOf(doc, value) # {}
        /\ DecodedEnd(doc)[value] \in value + 1 .. N + 1
        /\ after \in DecodedEnd(doc)[value] .. N
        /\ doc[after] = Comma => ItemsOf(doc, ArrayEnd, after + 1) # {}
    <3> HIDE DEF value, after
    <3>1. PICK t : t \in ItemsOf(doc, ArrayEnd, q + 1)
      OBVIOUS
    <3>2. q + 1 \in 1 .. Len(doc) + 1 /\ ArrayEnd \in Closers /\ ArrayEnd # Comma
      BY MarksDiffer DEF Closers
    <3> QED
      BY <2>1, <3>1, <3>2, ItemIs
  <2>3. ElementPlaces(doc, q) = IF value > Len(doc) \/ At(doc, value) = ArrayEnd THEN {}
          ELSE {value} \union IF At(doc, after) = Comma THEN ElementPlaces(doc, after) ELSE {}
    BY ElementPlacesUnrolled
  <2> HIDE DEF value, after
  <2>4. after \in q + 1 .. N /\ At(doc, after) = doc[after]
    BY <2>2, EndIsNone
  <2>5. CASE v = value
    BY <2>2, <2>5
  <2>6. CASE v # value
    <3>1. doc[after] = Comma /\ v \in ElementPlaces(doc, after)
      BY <2>3, <2>4, <2>6
    <3> QED
      BY <1>1, <2>2, <2>4, <3>1
  <2> QED
    BY <2>5, <2>6
<1>2. 1 .. N \subseteq S
  <2> HIDE DEF S
  <2> QED
    BY <1>1, DownInduction
<1> QED
  BY <1>2

(* An array that can be read is empty or has elements that can be read.    *)
LEMMA ArrayInside ==
  ASSUME NEW doc, Len(doc) \in Nat, NEW i \in 1 .. Len(doc), doc[i] = ArrayStart, ValueOf(doc, i) # {}
  PROVE  /\ SkipSpace(doc, i) = i /\ ValueOf(doc, i) = ArraysOf(InsideOf(doc, ArrayEnd, i + 1))
         /\ At(doc, SkipSpace(doc, i + 1)) = ArrayEnd \/ ItemsOf(doc, ArrayEnd, i + 1) # {}
<1>1. i \in 1 .. Len(doc) + 1 /\ At(doc, i) = ArrayStart /\ ArrayStart # Space
  BY EndIsNone, MarksDiffer
<1>2. SkipSpace(doc, i) = i
  BY <1>1, SkipSpaceIs
<1>3. ValueOf(doc, i) = ArraysOf(InsideOf(doc, ArrayEnd, SkipSpace(doc, i) + 1))
  BY <1>1, <1>2, ValueReading
<1>4. InsideOf(doc, ArrayEnd, i + 1) # {}
  BY <1>2, <1>3 DEF ArraysOf
<1> QED
  BY <1>2, <1>3, <1>4 DEF InsideOf

(* The walk over an array that can be read finds elements that can be      *)
(* read.                                                                   *)
LEMMA ElementsOfArray ==
  ASSUME NEW doc, Len(doc) \in Nat, NEW i \in 1 .. Len(doc), doc[i] = ArrayStart, ValueOf(doc, i) # {}
  PROVE  \A v \in ElementPlaces(doc, i) : v \in i + 1 .. Len(doc) /\ ValueOf(doc, v) # {}
<1>1. CASE At(doc, SkipSpace(doc, i + 1)) = ArrayEnd
  <2>1. ElementPlaces(doc, i) = {}
    BY <1>1, ElementPlacesUnrolled
  <2> QED
    BY <2>1
<1>2. CASE ItemsOf(doc, ArrayEnd, i + 1) # {}
  BY <1>2, ElementsOfGood
<1> QED
  BY <1>1, <1>2, ArrayInside

(* The objects whose models are restored, and the edits.                   *)
Root(doc) == SkipSpace(doc, 1)
RootPlaces(doc) == IF doc[Root(doc)] = ArrayStart THEN ElementPlaces(doc, Root(doc)) ELSE {Root(doc)}
ResponseEdits(doc) == UNION {collectResponseModelEdits(doc, place) : place \in RootPlaces(doc)}

(* A valid text has a value at its first place, and so has each element of *)
(* an array there.                                                         *)
LEMMA RootIsValue ==
  ASSUME NEW doc, Len(doc) \in Nat, Valid(doc)
  PROVE  /\ Root(doc) \in 1 .. Len(doc) /\ ValueOf(doc, Root(doc)) # {}
         /\ \A place \in RootPlaces(doc) : place \in 1 .. Len(doc) /\ ValueOf(doc, place) # {}
<1>1. 1 \in 1 .. Len(doc) + 1
  OBVIOUS
<1>2. ValueOf(doc, 1) # {}
  BY DEF Valid, Decoded, ValueOf
<1>3. Root(doc) \in 1 .. Len(doc) /\ ValueOf(doc, Root(doc)) # {}
  BY <1>1, <1>2, ValueReading, SpaceIsSkipped DEF Root
<1> QED
  BY <1>3, ElementsOfArray DEF RootPlaces

(* Each edit of a response replaces one string, which is not a key.        *)
LEMMA ResponseEditsAre ==
  ASSUME NEW doc, Len(doc) \in Nat, Valid(doc), NEW e \in ResponseEdits(doc)
  PROVE  IsEdit(doc, e)
<1>1. PICK place \in RootPlaces(doc) : e \in collectResponseModelEdits(doc, place)
  BY DEF ResponseEdits
<1> QED
  BY <1>1, RootIsValue, EditsOfObject

-----------------------------------------------------------------------------
(* The restored text.                                                      *)

(* The text with the model at the places of the edits.                     *)
PlacesOf(edits) == {e.start : e \in edits}
Named(doc, places) == [i \in 1 .. Len(doc) |-> IF i \in places THEN String(Model) ELSE doc[i]]

PieceOf(doc, edits, i) ==
  LET Of == {e \in edits : i \in e.start .. e.end - 1}
      edit == CHOOSE e \in Of : TRUE
  IN IF Of = {} THEN <<doc[i]>> ELSE IF edit.start = i THEN edit.replacement ELSE <<>>

(* applyJSONByteEdits joins one piece for every place.                     *)
LEMMA PiecesAre ==
  ASSUME NEW doc, IsText(doc), NEW edits
  PROVE  applyJSONByteEdits(doc, edits) = FlattenSeq([i \in 1 .. Len(doc) |-> PieceOf(doc, edits, i)])
BY TextIs DEF applyJSONByteEdits, PieceOf

(* Edits that replace one string each change the text at these places      *)
(* only.                                                                   *)
LEMMA ApplyEdits ==
  ASSUME NEW doc, IsText(doc), NEW edits, \A e \in edits : IsEdit(doc, e)
  PROVE  applyJSONByteEdits(doc, edits) = Named(doc, PlacesOf(edits))
<1> DEFINE N == Len(doc)
           P == PlacesOf(edits)
           T == {doc[i] : i \in 1 .. N} \union {String(Model)}
           parts == [i \in 1 .. N |-> PieceOf(doc, edits, i)]
           atoms == Named(doc, P)
<1>0. N \in Nat /\ DOMAIN doc = 1 .. N
  BY TextIs
<1>1. ASSUME NEW i \in 1 .. N PROVE PieceOf(doc, edits, i) = <<IF i \in P THEN String(Model) ELSE doc[i]>>
  <2> DEFINE Of == {e \in edits : i \in e.start .. e.end - 1}
             edit == CHOOSE e \in Of : TRUE
  <2>1. ASSUME NEW e \in edits, i \in e.start .. e.end - 1
        PROVE  e.start = i /\ e.replacement = <<String(Model)>>
    <3>1. PICK q \in 1 .. Len(doc) : e = Edit(q, q + 1, <<String(Model)>>)
      BY DEF IsEdit
    <3>2. e.start = q /\ e.end = q + 1 /\ e.replacement = <<String(Model)>>
      BY <3>1 DEF Edit
    <3> QED
      BY <2>1, <3>2
  <2>2. ASSUME NEW e \in edits, e.start = i PROVE i \in e.start .. e.end - 1
    <3>1. PICK q \in 1 .. Len(doc) : e = Edit(q, q + 1, <<String(Model)>>)
      BY DEF IsEdit
    <3>2. e.start = q /\ e.end = q + 1
      BY <3>1 DEF Edit
    <3> QED
      BY <2>2, <3>2
  <2>3. i \in P <=> Of # {}
    <3>1. i \in P <=> \E e \in edits : e.start = i
      BY DEF PlacesOf
    <3> QED
      BY <2>1, <2>2, <3>1
  <2>4. Of # {} => edit \in edits /\ edit.start = i /\ edit.replacement = <<String(Model)>>
    <3>1. Of # {} => edit \in Of
      OBVIOUS
    <3> HIDE DEF edit
    <3> QED
      BY <2>1, <3>1
  <2>5. PieceOf(doc, edits, i) = IF Of = {} THEN <<doc[i]>> ELSE IF edit.start = i THEN edit.replacement ELSE <<>>
    BY DEF PieceOf
  <2> HIDE DEF Of, edit, P
  <2> QED
    BY <2>3, <2>4, <2>5
<1>2. atoms \in [1 .. N -> T] /\ \A i \in 1 .. N : atoms[i] = IF i \in P THEN String(Model) ELSE doc[i]
  BY <1>0 DEF Named
<1> HIDE DEF P, T, atoms
<1>3. \A i \in 1 .. N : PieceOf(doc, edits, i) = <<atoms[i]>> /\ atoms[i] \in T
  BY <1>1, <1>2
<1>4. parts \in [1 .. N -> Seq(T)] /\ \A i \in 1 .. N : parts[i] = <<atoms[i]>>
  <2>1. \A i \in 1 .. N : parts[i] = <<atoms[i]>>
    BY <1>3
  <2>2. \A i \in 1 .. N : PieceOf(doc, edits, i) \in Seq(T)
    <3> TAKE i \in 1 .. N
    <3>1. atoms[i] \in T
      BY <1>3
    <3>2. <<atoms[i]>> \in Seq(T)
      BY <3>1
    <3> QED
      BY <1>3, <3>2
  <2> QED
    BY <2>1, <2>2
<1>5. applyJSONByteEdits(doc, edits) = FlattenSeq(parts)
  BY PiecesAre
<1> HIDE DEF parts, N
<1>6. FlattenSeq(parts) = atoms
  BY <1>0, <1>2, <1>4, FlattenAtoms
<1> QED
  BY <1>5, <1>6 DEF atoms, P

(* The text with the model at some places is a text of the same length.    *)
LEMMA NamedIs ==
  ASSUME NEW doc, IsText(doc), NEW places
  PROVE  /\ IsText(Named(doc, places)) /\ Len(Named(doc, places)) = Len(doc)
         /\ \A i \in 1 .. Len(doc) : Named(doc, places)[i] = IF i \in places THEN String(Model) ELSE doc[i]
         /\ (\A i \in 1 .. Len(doc) : i \notin places) => Named(doc, places) = doc
<1> DEFINE N == Len(doc)
           named == Named(doc, places)
<1>0. N \in Nat /\ DOMAIN doc = 1 .. N
  BY TextIs
<1>1. /\ DOMAIN named = 1 .. N
      /\ \A i \in 1 .. N : named[i] = IF i \in places THEN String(Model) ELSE doc[i]
  BY DEF Named
<1>2. named = [i \in 1 .. N |-> named[i]]
  BY DEF Named
<1> HIDE DEF named
<1>3. named \in [1 .. N -> {named[i] : i \in 1 .. N}]
  BY <1>2
<1>4. named \in Seq({named[i] : i \in 1 .. N}) /\ Len(named) = N
  BY <1>0, <1>3
<1>5. IsText(named)
  BY <1>1, <1>4 DEF IsText
<1>6. ASSUME \A i \in 1 .. N : i \notin places PROVE named = doc
  <2>1. doc = [i \in 1 .. N |-> doc[i]]
    BY <1>0 DEF IsText
  <2> QED
    BY <1>1, <1>2, <1>6, <2>1
<1> QED
  BY <1>1, <1>4, <1>5, <1>6 DEF named

(* What an edit changes and what it leaves.                                *)
LEMMA EditedShape ==
  ASSUME NEW doc, IsText(doc), NEW edits, \A e \in edits : IsEdit(doc, e)
  PROVE  /\ SameShape(doc, Named(doc, PlacesOf(edits)))
         /\ \A i \in 1 .. Len(doc) : At(doc, SkipSpace(doc, i + 1)) = Colon =>
              Named(doc, PlacesOf(edits))[i] = doc[i]
         /\ Named(doc, PlacesOf(edits)) = doc <=> edits = {}
<1> DEFINE b == Named(doc, PlacesOf(edits))
<1>0. Len(doc) \in Nat /\ DOMAIN doc = 1 .. Len(doc)
  BY TextIs
<1>1. Len(b) = Len(doc) /\ \A i \in 1 .. Len(doc) : b[i] = IF i \in PlacesOf(edits) THEN String(Model) ELSE doc[i]
  BY NamedIs
<1> HIDE DEF b
<1>2. ASSUME NEW i \in PlacesOf(edits)
      PROVE  /\ i \in 1 .. Len(doc) /\ IsString(doc[i]) /\ Text(doc[i]) # Model
             /\ At(doc, SkipSpace(doc, i + 1)) # Colon
  <2>1. PICK e \in edits : e.start = i
    BY DEF PlacesOf
  <2>2. PICK q \in 1 .. Len(doc) : /\ IsString(doc[q]) /\ Text(doc[q]) # Model
                                   /\ At(doc, SkipSpace(doc, q + 1)) # Colon
                                   /\ e = Edit(q, q + 1, <<String(Model)>>)
    BY DEF IsEdit
  <2>3. e.start = q
    BY <2>2 DEF Edit
  <2> QED
    BY <2>1, <2>2, <2>3
<1>3. SameShape(doc, b)
  BY <1>0, <1>1, <1>2, StringsAre DEF SameShape
<1>4. \A i \in 1 .. Len(doc) : At(doc, SkipSpace(doc, i + 1)) = Colon => b[i] = doc[i]
  BY <1>1, <1>2
<1>5. ASSUME NEW e \in edits PROVE b # doc
  <2>1. e.start \in PlacesOf(edits)
    BY DEF PlacesOf
  <2> DEFINE i == e.start
  <2>2. i \in 1 .. Len(doc) /\ Text(doc[i]) # Model /\ b[i] = String(Model)
    BY <1>1, <1>2, <2>1
  <2> QED
    BY <2>2, StringsAre
<1>6. edits = {} => b = doc
  BY NamedIs DEF PlacesOf, b
<1> QED
  BY <1>3, <1>4, <1>5, <1>6 DEF b

(* A restored text has nothing left to restore.                            *)
LEMMA NothingLeft ==
  ASSUME NEW doc, IsText(doc), Valid(doc)
  PROVE  ResponseEdits(Named(doc, PlacesOf(ResponseEdits(doc)))) = {}
<1> DEFINE edits == ResponseEdits(doc)
           b == Named(doc, PlacesOf(edits))
<1>0. Len(doc) \in Nat /\ 1 \in 1 .. Len(doc) + 1
  BY TextIs
<1>1. \A e \in edits : IsEdit(doc, e)
  BY <1>0, ResponseEditsAre
<1>2. /\ SameShape(doc, b) /\ Len(b) = Len(doc)
      /\ \A i \in 1 .. Len(doc) : At(doc, SkipSpace(doc, i + 1)) = Colon => b[i] = doc[i]
      /\ \A i \in 1 .. Len(doc) : b[i] = IF i \in PlacesOf(edits) THEN String(Model) ELSE doc[i]
  BY <1>1, EditedShape, NamedIs
<1> HIDE DEF b, edits
<1>3. /\ Root(doc) \in 1 .. Len(doc) /\ ValueOf(doc, Root(doc)) # {}
      /\ \A place \in RootPlaces(doc) : place \in 1 .. Len(doc) /\ ValueOf(doc, place) # {}
  BY <1>0, RootIsValue
<1>4. Root(b) = Root(doc) /\ RootPlaces(b) = RootPlaces(doc)
  <2>1. Root(b) = Root(doc)
    BY <1>0, <1>2, ShapeOfSpace DEF Root
  <2>2. (b[Root(doc)] = ArrayStart) = (doc[Root(doc)] = ArrayStart)
    BY <1>2, <1>3, MarksDiffer DEF SameShape
  <2>3. ElementPlaces(doc, Root(doc)) = ElementPlaces(b, Root(doc))
    BY <1>2, <1>3, ShapeOfWalk
  <2> QED
    BY <2>1, <2>2, <2>3 DEF RootPlaces
<1>5. \A i \in 1 .. Len(doc) :
        /\ Walk(b, i, DecodedEnd(b)) = Walk(doc, i, DecodedEnd(doc))
        /\ (b[i] = ObjectStart) = (doc[i] = ObjectStart)
  <2> TAKE i \in 1 .. Len(doc)
  <2>1. Walk(b, i, DecodedEnd(b)) = Walk(doc, i, DecodedEnd(doc))
    BY <1>2, ShapeOfWalk
  <2>2. (b[i] = ObjectStart) = (doc[i] = ObjectStart)
    BY <1>2, MarksDiffer DEF SameShape
  <2> QED
    BY <2>1, <2>2
<1>6. ASSUME NEW p \in 1 .. Len(doc), NEW m, GoodMember(doc, p, m)
      PROVE  b[m.key] = doc[m.key] /\ m.value \in 1 .. Len(doc) /\ ValueOf(doc, m.value) # {}
  <2>0. /\ m.before \in p .. Len(doc) /\ m.key \in m.before + 1 .. Len(doc)
        /\ SkipSpace(doc, m.key + 1) \in m.key + 1 .. Len(doc)
        /\ doc[SkipSpace(doc, m.key + 1)] = Colon
        /\ m.value \in m.key + 2 .. Len(doc) /\ ValueOf(doc, m.value) # {}
    BY <1>0, <1>6, MemberParts
  <2>1. /\ m.key \in 1 .. Len(doc) /\ SkipSpace(doc, m.key + 1) \in 1 .. Len(doc)
        /\ doc[SkipSpace(doc, m.key + 1)] = Colon
        /\ m.value \in 1 .. Len(doc) /\ ValueOf(doc, m.value) # {}
    BY <1>0, <2>0
  <2>2. At(doc, SkipSpace(doc, m.key + 1)) = Colon
    BY <1>0, <2>1, EndIsNone
  <2> QED
    BY <1>2, <2>1, <2>2
<1>7. ASSUME NEW p \in 1 .. Len(doc), NEW m, GoodMember(doc, p, m), NEW parent,
             ModelEdit(doc, m, parent) \subseteq edits
      PROVE  ModelEdit(b, m, parent) = {}
  <2>1. b[m.key] = doc[m.key] /\ m.value \in 1 .. Len(doc)
    BY <1>6, <1>7
  <2>2. SUFFICES ASSUME Restorable(Text(b[m.key]), parent), IsString(b[m.value]), Text(b[m.value]) # Model
                 PROVE  FALSE
    BY DEF ModelEdit
  <2>3. m.value \notin PlacesOf(edits) /\ b[m.value] = doc[m.value]
    BY <1>2, <2>1, <2>2, StringsAre
  <2>4. Edit(m.value, m.end, <<String(Model)>>) \in edits
    BY <1>7, <2>1, <2>2, <2>3 DEF ModelEdit
  <2>5. Edit(m.value, m.end, <<String(Model)>>).start = m.value
    BY DEF Edit
  <2> QED
    BY <2>3, <2>4, <2>5 DEF PlacesOf
<1>8. ASSUME NEW place \in RootPlaces(doc) PROVE collectResponseModelEdits(b, place) = {}
  <2> DEFINE W == Walk(doc, place, DecodedEnd(doc))
             Inner(m) == Text(doc[m.key]) \in {"response", "message", "interaction"}
             Of(d, m) == IF Inner(m) THEN InnerEdits(d, m.value, Text(doc[m.key])) ELSE ModelEdit(d, m, Outermost)
  <2>1. place \in 1 .. Len(doc) /\ ValueOf(doc, place) # {} /\ collectResponseModelEdits(doc, place) \subseteq edits
    BY <1>3 DEF edits, ResponseEdits
  <2>2. SUFFICES ASSUME doc[place] = ObjectStart PROVE collectResponseModelEdits(b, place) = {}
    BY <1>5, <2>1 DEF collectResponseModelEdits
  <2>3. \A m \in W : GoodMember(doc, place, m)
    BY <1>0, <2>1, <2>2, MembersOfObject
  <2>4. \A m \in W : b[m.key] = doc[m.key]
    BY <1>6, <2>1, <2>3
  <2>5. collectResponseModelEdits(b, place) = UNION {Of(b, m) : m \in W}
    BY <1>5, <2>1, <2>2, <2>4 DEF collectResponseModelEdits
  <2>6. collectResponseModelEdits(doc, place) = UNION {Of(doc, m) : m \in W}
    BY <2>2 DEF collectResponseModelEdits
  <2> HIDE DEF W, Inner
  <2>7. ASSUME NEW m \in W PROVE Of(b, m) = {}
    <3>1. Of(doc, m) \subseteq edits
      <4> HIDE DEF Of
      <4> QED
        BY <2>1, <2>6
    <3>2. CASE ~Inner(m)
      BY <1>7, <2>1, <2>3, <3>1, <3>2
    <3>3. CASE Inner(m)
      <4> DEFINE V == Walk(doc, m.value, DecodedEnd(doc))
                 parent == Text(doc[m.key])
      <4>1. m.value \in 1 .. Len(doc) /\ ValueOf(doc, m.value) # {}
        BY <1>6, <2>1, <2>3
      <4>2. SUFFICES ASSUME doc[m.value] = ObjectStart PROVE InnerEdits(b, m.value, parent) = {}
        BY <1>5, <3>3, <4>1 DEF InnerEdits
      <4>3. \A n \in V : GoodMember(doc, m.value, n)
        BY <1>0, <4>1, <4>2, MembersOfObject
      <4>4. InnerEdits(doc, m.value, parent) = UNION {ModelEdit(doc, n, parent) : n \in V}
        BY <4>2 DEF InnerEdits
      <4>5. InnerEdits(b, m.value, parent) = UNION {ModelEdit(b, n, parent) : n \in V}
        BY <1>5, <4>1, <4>2 DEF InnerEdits
      <4> HIDE DEF V, parent
      <4>6. ASSUME NEW n \in V PROVE ModelEdit(b, n, parent) = {}
        <5>1. ModelEdit(doc, n, parent) \subseteq edits
          BY <3>1, <3>3, <4>4 DEF parent
        <5> QED
          BY <1>7, <4>1, <4>3, <5>1
      <4> QED
        BY <4>5, <4>6
    <3> QED
      BY <3>2, <3>3
  <2> HIDE DEF Of
  <2> QED
    BY <2>5, <2>7
<1> QED
  BY <1>4, <1>8 DEF ResponseEdits, b, edits

(* Restoring: what it says of itself is so, and it does not have to be     *)
(* done twice.                                                             *)
LEMMA RestorationReported ==
  ASSUME NEW doc, IsText(doc), NEW r, r = rewriteResponseModelFields(doc)
  PROVE  /\ r.changed <=> r.text # doc
         /\ rewriteResponseModelFields(r.text) = Unchanged(r.text)
<1> DEFINE edits == ResponseEdits(doc)
<1>0. Len(doc) \in Nat
  BY TextIs
<1>1. \A d : rewriteResponseModelFields(d) =
        IF ~mightContainResponseModelField(d) \/ ~Valid(d) THEN Unchanged(d)
        ELSE [text |-> applyJSONByteEdits(d, ResponseEdits(d)), changed |-> ResponseEdits(d) # {}]
  BY DEF rewriteResponseModelFields, ResponseEdits, RootPlaces, Root
<1>2. CASE ~mightContainResponseModelField(doc) \/ ~Valid(doc)
  <2>1. r = Unchanged(doc)
    BY <1>1, <1>2
  <2>2. r.text = doc /\ r.changed = FALSE
    BY <2>1 DEF Unchanged
  <2> QED
    BY <2>1, <2>2
<1>3. CASE mightContainResponseModelField(doc) /\ Valid(doc)
  <2>1. r = [text |-> applyJSONByteEdits(doc, edits), changed |-> edits # {}]
    BY <1>1, <1>3
  <2>2. \A e \in edits : IsEdit(doc, e)
    BY <1>0, <1>3, ResponseEditsAre
  <2> DEFINE b == Named(doc, PlacesOf(edits))
  <2>3. r.text = b /\ r.changed = (edits # {})
    BY <2>1, <2>2, ApplyEdits
  <2>4. b = doc <=> edits = {}
    BY <2>2, EditedShape
  <2>5. ResponseEdits(b) = {}
    BY <1>3, NothingLeft
  <2>6. IsText(b)
    BY NamedIs
  <2> HIDE DEF b, edits
  <2>7. applyJSONByteEdits(b, {}) = b
    <3>1. applyJSONByteEdits(b, {}) = Named(b, PlacesOf({}))
      BY <2>6, ApplyEdits
    <3> QED
      BY <2>6, <3>1, NamedIs DEF PlacesOf
  <2>8. rewriteResponseModelFields(b) = Unchanged(b)
    BY <1>1, <2>5, <2>7 DEF Unchanged
  <2> QED
    BY <2>3, <2>4, <2>8
<1> QED
  BY <1>2, <1>3

-----------------------------------------------------------------------------
(* Marks nest.                                                             *)

(* Counting marks.                                                         *)
Within(i, j, P) == {k \in i .. j : k \in P}
Openings(doc) == {k \in Int : doc[k] \in {ObjectStart, ArrayStart}}
Closings(doc) == {k \in Int : doc[k] \in {ObjectEnd, ArrayEnd}}

(* Marks can be counted.                                                   *)
LEMMA WithinIsFinite ==
  ASSUME NEW i \in Int, NEW j \in Int, NEW P
  PROVE  IsFiniteSet(Within(i, j, P)) /\ Cardinality(Within(i, j, P)) \in Nat
<1>1. IsFiniteSet(i .. j)
  BY FS_Interval
<1>2. Within(i, j, P) \subseteq i .. j
  BY DEF Within
<1> QED
  BY <1>1, <1>2, FS_Subset, FS_CardinalityType

(* Marks are counted part by part.                                         *)
LEMMA CountSplits ==
  ASSUME NEW i \in Int, NEW j \in Int, NEW k \in Int, i <= k + 1, k <= j, NEW P
  PROVE  Cardinality(Within(i, j, P)) = Cardinality(Within(i, k, P)) + Cardinality(Within(k + 1, j, P))
<1> DEFINE A == Within(i, k, P)
           B == Within(k + 1, j, P)
           C == Within(i, j, P)
<1>1. C = A \union B /\ A \cap B = {}
  BY DEF Within
<1>2. k + 1 \in Int
  OBVIOUS
<1>3. IsFiniteSet(A) /\ IsFiniteSet(B) /\ Cardinality(A) \in Nat /\ Cardinality(B) \in Nat
  BY <1>2, WithinIsFinite
<1> HIDE DEF A, B, C
<1>4. Cardinality(A \union B) = Cardinality(A) + Cardinality(B) - Cardinality(A \cap B)
  BY <1>3, FS_Union
<1>5. Cardinality(A \cap B) = 0
  BY <1>1, FS_EmptySet
<1>6. Cardinality(C) = Cardinality(A) + Cardinality(B)
  BY <1>1, <1>3, <1>4, <1>5
<1> QED
  BY <1>6 DEF A, B, C

(* Nesting is the count of openings less that of closings.                 *)
LEMMA NestingCounts ==
  ASSUME NEW doc, NEW i \in Int, NEW j \in Int
  PROVE  Nesting(doc, i, j) = Cardinality(Within(i, j, Openings(doc))) - Cardinality(Within(i, j, Closings(doc)))
<1>1. Within(i, j, Openings(doc)) = {k \in i .. j : doc[k] \in {ObjectStart, ArrayStart}}
  BY DEF Within, Openings
<1>2. Within(i, j, Closings(doc)) = {k \in i .. j : doc[k] \in {ObjectEnd, ArrayEnd}}
  BY DEF Within, Closings
<1> QED
  BY <1>1, <1>2 DEF Nesting

(* Nesting is counted part by part.                                        *)
LEMMA NestingSplits ==
  ASSUME NEW doc, NEW i \in Int, NEW j \in Int, NEW k \in Int, i <= k + 1, k <= j
  PROVE  /\ Nesting(doc, i, j) \in Int /\ Nesting(doc, i, k) \in Int /\ Nesting(doc, k + 1, j) \in Int
         /\ Nesting(doc, i, j) = Nesting(doc, i, k) + Nesting(doc, k + 1, j)
<1> DEFINE P == Openings(doc)
           Q == Closings(doc)
<1>1. k + 1 \in Int
  OBVIOUS
<1> HIDE DEF P, Q
<1>2. /\ Cardinality(Within(i, j, P)) \in Nat /\ Cardinality(Within(i, k, P)) \in Nat
      /\ Cardinality(Within(k + 1, j, P)) \in Nat
      /\ Cardinality(Within(i, j, P)) = Cardinality(Within(i, k, P)) + Cardinality(Within(k + 1, j, P))
  BY <1>1, CountSplits, WithinIsFinite
<1>3. /\ Cardinality(Within(i, j, Q)) \in Nat /\ Cardinality(Within(i, k, Q)) \in Nat
      /\ Cardinality(Within(k + 1, j, Q)) \in Nat
      /\ Cardinality(Within(i, j, Q)) = Cardinality(Within(i, k, Q)) + Cardinality(Within(k + 1, j, Q))
  BY <1>1, CountSplits, WithinIsFinite
<1>4. /\ Nesting(doc, i, j) = Cardinality(Within(i, j, P)) - Cardinality(Within(i, j, Q))
      /\ Nesting(doc, i, k) = Cardinality(Within(i, k, P)) - Cardinality(Within(i, k, Q))
      /\ Nesting(doc, k + 1, j) = Cardinality(Within(k + 1, j, P)) - Cardinality(Within(k + 1, j, Q))
  BY <1>1, NestingCounts DEF P, Q
<1> QED
  BY <1>2, <1>3, <1>4

(* What a single mark adds to the nesting.                                 *)
LEMMA NestingOfOne ==
  ASSUME NEW doc, NEW i \in Int
  PROVE  /\ Nesting(doc, i, i - 1) = 0
         /\ doc[i] \in {ObjectStart, ArrayStart} => Nesting(doc, i, i) = 1
         /\ doc[i] \in {ObjectEnd, ArrayEnd} => Nesting(doc, i, i) = -1
         /\ doc[i] \notin {ObjectStart, ArrayStart, ObjectEnd, ArrayEnd} => Nesting(doc, i, i) = 0
<1> DEFINE P == Openings(doc)
           Q == Closings(doc)
<1>1. /\ i \in P <=> doc[i] \in {ObjectStart, ArrayStart}
      /\ i \in Q <=> doc[i] \in {ObjectEnd, ArrayEnd}
  BY DEF Openings, Closings
<1>2. ~(i \in P /\ i \in Q)
  BY <1>1, MarksDiffer
<1> HIDE DEF P, Q
<1>3. \A R : /\ Within(i, i - 1, R) = {} /\ (i \in R => Within(i, i, R) = {i})
             /\ (i \notin R => Within(i, i, R) = {})
  BY DEF Within
<1>4. Cardinality({}) = 0 /\ Cardinality({i}) = 1
  BY FS_EmptySet, FS_Singleton
<1>5. /\ Nesting(doc, i, i) = Cardinality(Within(i, i, P)) - Cardinality(Within(i, i, Q))
      /\ Nesting(doc, i, i - 1) = Cardinality(Within(i, i - 1, P)) - Cardinality(Within(i, i - 1, Q))
  <2>1. i - 1 \in Int
    OBVIOUS
  <2> QED
    BY <2>1, NestingCounts DEF P, Q
<1>6. Nesting(doc, i, i - 1) = 0
  BY <1>3, <1>4, <1>5
<1>7. i \in P => Nesting(doc, i, i) = 1
  BY <1>2, <1>3, <1>4, <1>5
<1>8. i \in Q => Nesting(doc, i, i) = -1
  BY <1>2, <1>3, <1>4, <1>5
<1>9. i \notin P /\ i \notin Q => Nesting(doc, i, i) = 0
  BY <1>3, <1>4, <1>5
<1> QED
  BY <1>1, <1>6, <1>7, <1>8, <1>9

(* A part of a text that opens what it closes, and one that closes one     *)
(* thing more; n is the place after it.                                    *)
Level(doc, i, n) ==
  /\ Nesting(doc, i, n - 1) = 0
  /\ \A j \in i - 1 .. n - 1 : Nesting(doc, i, j) >= 0
Closes(doc, i, n) ==
  /\ Nesting(doc, i, n - 1) = -1
  /\ \A j \in i - 1 .. n - 2 : Nesting(doc, i, j) >= 0

(* A level part, and then a level or a closing one.                        *)
LEMMA LevelThen ==
  ASSUME NEW doc, NEW i \in Int, NEW k \in Int, NEW n \in Int, i <= k, k <= n, Level(doc, i, k)
  PROVE  /\ Level(doc, k, n) => Level(doc, i, n)
         /\ k < n /\ Closes(doc, k, n) => Closes(doc, i, n)
<1>1. ASSUME NEW j \in k - 1 .. n - 1
      PROVE  /\ Nesting(doc, i, j) = Nesting(doc, k, j) /\ Nesting(doc, i, j) \in Int
  <2>1. k - 1 \in Int /\ (k - 1) + 1 = k /\ i <= (k - 1) + 1 /\ k - 1 <= j /\ j \in Int
    OBVIOUS
  <2>2. /\ Nesting(doc, i, j) = Nesting(doc, i, k - 1) + Nesting(doc, (k - 1) + 1, j)
        /\ Nesting(doc, (k - 1) + 1, j) \in Int /\ Nesting(doc, i, j) \in Int
    BY <2>1, NestingSplits
  <2> QED
    BY <2>1, <2>2 DEF Level
<1>2. \A j \in i - 1 .. n - 1 : j \in i - 1 .. k - 1 \/ j \in k - 1 .. n - 1
  OBVIOUS
<1>3. n - 1 \in k - 1 .. n - 1 /\ \A j \in i - 1 .. n - 2 : j \in i - 1 .. n - 1
  OBVIOUS
<1>4. ASSUME Level(doc, k, n) PROVE Level(doc, i, n)
  BY <1>1, <1>2, <1>3, <1>4 DEF Level
<1>5. ASSUME k < n, Closes(doc, k, n) PROVE Closes(doc, i, n)
  <2>1. \A j \in i - 1 .. n - 2 : j \in i - 1 .. k - 1 \/ j \in k - 1 .. n - 2
    OBVIOUS
  <2>2. \A j \in i - 1 .. n - 2 : Nesting(doc, i, j) >= 0
    BY <1>1, <1>3, <1>5, <2>1 DEF Level, Closes
  <2>3. Nesting(doc, i, n - 1) = -1
    BY <1>1, <1>3, <1>5 DEF Closes
  <2> QED
    BY <2>2, <2>3 DEF Closes
<1> QED
  BY <1>4, <1>5

(* An atom that opens and closes nothing is level.                         *)
LEMMA LevelOfOne ==
  ASSUME NEW doc, NEW i \in Int, doc[i] \notin {ObjectStart, ArrayStart, ObjectEnd, ArrayEnd}
  PROVE  Level(doc, i, i + 1)
<1>1. \A j \in i - 1 .. (i + 1) - 1 : j = i - 1 \/ j = i
  OBVIOUS
<1>2. (i + 1) - 1 = i
  OBVIOUS
<1> QED
  BY <1>1, <1>2, NestingOfOne DEF Level

(* Nothing at all is level.                                                *)
LEMMA LevelOfNone ==
  ASSUME NEW doc, NEW i \in Int PROVE Level(doc, i, i)
<1>1. \A j \in i - 1 .. i - 1 : j = i - 1
  OBVIOUS
<1> QED
  BY <1>1, NestingOfOne DEF Level

(* Spaces are level.                                                       *)
LEMMA LevelOfSpaces ==
  ASSUME NEW doc, NEW i \in Nat, NEW n \in Nat, i <= n, \A k \in i .. n - 1 : doc[k] = Space
  PROVE  Level(doc, i, n)
<1> DEFINE S == {d \in Nat : i + d > n \/ Level(doc, i, i + d)}
<1>1. 0 \in S
  BY LevelOfNone
<1>2. ASSUME NEW d \in Nat, d \in S PROVE d + 1 \in S
  <2> SUFFICES ASSUME i + d + 1 <= n PROVE Level(doc, i, i + (d + 1))
    OBVIOUS
  <2> DEFINE k == i + d
  <2>1. k \in Int /\ k + 1 \in Int /\ i <= k /\ k <= k + 1 /\ k \in i .. n - 1 /\ i + (d + 1) = k + 1
    OBVIOUS
  <2>2. Level(doc, i, k)
    BY <1>2
  <2> HIDE DEF k
  <2>3. Level(doc, k, k + 1)
    BY <2>1, LevelOfOne, MarksDiffer
  <2>4. Level(doc, i, k + 1)
    BY <2>1, <2>2, <2>3, LevelThen
  <2> QED
    BY <2>1, <2>4
<1>3. n - i \in Nat
  OBVIOUS
<1>4. n - i \in S
  <2> HIDE DEF S
  <2> QED
    BY <1>1, <1>2, <1>3, NatInductionOnSets
<1>5. i + (n - i) = n
  OBVIOUS
<1> QED
  BY <1>3, <1>4, <1>5

(* A closing mark closes.                                                  *)
LEMMA ClosesOfOne ==
  ASSUME NEW doc, NEW i \in Int, doc[i] \in {ObjectEnd, ArrayEnd}
  PROVE  Closes(doc, i, i + 1)
<1>1. \A j \in i - 1 .. (i + 1) - 2 : j = i - 1
  OBVIOUS
<1>2. (i + 1) - 1 = i
  OBVIOUS
<1> QED
  BY <1>1, <1>2, NestingOfOne DEF Closes

(* What is opened and closed is level, and nowhere before its end.         *)
LEMMA OpenedThenClosed ==
  ASSUME NEW doc, NEW i \in Int, NEW n \in Int, i + 1 < n, doc[i] \in {ObjectStart, ArrayStart},
         Closes(doc, i + 1, n)
  PROVE  Level(doc, i, n) /\ \A j \in i .. n - 2 : Nesting(doc, i, j) > 0
<1>1. ASSUME NEW j \in i .. n - 1
      PROVE  Nesting(doc, i, j) = 1 + Nesting(doc, i + 1, j) /\ Nesting(doc, i + 1, j) \in Int
  <2>1. i <= i + 1 /\ i <= j /\ j \in Int
    OBVIOUS
  <2>2. /\ Nesting(doc, i, j) = Nesting(doc, i, i) + Nesting(doc, i + 1, j)
        /\ Nesting(doc, i + 1, j) \in Int
    BY <2>1, NestingSplits
  <2> QED
    BY <2>2, NestingOfOne
<1>2. ASSUME NEW j \in i .. n - 2 PROVE Nesting(doc, i, j) > 0
  <2>1. j \in (i + 1) - 1 .. n - 2 /\ j \in i .. n - 1
    OBVIOUS
  <2>2. Nesting(doc, i + 1, j) >= 0
    BY <2>1 DEF Closes
  <2> QED
    BY <1>1, <2>1, <2>2
<1>3. Nesting(doc, i, n - 1) = 0
  <2>1. n - 1 \in i .. n - 1
    OBVIOUS
  <2> QED
    BY <1>1, <2>1 DEF Closes
<1>4. ASSUME NEW j \in i - 1 .. n - 1 PROVE Nesting(doc, i, j) >= 0
  <2>1. CASE j = i - 1
    BY <2>1, NestingOfOne
  <2>2. CASE j = n - 1
    BY <1>3, <2>2
  <2>3. CASE j # i - 1 /\ j # n - 1
    <3>1. j \in i .. n - 2 /\ j \in i .. n - 1
      BY <2>3
    <3>2. Nesting(doc, i, j) > 0 /\ Nesting(doc, i, j) \in Int
      BY <1>1, <1>2, <3>1
    <3> QED
      BY <3>2
  <2> QED
    BY <2>1, <2>2, <2>3
<1> QED
  BY <1>2, <1>3, <1>4 DEF Level

(* What is read nests.                                                     *)
ReadLevel(doc, what, i, r) == IF what = AValue THEN Level(doc, i, r.next) ELSE Closes(doc, i, r.next)

(* If later readings nest, items and their closing mark close once.        *)
LEMMA ItemsNest ==
  ASSUME NEW doc, Len(doc) \in Nat, NEW i \in 1 .. Len(doc) + 1, NEW close \in Closers,
         \A what \in Whats : \A j \in i .. Len(doc) + 1 :
           \A r \in Reading(doc)[<<what, j>>] : ReadLevel(doc, what, j, r),
         NEW t \in ItemsOf(doc, close, i)
  PROVE  Closes(doc, i, t.next)
<1> DEFINE from == From(doc, close, i)
<1>1. Keyed(doc, close, i) /\ ReadAs(doc, close, i, t)
  BY ItemsReading
<1>2. PICK v \in ValueOf(doc, from) : \E rest \in RestOf(doc, close, v.next) :
        t = [list |-> <<Item(doc, close, i, v.tree)>> \o rest.list, next |-> rest.next]
  BY <1>1 DEF ReadAs
<1>3. PICK rest \in RestOf(doc, close, v.next) : t.next = rest.next
  <2>1. PICK rest \in RestOf(doc, close, v.next) :
          t = [list |-> <<Item(doc, close, i, v.tree)>> \o rest.list, next |-> rest.next]
    BY <1>2
  <2> QED
    BY <2>1
<1>4. AValue \in Whats /\ close \in Whats /\ close # AValue
  BY MarksDiffer DEF Whats, Closers
<1>5. from \in i .. Len(doc) + 1 /\ from \in 1 .. Len(doc) + 1
  BY <1>1, KeyedIs
<1>6. v.next \in from + 1 .. Len(doc) + 1 /\ v.next \in i .. Len(doc) + 1 /\ v.next \in 1 .. Len(doc) + 1
  BY <1>4, <1>5, ReadingUnrolled DEF ValueOf, Bounded
<1>7. rest.next \in v.next + 1 .. Len(doc) + 1
  BY <1>4, <1>6, ReadingUnrolled DEF RestOf, Bounded
<1>8. Level(doc, from, v.next) /\ Closes(doc, v.next, rest.next)
  BY <1>4, <1>5, <1>6 DEF ReadLevel, ValueOf, RestOf
<1>9. Level(doc, i, from)
  <2>1. CASE close # ObjectEnd
    BY <2>1, LevelOfNone DEF From
  <2>2. CASE close = ObjectEnd
    <3> DEFINE key == KeyAt(doc, i)
               colon == ColonAt(doc, i)
    <3>1. /\ key \in i .. Len(doc) /\ colon \in key + 1 .. Len(doc) /\ from = colon + 1
          /\ IsString(doc[key]) /\ doc[colon] = Colon
      BY <1>1, <2>2, KeyedIs DEF From
    <3>2. key + 1 \in 1 .. Len(doc) + 1
      BY <3>1
    <3>3. \A k \in i .. key - 1 : doc[k] = Space
      BY SkipSpaceEnds DEF KeyAt
    <3>4. \A k \in key + 1 .. colon - 1 : doc[k] = Space
      BY <3>2, SkipSpaceEnds DEF KeyAt, ColonAt
    <3> HIDE DEF key, colon, from
    <3>5. /\ i \in Nat /\ key \in Nat /\ key + 1 \in Nat /\ colon \in Nat /\ colon + 1 \in Nat
          /\ i <= key /\ key + 1 <= colon
      BY <3>1
    <3>10. Level(doc, i, key)
      BY <3>3, <3>5, LevelOfSpaces
    <3>11. Level(doc, key + 1, colon)
      BY <3>4, <3>5, LevelOfSpaces
    <3>6. Level(doc, key, key + 1) /\ Level(doc, colon, colon + 1)
      <4>1. /\ doc[key] \notin {ObjectStart, ArrayStart, ObjectEnd, ArrayEnd}
            /\ doc[colon] \notin {ObjectStart, ArrayStart, ObjectEnd, ArrayEnd}
        BY <3>1, MarksDiffer
      <4>2. key \in Int /\ colon \in Int
        BY <3>5
      <4> QED
        BY <4>1, <4>2, LevelOfOne
    <3>7. Level(doc, i, key + 1)
      BY <3>1, <3>5, <3>6, <3>10, LevelThen
    <3>8. Level(doc, i, colon)
      BY <3>1, <3>5, <3>7, <3>11, LevelThen
    <3>9. Level(doc, i, colon + 1)
      BY <3>1, <3>6, <3>8, LevelThen
    <3> QED
      BY <3>1, <3>9
  <2> QED
    BY <2>1, <2>2
<1> HIDE DEF from
<1>12. /\ i \in Int /\ from \in Int /\ v.next \in Int /\ rest.next \in Int
       /\ i <= from /\ from <= v.next /\ v.next < rest.next /\ v.next <= rest.next
       /\ from < rest.next /\ from <= rest.next
  BY <1>5, <1>6, <1>7
<1>10. Closes(doc, from, rest.next)
  BY <1>8, <1>12, LevelThen
<1>11. Closes(doc, i, rest.next)
  BY <1>9, <1>10, <1>12, LevelThen
<1> QED
  BY <1>3, <1>11

(* The marks of every value nest: its end is the first place where the     *)
(* count is level again.                                                   *)
LEMMA ReadingNests ==
  ASSUME NEW doc, Len(doc) \in Nat, NEW what \in Whats, NEW i \in 1 .. Len(doc) + 1
  PROVE  \A r \in Reading(doc)[<<what, i>>] : ReadLevel(doc, what, i, r)
<1> DEFINE N == Len(doc) + 1
           S == {j \in 1 .. N : \A w \in Whats : \A r \in Reading(doc)[<<w, j>>] : ReadLevel(doc, w, j, r)}
<1>1. ASSUME NEW p \in 1 .. N, \A q \in p + 1 .. N : q \in S PROVE p \in S
  <2> DEFINE at == SkipSpace(doc, p)
  <2>1. at \in p .. N /\ at \in Nat /\ at > 0 /\ \A k \in p .. at - 1 : doc[k] = Space
    BY SkipSpaceEnds
  <2>2. Level(doc, p, at)
    BY <2>1, LevelOfSpaces
  <2> HIDE DEF at
  <2>3. ASSUME at <= Len(doc), NEW close \in Closers, NEW t \in ItemsOf(doc, close, at + 1)
        PROVE  Closes(doc, at + 1, t.next) /\ t.next \in at + 2 .. N
    <3>1. at + 1 \in 1 .. Len(doc) + 1
      BY <2>1, <2>3
    <3>2. \A w \in Whats : \A j \in at + 1 .. Len(doc) + 1 :
            \A r \in Reading(doc)[<<w, j>>] : ReadLevel(doc, w, j, r)
      BY <1>1, <2>1, <3>1
    <3>3. Closes(doc, at + 1, t.next)
      BY <2>3, <3>1, <3>2, ItemsNest
    <3>4. Agree(doc, Reading(doc), Reading(doc), at + 1)
      BY <2>1, <2>3, ReadingUnrolled DEF Agree, Whats
    <3>5. Bounded(doc, at + 1, ItemsOf(doc, close, at + 1))
      BY <2>3, <3>1, <3>4, ItemsLocal DEF ItemsOf
    <3>6. t.next \in (at + 1) + 1 .. Len(doc) + 1
      BY <2>3, <3>5 DEF Bounded
    <3> QED
      BY <2>1, <3>3, <3>6
  <2>4. ASSUME NEW close \in Closers, NEW r \in RestOf(doc, close, p) PROVE Closes(doc, p, r.next)
    <3>1. at <= Len(doc) /\ At(doc, at) = doc[at] /\ at \in Int /\ p \in Int /\ p <= at
      <4>1. at \in p .. Len(doc)
        BY <2>4, RestReading DEF at
      <4> QED
        BY <2>1, <4>1, EndIsNone
    <3>2. CASE doc[at] = close
      <4>1. r.next = at + 1
        BY <2>4, <3>1, <3>2, RestReading DEF at
      <4>2. Closes(doc, at, at + 1)
        BY <3>1, <3>2, ClosesOfOne DEF Closers
      <4>3. at + 1 \in Int /\ at <= at + 1 /\ at < at + 1
        BY <3>1
      <4> QED
        BY <2>2, <3>1, <4>1, <4>2, <4>3, LevelThen
    <3>3. CASE doc[at] = Comma
      <4>1. r \in ItemsOf(doc, close, at + 1)
        BY <2>4, <3>1, <3>3, RestReading DEF at
      <4>2. Closes(doc, at + 1, r.next) /\ r.next \in at + 2 .. N
        BY <2>4, <3>1, <4>1, <2>3
      <4>3. at + 1 \in Int /\ at <= at + 1 /\ p <= at + 1 /\ r.next \in Int /\ at + 1 < r.next
        BY <3>1, <4>2
      <4>4. Level(doc, at, at + 1)
        BY <3>1, <3>3, LevelOfOne, MarksDiffer
      <4>5. Level(doc, p, at + 1)
        BY <2>2, <3>1, <4>3, <4>4, LevelThen
      <4> QED
        <5>1. p \in Int /\ at + 1 <= r.next
          BY <3>1, <4>3
        <5>2. Closes(doc, at + 1, r.next)
          BY <4>2
        <5> QED
          BY <4>3, <4>5, <5>1, <5>2, LevelThen
    <3>4. CASE doc[at] \notin {close, Comma}
      BY <2>4, <3>1, <3>4, RestReading DEF at
    <3> QED
      BY <3>2, <3>3, <3>4
  <2>5. ASSUME NEW r \in ValueOf(doc, p) PROVE Level(doc, p, r.next)
    <3>1. at <= Len(doc) /\ At(doc, at) = doc[at] /\ at \in Int /\ p \in Int /\ p <= at
      <4>1. at \in p .. Len(doc)
        BY <2>5, ValueReading DEF at
      <4> QED
        BY <2>1, <4>1, EndIsNone
    <3>2. CASE IsString(doc[at]) \/ doc[at] = Number
      <4>1. r.next = at + 1
        BY <2>5, <3>1, <3>2, ValueReading DEF at
      <4>2. Level(doc, at, at + 1)
        BY <3>1, <3>2, LevelOfOne, MarksDiffer
      <4>3. at + 1 \in Int /\ at <= at + 1
        BY <3>1
      <4> QED
        BY <2>2, <3>1, <4>1, <4>2, <4>3, LevelThen
    <3>3. ASSUME NEW close \in Closers, NEW t \in InsideOf(doc, close, at + 1), t.next = r.next,
                 doc[at] \in {ObjectStart, ArrayStart}
          PROVE  Level(doc, p, r.next)
      <4> DEFINE inside == SkipSpace(doc, at + 1)
      <4>1. Closes(doc, at + 1, t.next) /\ t.next \in at + 2 .. N
        <5>1. CASE At(doc, inside) = close
          <6>1. t.next = inside + 1
            BY <5>1 DEF InsideOf
          <6>2. at + 1 \in 1 .. Len(doc) + 1
            BY <2>1, <3>1
          <6>3. /\ inside \in at + 1 .. Len(doc) + 1 /\ inside \in Nat /\ inside > 0
                /\ \A k \in at + 1 .. inside - 1 : doc[k] = Space
            BY <6>2, SkipSpaceEnds
          <6> HIDE DEF inside
          <6>4. inside <= Len(doc) /\ doc[inside] = close
            BY <5>1, <6>3, EndIsNone DEF Closers
          <6>5. Level(doc, at + 1, inside) /\ Closes(doc, inside, inside + 1)
            BY <2>1, <6>2, <6>3, <6>4, LevelOfSpaces, ClosesOfOne DEF Closers
          <6>6. at + 1 \in Int /\ inside \in Int /\ inside + 1 \in Int /\ at + 1 <= inside
                /\ inside <= inside + 1 /\ inside < inside + 1
            BY <2>1, <6>2, <6>3
          <6>7. Closes(doc, at + 1, inside + 1)
            BY <6>5, <6>6, LevelThen
          <6>8. inside + 1 \in at + 2 .. N
            BY <2>1, <6>3, <6>4
          <6> QED
            BY <6>1, <6>7, <6>8
        <5>2. CASE At(doc, inside) # close
          <6>1. t \in ItemsOf(doc, close, at + 1)
            BY <5>2 DEF InsideOf
          <6> QED
            BY <2>3, <3>1, <6>1
        <5> QED
          BY <5>1, <5>2
      <4>2. r.next \in Int /\ at + 1 < r.next /\ at <= r.next
        BY <3>1, <3>3, <4>1
      <4>3. Level(doc, at, r.next)
        BY <3>1, <3>3, <4>1, <4>2, OpenedThenClosed
      <4> QED
        BY <2>2, <3>1, <4>2, <4>3, LevelThen
    <3>4. CASE doc[at] = ObjectStart
      <4>1. ValueOf(doc, p) = ObjectsOf(InsideOf(doc, ObjectEnd, at + 1)) /\ ObjectEnd \in Closers
        BY <3>1, <3>4, ValueReading DEF at, Closers
      <4>2. PICK t \in InsideOf(doc, ObjectEnd, at + 1) : t.next = r.next
        BY <2>5, <4>1 DEF ObjectsOf
      <4> QED
        BY <3>3, <3>4, <4>1, <4>2
    <3>5. CASE doc[at] = ArrayStart
      <4>1. ValueOf(doc, p) = ArraysOf(InsideOf(doc, ArrayEnd, at + 1)) /\ ArrayEnd \in Closers
        BY <3>1, <3>5, ValueReading DEF at, Closers
      <4>2. PICK t \in InsideOf(doc, ArrayEnd, at + 1) : t.next = r.next
        BY <2>5, <4>1 DEF ArraysOf
      <4> QED
        BY <3>3, <3>5, <4>1, <4>2
    <3>6. CASE ~IsString(doc[at]) /\ doc[at] \notin {Number, ObjectStart, ArrayStart}
      BY <2>5, <3>1, <3>6, ValueReading DEF at
    <3> QED
      BY <3>2, <3>4, <3>5, <3>6
  <2> QED
    BY <2>4, <2>5 DEF ReadLevel, ValueOf, RestOf, Whats, Closers
<1>2. 1 .. N \subseteq S
  <2>1. N \in Nat
    OBVIOUS
  <2> HIDE DEF S, N
  <2> QED
    BY <1>1, <2>1, DownInduction
<1> QED
  BY <1>2

-----------------------------------------------------------------------------
(* Counting marks and decoding find the same ends.                         *)

EndsObject(doc, i, end) ==
  /\ end = Len(doc) + 1 \/ Nesting(doc, i, end - 1) = 0
  /\ \A j \in i .. end - 2 : Nesting(doc, i, j) # 0

(* skipTopLevelModelJSONValue ends after an atom, or where its count of    *)
(* marks is level.                                                         *)
LEMMA SkipEnds ==
  ASSUME NEW doc, Len(doc) \in Nat, NEW i \in 1 .. Len(doc)
  PROVE  /\ SkipValue(doc)[i] \in i + 1 .. Len(doc) + 1
         /\ doc[i] \notin {ObjectStart, ArrayStart} => SkipValue(doc)[i] = i + 1
         /\ doc[i] \in {ObjectStart, ArrayStart} => EndsObject(doc, i, SkipValue(doc)[i])
<1> DEFINE S == {end \in i + 1 .. Len(doc) + 1 : end = Len(doc) + 1 \/ Nesting(doc, i, end - 1) = 0}
<1>1. SkipValue(doc)[i] = IF doc[i] \notin {ObjectStart, ArrayStart} THEN i + 1
                          ELSE CHOOSE end \in i + 1 .. Len(doc) + 1 : EndsObject(doc, i, end)
  BY DEF SkipValue, EndsObject
<1>2. PICK m \in S : \A k \in S : m <= k
  <2>1. Len(doc) + 1 \in S /\ S \subseteq Nat
    OBVIOUS
  <2> HIDE DEF S
  <2> QED
    BY <2>1, LeastNumber
<1>3. ASSUME NEW j \in i .. m - 2 PROVE Nesting(doc, i, j) # 0
  <2>1. j + 1 \in i + 1 .. Len(doc) + 1 /\ (j + 1) - 1 = j /\ ~(m <= j + 1)
    OBVIOUS
  <2>2. j + 1 \notin S
    <3> HIDE DEF S
    <3> QED
      BY <1>2, <2>1
  <2> QED
    BY <2>1, <2>2
<1>4. m \in i + 1 .. Len(doc) + 1 /\ EndsObject(doc, i, m)
  BY <1>3 DEF EndsObject
<1> DEFINE chosen == CHOOSE end \in i + 1 .. Len(doc) + 1 : EndsObject(doc, i, end)
<1>5. chosen \in i + 1 .. Len(doc) + 1 /\ EndsObject(doc, i, chosen)
  BY <1>4
<1> HIDE DEF chosen
<1>6. SkipValue(doc)[i] = IF doc[i] \notin {ObjectStart, ArrayStart} THEN i + 1 ELSE chosen
  BY <1>1 DEF chosen
<1> QED
  BY <1>5, <1>6

(* Counting ends where reading does.                                       *)
LEMMA SkipAgrees ==
  ASSUME NEW doc, Len(doc) \in Nat, NEW i \in 1 .. Len(doc), doc[i] # Space, ValueOf(doc, i) # {}
  PROVE  SkipValue(doc)[i] = DecodedEnd(doc)[i]
<1> DEFINE s == SkipValue(doc)[i]
<1>1. PICK v : v \in ValueOf(doc, i)
  OBVIOUS
<1>2. v.next = DecodedEnd(doc)[i] /\ v.next \in i + 1 .. Len(doc) + 1
  BY <1>1, EndOfValue
<1>3. i \in 1 .. Len(doc) + 1 /\ At(doc, i) = doc[i]
  BY EndIsNone
<1>4. SkipSpace(doc, i) = i
  BY <1>3, SkipSpaceIs
<1>5. CASE doc[i] \notin {ObjectStart, ArrayStart}
  <2>1. IsString(At(doc, SkipSpace(doc, i))) \/ At(doc, SkipSpace(doc, i)) = Number
    BY <1>1, <1>3, <1>4, <1>5, ValueReading
  <2>2. \E t : ValueOf(doc, i) = {[tree |-> t, next |-> SkipSpace(doc, i) + 1]}
    BY <1>3, <2>1, ValueReading
  <2>3. v.next = i + 1
    BY <1>1, <1>4, <2>2
  <2> QED
    BY <1>2, <1>5, <2>3, SkipEnds
<1>6. CASE doc[i] \in {ObjectStart, ArrayStart}
  <2>0. PICK close \in Closers : \E t \in InsideOf(doc, close, i + 1) : t.next = v.next
    <3>1. CASE doc[i] = ObjectStart
      <4>1. ValueOf(doc, i) = ObjectsOf(InsideOf(doc, ObjectEnd, i + 1)) /\ ObjectEnd \in Closers
        BY <3>1, ObjectInside DEF Closers
      <4>2. PICK t \in InsideOf(doc, ObjectEnd, i + 1) : t.next = v.next
        BY <1>1, <4>1 DEF ObjectsOf
      <4> QED
        BY <4>1, <4>2
    <3>2. CASE doc[i] = ArrayStart
      <4>1. ValueOf(doc, i) = ArraysOf(InsideOf(doc, ArrayEnd, i + 1)) /\ ArrayEnd \in Closers
        BY <3>2, ArrayInside DEF Closers
      <4>2. PICK t \in InsideOf(doc, ArrayEnd, i + 1) : t.next = v.next
        BY <1>1, <4>1 DEF ArraysOf
      <4> QED
        BY <4>1, <4>2
    <3> QED
      BY <1>6, <3>1, <3>2
  <2>1. PICK t \in InsideOf(doc, close, i + 1) : t.next = v.next
    BY <2>0
  <2>2. t.next \in i + 2 .. Len(doc) + 1 /\ Closes(doc, i + 1, t.next)
    <3> DEFINE inside == SkipSpace(doc, i + 1)
    <3>1. i + 1 \in 1 .. Len(doc) + 1 /\ close \in Whats /\ close # AValue
      BY MarksDiffer DEF Closers, Whats
    <3>2. /\ inside \in i + 1 .. Len(doc) + 1 /\ inside \in Nat /\ inside > 0
          /\ \A k \in i + 1 .. inside - 1 : doc[k] = Space
      BY <3>1, SkipSpaceEnds
    <3>3. CASE At(doc, inside) = close
      <4>1. t.next = inside + 1
        BY <3>3 DEF InsideOf
      <4> HIDE DEF inside
      <4>2. inside <= Len(doc) /\ doc[inside] = close
        BY <3>2, <3>3, EndIsNone DEF Closers
      <4>3. Level(doc, i + 1, inside)
        <5>1. i + 1 \in Nat /\ i + 1 <= inside
          BY <3>2
        <5> QED
          BY <3>2, <5>1, LevelOfSpaces
      <4>4. Closes(doc, inside, inside + 1)
        BY <3>2, <4>2, ClosesOfOne DEF Closers
      <4>5. i + 1 \in Int /\ inside \in Int /\ inside + 1 \in Int /\ i + 1 <= inside
            /\ inside <= inside + 1 /\ inside < inside + 1
        BY <3>2
      <4>6. Closes(doc, i + 1, inside + 1)
        BY <4>3, <4>4, <4>5, LevelThen
      <4> QED
        BY <3>2, <4>1, <4>2, <4>6
    <3>4. CASE At(doc, inside) # close
      <4>1. t \in ItemsOf(doc, close, i + 1)
        BY <3>4 DEF InsideOf
      <4>2. \A what \in Whats : \A j \in i + 1 .. Len(doc) + 1 :
              \A r \in Reading(doc)[<<what, j>>] : ReadLevel(doc, what, j, r)
        <5>1. \A j \in i + 1 .. Len(doc) + 1 : j \in 1 .. Len(doc) + 1
          OBVIOUS
        <5> QED
          BY <5>1, ReadingNests
      <4>3. Closes(doc, i + 1, t.next)
        BY <3>1, <4>1, <4>2, ItemsNest
      <4>4. Agree(doc, Reading(doc), Reading(doc), i + 1)
        BY ReadingUnrolled DEF Agree, Whats
      <4>5. Bounded(doc, i + 1, ItemsOf(doc, close, i + 1))
        BY <3>1, <4>4, ItemsLocal DEF ItemsOf
      <4>6. t.next \in (i + 1) + 1 .. Len(doc) + 1
        BY <4>1, <4>5 DEF Bounded
      <4> QED
        BY <4>3, <4>6
    <3> QED
      BY <3>3, <3>4
  <2> DEFINE n == v.next
  <2>3. Level(doc, i, n) /\ \A j \in i .. n - 2 : Nesting(doc, i, j) > 0
    <3>1. i \in Int /\ n \in Int /\ i + 1 < n
      BY <1>2, <2>1, <2>2
    <3> QED
      BY <1>6, <2>1, <2>2, <3>1, OpenedThenClosed
  <2>4. s \in i + 1 .. Len(doc) + 1 /\ EndsObject(doc, i, s)
    BY <1>6, SkipEnds
  <2>5. Nesting(doc, i, n - 1) = 0 /\ n \in i + 1 .. Len(doc) + 1
    BY <1>2, <2>3 DEF Level
  <2> HIDE DEF s, n
  <2>6. ~(s < n)
    <3> SUFFICES ASSUME s < n PROVE FALSE
      OBVIOUS
    <3>1. s - 1 \in i .. n - 2 /\ s # Len(doc) + 1
      BY <2>4, <2>5
    <3>2. Nesting(doc, i, s - 1) > 0 /\ Nesting(doc, i, s - 1) = 0
      BY <2>3, <2>4, <3>1 DEF EndsObject
    <3> QED
      BY <3>2
  <2>7. ~(n < s)
    <3> SUFFICES ASSUME n < s PROVE FALSE
      OBVIOUS
    <3>1. n - 1 \in i .. s - 2
      BY <2>4, <2>5
    <3> QED
      BY <2>4, <2>5, <3>1 DEF EndsObject
  <2>8. s = n
    BY <2>4, <2>5, <2>6, <2>7
  <2> QED
    BY <1>2, <2>8 DEF s, n
<1> QED
  BY <1>5, <1>6

(* Both scans walk alike through what can be read.                         *)
LEMMA WalksAgree ==
  ASSUME NEW doc, Len(doc) \in Nat, NEW p \in 1 .. Len(doc), Good(doc, p)
  PROVE  Walk(doc, p, SkipValue(doc)) = Walk(doc, p, DecodedEnd(doc))
<1> DEFINE N == Len(doc)
           E == DecodedEnd(doc)
           F == SkipValue(doc)
           S == {q \in 1 .. N : Good(doc, q) => Walk(doc, q, F) = Walk(doc, q, E)}
<1>0. Ends(doc, E) /\ Ends(doc, F)
  BY DecodedEnds, SkipEnds DEF Ends
<1>1. ASSUME NEW q \in 1 .. N, \A r \in q + 1 .. N : r \in S PROVE q \in S
  <2> SUFFICES ASSUME Good(doc, q) PROVE Walk(doc, q, F) = Walk(doc, q, E)
    OBVIOUS
  <2> DEFINE after == After(doc, q, E)
             value == ValuePlace(doc, q)
  <2>1. /\ IsMember(doc, q) /\ after \in q + 1 .. N
        /\ doc[after] = Comma => Good(doc, after)
        /\ ValueOf(doc, value) # {}
    BY GoodIsMember
  <2>2. value \in 1 .. N /\ doc[value] # Space
    BY <2>1, MemberPlaces
  <2>3. F[value] = E[value]
    BY <2>1, <2>2, SkipAgrees
  <2> HIDE DEF E, F
  <2>4. After(doc, q, F) = after /\ MemberAt(doc, q, F) = MemberAt(doc, q, E)
    BY <2>3 DEF After, MemberAt
  <2>5. At(doc, after) = doc[after]
    BY <2>1, EndIsNone
  <2>6. At(doc, after) = Comma => Walk(doc, after, F) = Walk(doc, after, E)
    BY <1>1, <2>1, <2>5
  <2>7. Walk(doc, q, E) = {MemberAt(doc, q, E)}
          \union IF At(doc, after) = Comma THEN Walk(doc, after, E) ELSE {}
    BY <1>0, <2>1, WalkUnrolled
  <2>8. Walk(doc, q, F) = {MemberAt(doc, q, F)}
          \union IF At(doc, After(doc, q, F)) = Comma THEN Walk(doc, After(doc, q, F), F) ELSE {}
    BY <1>0, <2>1, WalkUnrolled
  <2> QED
    BY <2>4, <2>6, <2>7, <2>8
<1>2. 1 .. N \subseteq S
  <2> HIDE DEF S
  <2> QED
    BY <1>1, DownInduction
<1> QED
  BY <1>2

(* The members are found one after the other.                              *)
Orderly(doc, p, End, m) ==
  /\ m.before \in p .. Len(doc) /\ IsMember(doc, m.before) /\ m = MemberAt(doc, m.before, End)
  /\ m.before = p \/ (doc[m.before] = Comma /\ m.before >= End[ValuePlace(doc, p)])

(* The members come one after the other: each ends before the next begins. *)
LEMMA WalkIsOrderly ==
  ASSUME NEW doc, Len(doc) \in Nat, NEW End, Ends(doc, End), NEW p \in 1 .. Len(doc)
  PROVE  /\ \A m \in Walk(doc, p, End) : Orderly(doc, p, End, m)
         /\ \A m, n \in Walk(doc, p, End) : m.before < n.before => m.end <= n.before
<1> DEFINE N == Len(doc)
           S == {q \in 1 .. N : /\ \A m \in Walk(doc, q, End) : Orderly(doc, q, End, m)
                                /\ \A m, n \in Walk(doc, q, End) : m.before < n.before => m.end <= n.before}
<1>1. ASSUME NEW q \in 1 .. N, \A r \in q + 1 .. N : r \in S PROVE q \in S
  <2> DEFINE after == After(doc, q, End)
             first == MemberAt(doc, q, End)
             end == End[ValuePlace(doc, q)]
  <2>1. CASE ~IsMember(doc, q)
    <3>1. Walk(doc, q, End) = {}
      BY <2>1, WalkUnrolled
    <3> QED
      BY <3>1
  <2>2. CASE IsMember(doc, q)
    <3>1. /\ end \in ValuePlace(doc, q) + 1 .. N + 1
          /\ after \in end .. N + 1 /\ after \in Nat /\ after > q
      BY <2>2, AfterMember
    <3>2. Walk(doc, q, End) = {first} \union IF At(doc, after) = Comma THEN Walk(doc, after, End) ELSE {}
      BY <2>2, WalkUnrolled
    <3>3. first.before = q /\ first.end = end
      BY DEF MemberAt
    <3>4. Orderly(doc, q, End, first)
      BY <2>2, <3>3 DEF Orderly
    <3>5. At(doc, after) = Comma => after \in q + 1 .. N /\ doc[after] = Comma
      BY <3>1, EndIsNone
    <3>6. end \in Nat /\ after >= end
      <4>1. ValuePlace(doc, q) \in Nat
        BY <2>2, MemberPlaces
      <4> QED
        BY <3>1, <4>1
    <3> HIDE DEF after, end, first
    <3>7. ASSUME At(doc, after) = Comma, NEW m \in Walk(doc, after, End)
          PROVE  Orderly(doc, q, End, m) /\ m.before >= end /\ m.before \in Nat /\ m.before > q
      <4>1. after \in S /\ Orderly(doc, after, End, m)
        BY <1>1, <3>5, <3>7
      <4>2. \/ End[ValuePlace(doc, after)] \in Nat /\ End[ValuePlace(doc, after)] >= after
            \/ ~IsMember(doc, after)
        <5>1. ASSUME IsMember(doc, after)
              PROVE  End[ValuePlace(doc, after)] \in Nat /\ End[ValuePlace(doc, after)] >= after
          <6>1. ValuePlace(doc, after) \in Nat /\ ValuePlace(doc, after) >= after
            BY <3>5, <3>7, <5>1, MemberPlaces
          <6>2. End[ValuePlace(doc, after)] \in ValuePlace(doc, after) + 1 .. N + 1
            BY <3>5, <3>7, <5>1, AfterMember
          <6> QED
            BY <3>1, <6>1, <6>2
        <5> QED
          BY <5>1
      <4>3. m.before \in after .. N /\ IsMember(doc, m.before) /\ m = MemberAt(doc, m.before, End)
            /\ (m.before = after \/ doc[m.before] = Comma)
        BY <4>1 DEF Orderly
      <4>4. m.before >= end /\ m.before \in Nat /\ m.before > q /\ m.before \in q .. N
        BY <3>1, <3>6, <4>3
      <4>5. doc[m.before] = Comma
        BY <3>5, <3>7, <4>3
      <4> QED
        BY <4>3, <4>4, <4>5 DEF Orderly, end
    <3>8. ASSUME NEW m \in Walk(doc, q, End) PROVE Orderly(doc, q, End, m)
      BY <3>2, <3>4, <3>7
    <3>9. ASSUME NEW m \in Walk(doc, q, End), NEW n \in Walk(doc, q, End), m.before < n.before
          PROVE  m.end <= n.before
      <4>1. CASE n = first
        <5>1. m # first
          BY <3>3, <3>9, <4>1
        <5>2. m.before > q /\ m.before \in Nat
          BY <3>2, <3>7, <5>1
        <5> QED
          BY <3>3, <3>9, <4>1, <5>2
      <4>2. CASE n # first /\ m = first
        BY <3>2, <3>3, <3>6, <3>7, <4>2
      <4>3. CASE n # first /\ m # first
        <5>1. At(doc, after) = Comma /\ m \in Walk(doc, after, End) /\ n \in Walk(doc, after, End)
          BY <3>2, <4>3
        <5>2. after \in S
          BY <1>1, <3>5, <5>1
        <5> QED
          BY <3>9, <5>1, <5>2
      <4> QED
        BY <4>1, <4>2, <4>3
    <3> QED
      BY <3>8, <3>9
  <2> QED
    BY <2>1, <2>2
<1>2. 1 .. N \subseteq S
  <2> HIDE DEF S
  <2> QED
    BY <1>1, DownInduction
<1> QED
  BY <1>2

-----------------------------------------------------------------------------
(* The canonical text of a request.                                        *)

(* Pieces of at most one atom, one of them empty, join to fewer atoms than *)
(* there are pieces.                                                       *)
LEMMA FlattenShorter ==
  ASSUME NEW T, NEW n \in Nat, NEW parts \in [1 .. n -> Seq(T)],
         \A i \in 1 .. n : Len(parts[i]) <= 1, NEW d \in 1 .. n, Len(parts[d]) = 0
  PROVE  Len(FlattenSeq(parts)) \in Nat /\ Len(FlattenSeq(parts)) < n
<1>1. PICK f : Joins(T, n, parts, f) /\ FlattenSeq(parts) = f[n]
  BY FlattenJoins
<1> DEFINE S == {k \in 0 .. n : /\ Len(f[k]) \in Nat /\ Len(f[k]) <= k /\ (k >= d => Len(f[k]) < k)}
<1>2. 0 \in S
  <2>1. f[0] = <<>> /\ Len(<<>>) = 0
    BY <1>1 DEF Joins
  <2>2. Len(f[0]) = 0 /\ ~(0 >= d)
    BY <2>1
  <2> QED
    BY <2>2
<1>3. ASSUME NEW k \in 0 .. n - 1, k \in S PROVE k + 1 \in S
  <2>1. Extends(T, f[k + 1], f[k], parts[k + 1])
    BY <1>1, JoinsStep
  <2>2. k + 1 \in 1 .. n
    OBVIOUS
  <2>3. Len(parts[k + 1]) \in Nat /\ Len(parts[k + 1]) <= 1 /\ (k + 1 = d => Len(parts[k + 1]) = 0)
    <3>1. parts[k + 1] \in Seq(T)
      BY <2>2
    <3> QED
      BY <2>2, <3>1
  <2>4. Len(f[k + 1]) = Len(f[k]) + Len(parts[k + 1])
    BY <2>1 DEF Extends
  <2>5. Len(f[k]) \in Nat /\ Len(f[k]) <= k /\ (k >= d => Len(f[k]) < k)
    BY <1>3
  <2>6. k + 1 >= d => k >= d \/ k + 1 = d
    OBVIOUS
  <2> HIDE DEF S
  <2>7. /\ Len(f[k + 1]) \in Nat /\ Len(f[k + 1]) <= k + 1 /\ (k + 1 >= d => Len(f[k + 1]) < k + 1)
        /\ k + 1 \in 0 .. n
    <3> DEFINE a == Len(f[k])
               b == Len(parts[k + 1])
    <3>1. a \in Nat /\ a <= k /\ (k >= d => a < k) /\ Len(f[k + 1]) = a + b
      BY <2>4, <2>5
    <3>2. b \in Nat /\ b <= 1 /\ (k + 1 = d => b = 0)
      BY <2>3
    <3> HIDE DEF a, b
    <3>3. a + b \in Nat /\ a + b <= k + 1 /\ k + 1 \in 0 .. n
      BY <3>1, <3>2
    <3>4. k + 1 >= d => a + b < k + 1
      <4>1. k >= d => a + b < k + 1
        BY <3>1, <3>2
      <4>2. k + 1 = d => a + b < k + 1
        BY <3>1, <3>2
      <4> QED
        BY <2>6, <4>1, <4>2
    <3> QED
      BY <3>1, <3>3, <3>4
  <2> QED
    BY <2>7 DEF S
<1>4. n \in S
  <2>1. 0 .. n \subseteq S
    <3> HIDE DEF S
    <3> QED
      BY <1>2, <1>3, UpToInduction
  <2> QED
    BY <2>1
<1> QED
  BY <1>1, <1>4

(* The members called model.                                               *)
LEMMA FirstAndLast ==
  ASSUME NEW N \in Nat, NEW M, M # {}, \A m \in M : m.before \in 1 .. N
  PROVE  /\ FirstOf(M) \in M /\ \A m \in M : FirstOf(M).before <= m.before
         /\ LastOf(M) \in M /\ \A m \in M : LastOf(M).before >= m.before
<1> DEFINE B == {m.before : m \in M}
           C == {N - m.before : m \in M}
<1>1. B \subseteq Nat /\ C \subseteq Nat /\ B # {} /\ C # {}
  OBVIOUS
<1>2. PICK b \in B : \A k \in B : b <= k
  <2> HIDE DEF B
  <2> QED
    BY <1>1, LeastNumber
<1>3. PICK c \in C : \A k \in C : c <= k
  <2> HIDE DEF C
  <2> QED
    BY <1>1, LeastNumber
<1>4. \E m \in M : \A n \in M : m.before <= n.before
  BY <1>2
<1>5. \E m \in M : \A n \in M : m.before >= n.before
  <2>1. PICK m \in M : c = N - m.before
    BY <1>3
  <2>2. ASSUME NEW n \in M PROVE m.before >= n.before
    <3>1. N - n.before \in C
      OBVIOUS
    <3>2. c <= N - n.before
      BY <1>3, <3>1
    <3>3. m.before \in 1 .. N /\ n.before \in 1 .. N
      OBVIOUS
    <3> HIDE DEF C
    <3> QED
      BY <2>1, <3>2, <3>3
  <2> QED
    BY <2>2
<1>6. FirstOf(M) = CHOOSE m \in M : \A n \in M : m.before <= n.before
  BY DEF FirstOf
<1>7. LastOf(M) = CHOOSE m \in M : \A n \in M : m.before >= n.before
  BY DEF LastOf
<1> QED
  BY <1>4, <1>5, <1>6, <1>7

(* What holds of the members called model of an object that can be read.   *)
AreModels(doc, p, M) ==
  /\ M # {} /\ M \subseteq Walk(doc, p, DecodedEnd(doc))
  /\ \A m \in M : GoodMember(doc, p, m)

CanonicalEdits(M) ==
  {Edit(FirstOf(M).value, FirstOf(M).end, <<String(Model)>>)}
    \union {Edit(m.before, m.end, <<>>) : m \in M \ {FirstOf(M)}}

ModelPlaces(doc, M, m) ==
  /\ m.before \in 1 .. Len(doc) /\ m.value \in m.before + 1 .. Len(doc)
  /\ m.key \in m.before + 1 .. m.value - 1
  /\ m.end \in m.value + 1 .. Len(doc)
  /\ m.before \in Nat /\ m.value \in Nat /\ m.end \in Nat /\ m.key \in Nat
  /\ m.before < m.key /\ m.key < m.value /\ m.value < m.end /\ m.end <= Len(doc)
  /\ LastOf(M).before >= m.before
  /\ m # FirstOf(M) => FirstOf(M).before < m.before /\ FirstOf(M).end <= m.before

(* The members called model are apart from each other, and have a first    *)
(* and a last one.                                                         *)
LEMMA ModelsInOrder ==
  ASSUME NEW doc, Len(doc) \in Nat, NEW p \in 1 .. Len(doc), NEW M, AreModels(doc, p, M)
  PROVE  FirstOf(M) \in M /\ LastOf(M) \in M /\ \A m \in M : ModelPlaces(doc, M, m)
<1>1. ASSUME NEW m \in M
      PROVE  /\ m.before \in 1 .. Len(doc) /\ m.value \in m.before + 1 .. Len(doc)
             /\ m.end \in m.value + 1 .. Len(doc) /\ m.key \in m.before + 1 .. m.value - 1
             /\ m = MemberAt(doc, m.before, DecodedEnd(doc))
  <2>1. GoodMember(doc, p, m)
    BY DEF AreModels
  <2>2. /\ m.before \in p .. Len(doc) /\ m.key \in m.before + 1 .. Len(doc)
        /\ m.value \in m.key + 2 .. Len(doc) /\ m.end \in m.value + 1 .. Len(doc)
    BY <2>1, MemberParts
  <2> QED
    BY <2>1, <2>2 DEF GoodMember
<1>2. /\ FirstOf(M) \in M /\ \A m \in M : FirstOf(M).before <= m.before
      /\ LastOf(M) \in M /\ \A m \in M : LastOf(M).before >= m.before
  BY <1>1, FirstAndLast DEF AreModels
<1> DEFINE first == FirstOf(M)
<1>3. ASSUME NEW m \in M, m # first PROVE first.before < m.before /\ first.end <= m.before
  <2>1. first.before # m.before
    BY <1>1, <1>2, <1>3
  <2>2. first.before \in Nat /\ m.before \in Nat
    BY <1>1, <1>2
  <2>3. first.before < m.before
    BY <1>2, <2>1, <2>2
  <2>4. first \in Walk(doc, p, DecodedEnd(doc)) /\ m \in Walk(doc, p, DecodedEnd(doc))
    BY <1>2 DEF AreModels
  <2> HIDE DEF first
  <2> QED
    BY <2>3, <2>4, DecodedEnds, WalkIsOrderly
<1>4. ASSUME NEW m \in M PROVE ModelPlaces(doc, M, m)
  <2>1. /\ m.before \in 1 .. Len(doc) /\ m.value \in m.before + 1 .. Len(doc)
        /\ m.end \in m.value + 1 .. Len(doc) /\ m.key \in m.before + 1 .. m.value - 1
    BY <1>1
  <2>2. LastOf(M).before >= m.before /\ (m # FirstOf(M) => FirstOf(M).before < m.before /\ FirstOf(M).end <= m.before)
    BY <1>2, <1>3
  <2>3. /\ m.before \in Nat /\ m.value \in Nat /\ m.end \in Nat /\ m.key \in Nat
        /\ m.before < m.key /\ m.key < m.value /\ m.value < m.end /\ m.end <= Len(doc)
    BY <2>1
  <2> QED
    BY <2>1, <2>2, <2>3 DEF ModelPlaces
<1> QED
  BY <1>2, <1>4

Removed(M, i) == \E m \in M \ {FirstOf(M)} : i \in m.before .. m.end - 1
Replaced(M, i) == i \in FirstOf(M).value .. FirstOf(M).end - 1

(* What rewriteTopLevelModelCanonical leaves of each place.                *)
LEMMA CanonicalPieces ==
  ASSUME NEW doc, Len(doc) \in Nat, NEW p \in 1 .. Len(doc), NEW M, AreModels(doc, p, M), NEW i \in 1 .. Len(doc)
  PROVE  PieceOf(doc, CanonicalEdits(M), i) =
           IF Replaced(M, i) THEN IF i = FirstOf(M).value THEN <<String(Model)>> ELSE <<>>
           ELSE IF Removed(M, i) THEN <<>> ELSE <<doc[i]>>
<1> DEFINE first == FirstOf(M)
           edits == CanonicalEdits(M)
           Of == {e \in edits : i \in e.start .. e.end - 1}
           edit == CHOOSE e \in Of : TRUE
           main == Edit(first.value, first.end, <<String(Model)>>)
<1>1. PieceOf(doc, edits, i) = IF Of = {} THEN <<doc[i]>> ELSE IF edit.start = i THEN edit.replacement ELSE <<>>
  BY DEF PieceOf
<1>2. \A e : e \in edits <=> e = main \/ \E m \in M \ {first} : e = Edit(m.before, m.end, <<>>)
  BY DEF CanonicalEdits
<1>3. \A a, b, c : Edit(a, b, c).start = a /\ Edit(a, b, c).end = b /\ Edit(a, b, c).replacement = c
  BY DEF Edit
<1>4. \A e : e \in Of <=> e \in edits /\ i \in e.start .. e.end - 1
  OBVIOUS
<1>5. Of # {} => edit \in Of
  OBVIOUS
<1> HIDE DEF edits, Of, edit, main
<1>6. main.start = first.value /\ main.end = first.end /\ main.replacement = <<String(Model)>>
  BY <1>3 DEF main
<1>7. ~(Replaced(M, i) /\ Removed(M, i))
  <2> SUFFICES ASSUME Replaced(M, i), NEW m \in M \ {first}, i \in m.before .. m.end - 1 PROVE FALSE
    BY DEF Removed
  <2>1. /\ first.end <= m.before /\ m.before \in Nat /\ m.end \in Nat
        /\ first.value \in Nat /\ first.end \in Nat
    BY ModelsInOrder DEF ModelPlaces
  <2> HIDE DEF first
  <2> QED
    BY <2>1 DEF Replaced, first
<1>8. CASE Replaced(M, i)
  <2>1. main \in Of
    BY <1>2, <1>4, <1>6, <1>8 DEF Replaced
  <2>2. ASSUME NEW e \in Of PROVE e = main
    <3>1. e \in edits /\ i \in e.start .. e.end - 1
      BY <1>4
    <3>2. CASE e # main
      <4>1. PICK m \in M \ {first} : e = Edit(m.before, m.end, <<>>)
        BY <1>2, <3>1, <3>2
      <4>2. i \in m.before .. m.end - 1
        BY <1>3, <3>1, <4>1
      <4> QED
        BY <1>7, <1>8, <4>2 DEF Removed
    <3> QED
      BY <3>2
  <2>3. edit = main /\ Of # {}
    BY <1>5, <2>1, <2>2
  <2> HIDE DEF first
  <2> QED
    BY <1>1, <1>6, <1>8, <2>3 DEF first, edits
<1>9. CASE ~Replaced(M, i) /\ Removed(M, i)
  <2>1. PICK m \in M \ {first} : i \in m.before .. m.end - 1
    BY <1>9 DEF Removed
  <2>2. Edit(m.before, m.end, <<>>) \in Of
    <3>1. Edit(m.before, m.end, <<>>) \in edits
      BY <1>2
    <3> QED
      BY <1>3, <1>4, <2>1, <3>1
  <2>3. edit \in Of /\ edit # main
    BY <1>4, <1>5, <1>6, <1>9, <2>2 DEF Replaced
  <2>4. PICK n \in M \ {first} : edit = Edit(n.before, n.end, <<>>)
    BY <1>2, <1>4, <2>3
  <2>5. edit.replacement = <<>> /\ Of # {}
    BY <1>3, <2>3, <2>4
  <2> QED
    BY <1>1, <1>9, <2>5 DEF edits
<1>10. CASE ~Replaced(M, i) /\ ~Removed(M, i)
  <2>1. ASSUME NEW e \in Of PROVE FALSE
    <3>1. e \in edits /\ i \in e.start .. e.end - 1
      BY <1>4
    <3>2. e # main
      BY <1>6, <1>10, <3>1 DEF Replaced
    <3>3. PICK m \in M \ {first} : e = Edit(m.before, m.end, <<>>)
      BY <1>2, <3>1, <3>2
    <3>4. i \in m.before .. m.end - 1
      BY <1>3, <3>1, <3>3
    <3> QED
      BY <1>10, <3>4 DEF Removed
  <2> QED
    BY <1>1, <1>10, <2>1 DEF edits
<1> QED
  BY <1>8, <1>9, <1>10 DEF edits

(* ... and the text this makes.                                            *)
LEMMA CanonicalText ==
  ASSUME NEW doc, IsText(doc), NEW p \in 1 .. Len(doc), NEW M, AreModels(doc, p, M),
         NEW T, T = {doc[i] : i \in 1 .. Len(doc)} \union {String(Model)}, NEW parts,
         parts = [i \in 1 .. Len(doc) |-> PieceOf(doc, CanonicalEdits(M), i)]
  PROVE  /\ parts \in [1 .. Len(doc) -> Seq(T)] /\ \A i \in 1 .. Len(doc) : Len(parts[i]) <= 1
         /\ applyJSONByteEdits(doc, CanonicalEdits(M)) = FlattenSeq(parts)
<1>0. Len(doc) \in Nat
  BY TextIs
<1>1. ASSUME NEW i \in 1 .. Len(doc)
      PROVE  PieceOf(doc, CanonicalEdits(M), i) \in Seq(T) /\ Len(PieceOf(doc, CanonicalEdits(M), i)) <= 1
  <2>1. \A x \in T : <<x>> \in Seq(T) /\ Len(<<x>>) = 1
    <3> TAKE x \in T
    <3> QED
      OBVIOUS
  <2>2. <<>> \in Seq(T) /\ Len(<<>>) = 0
    OBVIOUS
  <2>3. doc[i] \in T /\ String(Model) \in T
    OBVIOUS
  <2>4. PieceOf(doc, CanonicalEdits(M), i) \in {<<String(Model)>>, <<>>, <<doc[i]>>}
    BY <1>0, CanonicalPieces
  <2>5. /\ <<String(Model)>> \in Seq(T) /\ Len(<<String(Model)>>) <= 1
        /\ <<doc[i]>> \in Seq(T) /\ Len(<<doc[i]>>) <= 1
    BY <2>1, <2>3
  <2> DEFINE piece == PieceOf(doc, CanonicalEdits(M), i)
  <2>6. piece = <<String(Model)>> \/ piece = <<>> \/ piece = <<doc[i]>>
    BY <2>4
  <2> HIDE DEF piece
  <2>7. CASE piece = <<String(Model)>>
    BY <2>5, <2>7 DEF piece
  <2>8. CASE piece = <<>>
    <3>1. Len(<<>>) <= 1
      BY <2>2
    <3> QED
      BY <2>2, <2>8, <3>1 DEF piece
  <2>9. CASE piece = <<doc[i]>>
    BY <2>5, <2>9 DEF piece
  <2> QED
    BY <2>6, <2>7, <2>8, <2>9
<1>2. \A i \in 1 .. Len(doc) : parts[i] = PieceOf(doc, CanonicalEdits(M), i)
  OBVIOUS
<1>3. applyJSONByteEdits(doc, CanonicalEdits(M)) = FlattenSeq(parts)
  BY PiecesAre
<1>4. parts \in [1 .. Len(doc) -> Seq(T)]
  BY <1>1
<1>5. \A i \in 1 .. Len(doc) : Len(parts[i]) <= 1
  BY <1>1, <1>2
<1> QED
  BY <1>3, <1>4, <1>5

(* Deleting a member changes the text.                                     *)
LEMMA CanonicalIsShorter ==
  ASSUME NEW doc, IsText(doc), NEW p \in 1 .. Len(doc), NEW M, AreModels(doc, p, M), M # {FirstOf(M)}
  PROVE  applyJSONByteEdits(doc, CanonicalEdits(M)) # doc
<1>0. Len(doc) \in Nat
  BY TextIs
<1> DEFINE T == {doc[i] : i \in 1 .. Len(doc)} \union {String(Model)}
           parts == [i \in 1 .. Len(doc) |-> PieceOf(doc, CanonicalEdits(M), i)]
<1>1. /\ parts \in [1 .. Len(doc) -> Seq(T)] /\ \A i \in 1 .. Len(doc) : Len(parts[i]) <= 1
      /\ applyJSONByteEdits(doc, CanonicalEdits(M)) = FlattenSeq(parts)
  <2> HIDE DEF T
  <2> QED
    BY CanonicalText DEF T
<1>2. PICK m \in M : m # FirstOf(M)
  <2>1. FirstOf(M) \in M
    BY <1>0, ModelsInOrder
  <2> QED
    BY <2>1
<1>3. /\ m.before \in 1 .. Len(doc) /\ m.end \in Nat /\ m.before < m.end
      /\ FirstOf(M).end <= m.before /\ FirstOf(M).end \in Nat
  <2>1. ModelPlaces(doc, M, m) /\ ModelPlaces(doc, M, FirstOf(M))
    BY <1>0, ModelsInOrder
  <2>2. FirstOf(M).end \in Nat /\ m.before < m.end
    BY <2>1 DEF ModelPlaces
  <2> QED
    BY <1>2, <2>1, <2>2 DEF ModelPlaces
<1>4. ~Replaced(M, m.before) /\ Removed(M, m.before)
  <2>1. m.before \in m.before .. m.end - 1
    BY <1>3
  <2>2. m.before \notin FirstOf(M).value .. FirstOf(M).end - 1
    BY <1>3
  <2> QED
    BY <1>2, <2>1, <2>2 DEF Replaced, Removed
<1>5. parts[m.before] = <<>>
  BY <1>0, <1>3, <1>4, CanonicalPieces
<1> HIDE DEF parts, T
<1>6. Len(FlattenSeq(parts)) < Len(doc) /\ Len(FlattenSeq(parts)) \in Nat
  BY <1>0, <1>1, <1>3, <1>5, FlattenShorter
<1> QED
  BY <1>0, <1>1, <1>6

-----------------------------------------------------------------------------
(* What is given.                                                          *)

(* In a valid object, counting marks and decoding find the same members    *)
(* called model.                                                           *)
LEMMA ModelsFound ==
  ASSUME NEW doc, IsText(doc), Valid(doc), doc[Root(doc)] = ObjectStart,
         NEW M, M = ModelsOf(doc, Walk(doc, Root(doc), DecodedEnd(doc)))
  PROVE  /\ ModelsOf(doc, Walk(doc, Root(doc), SkipValue(doc))) = M
         /\ Root(doc) \in 1 .. Len(doc) /\ ValueOf(doc, Root(doc)) # {}
         /\ M # {} => AreModels(doc, Root(doc), M)
<1>0. Len(doc) \in Nat
  BY TextIs
<1>1. Root(doc) \in 1 .. Len(doc) /\ ValueOf(doc, Root(doc)) # {}
  BY <1>0, RootIsValue
<1>2. \A m \in Walk(doc, Root(doc), DecodedEnd(doc)) : GoodMember(doc, Root(doc), m)
  BY <1>0, <1>1, MembersOfObject
<1>3. Walk(doc, Root(doc), SkipValue(doc)) = Walk(doc, Root(doc), DecodedEnd(doc))
  <2>1. CASE Good(doc, Root(doc))
    BY <1>0, <1>1, <2>1, WalksAgree
  <2>2. CASE At(doc, SkipSpace(doc, Root(doc) + 1)) = ObjectEnd
    <3>1. Ends(doc, SkipValue(doc)) /\ Ends(doc, DecodedEnd(doc))
      BY <1>0, SkipEnds, DecodedEnds DEF Ends
    <3>2. Walk(doc, Root(doc), SkipValue(doc)) = {}
      BY <1>0, <1>1, <2>2, <3>1, EmptyWalk
    <3>3. Walk(doc, Root(doc), DecodedEnd(doc)) = {}
      BY <1>0, <1>1, <2>2, <3>1, EmptyWalk
    <3> QED
      BY <3>2, <3>3
  <2> QED
    BY <1>0, <1>1, <2>1, <2>2, ObjectInside
<1>4. M \subseteq Walk(doc, Root(doc), DecodedEnd(doc))
  BY DEF ModelsOf
<1> QED
  BY <1>1, <1>2, <1>3, <1>4 DEF AreModels

(* The rewriting of a request, case by case.                               *)
RequestModels(doc) == ModelsOf(doc, Walk(doc, Root(doc), DecodedEnd(doc)))
Rewritable(doc) == Valid(doc) /\ doc[Root(doc)] = ObjectStart /\ RequestModels(doc) # {}

(* rewriteTopLevelModel, case by case.                                     *)
LEMMA RequestCases ==
  ASSUME NEW doc, IsText(doc), NEW M, M = RequestModels(doc), NEW r, r = rewriteTopLevelModel(doc)
  PROVE  /\ ~Rewritable(doc) => r = Unchanged(doc)
         /\ Rewritable(doc) =>
              /\ AreModels(doc, Root(doc), M) /\ Root(doc) \in 1 .. Len(doc)
              /\ M # {FirstOf(M)} =>
                   r = IF ~IsString(doc[LastOf(M).value]) THEN Unchanged(doc)
                       ELSE [text |-> applyJSONByteEdits(doc, CanonicalEdits(M)), changed |-> TRUE]
              /\ M = {FirstOf(M)} =>
                   r = IF ~IsString(doc[FirstOf(M).value]) \/ Text(doc[FirstOf(M).value]) = Model
                       THEN Unchanged(doc)
                       ELSE [text |-> [doc EXCEPT ![FirstOf(M).value] = String(Model)], changed |-> TRUE]
<1> DEFINE K == ModelsOf(doc, Walk(doc, Root(doc), SkipValue(doc)))
<1>1. r = IF ~Valid(doc) \/ doc[Root(doc)] # ObjectStart \/ K = {} THEN Unchanged(doc)
          ELSE IF K # {FirstOf(K)} THEN rewriteTopLevelModelCanonical(doc, M)
          ELSE IF ~IsString(doc[FirstOf(K).value]) \/ Text(doc[FirstOf(K).value]) = Model THEN Unchanged(doc)
          ELSE [text |-> [doc EXCEPT ![FirstOf(K).value] = String(Model)], changed |-> TRUE]
  BY DEF rewriteTopLevelModel, RequestModels, Root
<1>2. Valid(doc) /\ doc[Root(doc)] = ObjectStart =>
        /\ K = M /\ (M # {} => AreModels(doc, Root(doc), M)) /\ Root(doc) \in 1 .. Len(doc)
  BY ModelsFound DEF RequestModels
<1>3. rewriteTopLevelModelCanonical(doc, M) =
        IF ~IsString(doc[LastOf(M).value]) THEN Unchanged(doc)
        ELSE [text |-> applyJSONByteEdits(doc, CanonicalEdits(M)), changed |-> TRUE]
  BY DEF rewriteTopLevelModelCanonical, CanonicalEdits
<1> HIDE DEF K
<1>4. M = RequestModels(doc)
  OBVIOUS
<1>5. CASE ~Rewritable(doc)
  BY <1>1, <1>2, <1>4, <1>5 DEF Rewritable
<1>6. CASE Rewritable(doc)
  BY <1>1, <1>2, <1>3, <1>4, <1>6 DEF Rewritable
<1> QED
  BY <1>5, <1>6

(* A request is said to be changed exactly when it is.                     *)
LEMMA RewritingReported ==
  ASSUME NEW doc, IsText(doc), NEW r, r = rewriteTopLevelModel(doc)
  PROVE  r.changed <=> r.text # doc
<1> DEFINE M == RequestModels(doc)
<1>0. Len(doc) \in Nat /\ DOMAIN doc = 1 .. Len(doc)
  BY TextIs
<1>1. Unchanged(doc).text = doc /\ Unchanged(doc).changed = FALSE
  BY DEF Unchanged
<1> HIDE DEF M
<1>2. CASE ~Rewritable(doc)
  BY <1>1, <1>2, RequestCases DEF M
<1>3. CASE Rewritable(doc) /\ M # {FirstOf(M)}
  <2>1. /\ AreModels(doc, Root(doc), M) /\ Root(doc) \in 1 .. Len(doc)
        /\ r = IF ~IsString(doc[LastOf(M).value]) THEN Unchanged(doc)
               ELSE [text |-> applyJSONByteEdits(doc, CanonicalEdits(M)), changed |-> TRUE]
    BY <1>3, RequestCases DEF M
  <2>2. applyJSONByteEdits(doc, CanonicalEdits(M)) # doc
    BY <1>3, <2>1, CanonicalIsShorter
  <2> QED
    BY <1>1, <2>1, <2>2
<1>4. CASE Rewritable(doc) /\ M = {FirstOf(M)}
  <2> DEFINE place == FirstOf(M).value
  <2>1. /\ AreModels(doc, Root(doc), M) /\ Root(doc) \in 1 .. Len(doc)
        /\ r = IF ~IsString(doc[place]) \/ Text(doc[place]) = Model THEN Unchanged(doc)
               ELSE [text |-> [doc EXCEPT ![place] = String(Model)], changed |-> TRUE]
    BY <1>4, RequestCases DEF M
  <2>2. place \in DOMAIN doc
    <3>1. ModelPlaces(doc, M, FirstOf(M))
      BY <1>0, <2>1, ModelsInOrder
    <3> QED
      BY <1>0, <3>1 DEF ModelPlaces
  <2> HIDE DEF place
  <2>3. Text(doc[place]) # Model => [doc EXCEPT ![place] = String(Model)] # doc
    <3>1. [doc EXCEPT ![place] = String(Model)][place] = String(Model)
      BY <2>2
    <3> QED
      BY <3>1, StringsAre
  <2> QED
    BY <1>1, <2>1, <2>3
<1> QED
  BY <1>2, <1>3, <1>4

Outcome ==
  /\ body \in Bodies /\ pc \in {"body", "request", "response"}
  /\ pc = "body" => out = body /\ changed = FALSE
  /\ pc = "request" =>
       out = rewriteTopLevelModel(body).text /\ changed = rewriteTopLevelModel(body).changed
  /\ pc = "response" =>
       out = rewriteResponseModelFields(body).text /\ changed = rewriteResponseModelFields(body).changed

(* The bodies are texts, and spell their strings either way.               *)
LEMMA BodiesAreTexts ==
  ASSUME NEW doc \in Bodies
  PROVE  /\ IsText(doc)
         /\ \A i \in 1 .. Len(doc) : IsString(doc[i]) => doc[i] \in {String(Text(doc[i])), Spelled(Text(doc[i]))}
<1>1. IsText(doc)
  BY BodiesAssumption DEF IsText
<1>2. DOMAIN doc = 1 .. Len(doc)
  BY <1>1, TextIs
<1> QED
  BY <1>1, <1>2, BodiesAssumption

(* What was given is always the result of its rewriting on the body        *)
(* (rewriteRequestModel and restoreResponseModel, json_model.go).          *)
THEOREM OutcomeInvariant == Spec => []Outcome
<1>1. Init => Outcome
  BY DEF Init, Outcome
<1>2. Outcome /\ [Next]_vars => Outcome'
  <2> SUFFICES ASSUME Outcome, [Next]_vars PROVE Outcome'
    OBVIOUS
  <2>1. CASE UNCHANGED vars
    BY <2>1 DEF Outcome, vars
  <2>2. CASE rewriteRequestModel
    BY <2>2 DEF Outcome, rewriteRequestModel, Give
  <2>3. CASE restoreResponseModel
    BY <2>3 DEF Outcome, restoreResponseModel, Give
  <2> QED
    BY <2>1, <2>2, <2>3 DEF Next
<1> QED
  BY <1>1, <1>2, PTL DEF Spec

(* Both rewritings report a change exactly when there is one, and a        *)
(* restored response needs no second restoration: whatever the bodies are, *)
(* the headers that describe the bytes are dropped when they must be       *)
(* (rewriteTopLevelModel, rewriteResponseModelFields).                     *)
THEOREM JsonChangesAreReported == Spec => []ChangesAreReported
<1>1. ASSUME Outcome PROVE ChangesAreReported
  <2>1. IsText(body)
    BY <1>1, BodiesAreTexts DEF Outcome
  <2>2. CASE pc = "body"
    BY <1>1, <2>2 DEF Outcome, ChangesAreReported
  <2>3. CASE pc = "request"
    <3> DEFINE r == rewriteTopLevelModel(body)
    <3>1. out = r.text /\ changed = r.changed
      BY <1>1, <2>3 DEF Outcome
    <3>2. r.changed <=> r.text # body
      BY <2>1, RewritingReported
    <3> HIDE DEF r
    <3> QED
      BY <2>3, <3>1, <3>2 DEF ChangesAreReported
  <2>4. CASE pc = "response"
    <3> DEFINE r == rewriteResponseModelFields(body)
    <3>1. out = r.text /\ changed = r.changed
      BY <1>1, <2>4 DEF Outcome
    <3>2. /\ r.changed <=> r.text # body
          /\ rewriteResponseModelFields(r.text) = Unchanged(r.text)
      BY <2>1, RestorationReported
    <3> HIDE DEF r
    <3> QED
      BY <3>1, <3>2 DEF ChangesAreReported
  <2> QED
    BY <1>1, <2>2, <2>3, <2>4 DEF Outcome
<1> QED
  BY <1>1, OutcomeInvariant, PTL

-----------------------------------------------------------------------------
(* What is carried over is read alike.                                     *)

(* A part of a text that is in another text as well, d places on.          *)
Carried(a, b, i, n, d) ==
  /\ d \in Int /\ i + d > 0 /\ n + d <= Len(b) + 1
  /\ \A j \in i .. n - 1 : b[j + d] = a[j]

(* A part of a carried part is carried.                                    *)
LEMMA CarriedPart ==
  ASSUME NEW a, NEW b, NEW d, NEW i \in Int, NEW n \in Int, Carried(a, b, i, n, d), Len(b) \in Nat,
         NEW k \in Int, NEW m \in Int, i <= k, m <= n
  PROVE  Carried(a, b, k, m, d)
<1>1. \A j \in k .. m - 1 : j \in i .. n - 1
  OBVIOUS
<1>2. k + d > 0 /\ m + d <= Len(b) + 1
  BY DEF Carried
<1> QED
  BY <1>1, <1>2 DEF Carried

(* Spaces carried along are skipped alike.                                 *)
LEMMA CarriedSpace ==
  ASSUME NEW a, NEW b, Len(a) \in Nat, Len(b) \in Nat, NEW d, NEW i \in 1 .. Len(a) + 1, NEW n \in Int,
         Carried(a, b, i, n, d), SkipSpace(a, i) < n, SkipSpace(a, i) <= Len(a)
  PROVE  /\ SkipSpace(b, i + d) = SkipSpace(a, i) + d /\ i + d \in 1 .. Len(b) + 1
         /\ SkipSpace(a, i) \in i .. Len(a) /\ SkipSpace(a, i) + d \in 1 .. Len(b)
         /\ At(b, SkipSpace(a, i) + d) = At(a, SkipSpace(a, i))
         /\ b[SkipSpace(a, i) + d] = a[SkipSpace(a, i)]
<1> DEFINE s == SkipSpace(a, i)
<1>1. /\ s \in i .. Len(a) /\ At(a, s) # Space /\ At(a, s) = a[s]
      /\ \A k \in i .. s - 1 : a[k] = Space
  BY SkipSpaceEnds, EndIsNone
<1>2. s < n
  OBVIOUS
<1> HIDE DEF s
<1>3. /\ d \in Int /\ s + d \in i + d .. Len(b) + 1 /\ i + d \in 1 .. Len(b) + 1 /\ s + d \in 1 .. Len(b)
      /\ b[s + d] = a[s]
  BY <1>1, <1>2 DEF Carried
<1>4. At(b, s + d) = At(a, s)
  BY <1>1, <1>3, EndIsNone
<1>5. \A k \in i + d .. (s + d) - 1 : At(b, k) = Space
  <2> TAKE k \in i + d .. (s + d) - 1
  <2>0. k \in Int /\ d \in Int /\ s \in Int /\ i + d <= k /\ k <= (s + d) - 1 /\ s < n
    BY <1>1, <1>2, <1>3
  <2>1. k - d \in i .. s - 1 /\ (k - d) + d = k /\ k - d \in i .. n - 1
    BY <2>0
  <2>2. b[(k - d) + d] = a[k - d]
    BY <2>1 DEF Carried
  <2>3. b[k] = Space /\ k \in Nat /\ k > 0 /\ k <= Len(b)
    BY <1>1, <1>3, <2>1, <2>2
  <2> QED
    BY <2>3, EndIsNone
<1>6. SkipSpace(b, i + d) = s + d
  BY <1>1, <1>3, <1>4, <1>5, SkipSpaceIs
<1> QED
  BY <1>1, <1>3, <1>4, <1>6 DEF s

SameRead(what, s, r, d) ==
  s.next = r.next + d /\ IF what = AValue THEN s.tree = r.tree ELSE s.list = r.list

CarriesFrom(a, b, d, i) ==
  \A what \in Whats : \A j \in i .. Len(a) + 1 : \A r \in Reading(a)[<<what, j>>] :
    Carried(a, b, j, r.next, d) => \E s \in Reading(b)[<<what, j + d>>] : SameRead(what, s, r, d)

(* If what follows is read alike where it was carried to, so are items.    *)
LEMMA CarriedItems ==
  ASSUME NEW a, NEW b, Len(a) \in Nat, Len(b) \in Nat, NEW d, NEW i \in 1 .. Len(a) + 1,
         NEW close \in Closers, CarriesFrom(a, b, d, i),
         NEW t \in ItemsOf(a, close, i), Carried(a, b, i, t.next, d)
  PROVE  \E s \in ItemsOf(b, close, i + d) : s.next = t.next + d /\ s.list = t.list
<1> DEFINE from == From(a, close, i)
<1>1. Keyed(a, close, i) /\ ReadAs(a, close, i, t)
  BY ItemsReading
<1>2. PICK v \in ValueOf(a, from) : \E rest \in RestOf(a, close, v.next) :
        t = [list |-> <<Item(a, close, i, v.tree)>> \o rest.list, next |-> rest.next]
  BY <1>1 DEF ReadAs
<1>3. PICK rest \in RestOf(a, close, v.next) :
        t = [list |-> <<Item(a, close, i, v.tree)>> \o rest.list, next |-> rest.next]
  BY <1>2
<1>4. AValue \in Whats /\ close \in Whats /\ close # AValue
  BY MarksDiffer DEF Whats, Closers
<1>5. from \in i .. Len(a) + 1 /\ from \in 1 .. Len(a) + 1
  BY <1>1, KeyedIs
<1>6. v.next \in from + 1 .. Len(a) + 1 /\ v.next \in i .. Len(a) + 1 /\ v.next \in 1 .. Len(a) + 1
  BY <1>4, <1>5, ReadingUnrolled DEF ValueOf, Bounded
<1>7. rest.next \in v.next + 1 .. Len(a) + 1 /\ t.next = rest.next
  BY <1>3, <1>4, <1>6, ReadingUnrolled DEF RestOf, Bounded
<1>8. d \in Int /\ i + d \in 1 .. Len(b) + 1
  BY <1>5, <1>6, <1>7 DEF Carried
<1>9. /\ From(b, close, i + d) = from + d /\ Keyed(b, close, i + d)
      /\ \A tree : Item(b, close, i + d, tree) = Item(a, close, i, tree)
  <2>1. CASE close # ObjectEnd
    BY <2>1 DEF From, Keyed, Item
  <2>2. CASE close = ObjectEnd
    <3> DEFINE key == SkipSpace(a, i)
               colon == SkipSpace(a, key + 1)
    <3>1. /\ key \in i .. Len(a) /\ colon \in key + 1 .. Len(a) /\ from = colon + 1
          /\ IsString(a[key]) /\ a[colon] = Colon
      BY <1>1, <2>2, KeyedIs DEF From, KeyAt, ColonAt
    <3>2. t.next \in Int /\ key < t.next /\ colon < t.next /\ key + 1 \in 1 .. Len(a) + 1
          /\ i \in Int /\ key + 1 \in Int /\ i <= key + 1 /\ t.next <= t.next
      BY <1>6, <1>7, <3>1
    <3>3. Carried(a, b, key + 1, t.next, d)
      <4> HIDE DEF key, colon
      <4> QED
        BY <3>2, CarriedPart
    <3>4. /\ SkipSpace(b, i + d) = key + d /\ At(b, key + d) = At(a, key) /\ b[key + d] = a[key]
      BY <3>1, <3>2, CarriedSpace
    <3> HIDE DEF key
    <3>5. /\ SkipSpace(b, (key + 1) + d) = colon + d /\ At(b, colon + d) = At(a, colon)
      BY <3>1, <3>2, <3>3, CarriedSpace
    <3> HIDE DEF colon
    <3>6. (key + 1) + d = (key + d) + 1 /\ (colon + 1) + d = (colon + d) + 1
      BY <1>8, <3>1
    <3>7. KeyAt(b, i + d) = key + d /\ ColonAt(b, i + d) = colon + d /\ KeyAt(a, i) = key /\ ColonAt(a, i) = colon
      BY <3>4, <3>5, <3>6 DEF KeyAt, ColonAt, key, colon
    <3>8. From(b, close, i + d) = from + d
      BY <2>2, <3>1, <3>6, <3>7 DEF From
    <3>9. Keyed(b, close, i + d)
      BY <1>1, <2>2, <3>4, <3>5, <3>7 DEF Keyed
    <3> QED
      BY <2>2, <3>4, <3>7, <3>8, <3>9 DEF Item
  <2> QED
    BY <2>1, <2>2
<1>10. Carried(a, b, from, v.next, d) /\ Carried(a, b, v.next, rest.next, d)
  <2>1. i \in Int /\ t.next \in Int /\ from \in Int /\ v.next \in Int /\ rest.next \in Int
        /\ i <= from /\ v.next <= t.next /\ i <= v.next /\ rest.next <= t.next
    BY <1>5, <1>6, <1>7
  <2> HIDE DEF from
  <2> QED
    BY <2>1, CarriedPart
<1> HIDE DEF from
<1>11. PICK w \in ValueOf(b, from + d) : w.next = v.next + d /\ w.tree = v.tree
  <2>1. \E s \in Reading(b)[<<AValue, from + d>>] : SameRead(AValue, s, v, d)
    BY <1>4, <1>5, <1>10 DEF ValueOf, CarriesFrom
  <2> QED
    BY <2>1 DEF ValueOf, SameRead
<1>12. PICK rests \in RestOf(b, close, v.next + d) : rests.next = rest.next + d /\ rests.list = rest.list
  <2>1. \E s \in Reading(b)[<<close, v.next + d>>] : SameRead(close, s, rest, d)
    BY <1>4, <1>6, <1>10 DEF RestOf, CarriesFrom
  <2> QED
    BY <1>4, <2>1 DEF RestOf, SameRead
<1> DEFINE s == [list |-> <<Item(b, close, i + d, w.tree)>> \o rests.list, next |-> rests.next]
<1>13. ReadAs(b, close, i + d, s)
  BY <1>9, <1>11, <1>12 DEF ReadAs
<1>14. s \in ItemsOf(b, close, i + d)
  <2> HIDE DEF s
  <2> QED
    BY <1>8, <1>9, <1>13, ItemsReading
<1>15. s.next = t.next + d /\ s.list = t.list
  <2>1. Item(b, close, i + d, w.tree) = Item(a, close, i, v.tree)
    BY <1>9, <1>11
  <2> QED
    BY <1>3, <1>7, <1>12, <2>1
<1> QED
  BY <1>14, <1>15

(* What is read from a part of a text is read from the same part of        *)
(* another text, wherever it stands there.                                 *)
LEMMA CarriedReading ==
  ASSUME NEW a, NEW b, Len(a) \in Nat, Len(b) \in Nat, NEW d, NEW i \in 1 .. Len(a) + 1, NEW what \in Whats,
         NEW r \in Reading(a)[<<what, i>>], Carried(a, b, i, r.next, d)
  PROVE  \E s \in Reading(b)[<<what, i + d>>] : SameRead(what, s, r, d)
<1> DEFINE N == Len(a) + 1
           S == {j \in 1 .. N : \A w \in Whats : \A x \in Reading(a)[<<w, j>>] :
                   Carried(a, b, j, x.next, d) => \E s \in Reading(b)[<<w, j + d>>] : SameRead(w, s, x, d)}
<1>1. ASSUME NEW p \in 1 .. N, \A q \in p + 1 .. N : q \in S PROVE p \in S
  <2> DEFINE at == SkipSpace(a, p)
  <2>1. at \in p .. N /\ at \in Nat /\ at > 0
    BY SkipSpaceEnds
  <2>2. ASSUME NEW n \in Int, Carried(a, b, p, n, d), at < n, at <= Len(a)
        PROVE  /\ SkipSpace(b, p + d) = at + d /\ p + d \in 1 .. Len(b) + 1 /\ At(b, at + d) = At(a, at)
               /\ b[at + d] = a[at] /\ d \in Int
    <3>1. d \in Int
      BY <2>2 DEF Carried
    <3>2. p \in 1 .. Len(a) + 1
      OBVIOUS
    <3> HIDE DEF N
    <3> QED
      BY <2>2, <3>1, <3>2, CarriedSpace DEF at
  <2>3. ASSUME at <= Len(a), NEW close \in Closers, NEW t \in ItemsOf(a, close, at + 1)
        PROVE  /\ t.next \in at + 2 .. N
               /\ Carried(a, b, p, t.next, d) =>
                    \E s \in ItemsOf(b, close, at + d + 1) : s.next = t.next + d /\ s.list = t.list
    <3>1. at + 1 \in 1 .. Len(a) + 1
      BY <2>1, <2>3
    <3> HIDE DEF at
    <3>2. CarriesFrom(a, b, d, at + 1)
      BY <1>1, <2>1, <3>1 DEF CarriesFrom
    <3>4. Agree(a, Reading(a), Reading(a), at + 1)
      BY <2>1, <2>3, ReadingUnrolled DEF Agree, Whats
    <3>5. Bounded(a, at + 1, ItemsOf(a, close, at + 1))
      BY <2>3, <3>1, <3>4, ItemsLocal DEF ItemsOf
    <3>6. t.next \in (at + 1) + 1 .. Len(a) + 1
      BY <2>3, <3>5 DEF Bounded
    <3>7. ASSUME Carried(a, b, p, t.next, d)
          PROVE  \E s \in ItemsOf(b, close, at + d + 1) : s.next = t.next + d /\ s.list = t.list
      <4>1. Carried(a, b, at + 1, t.next, d)
        <5>1. p \in Int /\ t.next \in Int /\ at + 1 \in Int /\ p <= at + 1 /\ t.next <= t.next
          BY <2>1, <3>6
        <5> QED
          BY <3>7, <5>1, CarriedPart
      <4>2. \E s \in ItemsOf(b, close, (at + 1) + d) : s.next = t.next + d /\ s.list = t.list
        BY <2>3, <3>1, <3>2, <4>1, CarriedItems
      <4>3. (at + 1) + d = at + d + 1
        BY <2>1, <4>1 DEF Carried
      <4> QED
        BY <4>2, <4>3
    <3> QED
      BY <2>1, <3>6, <3>7
  <2> HIDE DEF at
  <2>4. ASSUME NEW close \in Closers, NEW x \in RestOf(a, close, p), Carried(a, b, p, x.next, d)
        PROVE  \E s \in RestOf(b, close, p + d) : s.next = x.next + d /\ s.list = x.list
    <3>1. at <= Len(a)
      BY <2>4, RestReading DEF at
    <3>2. CASE At(a, at) = close
      <4>1. x.list = <<>> /\ x.next = at + 1
        BY <2>4, <3>2, RestReading DEF at
      <4>2. /\ SkipSpace(b, p + d) = at + d /\ p + d \in 1 .. Len(b) + 1 /\ At(b, at + d) = close /\ d \in Int
        <5>1. at + 1 \in Int /\ at < at + 1
          BY <2>1
        <5> QED
          BY <2>2, <2>4, <3>1, <3>2, <4>1, <5>1
      <4>3. RestOf(b, close, p + d) = {[list |-> <<>>, next |-> (at + d) + 1]}
        BY <4>2, RestReading
      <4>4. (at + d) + 1 = (at + 1) + d
        BY <2>1, <4>2
      <4>5. [list |-> <<>>, next |-> (at + d) + 1] \in RestOf(b, close, p + d)
        BY <4>3
      <4> QED
        BY <4>1, <4>4, <4>5
    <3>3. CASE At(a, at) = Comma
      <4>1. x \in ItemsOf(a, close, at + 1)
        BY <2>4, <3>3, RestReading DEF at
      <4>2. x.next \in at + 2 .. N
        BY <2>3, <3>1, <4>1
      <4>3. PICK s \in ItemsOf(b, close, at + d + 1) : s.next = x.next + d /\ s.list = x.list
        BY <2>3, <2>4, <3>1, <4>1
      <4>4. /\ SkipSpace(b, p + d) = at + d /\ p + d \in 1 .. Len(b) + 1 /\ At(b, at + d) = Comma
        <5>1. x.next \in Int /\ at < x.next
          BY <2>1, <4>2
        <5> QED
          BY <2>2, <2>4, <3>1, <3>3, <5>1
      <4>5. RestOf(b, close, p + d) = ItemsOf(b, close, (at + d) + 1)
        BY <4>4, RestReading
      <4> QED
        BY <4>3, <4>5
    <3>4. CASE At(a, at) \notin {close, Comma}
      BY <2>4, <3>4, RestReading DEF at
    <3> QED
      BY <3>2, <3>3, <3>4
  <2>5. ASSUME NEW x \in ValueOf(a, p), Carried(a, b, p, x.next, d)
        PROVE  \E s \in ValueOf(b, p + d) : s.next = x.next + d /\ s.tree = x.tree
    <3>1. at <= Len(a) /\ At(a, at) = a[at]
      BY <2>1, <2>5, ValueReading, EndIsNone DEF at
    <3>0. x.next \in Int /\ at < x.next
      <4>1. x \in ValueOf(a, at) /\ at \in 1 .. Len(a) + 1 /\ AValue \in Whats
        BY <2>1, <2>5, SpaceIsSkipped DEF at, Whats
      <4>2. x.next \in at + 1 .. Len(a) + 1
        BY <4>1, ReadingUnrolled DEF ValueOf, Bounded
      <4> QED
        BY <2>1, <4>2
    <3>2. /\ SkipSpace(b, p + d) = at + d /\ p + d \in 1 .. Len(b) + 1 /\ At(b, at + d) = At(a, at) /\ d \in Int
      BY <2>2, <2>5, <3>0, <3>1
    <3>3. CASE IsString(At(a, at))
      <4>1. x = [tree |-> String(Text(At(a, at))), next |-> at + 1]
        BY <2>5, <3>3, ValueReading DEF at
      <4>2. ValueOf(b, p + d) = {[tree |-> String(Text(At(a, at))), next |-> (at + d) + 1]}
        BY <3>2, <3>3, ValueReading
      <4>3. (at + d) + 1 = (at + 1) + d
        BY <2>1, <3>2
      <4>4. [tree |-> String(Text(At(a, at))), next |-> (at + d) + 1] \in ValueOf(b, p + d)
        BY <4>2
      <4> QED
        BY <4>1, <4>3, <4>4
    <3>4. CASE At(a, at) = Number
      <4>1. x = [tree |-> Number, next |-> at + 1]
        BY <2>5, <3>4, ValueReading DEF at
      <4>2. ValueOf(b, p + d) = {[tree |-> Number, next |-> (at + d) + 1]}
        BY <3>2, <3>4, ValueReading
      <4>3. (at + d) + 1 = (at + 1) + d
        BY <2>1, <3>2
      <4>4. [tree |-> Number, next |-> (at + d) + 1] \in ValueOf(b, p + d)
        BY <4>2
      <4> QED
        BY <4>1, <4>3, <4>4
    <3>5. ASSUME NEW close \in Closers, NEW t \in InsideOf(a, close, at + 1), t.next = x.next
          PROVE  \E s \in InsideOf(b, close, at + d + 1) : s.next = t.next + d /\ s.list = t.list
      <4> DEFINE inside == SkipSpace(a, at + 1)
      <4>1. at + 1 \in 1 .. Len(a) + 1
        BY <2>1, <3>1
      <4>2. inside \in at + 1 .. Len(a) + 1 /\ inside \in Nat /\ inside > 0
        BY <4>1, SkipSpaceEnds
      <4>3. (at + 1) + d = at + d + 1 /\ d \in Int /\ p \in Int /\ at + 1 \in Int /\ p <= at + 1 /\ x.next <= x.next
        BY <2>1, <3>0, <3>2
      <4>4. Carried(a, b, at + 1, x.next, d)
        <5> HIDE DEF inside
        <5> QED
          BY <2>5, <3>0, <4>3, CarriedPart
      <4>5. CASE At(a, inside) = close
        <5>1. t = [list |-> <<>>, next |-> inside + 1]
          BY <3>5, <4>5 DEF InsideOf
        <5>2. t.list = <<>> /\ t.next = inside + 1 /\ inside <= Len(a) /\ inside < x.next
          <6> HIDE DEF inside
          <6>1. t.list = <<>> /\ t.next = inside + 1
            BY <5>1
          <6> QED
            BY <3>5, <4>2, <4>5, <6>1, EndIsNone DEF Closers
        <5>3. SkipSpace(b, (at + 1) + d) = inside + d /\ At(b, inside + d) = close
          BY <3>0, <4>1, <4>4, <4>5, <5>2, CarriedSpace
        <5> HIDE DEF inside
        <5>4. InsideOf(b, close, at + d + 1) = {[list |-> <<>>, next |-> (inside + d) + 1]}
          BY <4>3, <5>3 DEF InsideOf
        <5>5. (inside + d) + 1 = (inside + 1) + d
          BY <4>2, <4>3
        <5>6. [list |-> <<>>, next |-> (inside + d) + 1] \in InsideOf(b, close, at + d + 1)
          BY <5>4
        <5> QED
          BY <5>2, <5>5, <5>6
      <4>6. CASE At(a, inside) # close
        <5>1. t \in ItemsOf(a, close, at + 1)
          BY <3>5, <4>6 DEF InsideOf
        <5>2. PICK s \in ItemsOf(b, close, at + d + 1) : s.next = t.next + d /\ s.list = t.list
          BY <2>3, <2>5, <3>1, <3>5, <5>1
        <5>3. At(b, SkipSpace(b, at + d + 1)) # close
          <6> DEFINE place == ItemPlace(a, close, at + 1)
                     after == AfterItem(a, close, at + 1)
          <6>1. Keyed(a, close, at + 1) /\ place \in at + 1 .. Len(a) /\ place >= From(a, close, at + 1)
            BY <3>5, <4>1, <5>1, ItemIs
          <6>2. /\ ItemEnd(a, close, at + 1) \in place + 1 .. Len(a) + 1
                /\ after \in ItemEnd(a, close, at + 1) .. Len(a)
            BY <3>5, <4>1, <5>1, ItemIs
          <6>3. t.next = after + 1 \/ \E rest \in ItemsOf(a, close, after + 1) : t.next = rest.next
            BY <3>5, <4>1, <5>1, ItemIs
          <6>4. \A rest \in ItemsOf(a, close, after + 1) : rest.next > after /\ rest.next \in Nat
            <7>1. after + 1 \in 1 .. Len(a) + 1
              BY <2>1, <6>1, <6>2
            <7> HIDE DEF after
            <7>2. Agree(a, Reading(a), Reading(a), after + 1)
              BY <7>1, ReadingUnrolled DEF Agree, Whats
            <7>3. Bounded(a, after + 1, ItemsOf(a, close, after + 1))
              BY <3>5, <7>1, <7>2, ItemsLocal DEF ItemsOf
            <7> QED
              BY <2>1, <6>1, <6>2, <7>1, <7>3 DEF Bounded, after
          <6>5. inside <= place
            <7>1. CASE close = ObjectEnd
              <8>1. /\ inside = KeyAt(a, at + 1) /\ inside \in at + 1 .. Len(a)
                    /\ ColonAt(a, at + 1) \in inside + 1 .. Len(a)
                BY <3>5, <4>1, <6>1, <7>1, KeyedIs DEF KeyAt
              <8>2. From(a, close, at + 1) = ColonAt(a, at + 1) + 1
                BY <7>1 DEF From
              <8> HIDE DEF inside, place
              <8> QED
                BY <2>1, <6>1, <8>1, <8>2
            <7>2. CASE close # ObjectEnd
              <8>1. From(a, close, at + 1) = at + 1
                BY <7>2 DEF From
              <8>2. inside = place
                BY <8>1 DEF ItemPlace
              <8> QED
                BY <4>2, <8>2
            <7> QED
              BY <7>1, <7>2
          <6> HIDE DEF place, after, inside
          <6>6. t.next > place
            BY <2>1, <6>1, <6>2, <6>3, <6>4
          <6>7. inside < x.next /\ inside <= Len(a)
            BY <2>1, <3>0, <3>5, <4>2, <6>1, <6>5, <6>6
          <6>8. At(b, SkipSpace(b, (at + 1) + d)) = At(a, inside)
            BY <3>0, <4>1, <4>4, <6>7, CarriedSpace DEF inside
          <6> QED
            BY <4>3, <4>6, <6>8
        <5> QED
          BY <5>2, <5>3 DEF InsideOf
      <4> QED
        BY <4>5, <4>6
    <3>6. CASE At(a, at) = ObjectStart
      <4>1. ValueOf(a, p) = ObjectsOf(InsideOf(a, ObjectEnd, at + 1)) /\ ObjectEnd \in Closers
        BY <3>6, ValueReading DEF at, Closers
      <4>2. PICK t \in InsideOf(a, ObjectEnd, at + 1) : x = [tree |-> <<"object", t.list>>, next |-> t.next]
        BY <2>5, <4>1 DEF ObjectsOf
      <4>3. PICK s \in InsideOf(b, ObjectEnd, at + d + 1) : s.next = t.next + d /\ s.list = t.list
        BY <3>5, <4>1, <4>2
      <4>4. ValueOf(b, p + d) = ObjectsOf(InsideOf(b, ObjectEnd, at + d + 1))
        BY <3>2, <3>6, ValueReading
      <4>5. [tree |-> <<"object", s.list>>, next |-> s.next] \in ValueOf(b, p + d)
        BY <4>4 DEF ObjectsOf
      <4> QED
        BY <4>2, <4>3, <4>5
    <3>7. CASE At(a, at) = ArrayStart
      <4>1. ValueOf(a, p) = ArraysOf(InsideOf(a, ArrayEnd, at + 1)) /\ ArrayEnd \in Closers
        BY <3>7, ValueReading DEF at, Closers
      <4>2. PICK t \in InsideOf(a, ArrayEnd, at + 1) : x = [tree |-> <<"array", t.list>>, next |-> t.next]
        BY <2>5, <4>1 DEF ArraysOf
      <4>3. PICK s \in InsideOf(b, ArrayEnd, at + d + 1) : s.next = t.next + d /\ s.list = t.list
        BY <3>5, <4>1, <4>2
      <4>4. ValueOf(b, p + d) = ArraysOf(InsideOf(b, ArrayEnd, at + d + 1))
        BY <3>2, <3>7, ValueReading
      <4>5. [tree |-> <<"array", s.list>>, next |-> s.next] \in ValueOf(b, p + d)
        BY <4>4 DEF ArraysOf
      <4> QED
        BY <4>2, <4>3, <4>5
    <3>8. CASE ~IsString(At(a, at)) /\ At(a, at) \notin {Number, ObjectStart, ArrayStart}
      BY <2>5, <3>8, ValueReading DEF at
    <3> QED
      BY <3>3, <3>4, <3>6, <3>7, <3>8
  <2> QED
    BY <2>4, <2>5, MarksDiffer DEF ValueOf, RestOf, Whats, Closers, SameRead
<1>2. 1 .. N \subseteq S
  <2>1. N \in Nat
    OBVIOUS
  <2> HIDE DEF S, N
  <2> QED
    BY <1>1, <2>1, DownInduction
<1> QED
  BY <1>2

-----------------------------------------------------------------------------
(* Items in a row.                                                         *)

(* The items of an object or array in a row, in two texts of one shape.    *)

(* An item stands for x in the list that is read.                          *)
ItemListed(doc, close, i, x) ==
  \E v \in ValueOf(doc, ItemPlace(doc, close, i)) :
    v.next = ItemEnd(doc, close, i) /\ x = Item(doc, close, i, v.tree)
Listed(doc, close, n, at, list) ==
  list = [k \in 1 .. n |-> list[k]] /\ \A k \in 1 .. n : ItemListed(doc, close, at[k] + 1, list[k])

(* The places of an item between the marks around it.                      *)
ItemPlaces(doc, close, i) ==
  /\ Keyed(doc, close, i) /\ ValueOf(doc, ItemPlace(doc, close, i)) # {}
  /\ ItemPlace(doc, close, i) \in i .. Len(doc)
  /\ ItemEnd(doc, close, i) \in ItemPlace(doc, close, i) + 1 .. Len(doc) + 1
  /\ AfterItem(doc, close, i) \in ItemEnd(doc, close, i) .. Len(doc)

(* The marks before the items: each comes after the item before it.        *)
Linked(doc, close, n, at, k) ==
  /\ at[k] \in 1 .. Len(doc) /\ ItemPlaces(doc, close, at[k] + 1)
  /\ IF k = n THEN doc[AfterItem(doc, close, at[k] + 1)] = close
     ELSE at[k + 1] = AfterItem(doc, close, at[k] + 1) /\ doc[at[k + 1]] = Comma
Chain(doc, close, p, n, at) ==
  /\ n \in Nat /\ n > 0 /\ at \in [1 .. n -> 1 .. Len(doc)] /\ at[1] = p
  /\ \A k \in 1 .. n : Linked(doc, close, n, at, k)

Chained(a, b, close, p, s, t) ==
  \E n : \E at : /\ Chain(a, close, p, n, at)
                 /\ Listed(a, close, n, at, s.list) /\ Listed(b, close, n, at, t.list)
                 /\ s.next = AfterItem(a, close, at[n] + 1) + 1

(* An item, and whether the list ends with it.                             *)
ReadItem(doc, close, i, t, v) ==
  LET after == AfterItem(doc, close, i)
  IN /\ v.next = ItemEnd(doc, close, i)
     /\ \/ /\ doc[after] = close
           /\ Follows(t.list, Item(doc, close, i, v.tree), <<>>) /\ t.next = after + 1
        \/ /\ doc[after] = Comma
           /\ \E rest \in ItemsOf(doc, close, after + 1) :
                Follows(t.list, Item(doc, close, i, v.tree), rest.list) /\ t.next = rest.next

(* An item that can be read, with its places.                              *)
LEMMA ItemIsRead ==
  ASSUME NEW doc, Len(doc) \in Nat, NEW i \in 1 .. Len(doc) + 1, NEW close \in Closers,
         NEW t \in ItemsOf(doc, close, i)
  PROVE  ItemPlaces(doc, close, i) /\ \E v \in ValueOf(doc, ItemPlace(doc, close, i)) : ReadItem(doc, close, i, t, v)
<1>1. PICK v \in ValueOf(doc, ItemPlace(doc, close, i)) :
        /\ v.next = ItemEnd(doc, close, i)
        /\ \/ /\ doc[AfterItem(doc, close, i)] = close
              /\ Follows(t.list, Item(doc, close, i, v.tree), <<>>) /\ t.next = AfterItem(doc, close, i) + 1
           \/ /\ doc[AfterItem(doc, close, i)] = Comma
              /\ \E rest \in ItemsOf(doc, close, AfterItem(doc, close, i) + 1) :
                   Follows(t.list, Item(doc, close, i, v.tree), rest.list) /\ t.next = rest.next
  BY ItemIs
<1>2. ReadItem(doc, close, i, t, v)
  BY <1>1 DEF ReadItem
<1>3. ItemPlaces(doc, close, i)
  BY <1>1, ItemIs DEF ItemPlaces
<1> QED
  BY <1>2, <1>3

(* A list that follows an item, element by element.                        *)
LEMMA FollowsIs ==
  ASSUME NEW n \in Nat, NEW rest, rest = [k \in 1 .. n |-> rest[k]], NEW x, NEW list, Follows(list, x, rest)
  PROVE  /\ list = [k \in 1 .. n + 1 |-> list[k]] /\ list[1] = x
         /\ \A k \in 1 .. n : list[k + 1] = rest[k]
<1> DEFINE T == {rest[k] : k \in 1 .. n} \union {x}
<1>1. rest \in Seq(T) /\ Len(rest) = n
  <2>1. \A k \in 1 .. n : rest[k] \in T
    OBVIOUS
  <2> HIDE DEF T
  <2>2. rest \in [1 .. n -> T]
    BY <2>1
  <2> QED
    BY <2>2
<1>2. <<x>> \in Seq(T) /\ Len(<<x>>) = 1
  OBVIOUS
<1> HIDE DEF T
<1>3. list = <<x>> \o rest
  BY DEF Follows
<1>4. /\ list \in Seq(T) /\ Len(list) = n + 1 /\ list[1] = x
      /\ \A k \in 1 .. n : list[k + 1] = rest[k]
  BY <1>1, <1>2, <1>3
<1>5. list = [k \in 1 .. n + 1 |-> list[k]]
  BY <1>4
<1> QED
  BY <1>4, <1>5

(* Texts of one shape have their items at the same places.                 *)
LEMMA ShapeOfItem ==
  ASSUME NEW a, NEW b, SameShape(a, b), NEW i \in 1 .. Len(a) + 1, NEW close \in Closers, Keyed(a, close, i)
  PROVE  /\ KeyAt(b, i) = KeyAt(a, i) \/ close # ObjectEnd
         /\ From(b, close, i) = From(a, close, i)
         /\ ItemPlace(b, close, i) = ItemPlace(a, close, i)
         /\ ItemEnd(b, close, i) = ItemEnd(a, close, i)
         /\ ItemEnd(a, close, i) \in 1 .. Len(a) + 1 => AfterItem(b, close, i) = AfterItem(a, close, i)
<1>0. Len(a) \in Nat
  BY DEF SameShape
<1>1. From(a, close, i) \in i .. Len(a) + 1
  BY <1>0, KeyedIs
<1>2. From(b, close, i) = From(a, close, i) /\ (KeyAt(b, i) = KeyAt(a, i) \/ close # ObjectEnd)
  <2>1. CASE close = ObjectEnd
    <3>1. KeyAt(a, i) \in i .. Len(a) /\ ColonAt(a, i) = SkipSpace(a, KeyAt(a, i) + 1)
      BY <1>0, <2>1, KeyedIs DEF KeyAt, ColonAt
    <3>2. KeyAt(b, i) = KeyAt(a, i)
      BY ShapeOfSpace DEF KeyAt
    <3>3. KeyAt(a, i) + 1 \in 1 .. Len(a) + 1
      BY <1>0, <3>1
    <3>4. ColonAt(b, i) = SkipSpace(b, KeyAt(b, i) + 1)
      BY DEF ColonAt, KeyAt
    <3>5. ColonAt(b, i) = ColonAt(a, i)
      BY <3>1, <3>2, <3>3, <3>4, ShapeOfSpace
    <3> QED
      BY <2>1, <3>2, <3>5 DEF From
  <2>2. CASE close # ObjectEnd
    BY <2>2 DEF From
  <2> QED
    BY <2>1, <2>2
<1>3. From(a, close, i) \in 1 .. Len(a) + 1
  BY <1>0, <1>1
<1>4. ItemPlace(b, close, i) = ItemPlace(a, close, i)
  BY <1>2, <1>3, ShapeOfSpace DEF ItemPlace
<1>5. ItemEnd(b, close, i) = ItemEnd(a, close, i)
  BY <1>4, ShapeOfEnds DEF ItemEnd
<1>6. ItemEnd(a, close, i) \in 1 .. Len(a) + 1 => AfterItem(b, close, i) = AfterItem(a, close, i)
  BY <1>5, ShapeOfSpace DEF AfterItem
<1> QED
  BY <1>2, <1>4, <1>5, <1>6

(* One item more in front.                                                 *)
Before(p, n, at, more) == more = [k \in 1 .. n + 1 |-> IF k = 1 THEN p ELSE at[k - 1]]

(* An item before a chain makes a longer chain.                            *)
LEMMA ChainGrows ==
  ASSUME NEW doc, Len(doc) \in Nat, NEW close \in Closers, NEW p \in 1 .. Len(doc),
         ItemPlaces(doc, close, p + 1), NEW q, q = AfterItem(doc, close, p + 1), doc[q] = Comma,
         NEW n, NEW at, Chain(doc, close, q, n, at),
         NEW more, Before(p, n, at, more)
  PROVE  Chain(doc, close, p, n + 1, more) /\ more[n + 1] = at[n] /\ \A k \in 1 .. n : more[k + 1] = at[k]
<1>1. n \in Nat /\ n > 0 /\ at \in [1 .. n -> 1 .. Len(doc)] /\ at[1] = q
  BY DEF Chain
<1>2. /\ more \in [1 .. n + 1 -> 1 .. Len(doc)] /\ more[1] = p
      /\ \A k \in 1 .. n : more[k + 1] = at[k]
  BY <1>1 DEF Before
<1>3. n + 1 \in Nat /\ n + 1 > 0 /\ more[n + 1] = at[n]
  BY <1>1, <1>2
<1>4. ASSUME NEW k \in 1 .. n + 1 PROVE Linked(doc, close, n + 1, more, k)
  <2>1. CASE k = 1
    <3>1. more[k] = p /\ more[k + 1] = q /\ k # n + 1
      BY <1>1, <1>2, <2>1
    <3> QED
      BY <3>1 DEF Linked
  <2>2. CASE k # 1
    <3>1. k - 1 \in 1 .. n /\ (k - 1) + 1 = k
      BY <1>1, <2>2
    <3>2. more[k] = at[k - 1] /\ (k = n + 1 <=> k - 1 = n)
      BY <1>1, <1>2, <3>1
    <3>3. k # n + 1 => more[k + 1] = at[(k - 1) + 1]
      <4>1. k # n + 1 => k \in 1 .. n
        BY <1>1, <3>1
      <4> QED
        BY <1>2, <3>1, <4>1
    <3>4. Linked(doc, close, n, at, k - 1)
      BY <3>1 DEF Chain
    <3> QED
      BY <3>2, <3>3, <3>4 DEF Linked
  <2> QED
    BY <2>1, <2>2
<1> QED
  BY <1>2, <1>3, <1>4 DEF Chain

(* ... and its list.                                                       *)
LEMMA ListGrows ==
  ASSUME NEW doc, NEW close, NEW n \in Nat, NEW at, NEW p, NEW more,
         more[1] = p, \A k \in 1 .. n : more[k + 1] = at[k],
         NEW rest, Listed(doc, close, n, at, rest), NEW x, ItemListed(doc, close, p + 1, x),
         NEW list, Follows(list, x, rest)
  PROVE  Listed(doc, close, n + 1, more, list)
<1>1. /\ list = [k \in 1 .. n + 1 |-> list[k]] /\ list[1] = x
      /\ \A k \in 1 .. n : list[k + 1] = rest[k]
  BY FollowsIs DEF Listed
<1>2. ASSUME NEW k \in 1 .. n + 1 PROVE ItemListed(doc, close, more[k] + 1, list[k])
  <2>1. CASE k = 1
    BY <1>1, <2>1
  <2>2. CASE k # 1
    <3>1. k - 1 \in 1 .. n /\ (k - 1) + 1 = k
      BY <2>2
    <3>2. more[k] = at[k - 1] /\ list[k] = rest[k - 1]
      BY <1>1, <3>1
    <3> QED
      BY <3>1, <3>2 DEF Listed
  <2> QED
    BY <2>1, <2>2
<1> QED
  BY <1>1, <1>2 DEF Listed

(* Two texts of one shape list their items at the same places.             *)
LEMMA ItemsInARow ==
  ASSUME NEW a, NEW b, SameShape(a, b), NEW close \in Closers, NEW p \in 1 .. Len(a),
         NEW s \in ItemsOf(a, close, p + 1), NEW t \in ItemsOf(b, close, p + 1)
  PROVE  Chained(a, b, close, p, s, t)
<1> DEFINE N == Len(a)
           S == {q \in 1 .. N : \A u \in ItemsOf(a, close, q + 1) : \A v \in ItemsOf(b, close, q + 1) :
                   Chained(a, b, close, q, u, v)}
<1>0. N \in Nat /\ Len(b) = N
  BY DEF SameShape
<1>1. ASSUME NEW q \in 1 .. N, \A r \in q + 1 .. N : r \in S PROVE q \in S
  <2> SUFFICES ASSUME NEW u \in ItemsOf(a, close, q + 1), NEW v \in ItemsOf(b, close, q + 1)
               PROVE  Chained(a, b, close, q, u, v)
    OBVIOUS
  <2> DEFINE after == AfterItem(a, close, q + 1)
  <2>1. q + 1 \in 1 .. Len(a) + 1 /\ q + 1 \in 1 .. Len(b) + 1
    BY <1>0
  <2>2. /\ Keyed(a, close, q + 1)
        /\ ItemPlace(a, close, q + 1) \in q + 1 .. Len(a)
        /\ ItemEnd(a, close, q + 1) \in ItemPlace(a, close, q + 1) + 1 .. Len(a) + 1
        /\ after \in ItemEnd(a, close, q + 1) .. Len(a)
    BY <1>0, <2>1, ItemIs
  <2>3. /\ ItemPlace(b, close, q + 1) = ItemPlace(a, close, q + 1)
        /\ ItemEnd(b, close, q + 1) = ItemEnd(a, close, q + 1)
        /\ AfterItem(b, close, q + 1) = after
    <3>1. ItemEnd(a, close, q + 1) \in 1 .. Len(a) + 1
      <4> HIDE DEF after
      <4> QED
        BY <1>0, <2>2
    <3> QED
      BY <2>1, <2>2, <3>1, ShapeOfItem
  <2> HIDE DEF after
  <2>5. PICK x \in ValueOf(a, ItemPlace(a, close, q + 1)) : ReadItem(a, close, q + 1, u, x)
    <3>1. Len(a) \in Nat
      BY <1>0
    <3> HIDE DEF N, after
    <3> QED
      BY <2>1, <3>1, ItemIsRead
  <2>6. PICK y \in ValueOf(b, ItemPlace(b, close, q + 1)) : ReadItem(b, close, q + 1, v, y)
    <3>1. Len(b) \in Nat
      BY <1>0
    <3> HIDE DEF N, after
    <3> QED
      BY <2>1, <3>1, ItemIsRead
  <2>30. after = AfterItem(a, close, q + 1)
    BY DEF after
  <2>7. /\ ItemListed(a, close, q + 1, Item(a, close, q + 1, x.tree))
        /\ ItemListed(b, close, q + 1, Item(b, close, q + 1, y.tree))
    BY <2>5, <2>6 DEF ItemListed, ReadItem
  <2>8. ItemPlaces(a, close, q + 1)
    BY <2>2, <2>5 DEF ItemPlaces, after
  <2>9. after \in q + 1 .. N /\ after \in Nat
    BY <1>0, <2>2
  <2>10. (a[after] = close <=> b[after] = close) /\ (a[after] = Comma <=> b[after] = Comma) /\ close # Comma
    BY <2>9, MarksDiffer DEF SameShape, Closers
  <2>11. CASE a[after] = close
    <3> DEFINE at == [k \in 1 .. 1 |-> q]
    <3>1. Follows(u.list, Item(a, close, q + 1, x.tree), <<>>) /\ u.next = after + 1
          /\ Follows(v.list, Item(b, close, q + 1, y.tree), <<>>)
      BY <2>3, <2>30, <2>5, <2>6, <2>10, <2>11 DEF ReadItem
    <3>2. at[1] = q /\ at \in [1 .. 1 -> 1 .. N] /\ \A k \in 1 .. 1 : k = 1
      OBVIOUS
    <3> HIDE DEF at
    <3>3. Chain(a, close, q, 1, at)
      BY <2>8, <2>11, <3>2 DEF Chain, Linked, after
    <3> DEFINE none == [k \in 1 .. 0 |-> 0]
    <3>4. none = <<>> /\ none = [k \in 1 .. 0 |-> none[k]] /\ \A k \in 1 .. 0 : FALSE
      OBVIOUS
    <3>5. Listed(a, close, 0, none, <<>>) /\ Listed(b, close, 0, none, <<>>)
      BY <3>4 DEF Listed
    <3> HIDE DEF none
    <3>6. Listed(a, close, 0 + 1, at, u.list) /\ Listed(b, close, 0 + 1, at, v.list)
      BY <2>7, <3>1, <3>2, <3>4, <3>5, ListGrows
    <3>7. 0 + 1 = 1
      OBVIOUS
    <3> QED
      BY <3>1, <3>2, <3>3, <3>6, <3>7 DEF Chained, after
  <2>12. CASE a[after] = Comma
    <3>1. PICK ru \in ItemsOf(a, close, after + 1) :
            Follows(u.list, Item(a, close, q + 1, x.tree), ru.list) /\ u.next = ru.next
      BY <2>30, <2>5, <2>10, <2>12 DEF ReadItem
    <3>2. PICK rv \in ItemsOf(b, close, after + 1) :
            Follows(v.list, Item(b, close, q + 1, y.tree), rv.list) /\ v.next = rv.next
      BY <2>3, <2>30, <2>6, <2>10, <2>12 DEF ReadItem
    <3>3. Chained(a, b, close, after, ru, rv)
      BY <1>1, <2>9, <3>1, <3>2
    <3>4. PICK n : \E at : /\ Chain(a, close, after, n, at)
                 /\ Listed(a, close, n, at, ru.list) /\ Listed(b, close, n, at, rv.list)
                 /\ ru.next = AfterItem(a, close, at[n] + 1) + 1
      BY <3>3 DEF Chained
    <3>5. PICK at : /\ Chain(a, close, after, n, at)
                 /\ Listed(a, close, n, at, ru.list) /\ Listed(b, close, n, at, rv.list)
                 /\ ru.next = AfterItem(a, close, at[n] + 1) + 1
      BY <3>4
    <3> DEFINE more == [k \in 1 .. n + 1 |-> IF k = 1 THEN q ELSE at[k - 1]]
    <3>6. n \in Nat /\ n > 0
      BY <3>5 DEF Chain
    <3>7. Before(q, n, at, more) /\ more[1] = q
      BY <3>6 DEF Before
    <3> HIDE DEF more
    <3>8. Chain(a, close, q, n + 1, more) /\ more[n + 1] = at[n] /\ \A k \in 1 .. n : more[k + 1] = at[k]
      <4>1. Len(a) \in Nat /\ q \in 1 .. Len(a)
        BY <1>0
      <4>2. Chain(a, close, after, n, at)
        BY <3>5
      <4> HIDE DEF N
      <4> QED
        BY <2>8, <2>12, <2>30, <3>7, <4>1, <4>2, ChainGrows
    <3>9. Listed(a, close, n + 1, more, u.list)
      BY <2>7, <3>1, <3>5, <3>6, <3>7, <3>8, ListGrows
    <3>10. Listed(b, close, n + 1, more, v.list)
      BY <2>7, <3>2, <3>5, <3>6, <3>7, <3>8, ListGrows
    <3> QED
      BY <3>1, <3>5, <3>8, <3>9, <3>10 DEF Chained
  <2> QED
    BY <2>30, <2>5, <2>11, <2>12 DEF ReadItem
<1>2. 1 .. N \subseteq S
  <2> HIDE DEF S, N
  <2> QED
    BY <1>0, <1>1, DownInduction
<1> QED
  BY <1>2

(* Every item ends before the mark of any later one.                       *)
LEMMA ChainIsOrderly ==
  ASSUME NEW doc, Len(doc) \in Nat, NEW close \in Closers, NEW p, NEW n, NEW at, Chain(doc, close, p, n, at)
  PROVE  \A k \in 1 .. n : \A j \in 1 .. n :
           j < k => ItemEnd(doc, close, at[j] + 1) <= at[k] /\ at[j] < at[k]
<1>0. n \in Nat /\ n > 0 /\ at \in [1 .. n -> 1 .. Len(doc)]
  BY DEF Chain
<1>1. ASSUME NEW k \in 1 .. n
      PROVE  /\ ItemEnd(doc, close, at[k] + 1) \in Nat /\ at[k] \in 1 .. Len(doc)
             /\ at[k] < ItemEnd(doc, close, at[k] + 1)
             /\ k # n => ItemEnd(doc, close, at[k] + 1) <= at[k + 1] /\ at[k + 1] \in Nat
  <2>1. Linked(doc, close, n, at, k)
    BY DEF Chain
  <2> DEFINE place == ItemPlace(doc, close, at[k] + 1)
             end == ItemEnd(doc, close, at[k] + 1)
             after == AfterItem(doc, close, at[k] + 1)
  <2>2. /\ at[k] \in 1 .. Len(doc) /\ place \in at[k] + 1 .. Len(doc) /\ end \in place + 1 .. Len(doc) + 1
        /\ after \in end .. Len(doc) /\ (k # n => at[k + 1] = after)
    BY <2>1 DEF Linked, ItemPlaces
  <2> HIDE DEF place, end, after
  <2>3. /\ end \in Nat /\ at[k] \in 1 .. Len(doc) /\ at[k] < end
        /\ k # n => end <= at[k + 1] /\ at[k + 1] \in Nat
    BY <2>2
  <2> QED
    BY <2>3 DEF end
<1> DEFINE S == {k \in 0 .. n : \A j \in 1 .. n : j < k => ItemEnd(doc, close, at[j] + 1) <= at[k] /\ at[j] < at[k]}
<1>2. 0 \in S
  BY <1>0
<1>3. ASSUME NEW k \in 0 .. n - 1, k \in S PROVE k + 1 \in S
  <2> SUFFICES ASSUME NEW j \in 1 .. n, j < k + 1
               PROVE  ItemEnd(doc, close, at[j] + 1) <= at[k + 1] /\ at[j] < at[k + 1]
    BY <1>0
  <2>1. k \in 1 .. n /\ k # n
    BY <1>0
  <2>2. CASE j = k
    BY <1>1, <2>1, <2>2
  <2>3. CASE j # k
    <3>1. ItemEnd(doc, close, at[j] + 1) <= at[k] /\ at[j] < at[k]
      BY <1>3, <2>3
    <3>2. /\ at[k] < ItemEnd(doc, close, at[k] + 1) /\ ItemEnd(doc, close, at[k] + 1) <= at[k + 1]
          /\ at[k] \in Nat /\ at[k + 1] \in Nat /\ ItemEnd(doc, close, at[k] + 1) \in Nat
      BY <1>1, <2>1
    <3>3. at[j] \in Nat /\ ItemEnd(doc, close, at[j] + 1) \in Nat
      BY <1>1
    <3> QED
      BY <3>1, <3>2, <3>3
  <2> QED
    BY <2>2, <2>3
<1>4. 0 .. n \subseteq S
  <2> HIDE DEF S
  <2> QED
    BY <1>0, <1>2, <1>3, UpToInduction
<1> QED
  BY <1>4

(* The walks find the items in a row, and nothing else.                    *)
LEMMA WalkOfChain ==
  ASSUME NEW doc, Len(doc) \in Nat, NEW p, NEW n, NEW at, Chain(doc, ObjectEnd, p, n, at)
  PROVE  Walk(doc, p, DecodedEnd(doc)) = {MemberAt(doc, at[k], DecodedEnd(doc)) : k \in 1 .. n}
<1> DEFINE E == DecodedEnd(doc)
           S == {k \in 1 .. n : Walk(doc, at[k], E) = {MemberAt(doc, at[j], E) : j \in k .. n}}
<1>0. n \in Nat /\ n > 0 /\ at \in [1 .. n -> 1 .. Len(doc)] /\ at[1] = p
  BY DEF Chain
<1>1. ASSUME NEW k \in 1 .. n, \A j \in k + 1 .. n : j \in S PROVE k \in S
  <2>1. Linked(doc, ObjectEnd, n, at, k) /\ at[k] \in 1 .. Len(doc)
    BY <1>0 DEF Chain
  <2>2. ItemPlaces(doc, ObjectEnd, at[k] + 1)
    BY <2>1 DEF Linked
  <2>3. /\ ItemPlace(doc, ObjectEnd, at[k] + 1) = ValuePlace(doc, at[k])
        /\ AfterItem(doc, ObjectEnd, at[k] + 1) = After(doc, at[k], E)
    BY DEF ItemPlace, ItemEnd, AfterItem, From, ValuePlace, After
  <2>4. IsMember(doc, at[k])
    <3>1. ~(ValuePlace(doc, at[k]) > Len(doc))
      <4>1. ValuePlace(doc, at[k]) \in at[k] + 1 .. Len(doc)
        BY <2>2, <2>3 DEF ItemPlaces
      <4> QED
        BY <2>1, <4>1
    <3> QED
      BY <2>2, <3>1 DEF ItemPlaces, Keyed, IsMember
  <2>5. Ends(doc, E)
    BY DecodedEnds
  <2>6. Walk(doc, at[k], E) =
           {MemberAt(doc, at[k], E)}
             \union IF At(doc, After(doc, at[k], E)) = Comma THEN Walk(doc, After(doc, at[k], E), E) ELSE {}
    BY <2>1, <2>4, <2>5, WalkUnrolled
  <2>7. At(doc, After(doc, at[k], E)) = doc[After(doc, at[k], E)]
    <3>1. After(doc, at[k], E) \in Nat /\ After(doc, at[k], E) > 0 /\ After(doc, at[k], E) <= Len(doc)
      <4> DEFINE after == AfterItem(doc, ObjectEnd, at[k] + 1)
                 end == ItemEnd(doc, ObjectEnd, at[k] + 1)
                 place == ItemPlace(doc, ObjectEnd, at[k] + 1)
      <4>1. /\ place \in at[k] + 1 .. Len(doc) /\ end \in place + 1 .. Len(doc) + 1 /\ after \in end .. Len(doc)
        BY <2>2 DEF ItemPlaces
      <4> HIDE DEF after, end, place
      <4>2. after \in Nat /\ after > 0 /\ after <= Len(doc)
        BY <2>1, <4>1
      <4> QED
        BY <2>3, <4>2 DEF after
    <3> QED
      BY <3>1, EndIsNone
  <2> HIDE DEF E
  <2>8. CASE k = n
    <3>1. doc[After(doc, at[k], E)] # Comma
      BY <2>1, <2>3, <2>8, MarksDiffer DEF Linked
    <3>2. Walk(doc, at[k], E) = {MemberAt(doc, at[k], E)}
      BY <2>6, <2>7, <3>1
    <3>3. \A j \in k .. n : j = k
      BY <2>8
    <3> QED
      BY <1>0, <3>2, <3>3
  <2>9. CASE k # n
    <3>1. at[k + 1] = After(doc, at[k], E) /\ doc[at[k + 1]] = Comma
      BY <2>1, <2>3, <2>9 DEF Linked
    <3>2. k + 1 \in k + 1 .. n /\ k + 1 \in 1 .. n
      BY <1>0, <2>9
    <3>3. Walk(doc, at[k + 1], E) = {MemberAt(doc, at[j], E) : j \in k + 1 .. n}
      BY <1>1, <3>2
    <3>4. Walk(doc, at[k], E) = {MemberAt(doc, at[k], E)} \union {MemberAt(doc, at[j], E) : j \in k + 1 .. n}
      BY <2>6, <2>7, <3>1, <3>3
    <3>5. k .. n = {k} \union (k + 1 .. n)
      BY <1>0
    <3> QED
      BY <3>4, <3>5
  <2> QED
    BY <2>8, <2>9
<1>2. 1 .. n \subseteq S
  <2> HIDE DEF S
  <2> QED
    BY <1>0, <1>1, DownInduction
<1> QED
  BY <1>0, <1>2

-----------------------------------------------------------------------------
(* Members and elements in a row.                                          *)

(* The elements of an array are the places of its chain.                   *)
LEMMA ElementsOfChain ==
  ASSUME NEW doc, Len(doc) \in Nat, NEW p, NEW n, NEW at, Chain(doc, ArrayEnd, p, n, at)
  PROVE  ElementPlaces(doc, p) = {ItemPlace(doc, ArrayEnd, at[k] + 1) : k \in 1 .. n}
<1> DEFINE Place(k) == ItemPlace(doc, ArrayEnd, at[k] + 1)
           S == {k \in 1 .. n : ElementPlaces(doc, at[k]) = {Place(j) : j \in k .. n}}
<1>0. n \in Nat /\ n > 0 /\ at \in [1 .. n -> 1 .. Len(doc)] /\ at[1] = p
  BY DEF Chain
<1>1. ASSUME NEW k \in 1 .. n, \A j \in k + 1 .. n : j \in S PROVE k \in S
  <2> DEFINE after == AfterItem(doc, ArrayEnd, at[k] + 1)
             end == ItemEnd(doc, ArrayEnd, at[k] + 1)
             place == Place(k)
  <2>1. Linked(doc, ArrayEnd, n, at, k) /\ at[k] \in 1 .. Len(doc)
    BY <1>0 DEF Chain
  <2>2. /\ place \in at[k] + 1 .. Len(doc) /\ end \in place + 1 .. Len(doc) + 1 /\ after \in end .. Len(doc)
        /\ ValueOf(doc, place) # {}
    BY <2>1 DEF Linked, ItemPlaces
  <2>3. place = SkipSpace(doc, at[k] + 1) /\ end = DecodedEnd(doc)[place] /\ after = SkipSpace(doc, end)
    BY MarksDiffer DEF ItemPlace, ItemEnd, AfterItem, From
  <2>4. place \in 1 .. Len(doc) + 1 /\ after \in Nat /\ after > 0 /\ after <= Len(doc) /\ ~(place > Len(doc))
    <3> HIDE DEF place, end, after
    <3> QED
      BY <2>1, <2>2
  <2>5. At(doc, place) # ArrayEnd
    <3>1. SkipSpace(doc, place) = place
      <4>1. at[k] + 1 \in 1 .. Len(doc) + 1
        BY <2>1
      <4> QED
        BY <2>3, <4>1, SpaceIsSkipped
    <3> HIDE DEF place
    <3> QED
      BY <2>2, <2>4, <3>1, ValueReading, MarksDiffer
  <2>6. ElementPlaces(doc, at[k]) =
          {place} \union IF At(doc, after) = Comma THEN ElementPlaces(doc, after) ELSE {}
    <3> HIDE DEF Place, after, end, place
    <3>1. ElementPlaces(doc, at[k]) = IF place > Len(doc) \/ At(doc, place) = ArrayEnd THEN {}
          ELSE {place} \union IF At(doc, after) = Comma THEN ElementPlaces(doc, after) ELSE {}
      BY <2>1, <2>3, ElementPlacesUnrolled
    <3> QED
      BY <2>4, <2>5, <3>1
  <2>7. At(doc, after) = doc[after]
    BY <2>4, EndIsNone
  <2>30. after = AfterItem(doc, ArrayEnd, at[k] + 1) /\ place = Place(k)
    OBVIOUS
  <2> HIDE DEF Place, after, end, place
  <2>8. CASE k = n
    <3>1. doc[after] # Comma
      BY <2>1, <2>8, <2>30, MarksDiffer DEF Linked
    <3>2. ElementPlaces(doc, at[k]) = {Place(k)}
      BY <2>6, <2>7, <2>30, <3>1
    <3>3. \A j \in k .. n : j = k
      BY <2>8
    <3> QED
      BY <1>0, <3>2, <3>3
  <2>9. CASE k # n
    <3>1. at[k + 1] = after /\ doc[after] = Comma
      BY <2>1, <2>9, <2>30 DEF Linked
    <3>2. k + 1 \in k + 1 .. n /\ k + 1 \in 1 .. n
      BY <1>0, <2>9
    <3>3. ElementPlaces(doc, at[k + 1]) = {Place(j) : j \in k + 1 .. n}
      BY <1>1, <3>2
    <3>4. ElementPlaces(doc, at[k]) = {Place(k)} \union {Place(j) : j \in k + 1 .. n}
      BY <2>6, <2>7, <2>30, <3>1, <3>3
    <3>5. k .. n = {k} \union (k + 1 .. n)
      BY <1>0
    <3> QED
      BY <3>4, <3>5
  <2> QED
    BY <2>8, <2>9
<1>2. 1 .. n \subseteq S
  <2> HIDE DEF S
  <2> QED
    BY <1>0, <1>1, DownInduction
<1> QED
  BY <1>0, <1>2

(* All items end before the end of what holds them.                        *)
LEMMA ChainEnds ==
  ASSUME NEW doc, Len(doc) \in Nat, NEW close \in Closers, NEW p, NEW n, NEW at, Chain(doc, close, p, n, at)
  PROVE  /\ AfterItem(doc, close, at[n] + 1) \in Nat
         /\ \A k \in 1 .. n : ItemEnd(doc, close, at[k] + 1) <= AfterItem(doc, close, at[n] + 1)
<1>0. n \in Nat /\ n > 0 /\ at \in [1 .. n -> 1 .. Len(doc)] /\ n \in 1 .. n
  BY DEF Chain
<1> DEFINE after == AfterItem(doc, close, at[n] + 1)
           end(k) == ItemEnd(doc, close, at[k] + 1)
           place == ItemPlace(doc, close, at[n] + 1)
<1>1. /\ place \in at[n] + 1 .. Len(doc) /\ end(n) \in place + 1 .. Len(doc) + 1 /\ after \in end(n) .. Len(doc)
      /\ at[n] \in 1 .. Len(doc)
  BY <1>0 DEF Chain, Linked, ItemPlaces
<1>2. \A k \in 1 .. n : k < n => end(k) <= at[n]
  BY <1>0, ChainIsOrderly
<1>3. \A k \in 1 .. n : end(k) \in Int
  <2> TAKE k \in 1 .. n
  <2>1. Linked(doc, close, n, at, k)
    BY DEF Chain
  <2> QED
    BY <2>1 DEF Linked, ItemPlaces
<1> HIDE DEF after, end, place
<1>4. after \in Nat /\ end(n) <= after /\ at[n] <= after /\ at[n] \in Int
  BY <1>1
<1>5. ASSUME NEW k \in 1 .. n PROVE end(k) <= after
  <2>1. CASE k = n
    BY <1>4, <2>1
  <2>2. CASE k # n
    <3>1. k < n
      BY <1>0, <2>2
    <3> QED
      BY <1>2, <1>3, <1>4, <3>1
  <2> QED
    BY <2>1, <2>2
<1> QED
  BY <1>4, <1>5 DEF after, end

(* An object in two texts of one shape, member by member.                  *)
ObjectTree(list) == <<"object", list>>
ArrayTree(list) == <<"array", list>>

MemberRead(a, b, i, m, x, y) ==
  /\ GoodMember(a, i, m) /\ m.end < DecodedEnd(a)[i]
  /\ \E v \in ValueOf(a, m.value) : v.next = m.end /\ x = <<Text(a[m.key]), v.tree>>
  /\ \E w \in ValueOf(b, m.value) : w.next = m.end /\ y = <<Text(b[m.key]), w.tree>>

MembersRead(a, b, i, n, mem, x, y) ==
  /\ n \in Nat /\ x = [k \in 1 .. n |-> x[k]] /\ y = [k \in 1 .. n |-> y[k]]
  /\ \A k \in 1 .. n : mem[k] \in Walk(a, i, DecodedEnd(a)) /\ MemberRead(a, b, i, mem[k], x[k], y[k])
  /\ \A m \in Walk(a, i, DecodedEnd(a)) : \E k \in 1 .. n : m = mem[k]
  /\ \A k \in 1 .. n : \A j \in 1 .. n : j < k => mem[j].end <= mem[k].before

ObjectsRead(a, b, i, v, w) ==
  \E n : \E mem : \E x : \E y :
    v.tree = ObjectTree(x) /\ w.tree = ObjectTree(y) /\ MembersRead(a, b, i, n, mem, x, y)

(* The list of the members of an object.                                   *)
LEMMA ObjectLists ==
  ASSUME NEW doc, Len(doc) \in Nat, NEW i \in 1 .. Len(doc), doc[i] = ObjectStart, NEW v \in ValueOf(doc, i)
  PROVE  \E s : /\ v.tree = ObjectTree(s.list) /\ v.next = s.next
                /\ \/ At(doc, SkipSpace(doc, i + 1)) = ObjectEnd /\ s.list = <<>>
                   \/ At(doc, SkipSpace(doc, i + 1)) # ObjectEnd /\ s \in ItemsOf(doc, ObjectEnd, i + 1)
<1>1. ValueOf(doc, i) = ObjectsOf(InsideOf(doc, ObjectEnd, i + 1))
  BY ObjectInside
<1>2. PICK s \in InsideOf(doc, ObjectEnd, i + 1) : v = [tree |-> <<"object", s.list>>, next |-> s.next]
  BY <1>1 DEF ObjectsOf
<1>3. v.tree = ObjectTree(s.list) /\ v.next = s.next
  BY <1>2 DEF ObjectTree
<1>4. CASE At(doc, SkipSpace(doc, i + 1)) = ObjectEnd
  <2>1. s = [list |-> <<>>, next |-> SkipSpace(doc, i + 1) + 1]
    BY <1>2, <1>4 DEF InsideOf
  <2>2. s.list = <<>>
    BY <2>1
  <2> QED
    BY <1>3, <1>4, <2>2
<1>5. CASE At(doc, SkipSpace(doc, i + 1)) # ObjectEnd
  BY <1>2, <1>3, <1>5 DEF InsideOf
<1> QED
  BY <1>4, <1>5

(* The list of the elements of an array.                                   *)
LEMMA ArrayLists ==
  ASSUME NEW doc, Len(doc) \in Nat, NEW i \in 1 .. Len(doc), doc[i] = ArrayStart, NEW v \in ValueOf(doc, i)
  PROVE  \E s : /\ v.tree = ArrayTree(s.list) /\ v.next = s.next
                /\ \/ At(doc, SkipSpace(doc, i + 1)) = ArrayEnd /\ s.list = <<>>
                   \/ At(doc, SkipSpace(doc, i + 1)) # ArrayEnd /\ s \in ItemsOf(doc, ArrayEnd, i + 1)
<1>1. ValueOf(doc, i) = ArraysOf(InsideOf(doc, ArrayEnd, i + 1))
  BY ArrayInside
<1>2. PICK s \in InsideOf(doc, ArrayEnd, i + 1) : v = [tree |-> <<"array", s.list>>, next |-> s.next]
  BY <1>1 DEF ArraysOf
<1>3. v.tree = ArrayTree(s.list) /\ v.next = s.next
  BY <1>2 DEF ArrayTree
<1>4. CASE At(doc, SkipSpace(doc, i + 1)) = ArrayEnd
  <2>1. s = [list |-> <<>>, next |-> SkipSpace(doc, i + 1) + 1]
    BY <1>2, <1>4 DEF InsideOf
  <2>2. s.list = <<>>
    BY <2>1
  <2> QED
    BY <1>3, <1>4, <2>2
<1>5. CASE At(doc, SkipSpace(doc, i + 1)) # ArrayEnd
  BY <1>2, <1>3, <1>5 DEF InsideOf
<1> QED
  BY <1>4, <1>5

(* A listed member has the key and the value that its places hold.         *)
LEMMA MemberListed ==
  ASSUME NEW doc, NEW p, NEW x, ItemListed(doc, ObjectEnd, p + 1, x)
  PROVE  \E v \in ValueOf(doc, ValuePlace(doc, p)) :
           v.next = DecodedEnd(doc)[ValuePlace(doc, p)] /\ x = <<Text(doc[KeyAt(doc, p + 1)]), v.tree>>
<1>1. ItemPlace(doc, ObjectEnd, p + 1) = ValuePlace(doc, p)
      /\ ItemEnd(doc, ObjectEnd, p + 1) = DecodedEnd(doc)[ValuePlace(doc, p)]
      /\ \A tree : Item(doc, ObjectEnd, p + 1, tree) = <<Text(doc[KeyAt(doc, p + 1)]), tree>>
  BY DEF ItemPlace, ItemEnd, From, ValuePlace, Item
<1> QED
  BY <1>1 DEF ItemListed

(* A member of two texts of one shape is read at the same places.          *)
LEMMA MemberIsRead ==
  ASSUME NEW a, NEW b, SameShape(a, b), NEW i \in 1 .. Len(a), NEW n, NEW at, Chain(a, ObjectEnd, i, n, at),
         NEW v, v.next = AfterItem(a, ObjectEnd, at[n] + 1) + 1, v.next = DecodedEnd(a)[i],
         NEW k \in 1 .. n, NEW m, m = MemberAt(a, at[k], DecodedEnd(a)), GoodMember(a, i, m),
         NEW x, ItemListed(a, ObjectEnd, at[k] + 1, x), NEW y, ItemListed(b, ObjectEnd, at[k] + 1, y)
  PROVE  MemberRead(a, b, i, m, x, y)
<1>0. Len(a) \in Nat /\ ObjectEnd \in Closers
  BY DEF SameShape, Closers
<1>1. /\ m.key = KeyAt(a, at[k] + 1) /\ m.value = ValuePlace(a, at[k])
      /\ m.end = DecodedEnd(a)[ValuePlace(a, at[k])]
  BY DEF MemberAt
<1>2. m.end = ItemEnd(a, ObjectEnd, at[k] + 1) /\ m.value = ItemPlace(a, ObjectEnd, at[k] + 1)
  BY <1>1 DEF ItemPlace, ItemEnd, From, ValuePlace
<1>3. Linked(a, ObjectEnd, n, at, k)
  BY DEF Chain
<1>4. ItemEnd(a, ObjectEnd, at[k] + 1) <= AfterItem(a, ObjectEnd, at[n] + 1) /\ AfterItem(a, ObjectEnd, at[n] + 1) \in Nat
  BY <1>0, ChainEnds
<1>5. m.end < DecodedEnd(a)[i]
  <2> DEFINE end == ItemEnd(a, ObjectEnd, at[k] + 1)
             after == AfterItem(a, ObjectEnd, at[n] + 1)
  <2>1. end \in Int
    BY <1>3 DEF Linked, ItemPlaces
  <2>2. end <= after /\ after \in Nat
    BY <1>4
  <2>3. DecodedEnd(a)[i] = after + 1 /\ m.end = end
    BY <1>2
  <2> HIDE DEF end, after
  <2> QED
    BY <2>1, <2>2, <2>3
<1>6. at[k] + 1 \in 1 .. Len(a) + 1 /\ Keyed(a, ObjectEnd, at[k] + 1)
  BY <1>0, <1>3 DEF Linked, ItemPlaces
<1>7. /\ KeyAt(b, at[k] + 1) = KeyAt(a, at[k] + 1)
      /\ ItemPlace(b, ObjectEnd, at[k] + 1) = ItemPlace(a, ObjectEnd, at[k] + 1)
      /\ ItemEnd(b, ObjectEnd, at[k] + 1) = ItemEnd(a, ObjectEnd, at[k] + 1)
  BY <1>0, <1>6, ShapeOfItem
<1>8. \E u \in ValueOf(a, m.value) : u.next = m.end /\ x = <<Text(a[m.key]), u.tree>>
  <2>1. \E u \in ValueOf(a, ValuePlace(a, at[k])) :
          u.next = DecodedEnd(a)[ValuePlace(a, at[k])] /\ x = <<Text(a[KeyAt(a, at[k] + 1)]), u.tree>>
    BY MemberListed
  <2> QED
    BY <1>1, <2>1
<1>9. \E u \in ValueOf(b, m.value) : u.next = m.end /\ y = <<Text(b[m.key]), u.tree>>
  <2>1. \E u \in ValueOf(b, ValuePlace(b, at[k])) :
          u.next = DecodedEnd(b)[ValuePlace(b, at[k])] /\ y = <<Text(b[KeyAt(b, at[k] + 1)]), u.tree>>
    BY MemberListed
  <2>2. ItemPlace(b, ObjectEnd, at[k] + 1) = ValuePlace(b, at[k])
        /\ ItemEnd(b, ObjectEnd, at[k] + 1) = DecodedEnd(b)[ValuePlace(b, at[k])]
    BY DEF ItemPlace, ItemEnd, From, ValuePlace
  <2> QED
    BY <1>1, <1>2, <1>7, <2>1, <2>2
<1> QED
  BY <1>5, <1>8, <1>9 DEF MemberRead

(* Reading an object visits the members that the walk finds, in their      *)
(* order, in both texts.                                                   *)
LEMMA ObjectIsRead ==
  ASSUME NEW a, NEW b, SameShape(a, b), NEW i \in 1 .. Len(a), a[i] = ObjectStart,
         NEW v \in ValueOf(a, i), NEW w \in ValueOf(b, i)
  PROVE  ObjectsRead(a, b, i, v, w)
<1>0. Len(a) \in Nat /\ Len(b) \in Nat /\ Len(b) = Len(a) /\ ObjectEnd \in Closers
  BY DEF SameShape, Closers
<1>1. b[i] = ObjectStart
  BY MarksDiffer DEF SameShape
<1>2. PICK s : /\ v.tree = ObjectTree(s.list) /\ v.next = s.next
               /\ \/ At(a, SkipSpace(a, i + 1)) = ObjectEnd /\ s.list = <<>>
                  \/ At(a, SkipSpace(a, i + 1)) # ObjectEnd /\ s \in ItemsOf(a, ObjectEnd, i + 1)
  BY <1>0, ObjectLists
<1>3. PICK t : /\ w.tree = ObjectTree(t.list) /\ w.next = t.next
               /\ \/ At(b, SkipSpace(b, i + 1)) = ObjectEnd /\ t.list = <<>>
                  \/ At(b, SkipSpace(b, i + 1)) # ObjectEnd /\ t \in ItemsOf(b, ObjectEnd, i + 1)
  BY <1>0, <1>1, ObjectLists
<1>4. i + 1 \in 1 .. Len(a) + 1
  BY <1>0
<1>5. At(a, SkipSpace(a, i + 1)) = ObjectEnd <=> At(b, SkipSpace(b, i + 1)) = ObjectEnd
  <2>1. SkipSpace(b, i + 1) = SkipSpace(a, i + 1)
    BY <1>4, ShapeOfSpace
  <2>2. SkipSpace(a, i + 1) \in Nat /\ SkipSpace(a, i + 1) > 0
    BY <1>0, <1>4, SkipSpaceEnds
  <2> QED
    BY <2>1, <2>2, ShapeOfAtoms
<1>6. v.next = DecodedEnd(a)[i]
  BY <1>0, EndOfValue
<1>7. CASE At(a, SkipSpace(a, i + 1)) = ObjectEnd
  <2>1. s.list = <<>> /\ t.list = <<>>
    BY <1>2, <1>3, <1>5, <1>7
  <2>2. Walk(a, i, DecodedEnd(a)) = {}
    BY <1>0, <1>7, DecodedEnds, EmptyWalk
  <2>3. <<>> = [k \in 1 .. 0 |-> <<>>[k]] /\ \A k \in 1 .. 0 : FALSE
    <3>1. \A k \in 1 .. 0 : FALSE
      OBVIOUS
    <3> QED
      BY <3>1
  <2>4. MembersRead(a, b, i, 0, <<>>, s.list, t.list)
    BY <2>1, <2>2, <2>3 DEF MembersRead
  <2> QED
    BY <1>2, <1>3, <2>4 DEF ObjectsRead
<1>8. CASE At(a, SkipSpace(a, i + 1)) # ObjectEnd
  <2>1. s \in ItemsOf(a, ObjectEnd, i + 1) /\ t \in ItemsOf(b, ObjectEnd, i + 1)
    BY <1>2, <1>3, <1>5, <1>8
  <2>2. Chained(a, b, ObjectEnd, i, s, t)
    BY <1>0, <2>1, ItemsInARow
  <2>3. PICK n : \E at : /\ Chain(a, ObjectEnd, i, n, at)
                 /\ Listed(a, ObjectEnd, n, at, s.list) /\ Listed(b, ObjectEnd, n, at, t.list)
                 /\ s.next = AfterItem(a, ObjectEnd, at[n] + 1) + 1
    BY <2>2 DEF Chained
  <2>4. PICK at : /\ Chain(a, ObjectEnd, i, n, at)
                 /\ Listed(a, ObjectEnd, n, at, s.list) /\ Listed(b, ObjectEnd, n, at, t.list)
                 /\ s.next = AfterItem(a, ObjectEnd, at[n] + 1) + 1
    BY <2>3
  <2> DEFINE E == DecodedEnd(a)
             mem == [k \in 1 .. n |-> MemberAt(a, at[k], E)]
  <2>5. n \in Nat /\ n > 0 /\ at \in [1 .. n -> 1 .. Len(a)]
    BY <2>4 DEF Chain
  <2>6. Walk(a, i, E) = {MemberAt(a, at[k], E) : k \in 1 .. n}
    BY <1>0, <2>4, WalkOfChain
  <2>7. \A k \in 1 .. n : mem[k] = MemberAt(a, at[k], E)
    OBVIOUS
  <2>8. ValueOf(a, i) # {}
    OBVIOUS
  <2>9. \A m \in Walk(a, i, E) : GoodMember(a, i, m)
    BY <1>0, <2>8, MembersOfObject
  <2> HIDE DEF mem, E
  <2>10. ASSUME NEW k \in 1 .. n
         PROVE  mem[k] \in Walk(a, i, E) /\ MemberRead(a, b, i, mem[k], s.list[k], t.list[k])
    <3>1. mem[k] \in Walk(a, i, E) /\ mem[k] = MemberAt(a, at[k], DecodedEnd(a))
      BY <2>6, <2>7 DEF E
    <3>2. GoodMember(a, i, mem[k])
      BY <2>9, <3>1
    <3>3. ItemListed(a, ObjectEnd, at[k] + 1, s.list[k]) /\ ItemListed(b, ObjectEnd, at[k] + 1, t.list[k])
      BY <2>4 DEF Listed
    <3>4. v.next = AfterItem(a, ObjectEnd, at[n] + 1) + 1
      BY <1>2, <2>4
    <3> QED
      BY <1>6, <2>4, <3>1, <3>2, <3>3, <3>4, MemberIsRead
  <2>11. \A m \in Walk(a, i, E) : \E k \in 1 .. n : m = mem[k]
    BY <2>6, <2>7
  <2>12. \A k \in 1 .. n : \A j \in 1 .. n : j < k => mem[j].end <= mem[k].before
    <3> TAKE k \in 1 .. n
    <3> TAKE j \in 1 .. n
    <3> HAVE j < k
    <3>1. ItemEnd(a, ObjectEnd, at[j] + 1) <= at[k]
      BY <1>0, <2>4, ChainIsOrderly
    <3>4. mem[k] = MemberAt(a, at[k], E) /\ mem[j] = MemberAt(a, at[j], E)
      BY <2>7
    <3>5. MemberAt(a, at[k], E).before = at[k]
      BY DEF MemberAt
    <3>6. MemberAt(a, at[j], E).end = E[ValuePlace(a, at[j])]
      BY DEF MemberAt
    <3>2. mem[k].before = at[k] /\ mem[j].end = E[ValuePlace(a, at[j])]
      BY <3>4, <3>5, <3>6
    <3>3. ItemEnd(a, ObjectEnd, at[j] + 1) = E[ValuePlace(a, at[j])]
      BY DEF ItemEnd, ItemPlace, From, ValuePlace, E
    <3> QED
      BY <3>1, <3>2, <3>3
  <2>13. s.list = [k \in 1 .. n |-> s.list[k]] /\ t.list = [k \in 1 .. n |-> t.list[k]]
    BY <2>4 DEF Listed
  <2>14. MembersRead(a, b, i, n, mem, s.list, t.list)
    BY <2>5, <2>10, <2>11, <2>12, <2>13 DEF MembersRead, E
  <2> QED
    BY <1>2, <1>3, <2>14 DEF ObjectsRead
<1> QED
  BY <1>7, <1>8

(* An array in two texts of one shape, element by element.                 *)
ElementRead(a, b, i, p, x, y) ==
  /\ p \in i + 1 .. Len(a) /\ a[p] # Space /\ DecodedEnd(a)[p] \in p + 1 .. Len(a) + 1
  /\ \E v \in ValueOf(a, p) : v.next = DecodedEnd(a)[p] /\ x = v.tree
  /\ \E w \in ValueOf(b, p) : w.next = DecodedEnd(a)[p] /\ y = w.tree

ElementsRead(a, b, i, n, place, x, y) ==
  /\ n \in Nat /\ x = [k \in 1 .. n |-> x[k]] /\ y = [k \in 1 .. n |-> y[k]]
  /\ \A k \in 1 .. n : place[k] \in ElementPlaces(a, i) /\ ElementRead(a, b, i, place[k], x[k], y[k])
  /\ \A p \in ElementPlaces(a, i) : \E k \in 1 .. n : p = place[k]
  /\ \A k \in 1 .. n : \A j \in 1 .. n : j < k => DecodedEnd(a)[place[j]] <= place[k]

ArraysRead(a, b, i, v, w) ==
  \E n : \E place : \E x : \E y :
    v.tree = ArrayTree(x) /\ w.tree = ArrayTree(y) /\ ElementsRead(a, b, i, n, place, x, y)

(* A listed element has the value that its place holds.                    *)
LEMMA ElementListed ==
  ASSUME NEW doc, NEW i, NEW x, ItemListed(doc, ArrayEnd, i, x), NEW p, p = ItemPlace(doc, ArrayEnd, i)
  PROVE  \E v \in ValueOf(doc, p) : v.next = DecodedEnd(doc)[p] /\ x = v.tree
<1>1. \A tree : Item(doc, ArrayEnd, i, tree) = tree
  BY MarksDiffer DEF Item
<1> QED
  BY <1>1 DEF ItemListed, ItemEnd

(* Reading an array visits the elements that the walk finds, in their      *)
(* order, in both texts.                                                   *)
LEMMA ArrayIsRead ==
  ASSUME NEW a, NEW b, SameShape(a, b), NEW i \in 1 .. Len(a), a[i] = ArrayStart,
         NEW v \in ValueOf(a, i), NEW w \in ValueOf(b, i)
  PROVE  ArraysRead(a, b, i, v, w)
<1>0. Len(a) \in Nat /\ Len(b) \in Nat /\ Len(b) = Len(a) /\ ArrayEnd \in Closers
  BY DEF SameShape, Closers
<1>1. b[i] = ArrayStart
  BY MarksDiffer DEF SameShape
<1>2. PICK s : /\ v.tree = ArrayTree(s.list) /\ v.next = s.next
               /\ \/ At(a, SkipSpace(a, i + 1)) = ArrayEnd /\ s.list = <<>>
                  \/ At(a, SkipSpace(a, i + 1)) # ArrayEnd /\ s \in ItemsOf(a, ArrayEnd, i + 1)
  BY <1>0, ArrayLists
<1>3. PICK t : /\ w.tree = ArrayTree(t.list) /\ w.next = t.next
               /\ \/ At(b, SkipSpace(b, i + 1)) = ArrayEnd /\ t.list = <<>>
                  \/ At(b, SkipSpace(b, i + 1)) # ArrayEnd /\ t \in ItemsOf(b, ArrayEnd, i + 1)
  BY <1>0, <1>1, ArrayLists
<1>4. i + 1 \in 1 .. Len(a) + 1
  BY <1>0
<1>5. At(a, SkipSpace(a, i + 1)) = ArrayEnd <=> At(b, SkipSpace(b, i + 1)) = ArrayEnd
  <2>1. SkipSpace(b, i + 1) = SkipSpace(a, i + 1)
    BY <1>4, ShapeOfSpace
  <2>2. SkipSpace(a, i + 1) \in Nat /\ SkipSpace(a, i + 1) > 0
    BY <1>0, <1>4, SkipSpaceEnds
  <2> QED
    BY <2>1, <2>2, ShapeOfAtoms
<1>7. CASE At(a, SkipSpace(a, i + 1)) = ArrayEnd
  <2>1. s.list = <<>> /\ t.list = <<>>
    BY <1>2, <1>3, <1>5, <1>7
  <2>2. ElementPlaces(a, i) = {}
    BY <1>0, <1>7, ElementPlacesUnrolled
  <2>3. <<>> = [k \in 1 .. 0 |-> <<>>[k]] /\ \A k \in 1 .. 0 : FALSE
    <3>1. \A k \in 1 .. 0 : FALSE
      OBVIOUS
    <3> QED
      BY <3>1
  <2>4. ElementsRead(a, b, i, 0, <<>>, s.list, t.list)
    BY <2>1, <2>2, <2>3 DEF ElementsRead
  <2> QED
    BY <1>2, <1>3, <2>4 DEF ArraysRead
<1>8. CASE At(a, SkipSpace(a, i + 1)) # ArrayEnd
  <2>1. s \in ItemsOf(a, ArrayEnd, i + 1) /\ t \in ItemsOf(b, ArrayEnd, i + 1)
    BY <1>2, <1>3, <1>5, <1>8
  <2>2. Chained(a, b, ArrayEnd, i, s, t)
    BY <1>0, <2>1, ItemsInARow
  <2>3. PICK n : \E at : /\ Chain(a, ArrayEnd, i, n, at)
                 /\ Listed(a, ArrayEnd, n, at, s.list) /\ Listed(b, ArrayEnd, n, at, t.list)
    BY <2>2 DEF Chained
  <2>4. PICK at : /\ Chain(a, ArrayEnd, i, n, at)
                 /\ Listed(a, ArrayEnd, n, at, s.list) /\ Listed(b, ArrayEnd, n, at, t.list)
    BY <2>3
  <2> DEFINE Place(k) == ItemPlace(a, ArrayEnd, at[k] + 1)
             place == [k \in 1 .. n |-> Place(k)]
  <2>5. n \in Nat /\ n > 0 /\ at \in [1 .. n -> 1 .. Len(a)]
    BY <2>4 DEF Chain
  <2>6. ElementPlaces(a, i) = {Place(k) : k \in 1 .. n}
    BY <1>0, <2>4, ElementsOfChain
  <2>7. \A k \in 1 .. n : place[k] = Place(k)
    OBVIOUS
  <2> HIDE DEF place
  <2>8. ASSUME NEW k \in 1 .. n
        PROVE  /\ place[k] = ItemPlace(a, ArrayEnd, at[k] + 1) /\ place[k] \in at[k] + 1 .. Len(a)
               /\ DecodedEnd(a)[place[k]] = ItemEnd(a, ArrayEnd, at[k] + 1)
               /\ DecodedEnd(a)[place[k]] \in place[k] + 1 .. Len(a) + 1
               /\ Keyed(a, ArrayEnd, at[k] + 1) /\ at[k] \in 1 .. Len(a)
    <3>1. Linked(a, ArrayEnd, n, at, k)
      BY <2>4 DEF Chain
    <3>2. place[k] = ItemPlace(a, ArrayEnd, at[k] + 1)
      BY <2>7
    <3>3. DecodedEnd(a)[place[k]] = ItemEnd(a, ArrayEnd, at[k] + 1)
      BY <3>2 DEF ItemEnd
    <3> QED
      BY <3>1, <3>2, <3>3 DEF Linked, ItemPlaces
  <2>9. \A k \in 1 .. n : at[k] >= i
    <3> TAKE k \in 1 .. n
    <3>1. at[1] = i /\ 1 \in 1 .. n
      BY <2>4, <2>5 DEF Chain
    <3>2. k # 1 => at[1] < at[k]
      BY <1>0, <2>4, <2>5, <3>1, ChainIsOrderly
    <3>3. at[k] \in Int
      BY <2>8
    <3> QED
      BY <3>1, <3>2, <3>3
  <2> HIDE DEF Place
  <2>10. ASSUME NEW k \in 1 .. n
         PROVE  place[k] \in ElementPlaces(a, i) /\ ElementRead(a, b, i, place[k], s.list[k], t.list[k])
    <3>1. ItemListed(a, ArrayEnd, at[k] + 1, s.list[k]) /\ ItemListed(b, ArrayEnd, at[k] + 1, t.list[k])
      BY <2>4 DEF Listed
    <3>2. at[k] + 1 \in 1 .. Len(a) + 1
      BY <1>0, <2>8
    <3>3. place[k] = ItemPlace(b, ArrayEnd, at[k] + 1) /\ DecodedEnd(b)[place[k]] = DecodedEnd(a)[place[k]]
      BY <1>0, <2>8, <3>2, ShapeOfItem, ShapeOfEnds
    <3>4. \E u \in ValueOf(a, place[k]) : u.next = DecodedEnd(a)[place[k]] /\ s.list[k] = u.tree
      BY <2>8, <3>1, ElementListed
    <3>5. \E u \in ValueOf(b, place[k]) : u.next = DecodedEnd(a)[place[k]] /\ t.list[k] = u.tree
      BY <3>1, <3>3, ElementListed
    <3>6. place[k] \in i + 1 .. Len(a)
      BY <2>8, <2>9
    <3>7. a[place[k]] # Space
      <4>1. From(a, ArrayEnd, at[k] + 1) \in 1 .. Len(a) + 1
        BY <1>0, <2>8, <3>2, KeyedIs
      <4>2. At(a, place[k]) # Space
        BY <1>0, <2>8, <4>1, SkipSpaceEnds DEF ItemPlace
      <4>3. place[k] \in Nat /\ place[k] > 0 /\ place[k] <= Len(a)
        BY <2>8
      <4> QED
        BY <1>0, <4>2, <4>3, EndIsNone
    <3> QED
      BY <2>6, <2>7, <2>8, <3>4, <3>5, <3>6, <3>7 DEF ElementRead
  <2>11. \A p \in ElementPlaces(a, i) : \E k \in 1 .. n : p = place[k]
    BY <2>6, <2>7
  <2>12. \A k \in 1 .. n : \A j \in 1 .. n : j < k => DecodedEnd(a)[place[j]] <= place[k]
    <3> TAKE k \in 1 .. n
    <3> TAKE j \in 1 .. n
    <3> HAVE j < k
    <3>1. ItemEnd(a, ArrayEnd, at[j] + 1) <= at[k]
      BY <1>0, <2>4, ChainIsOrderly
    <3>2. DecodedEnd(a)[place[j]] \in Int /\ DecodedEnd(a)[place[j]] <= at[k]
      BY <2>8, <3>1
    <3>3. at[k] <= place[k] /\ at[k] \in Int /\ place[k] \in Int
      BY <2>8
    <3> QED
      BY <3>2, <3>3
  <2>13. s.list = [k \in 1 .. n |-> s.list[k]] /\ t.list = [k \in 1 .. n |-> t.list[k]]
    BY <2>4 DEF Listed
  <2>14. ElementsRead(a, b, i, n, place, s.list, t.list)
    BY <2>5, <2>10, <2>11, <2>12, <2>13 DEF ElementsRead
  <2> QED
    BY <1>2, <1>3, <2>14 DEF ArraysRead
<1> QED
  BY <1>7, <1>8

-----------------------------------------------------------------------------
(* The members of a restored object.                                       *)

(* What kind of value begins with an atom.                                 *)
LEMMA KindOfValue ==
  ASSUME NEW doc, Len(doc) \in Nat, NEW i \in 1 .. Len(doc), doc[i] # Space, NEW v \in ValueOf(doc, i)
  PROVE  /\ Kind(v.tree) = "string" <=> IsString(doc[i])
         /\ IsString(doc[i]) => v.tree = String(Text(doc[i]))
         /\ Kind(v.tree) = "object" <=> doc[i] = ObjectStart
         /\ Kind(v.tree) = "array" <=> doc[i] = ArrayStart
<1>1. i \in 1 .. Len(doc) + 1 /\ At(doc, i) = doc[i] /\ i \in i .. Len(doc) + 1
  BY EndIsNone
<1>2. SkipSpace(doc, i) = i
  <2>1. \A k \in i .. i - 1 : At(doc, k) = Space
    OBVIOUS
  <2> QED
    BY <1>1, <2>1, SkipSpaceIs
<1>3. CASE IsString(doc[i])
  <2>1. ValueOf(doc, i) = {[tree |-> String(Text(doc[i])), next |-> i + 1]}
    BY StringEnds, <1>3
  <2>2. v.tree = String(Text(doc[i])) /\ Kind(v.tree) = "string"
    BY <2>1 DEF Kind, String
  <2>3. doc[i] # ObjectStart /\ doc[i] # ArrayStart
    BY <1>3, MarksDiffer
  <2>4. Kind(v.tree) # "object" /\ Kind(v.tree) # "array"
    BY <2>2
  <2> QED
    BY <1>3, <2>2, <2>3, <2>4
<1>4. CASE ~IsString(doc[i])
  <2>1. doc[i] \in {Number, ObjectStart, ArrayStart}
    BY <1>1, <1>2, <1>4, ValueReading
  <2>2. CASE doc[i] = Number
    <3>1. ValueOf(doc, i) = {[tree |-> Number, next |-> i + 1]}
      BY <1>1, <1>2, <2>2, ValueReading
    <3>2. Kind(v.tree) = "number"
      BY <3>1 DEF Kind, Number
    <3>3. doc[i] # ObjectStart /\ doc[i] # ArrayStart
      BY <2>2, MarksDiffer
    <3> QED
      BY <1>4, <3>2, <3>3
  <2>3. CASE doc[i] = ObjectStart
    <3>1. ValueOf(doc, i) = ObjectsOf(InsideOf(doc, ObjectEnd, i + 1))
      BY <1>1, <1>2, <2>3, ValueReading
    <3>2. Kind(v.tree) = "object"
      BY <3>1 DEF Kind, ObjectsOf
    <3>3. doc[i] # ArrayStart
      BY <2>3, MarksDiffer
    <3> QED
      BY <1>4, <2>3, <3>2, <3>3
  <2>4. CASE doc[i] = ArrayStart
    <3>1. ValueOf(doc, i) = ArraysOf(InsideOf(doc, ArrayEnd, i + 1))
      BY <1>1, <1>2, <2>4, ValueReading
    <3>2. Kind(v.tree) = "array"
      BY <3>1 DEF Kind, ArraysOf
    <3>3. doc[i] # ObjectStart
      BY <2>4, MarksDiffer
    <3> QED
      BY <1>4, <2>4, <3>2, <3>3
  <2> QED
    BY <2>1, <2>2, <2>3, <2>4
<1> QED
  BY <1>3, <1>4

(* b is a with the model at the places of the edits, from i to n.          *)
Local(a, b, i, n, edits) ==
  \A j \in i .. n - 1 : b[j] = IF j \in PlacesOf(edits) THEN String(Model) ELSE a[j]

(* A value whose atoms are the same is the same.                           *)
LEMMA Untouched ==
  ASSUME NEW a, NEW b, SameShape(a, b), NEW i \in 1 .. Len(a), NEW v \in ValueOf(a, i), NEW w \in ValueOf(b, i),
         Local(a, b, i, v.next, {})
  PROVE  w.tree = v.tree
<1>1. Len(a) \in Nat /\ Len(b) \in Nat /\ Len(b) = Len(a) /\ AValue \in Whats /\ i \in 1 .. Len(a) + 1
  BY DEF SameShape, Whats
<1>2. v.next \in i + 1 .. Len(a) + 1
  BY <1>1, ReadingUnrolled DEF Bounded, ValueOf
<1>3. \A j \in i .. v.next - 1 : b[j] = a[j]
  BY DEF Local, PlacesOf
<1>4. Carried(a, b, i, v.next, 0)
  <2>1. \A j \in i .. v.next - 1 : b[j + 0] = a[j]
    BY <1>1, <1>2, <1>3
  <2> QED
    BY <1>1, <1>2, <2>1 DEF Carried
<1>5. v \in Reading(a)[<<AValue, i>>]
  BY DEF ValueOf
<1>6. \E s \in Reading(b)[<<AValue, i + 0>>] : SameRead(AValue, s, v, 0)
  BY <1>1, <1>4, <1>5, CarriedReading
<1>7. PICK s \in ValueOf(b, i) : s.tree = v.tree
  BY <1>1, <1>6 DEF SameRead, ValueOf
<1>8. AtMostOne(ValueOf(b, i))
  BY <1>1, OneReading DEF ValueOf
<1> QED
  BY <1>7, <1>8 DEF AtMostOne

(* The place of an edit of a member is that of its value.                  *)
LEMMA EditOfMember ==
  ASSUME NEW doc, NEW m, NEW parent
  PROVE  \/ ModelEdit(doc, m, parent) = {}
         \/ PlacesOf(ModelEdit(doc, m, parent)) = {m.value}
BY DEF ModelEdit, PlacesOf, Edit

(* The fields restored below a parent.                                     *)
FieldsOf(fields, parent) == \A key : Restorable(key, parent) <=> key \in fields

(* ModelEdit restores a member, and leaves the others alone.               *)
LEMMA MemberRestored ==
  ASSUME NEW a, NEW b, SameShape(a, b), NEW i \in 1 .. Len(a), NEW m, NEW x, NEW y, MemberRead(a, b, i, m, x, y),
         NEW parent, NEW fields, FieldsOf(fields, parent), b[m.key] = a[m.key],
         Local(a, b, m.value, m.end, ModelEdit(a, m, parent))
  PROVE  y = RestoredMember(x, fields)
<1>1. Len(a) \in Nat /\ Len(b) \in Nat /\ Len(b) = Len(a)
  BY DEF SameShape
<1>2. GoodMember(a, i, m)
  BY DEF MemberRead
<1>3. /\ m.value \in 1 .. Len(a) /\ m.end \in m.value + 1 .. Len(a) /\ a[m.value] # Space
  <2>1. m.value \in m.key + 2 .. Len(a) /\ m.key \in m.before + 1 .. Len(a) /\ m.before \in i .. Len(a)
        /\ m.end \in m.value + 1 .. Len(a) /\ a[m.value] # Space
    BY <1>1, <1>2, MemberParts
  <2> QED
    BY <1>1, <2>1
<1>4. PICK v \in ValueOf(a, m.value) : v.next = m.end /\ x = <<Text(a[m.key]), v.tree>>
  BY DEF MemberRead
<1>5. PICK w \in ValueOf(b, m.value) : w.next = m.end /\ y = <<Text(b[m.key]), w.tree>>
  BY DEF MemberRead
<1>6. Kind(v.tree) = "string" <=> IsString(a[m.value])
  BY <1>1, <1>3, KindOfValue
<1>7. x[1] = Text(a[m.key]) /\ x[2] = v.tree /\ y = <<x[1], w.tree>>
  BY <1>4, <1>5
<1>8. CASE x[1] \in fields /\ IsString(a[m.value])
  <2>1. RestoredMember(x, fields) = <<x[1], String(Model)>>
    BY <1>6, <1>7, <1>8 DEF RestoredMember
  <2>2. Restorable(Text(a[m.key]), parent)
    BY <1>7, <1>8 DEF FieldsOf
  <2>3. m.value \in m.value .. m.end - 1
    BY <1>1, <1>3
  <2>4. IsString(b[m.value]) /\ Text(b[m.value]) = Model
    <3>1. CASE Text(a[m.value]) = Model
      <4>1. ModelEdit(a, m, parent) = {}
        BY <3>1 DEF ModelEdit
      <4>2. b[m.value] = a[m.value]
        BY <2>3, <4>1 DEF Local, PlacesOf
      <4> QED
        BY <1>8, <3>1, <4>2
    <3>2. CASE Text(a[m.value]) # Model
      <4>1. ModelEdit(a, m, parent) = {Edit(m.value, m.end, <<String(Model)>>)}
        BY <1>8, <2>2, <3>2 DEF ModelEdit
      <4>2. m.value \in PlacesOf(ModelEdit(a, m, parent))
        BY <4>1 DEF PlacesOf, Edit
      <4>3. b[m.value] = String(Model)
        BY <2>3, <4>2 DEF Local
      <4> QED
        BY <4>3, StringsAre
    <3> QED
      BY <3>1, <3>2
  <2>5. b[m.value] # Space
    BY <2>4, MarksDiffer
  <2>6. w.tree = String(Text(b[m.value]))
    BY <1>1, <1>3, <2>4, <2>5, KindOfValue
  <2> QED
    BY <1>7, <2>1, <2>4, <2>6
<1>9. CASE ~(x[1] \in fields /\ IsString(a[m.value]))
  <2>1. RestoredMember(x, fields) = x
    BY <1>6, <1>7, <1>9 DEF RestoredMember
  <2>2. ModelEdit(a, m, parent) = {}
    BY <1>7, <1>9 DEF ModelEdit, FieldsOf
  <2>3. w.tree = v.tree
    BY <1>3, <1>4, <2>2, Untouched
  <2> QED
    BY <1>4, <1>7, <2>1, <2>3
<1> QED
  BY <1>8, <1>9

(* The places of a member lie in its object, in order.                     *)
LEMMA MemberBounds ==
  ASSUME NEW a, NEW b, Len(a) \in Nat, NEW i \in 1 .. Len(a), NEW m, NEW x, NEW y, MemberRead(a, b, i, m, x, y)
  PROVE  /\ m.before \in Int /\ m.value \in Int /\ m.end \in Int
         /\ i <= m.before /\ m.before < m.value /\ m.value < m.end
         /\ m.end < DecodedEnd(a)[i]
<1>1. GoodMember(a, i, m) /\ m.end < DecodedEnd(a)[i]
  BY DEF MemberRead
<1>2. /\ m.before \in i .. Len(a) /\ m.key \in m.before + 1 .. Len(a)
      /\ m.value \in m.key + 2 .. Len(a) /\ m.end \in m.value + 1 .. Len(a)
  BY <1>1, MemberParts
<1> QED
  BY <1>1, <1>2

(* The edits of the members of one object do not reach each other.         *)
LEMMA LocalMembers ==
  ASSUME NEW a, NEW b, Len(a) \in Nat, NEW i \in 1 .. Len(a), NEW n, NEW mem, NEW x, NEW y,
         MembersRead(a, b, i, n, mem, x, y), NEW g,
         \A m \in Walk(a, i, DecodedEnd(a)) : \A p \in PlacesOf(g[m]) : p \in m.value .. m.end - 1,
         Local(a, b, i, DecodedEnd(a)[i], UNION {g[m] : m \in Walk(a, i, DecodedEnd(a))}),
         NEW k \in 1 .. n
  PROVE  Local(a, b, mem[k].value, mem[k].end, g[mem[k]])
<1> DEFINE W == Walk(a, i, DecodedEnd(a))
           all == UNION {g[m] : m \in W}
<1>1. \A j \in 1 .. n : mem[j] \in W /\ MemberRead(a, b, i, mem[j], x[j], y[j])
  BY DEF MembersRead
<1>2. n \in Nat /\ \A m \in W : \E j \in 1 .. n : m = mem[j]
  BY DEF MembersRead
<1>3. \A j \in 1 .. n : /\ mem[j].before \in Int /\ mem[j].value \in Int /\ mem[j].end \in Int
                        /\ i <= mem[j].before /\ mem[j].before < mem[j].value /\ mem[j].value < mem[j].end
                        /\ mem[j].end < DecodedEnd(a)[i]
  BY <1>1, MemberBounds
<1>4. \A j \in 1 .. n : \A h \in 1 .. n : j < h => mem[j].end <= mem[h].before
  <2>1. \A h \in 1 .. n : \A j \in 1 .. n : j < h => mem[j].end <= mem[h].before
    BY DEF MembersRead
  <2> QED
    BY <2>1
<1>5. DecodedEnd(a)[i] \in Int
  BY EndOfValue
<1>6. ASSUME NEW p \in mem[k].value .. mem[k].end - 1
      PROVE  p \in PlacesOf(all) <=> p \in PlacesOf(g[mem[k]])
  <2>1. ASSUME NEW e \in all, e.start = p PROVE e \in g[mem[k]]
    <3>1. PICK m \in W : e \in g[m]
      BY <2>1
    <3>2. PICK j \in 1 .. n : m = mem[j]
      BY <1>2
    <3>3. p \in mem[j].value .. mem[j].end - 1
      BY <2>1, <3>1, <3>2 DEF PlacesOf
    <3>4. ~(j < k) /\ ~(k < j)
      BY <1>3, <1>4, <3>3
    <3>5. j = k
      BY <1>2, <3>4
    <3> QED
      BY <3>1, <3>2, <3>5
  <2>2. g[mem[k]] \subseteq all
    BY <1>1
  <2>3. \A e \in all : e.start = p => e \in g[mem[k]]
    BY <2>1
  <2> HIDE DEF all
  <2> QED
    BY <2>2, <2>3 DEF PlacesOf
<1>7. ASSUME NEW p \in mem[k].value .. mem[k].end - 1 PROVE p \in i .. DecodedEnd(a)[i] - 1
  BY <1>3, <1>5
<1>8. Local(a, b, i, DecodedEnd(a)[i], all)
  OBVIOUS
<1> HIDE DEF all, W
<1> QED
  BY <1>6, <1>7, <1>8 DEF Local

(* No key is another one.                                                  *)
KeysKept(a, b) ==
  \A j \in 1 .. Len(a) : At(a, SkipSpace(a, j + 1)) = Colon => b[j] = a[j]

(* The key of a member is no edited place.                                 *)
LEMMA KeyKept ==
  ASSUME NEW a, NEW b, Len(a) \in Nat, KeysKept(a, b), NEW i \in 1 .. Len(a), NEW m, GoodMember(a, i, m)
  PROVE  b[m.key] = a[m.key]
<1>1. /\ m.before \in i .. Len(a) /\ m.key \in m.before + 1 .. Len(a)
      /\ SkipSpace(a, m.key + 1) \in m.key + 1 .. Len(a) /\ a[SkipSpace(a, m.key + 1)] = Colon
  BY MemberParts
<1>2. m.key \in 1 .. Len(a) /\ SkipSpace(a, m.key + 1) \in Nat /\ SkipSpace(a, m.key + 1) > 0
      /\ SkipSpace(a, m.key + 1) <= Len(a)
  BY <1>1
<1>3. At(a, SkipSpace(a, m.key + 1)) = Colon
  BY <1>1, <1>2, EndIsNone
<1> QED
  BY <1>2, <1>3 DEF KeysKept

(* A text has the shape of itself.                                         *)
LEMMA SameShapeOfItself ==
  ASSUME NEW a, Len(a) \in Nat PROVE SameShape(a, a)
BY DEF SameShape

(* The members of an object, in one text.                                  *)
LEMMA MembersInside ==
  ASSUME NEW a, Len(a) \in Nat, NEW i \in 1 .. Len(a), a[i] = ObjectStart, NEW v \in ValueOf(a, i),
         NEW m \in Walk(a, i, DecodedEnd(a))
  PROVE  /\ GoodMember(a, i, m) /\ \E x : \E y : MemberRead(a, a, i, m, x, y)
         /\ m.before \in Int /\ m.value \in Int /\ m.end \in Int
         /\ i <= m.before /\ m.before < m.value /\ m.value < m.end /\ m.end < v.next
<1>1. SameShape(a, a)
  BY SameShapeOfItself
<1>2. ObjectsRead(a, a, i, v, v)
  BY <1>1, ObjectIsRead
<1>3. PICK n : \E mem : \E x : \E y : MembersRead(a, a, i, n, mem, x, y)
  BY <1>2 DEF ObjectsRead
<1>4. PICK mem : \E x : \E y : MembersRead(a, a, i, n, mem, x, y)
  BY <1>3
<1>5. PICK x : \E y : MembersRead(a, a, i, n, mem, x, y)
  BY <1>4
<1>6. PICK y : MembersRead(a, a, i, n, mem, x, y)
  BY <1>5
<1>7. PICK k \in 1 .. n : m = mem[k]
  BY <1>6 DEF MembersRead
<1>8. MemberRead(a, a, i, m, x[k], y[k])
  BY <1>6, <1>7 DEF MembersRead
<1>9. GoodMember(a, i, m)
  BY <1>8 DEF MemberRead
<1>10. v.next = DecodedEnd(a)[i]
  BY EndOfValue
<1>11. /\ m.before \in Int /\ m.value \in Int /\ m.end \in Int
       /\ i <= m.before /\ m.before < m.value /\ m.value < m.end
       /\ m.end < DecodedEnd(a)[i]
  BY <1>8, MemberBounds
<1>12. \E s : \E t : MemberRead(a, a, i, m, s, t)
  BY <1>8
<1> QED
  BY <1>9, <1>10, <1>11, <1>12

(* InnerEdits replaces inside its object.                                  *)
LEMMA InnerEditsInside ==
  ASSUME NEW a, Len(a) \in Nat, NEW i \in 1 .. Len(a), NEW v \in ValueOf(a, i), NEW parent,
         NEW p \in PlacesOf(InnerEdits(a, i, parent))
  PROVE  p \in i .. v.next - 1
<1>1. a[i] = ObjectStart
  BY DEF InnerEdits, PlacesOf
<1>2. PICK m \in Walk(a, i, DecodedEnd(a)) : p \in PlacesOf(ModelEdit(a, m, parent))
  BY <1>1 DEF InnerEdits, PlacesOf
<1>3. p = m.value
  BY <1>2, EditOfMember DEF PlacesOf
<1>4. /\ m.before \in Int /\ m.value \in Int /\ m.end \in Int
      /\ i <= m.before /\ m.before < m.value /\ m.value < m.end /\ m.end < v.next
  BY <1>1, MembersInside
<1>5. v.next \in Int
  <2>1. DecodedEnd(a)[i] \in i + 1 .. Len(a) + 1 /\ v.next = DecodedEnd(a)[i]
    BY EndOfValue
  <2> QED
    BY <2>1
<1> QED
  BY <1>3, <1>4, <1>5

(* Only objects have fields to restore.                                    *)
LEMMA RestoredOther ==
  ASSUME NEW tree, NEW fields, Kind(tree) # "object"
  PROVE  Restored(tree, fields) = tree /\ RestoredObject(tree) = tree
BY DEF Restored, RestoredObject

(* Restoring an object, member by member.                                  *)
LEMMA RestoredList ==
  ASSUME NEW n \in Nat, NEW x, x = [k \in 1 .. n |-> x[k]], NEW y, y = [k \in 1 .. n |-> y[k]], NEW fields,
         \A k \in 1 .. n : y[k] = RestoredMember(x[k], fields)
  PROVE  ObjectTree(y) = Restored(ObjectTree(x), fields)
<1>1. Kind(ObjectTree(x)) = "object" /\ Content(ObjectTree(x)) = x /\ DOMAIN x = 1 .. n
  BY DEF Kind, Content, ObjectTree
<1>2. Restored(ObjectTree(x), fields) = ObjectTree([k \in 1 .. n |-> RestoredMember(x[k], fields)])
  BY <1>1 DEF Restored, ObjectTree
<1>3. y = [k \in 1 .. n |-> RestoredMember(x[k], fields)]
  OBVIOUS
<1> QED
  BY <1>2, <1>3

(* Restoring the outermost object, member by member.                       *)
LEMMA RestoredFields ==
  ASSUME NEW n \in Nat, NEW x, x = [k \in 1 .. n |-> x[k]], NEW y, y = [k \in 1 .. n |-> y[k]],
         \A k \in 1 .. n : y[k] = RestoredField(x[k])
  PROVE  ObjectTree(y) = RestoredObject(ObjectTree(x))
<1>1. Kind(ObjectTree(x)) = "object" /\ Content(ObjectTree(x)) = x /\ DOMAIN x = 1 .. n
  BY DEF Kind, Content, ObjectTree
<1>2. RestoredObject(ObjectTree(x)) = ObjectTree([k \in 1 .. n |-> RestoredField(x[k])])
  BY <1>1 DEF RestoredObject, ObjectTree
<1>3. y = [k \in 1 .. n |-> RestoredField(x[k])]
  OBVIOUS
<1> QED
  BY <1>2, <1>3

(* The object of a response or message.                                    *)
LEMMA InnerRestored ==
  ASSUME NEW a, NEW b, SameShape(a, b), KeysKept(a, b), NEW i \in 1 .. Len(a), a[i] # Space,
         NEW v \in ValueOf(a, i), NEW w \in ValueOf(b, i), NEW parent, NEW fields, FieldsOf(fields, parent),
         Local(a, b, i, v.next, InnerEdits(a, i, parent))
  PROVE  w.tree = Restored(v.tree, fields)
<1>1. Len(a) \in Nat
  BY DEF SameShape
<1>2. CASE a[i] # ObjectStart
  <2>1. InnerEdits(a, i, parent) = {}
    BY <1>2 DEF InnerEdits
  <2>2. w.tree = v.tree
    BY <2>1, Untouched
  <2>3. Kind(v.tree) # "object"
    BY <1>1, <1>2, KindOfValue
  <2> QED
    BY <2>2, <2>3, RestoredOther
<1>3. CASE a[i] = ObjectStart
  <2> DEFINE W == Walk(a, i, DecodedEnd(a))
             g == [m \in W |-> ModelEdit(a, m, parent)]
  <2>1. ObjectsRead(a, b, i, v, w)
    BY <1>3, ObjectIsRead
  <2>2. PICK n : \E mem : \E x : \E y :
              v.tree = ObjectTree(x) /\ w.tree = ObjectTree(y) /\ MembersRead(a, b, i, n, mem, x, y)
    BY <2>1 DEF ObjectsRead
  <2>3. PICK mem : \E x : \E y :
              v.tree = ObjectTree(x) /\ w.tree = ObjectTree(y) /\ MembersRead(a, b, i, n, mem, x, y)
    BY <2>2
  <2>4. PICK x : \E y : v.tree = ObjectTree(x) /\ w.tree = ObjectTree(y) /\ MembersRead(a, b, i, n, mem, x, y)
    BY <2>3
  <2>5. PICK y : v.tree = ObjectTree(x) /\ w.tree = ObjectTree(y) /\ MembersRead(a, b, i, n, mem, x, y)
    BY <2>4
  <2>6. \A m \in W : g[m] = ModelEdit(a, m, parent)
    OBVIOUS
  <2>7. UNION {g[m] : m \in W} = InnerEdits(a, i, parent)
    BY <1>3, <2>6 DEF InnerEdits
  <2>8. v.next = DecodedEnd(a)[i]
    BY <1>1, EndOfValue
  <2> HIDE DEF g
  <2>9. \A m \in W : \A p \in PlacesOf(g[m]) : p \in m.value .. m.end - 1
    <3> TAKE m \in W
    <3> TAKE p \in PlacesOf(g[m])
    <3>3. p \in PlacesOf(ModelEdit(a, m, parent))
      BY <2>6
    <3>1. p = m.value
      BY <3>3, EditOfMember DEF PlacesOf
    <3>2. m.value \in Int /\ m.end \in Int /\ m.value < m.end
      BY <1>1, <1>3, MembersInside
    <3> QED
      BY <3>1, <3>2
  <2>10. Local(a, b, i, DecodedEnd(a)[i], UNION {g[m] : m \in Walk(a, i, DecodedEnd(a))})
    BY <2>7, <2>8
  <2>11. n \in Nat /\ x = [k \in 1 .. n |-> x[k]] /\ y = [k \in 1 .. n |-> y[k]]
    BY <2>5 DEF MembersRead
  <2>12. \A k \in 1 .. n : y[k] = RestoredMember(x[k], fields)
    <3> TAKE k \in 1 .. n
    <3>1. mem[k] \in W /\ MemberRead(a, b, i, mem[k], x[k], y[k])
      BY <2>5 DEF MembersRead
    <3>2. Local(a, b, mem[k].value, mem[k].end, g[mem[k]])
      BY <1>1, <2>5, <2>9, <2>10, LocalMembers
    <3>3. b[mem[k].key] = a[mem[k].key]
      BY <1>1, <3>1, KeyKept DEF MemberRead
    <3>4. g[mem[k]] = ModelEdit(a, mem[k], parent)
      BY <2>6, <3>1
    <3> QED
      BY <3>1, <3>2, <3>3, <3>4, MemberRestored
  <2> QED
    BY <2>5, <2>11, <2>12, RestoredList
<1> QED
  BY <1>2, <1>3

(* The edits of a member of the outermost object.                          *)
MemberEdits(doc, m) ==
  IF Text(doc[m.key]) \in Holders THEN InnerEdits(doc, m.value, Text(doc[m.key]))
  ELSE ModelEdit(doc, m, Outermost)

(* collectResponseModelEdits, member by member.                            *)
LEMMA EditsOfMembers ==
  ASSUME NEW doc, NEW i
  PROVE  collectResponseModelEdits(doc, i) =
           IF doc[i] # ObjectStart THEN {} ELSE UNION {MemberEdits(doc, m) : m \in Walk(doc, i, DecodedEnd(doc))}
BY DEF collectResponseModelEdits, MemberEdits, Holders

(* The code restores below each parent the fields the README lists for it. *)
LEMMA FieldsRestored ==
  /\ FieldsOf(OuterFields, Outermost)
  /\ \A holder \in Holders : FieldsOf(InnerFields(holder), holder)
<1>1. FieldsOf(OuterFields, Outermost)
  BY DEF FieldsOf, OuterFields, Restorable, Outermost
<1>2. ASSUME NEW holder \in Holders PROVE FieldsOf(InnerFields(holder), holder)
  BY DEF FieldsOf, InnerFields, Restorable, Outermost, Holders
<1> QED
  BY <1>1, <1>2

(* The edits of a member replace inside its value.                         *)
LEMMA MemberEditsInside ==
  ASSUME NEW a, Len(a) \in Nat, NEW i \in 1 .. Len(a), a[i] = ObjectStart, NEW v \in ValueOf(a, i),
         NEW m \in Walk(a, i, DecodedEnd(a)), NEW p \in PlacesOf(MemberEdits(a, m))
  PROVE  p \in m.value .. m.end - 1
<1>1. /\ \E x : \E y : MemberRead(a, a, i, m, x, y) /\ GoodMember(a, i, m)
      /\ m.value \in Int /\ m.end \in Int /\ m.value < m.end
  BY MembersInside
<1>2. PICK u \in ValueOf(a, m.value) : u.next = m.end
  BY <1>1 DEF MemberRead
<1>3. CASE Text(a[m.key]) \in Holders
  <2>1. m.value \in 1 .. Len(a)
    <3>1. m.before \in i .. Len(a) /\ m.key \in m.before + 1 .. Len(a) /\ m.value \in m.key + 2 .. Len(a)
      BY <1>1, MemberParts
    <3> QED
      BY <3>1
  <2> QED
    BY <1>2, <1>3, <2>1, InnerEditsInside DEF MemberEdits
<1>4. CASE Text(a[m.key]) \notin Holders
  <2>1. p = m.value
    BY <1>4, EditOfMember DEF MemberEdits, PlacesOf
  <2> QED
    BY <1>1, <2>1
<1> QED
  BY <1>3, <1>4

(* collectResponseModelEdits restores each member of the outermost object. *)
LEMMA FieldRestored ==
  ASSUME NEW a, NEW b, SameShape(a, b), KeysKept(a, b), NEW i \in 1 .. Len(a), NEW m, NEW x, NEW y,
         MemberRead(a, b, i, m, x, y), Local(a, b, m.value, m.end, MemberEdits(a, m))
  PROVE  y = RestoredField(x)
<1>1. Len(a) \in Nat /\ GoodMember(a, i, m)
  BY DEF SameShape, MemberRead
<1>2. b[m.key] = a[m.key]
  BY <1>1, KeyKept
<1>3. PICK v \in ValueOf(a, m.value) : v.next = m.end /\ x = <<Text(a[m.key]), v.tree>>
  BY DEF MemberRead
<1>4. PICK w \in ValueOf(b, m.value) : w.next = m.end /\ y = <<Text(b[m.key]), w.tree>>
  BY DEF MemberRead
<1>5. x[1] = Text(a[m.key]) /\ x[2] = v.tree /\ y = <<x[1], w.tree>>
  BY <1>2, <1>3, <1>4
<1>6. m.value \in 1 .. Len(a) /\ a[m.value] # Space
  <2>1. m.before \in i .. Len(a) /\ m.key \in m.before + 1 .. Len(a) /\ m.value \in m.key + 2 .. Len(a)
        /\ a[m.value] # Space
    BY <1>1, MemberParts
  <2> QED
    BY <2>1
<1>7. CASE x[1] \in Holders
  <2>1. FieldsOf(InnerFields(x[1]), x[1])
    BY <1>7, FieldsRestored
  <2>2. MemberEdits(a, m) = InnerEdits(a, m.value, x[1])
    BY <1>5, <1>7 DEF MemberEdits
  <2>3. Local(a, b, m.value, v.next, InnerEdits(a, m.value, x[1]))
    BY <1>3, <2>2
  <2>4. w.tree = Restored(v.tree, InnerFields(x[1]))
    BY <1>6, <2>1, <2>3, InnerRestored
  <2> QED
    BY <1>5, <1>7, <2>4 DEF RestoredField
<1>8. CASE x[1] \notin Holders
  <2>1. MemberEdits(a, m) = ModelEdit(a, m, Outermost)
    BY <1>5, <1>8 DEF MemberEdits
  <2>2. y = RestoredMember(x, OuterFields)
    BY <1>2, <2>1, FieldsRestored, MemberRestored
  <2> QED
    BY <1>8, <2>2 DEF RestoredField
<1> QED
  BY <1>7, <1>8

(* A whole body, or an element of one.                                     *)
LEMMA WholeRestored ==
  ASSUME NEW a, NEW b, SameShape(a, b), KeysKept(a, b), NEW i \in 1 .. Len(a), a[i] # Space,
         NEW v \in ValueOf(a, i), NEW w \in ValueOf(b, i),
         Local(a, b, i, v.next, collectResponseModelEdits(a, i))
  PROVE  w.tree = RestoredObject(v.tree)
<1>1. Len(a) \in Nat
  BY DEF SameShape
<1>2. CASE a[i] # ObjectStart
  <2>1. collectResponseModelEdits(a, i) = {}
    BY <1>2, EditsOfMembers
  <2>2. w.tree = v.tree
    BY <2>1, Untouched
  <2>3. Kind(v.tree) # "object"
    BY <1>1, <1>2, KindOfValue
  <2> QED
    BY <2>2, <2>3, RestoredOther
<1>3. CASE a[i] = ObjectStart
  <2> DEFINE W == Walk(a, i, DecodedEnd(a))
             g == [m \in W |-> MemberEdits(a, m)]
  <2>1. ObjectsRead(a, b, i, v, w)
    BY <1>3, ObjectIsRead
  <2>2. PICK n : \E mem : \E x : \E y :
              v.tree = ObjectTree(x) /\ w.tree = ObjectTree(y) /\ MembersRead(a, b, i, n, mem, x, y)
    BY <2>1 DEF ObjectsRead
  <2>3. PICK mem : \E x : \E y :
              v.tree = ObjectTree(x) /\ w.tree = ObjectTree(y) /\ MembersRead(a, b, i, n, mem, x, y)
    BY <2>2
  <2>4. PICK x : \E y : v.tree = ObjectTree(x) /\ w.tree = ObjectTree(y) /\ MembersRead(a, b, i, n, mem, x, y)
    BY <2>3
  <2>5. PICK y : v.tree = ObjectTree(x) /\ w.tree = ObjectTree(y) /\ MembersRead(a, b, i, n, mem, x, y)
    BY <2>4
  <2>6. \A m \in W : g[m] = MemberEdits(a, m)
    OBVIOUS
  <2>7. UNION {g[m] : m \in W} = collectResponseModelEdits(a, i)
    BY <1>3, <2>6, EditsOfMembers
  <2>8. v.next = DecodedEnd(a)[i]
    BY <1>1, EndOfValue
  <2> HIDE DEF g
  <2>9. \A m \in W : \A p \in PlacesOf(g[m]) : p \in m.value .. m.end - 1
    BY <1>1, <1>3, <2>6, MemberEditsInside
  <2>10. Local(a, b, i, DecodedEnd(a)[i], UNION {g[m] : m \in Walk(a, i, DecodedEnd(a))})
    BY <2>7, <2>8
  <2>11. n \in Nat /\ x = [k \in 1 .. n |-> x[k]] /\ y = [k \in 1 .. n |-> y[k]]
    BY <2>5 DEF MembersRead
  <2>12. \A k \in 1 .. n : y[k] = RestoredField(x[k])
    <3> TAKE k \in 1 .. n
    <3>1. mem[k] \in W /\ MemberRead(a, b, i, mem[k], x[k], y[k])
      BY <2>5 DEF MembersRead
    <3>2. Local(a, b, mem[k].value, mem[k].end, g[mem[k]])
      BY <1>1, <2>5, <2>9, <2>10, LocalMembers
    <3>3. g[mem[k]] = MemberEdits(a, mem[k])
      BY <2>6, <3>1
    <3> QED
      BY <3>1, <3>2, <3>3, FieldRestored
  <2> QED
    BY <2>5, <2>11, <2>12, RestoredFields
<1> QED
  BY <1>2, <1>3

-----------------------------------------------------------------------------
(* The whole response.                                                     *)

(* collectResponseModelEdits replaces inside its object.                   *)
LEMMA WholeEditsInside ==
  ASSUME NEW a, Len(a) \in Nat, NEW i \in 1 .. Len(a), NEW v \in ValueOf(a, i),
         NEW p \in PlacesOf(collectResponseModelEdits(a, i))
  PROVE  p \in i .. DecodedEnd(a)[i] - 1
<1>1. a[i] = ObjectStart
  BY DEF collectResponseModelEdits, PlacesOf
<1>2. PICK m \in Walk(a, i, DecodedEnd(a)) : p \in PlacesOf(MemberEdits(a, m))
  BY <1>1, EditsOfMembers DEF PlacesOf
<1>3. p \in m.value .. m.end - 1
  BY <1>1, <1>2, MemberEditsInside
<1>4. /\ m.before \in Int /\ m.value \in Int /\ m.end \in Int
      /\ i <= m.before /\ m.before < m.value /\ m.value < m.end /\ m.end < v.next
  BY <1>1, MembersInside
<1>5. v.next \in Int /\ v.next = DecodedEnd(a)[i]
  <2>1. DecodedEnd(a)[i] \in i + 1 .. Len(a) + 1 /\ v.next = DecodedEnd(a)[i]
    BY EndOfValue
  <2> QED
    BY <2>1
<1> QED
  BY <1>3, <1>4, <1>5

(* The edits of one element do not reach the others.                       *)
LEMMA LocalElements ==
  ASSUME NEW a, NEW b, Len(a) \in Nat, NEW i \in 1 .. Len(a), NEW n, NEW place, NEW x, NEW y,
         ElementsRead(a, b, i, n, place, x, y),
         Local(a, b, 1, Len(a) + 1, UNION {collectResponseModelEdits(a, p) : p \in ElementPlaces(a, i)}),
         NEW k \in 1 .. n
  PROVE  Local(a, b, place[k], DecodedEnd(a)[place[k]], collectResponseModelEdits(a, place[k]))
<1> DEFINE P == ElementPlaces(a, i)
           g(p) == collectResponseModelEdits(a, p)
           all == UNION {g(p) : p \in P}
<1>1. \A j \in 1 .. n : place[j] \in P /\ ElementRead(a, b, i, place[j], x[j], y[j])
  BY DEF ElementsRead
<1>2. n \in Nat /\ \A p \in P : \E j \in 1 .. n : p = place[j]
  BY DEF ElementsRead
<1>3. \A j \in 1 .. n : /\ place[j] \in Int /\ DecodedEnd(a)[place[j]] \in Int
                        /\ 1 <= place[j] /\ place[j] < DecodedEnd(a)[place[j]] /\ DecodedEnd(a)[place[j]] <= Len(a) + 1
  <2> TAKE j \in 1 .. n
  <2>1. place[j] \in i + 1 .. Len(a) /\ DecodedEnd(a)[place[j]] \in place[j] + 1 .. Len(a) + 1
    BY <1>1 DEF ElementRead
  <2> QED
    BY <2>1
<1>4. \A h \in 1 .. n : \A j \in 1 .. n : j < h => DecodedEnd(a)[place[j]] <= place[h]
  BY DEF ElementsRead
<1>5. \A j \in 1 .. n : \A p \in PlacesOf(g(place[j])) : p \in place[j] .. DecodedEnd(a)[place[j]] - 1
  <2> TAKE j \in 1 .. n
  <2> TAKE p \in PlacesOf(g(place[j]))
  <2>1. place[j] \in 1 .. Len(a) /\ ValueOf(a, place[j]) # {}
    <3>1. place[j] \in i + 1 .. Len(a) /\ \E v \in ValueOf(a, place[j]) : TRUE
      BY <1>1 DEF ElementRead
    <3> QED
      BY <3>1
  <2> QED
    BY <2>1, WholeEditsInside
<1> HIDE DEF g
<1>6. ASSUME NEW p \in place[k] .. DecodedEnd(a)[place[k]] - 1
      PROVE  p \in PlacesOf(all) <=> p \in PlacesOf(g(place[k]))
  <2>1. ASSUME NEW e \in all, e.start = p PROVE e \in g(place[k])
    <3>1. PICK q \in P : e \in g(q)
      BY <2>1
    <3>2. PICK j \in 1 .. n : q = place[j]
      BY <1>2
    <3>3. p \in place[j] .. DecodedEnd(a)[place[j]] - 1
      <4>1. p \in PlacesOf(g(place[j]))
        BY <2>1, <3>1, <3>2 DEF PlacesOf
      <4> QED
        BY <1>5, <4>1
    <3>4. ~(j < k) /\ ~(k < j)
      BY <1>3, <1>4, <3>3
    <3>5. j = k
      BY <1>2, <3>4
    <3> QED
      BY <3>1, <3>2, <3>5
  <2>2. g(place[k]) \subseteq all
    BY <1>1
  <2>3. \A e \in all : e.start = p => e \in g(place[k])
    BY <2>1
  <2> HIDE DEF all
  <2> QED
    BY <2>2, <2>3 DEF PlacesOf
<1>7. ASSUME NEW p \in place[k] .. DecodedEnd(a)[place[k]] - 1 PROVE p \in 1 .. Len(a) + 1 - 1
  BY <1>3
<1>8. Local(a, b, 1, Len(a) + 1, all)
  BY DEF g
<1>9. Local(a, b, place[k], DecodedEnd(a)[place[k]], g(place[k]))
  <2> HIDE DEF all
  <2> QED
    BY <1>6, <1>7, <1>8 DEF Local
<1> QED
  BY <1>9 DEF g

(* Restoring an array, element by element.                                 *)
LEMMA RestoredElements ==
  ASSUME NEW n \in Nat, NEW x, x = [k \in 1 .. n |-> x[k]], NEW y, y = [k \in 1 .. n |-> y[k]],
         \A k \in 1 .. n : y[k] = RestoredObject(x[k])
  PROVE  ArrayTree(y) = RestoredBody(ArrayTree(x))
<1>1. Kind(ArrayTree(x)) = "array" /\ Content(ArrayTree(x)) = x /\ DOMAIN x = 1 .. n
  BY DEF Kind, Content, ArrayTree
<1>2. RestoredBody(ArrayTree(x)) = ArrayTree([k \in 1 .. n |-> RestoredObject(x[k])])
  BY <1>1 DEF RestoredBody, ArrayTree
<1>3. y = [k \in 1 .. n |-> RestoredObject(x[k])]
  OBVIOUS
<1> QED
  BY <1>2, <1>3

(* The value of the whole text.                                            *)
LEMMA BodyRestored ==
  ASSUME NEW a, NEW b, SameShape(a, b), KeysKept(a, b), NEW i, i = Root(a), i \in 1 .. Len(a), a[i] # Space,
         NEW v \in ValueOf(a, i), NEW w \in ValueOf(b, i),
         Local(a, b, 1, Len(a) + 1, ResponseEdits(a))
  PROVE  w.tree = RestoredBody(v.tree)
<1>1. Len(a) \in Nat
  BY DEF SameShape
<1>2. CASE a[i] = ArrayStart
  <2>1. ArraysRead(a, b, i, v, w)
    BY <1>2, ArrayIsRead
  <2>2. PICK n : \E place : \E x : \E y :
              v.tree = ArrayTree(x) /\ w.tree = ArrayTree(y) /\ ElementsRead(a, b, i, n, place, x, y)
    BY <2>1 DEF ArraysRead
  <2>3. PICK place : \E x : \E y :
              v.tree = ArrayTree(x) /\ w.tree = ArrayTree(y) /\ ElementsRead(a, b, i, n, place, x, y)
    BY <2>2
  <2>4. PICK x : \E y : v.tree = ArrayTree(x) /\ w.tree = ArrayTree(y) /\ ElementsRead(a, b, i, n, place, x, y)
    BY <2>3
  <2>5. PICK y : v.tree = ArrayTree(x) /\ w.tree = ArrayTree(y) /\ ElementsRead(a, b, i, n, place, x, y)
    BY <2>4
  <2>6. ResponseEdits(a) = UNION {collectResponseModelEdits(a, p) : p \in ElementPlaces(a, i)}
    BY <1>2 DEF ResponseEdits, RootPlaces
  <2>7. Local(a, b, 1, Len(a) + 1, UNION {collectResponseModelEdits(a, p) : p \in ElementPlaces(a, i)})
    BY <2>6
  <2>8. n \in Nat /\ x = [k \in 1 .. n |-> x[k]] /\ y = [k \in 1 .. n |-> y[k]]
    BY <2>5 DEF ElementsRead
  <2>9. \A k \in 1 .. n : y[k] = RestoredObject(x[k])
    <3> TAKE k \in 1 .. n
    <3>1. ElementRead(a, b, i, place[k], x[k], y[k])
      BY <2>5 DEF ElementsRead
    <3>2. Local(a, b, place[k], DecodedEnd(a)[place[k]], collectResponseModelEdits(a, place[k]))
      BY <1>1, <2>5, <2>7, LocalElements
    <3>3. place[k] \in i + 1 .. Len(a) /\ a[place[k]] # Space
      BY <3>1 DEF ElementRead
    <3>4. place[k] \in 1 .. Len(a)
      BY <1>1, <3>3
    <3>5. PICK u \in ValueOf(a, place[k]) : u.next = DecodedEnd(a)[place[k]] /\ x[k] = u.tree
      BY <3>1 DEF ElementRead
    <3>6. PICK t \in ValueOf(b, place[k]) : t.next = DecodedEnd(a)[place[k]] /\ y[k] = t.tree
      BY <3>1 DEF ElementRead
    <3>7. t.tree = RestoredObject(u.tree)
      BY <3>2, <3>3, <3>4, <3>5, WholeRestored
    <3> QED
      BY <3>5, <3>6, <3>7
  <2> QED
    BY <2>5, <2>8, <2>9, RestoredElements
<1>3. CASE a[i] # ArrayStart
  <2>1. ResponseEdits(a) = collectResponseModelEdits(a, i)
    BY <1>3 DEF ResponseEdits, RootPlaces
  <2>2. v.next \in i + 1 .. Len(a) + 1
    <3>1. DecodedEnd(a)[i] \in i + 1 .. Len(a) + 1 /\ v.next = DecodedEnd(a)[i]
      BY <1>1, EndOfValue
    <3> QED
      BY <3>1
  <2>3. \A j \in i .. v.next - 1 : j \in 1 .. Len(a) + 1 - 1
    BY <1>1, <2>2
  <2>4. Local(a, b, i, v.next, collectResponseModelEdits(a, i))
    BY <2>1, <2>3 DEF Local
  <2>5. w.tree = RestoredObject(v.tree)
    BY <2>4, WholeRestored
  <2>6. Kind(v.tree) # "array"
    BY <1>1, <1>3, KindOfValue
  <2> QED
    BY <2>5, <2>6 DEF RestoredBody
<1> QED
  BY <1>2, <1>3

(* The value of a valid text is the only one.                              *)
LEMMA OneDecoded ==
  ASSUME NEW a, Len(a) \in Nat, Valid(a)
  PROVE  \E v \in ValueOf(a, Root(a)) : SkipSpace(a, v.next) > Len(a) /\ Decoded(a) = {v.tree}
<1>1. 1 \in 1 .. Len(a) + 1 /\ AValue \in Whats
  BY DEF Whats
<1>2. ValueOf(a, Root(a)) = ValueOf(a, 1)
  BY <1>1, SpaceIsSkipped DEF Root
<1>3. PICK v \in ValueOf(a, 1) : SkipSpace(a, v.next) > Len(a)
  BY DEF Valid, Decoded, ValueOf
<1>4. \A u \in ValueOf(a, 1) : u = v
  BY <1>1, OneReading DEF ValueOf, AtMostOne
<1>5. Decoded(a) = {v.tree}
  BY <1>3, <1>4 DEF Decoded, ValueOf
<1> QED
  BY <1>2, <1>3, <1>5

(* Texts of one shape both hold one value, or neither does.                *)
LEMMA DecodedBoth ==
  ASSUME NEW a, NEW b, SameShape(a, b), Valid(a)
  PROVE  \E v \in ValueOf(a, Root(a)) : \E w \in ValueOf(b, Root(a)) :
           Decoded(a) = {v.tree} /\ Decoded(b) = {w.tree}
<1>1. Len(a) \in Nat /\ Len(b) \in Nat /\ Len(b) = Len(a) /\ AValue \in Whats /\ 1 \in 1 .. Len(a) + 1
  BY DEF SameShape, Whats
<1>2. PICK v \in ValueOf(a, Root(a)) : SkipSpace(a, v.next) > Len(a) /\ Decoded(a) = {v.tree}
  BY <1>1, OneDecoded
<1>3. Root(a) \in 1 .. Len(a) + 1 /\ Root(b) = Root(a)
  BY <1>1, SkipSpaceEnds, ShapeOfSpace DEF Root
<1>4. PICK w \in ValueOf(b, Root(a)) : w.next = v.next
  BY <1>1, <1>3, ShapeOfReadings DEF EndsAs, ValueOf
<1>5. v.next \in 1 .. Len(a) + 1
  <2>1. v.next \in Root(a) + 1 .. Len(a) + 1
    BY <1>1, <1>3, ReadingUnrolled DEF Bounded, ValueOf
  <2> QED
    BY <1>3, <2>1
<1>6. SkipSpace(b, w.next) > Len(b)
  BY <1>1, <1>2, <1>4, <1>5, ShapeOfSpace
<1>7. ValueOf(b, Root(b)) = ValueOf(b, 1)
  BY <1>1, SpaceIsSkipped DEF Root
<1>8. Valid(b)
  BY <1>3, <1>6, <1>7 DEF Valid, Decoded, ValueOf
<1>9. PICK u \in ValueOf(b, Root(b)) : Decoded(b) = {u.tree}
  BY <1>1, <1>8, OneDecoded
<1>10. u = w
  BY <1>1, <1>3, <1>9, OneReading DEF ValueOf, AtMostOne
<1> QED
  BY <1>2, <1>9, <1>10

(* How the bodies spell their strings.                                     *)
SpelledEitherWay(doc) ==
  \A i \in 1 .. Len(doc) : IsString(doc[i]) => doc[i] \in {String(Text(doc[i])), Spelled(Text(doc[i]))}

(* A member that is edited has a key that the text is searched for.        *)
LEMMA EditIsExpected ==
  ASSUME NEW doc, IsText(doc), SpelledEitherWay(doc), NEW i \in 1 .. Len(doc), NEW m, GoodMember(doc, i, m),
         NEW parent, ModelEdit(doc, m, parent) # {}
  PROVE  mightContainResponseModelField(doc)
<1>1. Len(doc) \in Nat /\ DOMAIN doc = 1 .. Len(doc)
  BY TextIs
<1>2. /\ m.before \in i .. Len(doc) /\ m.key \in m.before + 1 .. Len(doc) /\ IsString(doc[m.key])
      /\ SkipSpace(doc, m.key + 1) \in m.key + 1 .. Len(doc) /\ doc[SkipSpace(doc, m.key + 1)] = Colon
  BY <1>1, MemberParts
<1>3. m.key \in 1 .. Len(doc)
  BY <1>1, <1>2
<1>4. At(doc, SkipSpace(doc, m.key + 1)) = Colon
  BY <1>1, <1>2, <1>3, EndIsNone
<1> DEFINE key == Text(doc[m.key])
<1>5. key \in ResponseModelKeys
  BY DEF ModelEdit, Restorable, ResponseModelKeys
<1>6. doc[m.key] \in {String(key), Spelled(key)}
  BY <1>2, <1>3 DEF SpelledEitherWay
<1> HIDE DEF key
<1>7. doc[m.key] \in {String(k) : k \in ResponseModelKeys} \/ doc[m.key] \in {Spelled(k) : k \in ResponseModelKeys}
  BY <1>5, <1>6
<1> QED
  BY <1>1, <1>3, <1>4, <1>7 DEF mightContainResponseModelField

(* A text that mightContainResponseModelField rules out has nothing to     *)
(* restore.                                                                *)
LEMMA EditsAreExpected ==
  ASSUME NEW doc, IsText(doc), SpelledEitherWay(doc), Valid(doc), ~mightContainResponseModelField(doc)
  PROVE  ResponseEdits(doc) = {}
<1>1. Len(doc) \in Nat
  BY TextIs
<1>2. \A place \in RootPlaces(doc) : place \in 1 .. Len(doc) /\ ValueOf(doc, place) # {}
  BY <1>1, RootIsValue
<1>3. ASSUME NEW i \in 1 .. Len(doc), doc[i] = ObjectStart, ValueOf(doc, i) # {},
             NEW m \in Walk(doc, i, DecodedEnd(doc)), NEW parent
      PROVE  ModelEdit(doc, m, parent) = {} /\ m.value \in 1 .. Len(doc) /\ ValueOf(doc, m.value) # {}
  <2>1. GoodMember(doc, i, m)
    BY <1>1, <1>3, MembersOfObject
  <2>2. ModelEdit(doc, m, parent) = {}
    BY <2>1, EditIsExpected
  <2>3. /\ m.before \in i .. Len(doc) /\ m.key \in m.before + 1 .. Len(doc)
        /\ m.value \in m.key + 2 .. Len(doc) /\ ValueOf(doc, m.value) # {}
    BY <1>1, <2>1, MemberParts
  <2> QED
    BY <2>2, <2>3
<1>4. ASSUME NEW i \in 1 .. Len(doc), ValueOf(doc, i) # {}, NEW parent PROVE InnerEdits(doc, i, parent) = {}
  BY <1>3, <1>4 DEF InnerEdits
<1>5. ASSUME NEW place \in RootPlaces(doc) PROVE collectResponseModelEdits(doc, place) = {}
  <2>1. place \in 1 .. Len(doc) /\ ValueOf(doc, place) # {}
    BY <1>2
  <2>2. ASSUME doc[place] = ObjectStart, NEW m \in Walk(doc, place, DecodedEnd(doc)) PROVE MemberEdits(doc, m) = {}
    BY <1>3, <1>4, <2>1, <2>2 DEF MemberEdits
  <2> QED
    BY <2>2, EditsOfMembers
<1> QED
  BY <1>5 DEF ResponseEdits

(* A text with the model at the places of the edits, as such.              *)
LEMMA LocalNamed ==
  ASSUME NEW a, IsText(a), NEW edits PROVE Local(a, Named(a, PlacesOf(edits)), 1, Len(a) + 1, edits)
<1>1. Len(a) \in Nat
  BY TextIs
<1>2. \A j \in 1 .. Len(a) : Named(a, PlacesOf(edits))[j] = IF j \in PlacesOf(edits) THEN String(Model) ELSE a[j]
  BY NamedIs
<1>3. \A j \in 1 .. Len(a) + 1 - 1 : j \in 1 .. Len(a)
  BY <1>1
<1> QED
  BY <1>2, <1>3 DEF Local

(* rewriteResponseModelFields gives the restored value of a valid text,    *)
(* and any other text as it came.                                          *)
LEMMA RestorationIs ==
  ASSUME NEW doc, IsText(doc), SpelledEitherWay(doc), NEW r, r = rewriteResponseModelFields(doc)
  PROVE  IF Valid(doc) THEN Decoded(r.text) = {RestoredBody(tree) : tree \in Decoded(doc)} ELSE r.text = doc
<1> DEFINE edits == ResponseEdits(doc)
           b == Named(doc, PlacesOf(edits))
<1>0. Len(doc) \in Nat
  BY TextIs
<1>1. r = IF ~mightContainResponseModelField(doc) \/ ~Valid(doc) THEN Unchanged(doc)
          ELSE [text |-> applyJSONByteEdits(doc, edits), changed |-> edits # {}]
  BY DEF rewriteResponseModelFields, ResponseEdits, RootPlaces, Root
<1>2. CASE ~Valid(doc)
  BY <1>1, <1>2 DEF Unchanged
<1>3. CASE Valid(doc)
  <2>1. \A e \in edits : IsEdit(doc, e)
    BY <1>0, <1>3, ResponseEditsAre
  <2>2. SameShape(doc, b) /\ KeysKept(doc, b) /\ (edits = {} => b = doc)
    <3>1. /\ SameShape(doc, b)
          /\ \A i \in 1 .. Len(doc) : At(doc, SkipSpace(doc, i + 1)) = Colon => b[i] = doc[i]
          /\ b = doc <=> edits = {}
      BY <2>1, EditedShape
    <3> QED
      BY <3>1 DEF KeysKept
  <2>3. r.text = b
    <3>1. CASE mightContainResponseModelField(doc)
      <4>1. r.text = applyJSONByteEdits(doc, edits)
        BY <1>1, <1>3, <3>1
      <4> QED
        BY <2>1, <4>1, ApplyEdits
    <3>2. CASE ~mightContainResponseModelField(doc)
      <4>1. edits = {}
        BY <1>3, <3>2, EditsAreExpected
      <4> QED
        BY <1>1, <2>2, <3>2, <4>1 DEF Unchanged
    <3> QED
      BY <3>1, <3>2
  <2>4. Local(doc, b, 1, Len(doc) + 1, ResponseEdits(doc))
    BY LocalNamed
  <2> HIDE DEF b, edits
  <2>5. PICK v \in ValueOf(doc, Root(doc)) : \E w \in ValueOf(b, Root(doc)) :
             Decoded(doc) = {v.tree} /\ Decoded(b) = {w.tree}
    BY <1>3, <2>2, DecodedBoth
  <2>6. PICK w \in ValueOf(b, Root(doc)) : Decoded(doc) = {v.tree} /\ Decoded(b) = {w.tree}
    BY <2>5
  <2>7. Root(doc) \in 1 .. Len(doc)
    BY <1>0, <1>3, RootIsValue
  <2>8. doc[Root(doc)] # Space
    <3>1. 1 \in 1 .. Len(doc) + 1
      BY <1>0
    <3>2. At(doc, Root(doc)) # Space
      BY <1>0, <3>1, SkipSpaceEnds DEF Root
    <3>3. Root(doc) \in Nat /\ Root(doc) > 0 /\ Root(doc) <= Len(doc)
      BY <2>7
    <3> QED
      BY <1>0, <3>2, <3>3, EndIsNone
  <2>9. w.tree = RestoredBody(v.tree)
    BY <2>2, <2>4, <2>7, <2>8, BodyRestored
  <2>10. Decoded(r.text) = {RestoredBody(tree) : tree \in Decoded(doc)}
    BY <2>3, <2>6, <2>9
  <2> QED
    BY <1>3, <2>10
<1> QED
  BY <1>2, <1>3

(* Whatever the bodies are: a valid response reaches the client with its   *)
(* own model in every field the README lists, however the keys are         *)
(* spelled, and with every other value as it was; any other text passes as *)
(* it came (rewriteResponseModelFields).                                   *)
THEOREM JsonRestoresResponses == Spec => []ResponseNamesTheClientsModel
<1>1. ASSUME Outcome PROVE ResponseNamesTheClientsModel
  <2>1. IsText(body) /\ SpelledEitherWay(body)
    BY <1>1, BodiesAreTexts DEF Outcome, SpelledEitherWay
  <2>2. CASE pc = "response"
    <3> DEFINE r == rewriteResponseModelFields(body)
    <3>1. out = r.text
      BY <1>1, <2>2 DEF Outcome
    <3>2. IF Valid(body) THEN Decoded(r.text) = {RestoredBody(tree) : tree \in Decoded(body)} ELSE r.text = body
      BY <2>1, RestorationIs
    <3> HIDE DEF r
    <3> QED
      BY <3>1, <3>2 DEF ResponseNamesTheClientsModel
  <2> QED
    BY <2>2 DEF ResponseNamesTheClientsModel
<1> QED
  BY <1>1, OutcomeInvariant, PTL

-----------------------------------------------------------------------------
(* Where the pieces of a canonical text stand.                             *)

(* Where the pieces of at most one atom stand in the text they join to.    *)
StandsAt(parts, b, pos, i) ==
  IF parts[i] = <<>> THEN pos[i + 1] = pos[i]
  ELSE pos[i + 1] = pos[i] + 1 /\ pos[i] <= Len(b) /\ b[pos[i]] = parts[i][1]

Positions(n, parts, b, pos) ==
  /\ n \in Nat /\ Len(b) \in Nat /\ pos \in [1 .. n + 1 -> 1 .. Len(b) + 1]
  /\ pos[1] = 1 /\ pos[n + 1] = Len(b) + 1
  /\ \A i \in 1 .. n : StandsAt(parts, b, pos, i)

(* A shorter join begins a longer one.                                     *)
Begins(s, t) == Len(s) <= Len(t) /\ \A q \in 1 .. Len(s) : t[q] = s[q]

(* What begins a text begins a longer one.                                 *)
LEMMA BeginsFurther ==
  ASSUME NEW T, NEW r \in Seq(T), NEW s \in Seq(T), NEW t \in Seq(T), NEW u \in Seq(T),
         Begins(r, s), Extends(T, t, s, u)
  PROVE  Begins(r, t)
<1>1. Len(r) \in Nat /\ Len(s) \in Nat /\ Len(t) \in Nat /\ Len(u) \in Nat
  OBVIOUS
<1>2. Len(t) = Len(s) + Len(u) /\ \A q \in 1 .. Len(s) : t[q] = s[q]
  BY DEF Extends
<1>3. Len(r) <= Len(s) /\ \A q \in 1 .. Len(r) : s[q] = r[q]
  BY DEF Begins
<1>4. \A q \in 1 .. Len(r) : q \in 1 .. Len(s)
  BY <1>1, <1>3
<1>5. Len(r) <= Len(t)
  BY <1>1, <1>2, <1>3
<1> QED
  BY <1>2, <1>3, <1>4, <1>5 DEF Begins

(* What was joined so far begins the whole.                                *)
LEMMA JoinsBegin ==
  ASSUME NEW T, NEW n \in Nat, NEW parts \in [1 .. n -> Seq(T)], NEW f, Joins(T, n, parts, f)
  PROVE  \A i \in 0 .. n : Begins(f[i], f[n])
<1> DEFINE S == {j \in 0 .. n : \A i \in 0 .. j : Begins(f[i], f[j])}
<1>1. \A i \in 0 .. n : f[i] \in Seq(T) /\ Begins(f[i], f[i])
  <2> TAKE i \in 0 .. n
  <2>1. f[i] \in Seq(T)
    BY DEF Joins
  <2>2. Len(f[i]) \in Nat
    BY <2>1
  <2> QED
    BY <2>1, <2>2 DEF Begins
<1>2. 0 \in S
  <2>1. 0 \in 0 .. n
    OBVIOUS
  <2>2. Begins(f[0], f[0])
    BY <1>1, <2>1
  <2>3. \A i \in 0 .. 0 : i = 0
    OBVIOUS
  <2> QED
    BY <2>1, <2>2, <2>3
<1>3. ASSUME NEW k \in 0 .. n - 1, k \in S PROVE k + 1 \in S
  <2>1. Extends(T, f[k + 1], f[k], parts[k + 1])
    BY JoinsStep
  <2>2. k \in 0 .. n /\ k + 1 \in 0 .. n /\ k + 1 \in 1 .. n
    OBVIOUS
  <2>3. ASSUME NEW i \in 0 .. k PROVE Begins(f[i], f[k + 1])
    <3>1. Begins(f[i], f[k]) /\ i \in 0 .. n
      BY <1>3
    <3>2. parts[k + 1] \in Seq(T)
      BY <2>2
    <3> QED
      BY <1>1, <2>1, <2>2, <3>1, <3>2, BeginsFurther
  <2>4. \A i \in 0 .. k + 1 : i \in 0 .. k \/ i = k + 1
    OBVIOUS
  <2>5. \A i \in 0 .. k + 1 : Begins(f[i], f[k + 1])
    BY <1>1, <2>2, <2>3, <2>4
  <2> QED
    BY <2>2, <2>5
<1>4. 0 .. n \subseteq S
  <2> HIDE DEF S
  <2> QED
    BY <1>2, <1>3, UpToInduction
<1>5. n \in 0 .. n
  OBVIOUS
<1> QED
  BY <1>4, <1>5

(* Every piece stands somewhere in the text they join to.                  *)
LEMMA PiecesStand ==
  ASSUME NEW T, NEW n \in Nat, NEW parts \in [1 .. n -> Seq(T)], \A i \in 1 .. n : Len(parts[i]) <= 1
  PROVE  /\ FlattenSeq(parts) \in Seq(T)
         /\ \E pos : Positions(n, parts, FlattenSeq(parts), pos)
<1>1. PICK f : Joins(T, n, parts, f) /\ FlattenSeq(parts) = f[n]
  BY FlattenJoins
<1> DEFINE b == f[n]
           pos == [i \in 1 .. n + 1 |-> Len(f[i - 1]) + 1]
<1>2. \A i \in 0 .. n : f[i] \in Seq(T) /\ Len(f[i]) \in Nat
  <2> TAKE i \in 0 .. n
  <2>1. f[i] \in Seq(T)
    BY <1>1 DEF Joins
  <2> QED
    BY <2>1
<1>3. \A i \in 0 .. n : Begins(f[i], b)
  BY <1>1, JoinsBegin
<1>4. \A i \in 1 .. n + 1 : i - 1 \in 0 .. n /\ pos[i] = Len(f[i - 1]) + 1
  OBVIOUS
<1>5. n \in 0 .. n /\ 0 \in 0 .. n /\ n + 1 \in 1 .. n + 1 /\ 1 \in 1 .. n + 1 /\ (n + 1) - 1 = n
  OBVIOUS
<1>6. b \in Seq(T) /\ Len(b) \in Nat
  BY <1>2, <1>5
<1>7. pos[1] = 1
  <2>1. f[0] = <<>>
    BY <1>1 DEF Joins
  <2>2. pos[1] = Len(f[1 - 1]) + 1 /\ 1 - 1 = 0
    BY <1>4, <1>5
  <2>3. Len(f[0]) = 0
    BY <2>1
  <2> QED
    BY <2>2, <2>3
<1>8. pos[n + 1] = Len(b) + 1
  BY <1>4, <1>5
<1>9. \A i \in 1 .. n + 1 : pos[i] \in 1 .. Len(b) + 1
  <2> TAKE i \in 1 .. n + 1
  <2>1. Len(f[i - 1]) \in Nat /\ Len(f[i - 1]) <= Len(b)
    BY <1>2, <1>3, <1>4 DEF Begins
  <2> HIDE DEF b
  <2> QED
    BY <1>4, <1>6, <2>1
<1>10. ASSUME NEW i \in 1 .. n PROVE StandsAt(parts, b, pos, i)
  <2>1. i - 1 \in 0 .. n /\ i \in 0 .. n /\ i \in 1 .. n + 1 /\ i + 1 \in 1 .. n + 1 /\ (i + 1) - 1 = i
        /\ i - 1 \in 0 .. n - 1 /\ (i - 1) + 1 = i
    OBVIOUS
  <2>2. Extends(T, f[i], f[i - 1], parts[i])
    <3>1. Extends(T, f[(i - 1) + 1], f[i - 1], parts[(i - 1) + 1])
      BY <1>1, <2>1, JoinsStep
    <3> QED
      BY <2>1, <3>1
  <2>3. pos[i] = Len(f[i - 1]) + 1 /\ pos[i + 1] = Len(f[i]) + 1
    BY <1>4, <2>1
  <2>4. Len(f[i]) = Len(f[i - 1]) + Len(parts[i])
    BY <2>2 DEF Extends
  <2>5. Len(f[i - 1]) \in Nat /\ Len(f[i]) \in Nat /\ parts[i] \in Seq(T) /\ Len(parts[i]) \in Nat /\ Len(parts[i]) <= 1
    <3>1. parts[i] \in Seq(T)
      OBVIOUS
    <3>2. Len(parts[i]) \in Nat
      BY <3>1
    <3> QED
      BY <1>2, <2>1, <3>1, <3>2
  <2> HIDE DEF pos, b
  <2>6. CASE parts[i] = <<>>
    <3>1. Len(parts[i]) = 0
      BY <2>6
    <3>2. pos[i + 1] = pos[i]
      BY <2>3, <2>4, <2>5, <3>1
    <3> QED
      BY <2>6, <3>2 DEF StandsAt
  <2>7. CASE parts[i] # <<>>
    <3>1. Len(parts[i]) = 1
      <4>1. Len(parts[i]) # 0
        BY <2>5, <2>7
      <4>2. \A c \in Nat : c <= 1 /\ c # 0 => c = 1
        OBVIOUS
      <4>3. Len(parts[i]) \in Nat /\ Len(parts[i]) <= 1
        BY <2>5
      <4> QED
        BY <4>1, <4>2, <4>3, Zenon
    <3>2. pos[i + 1] = pos[i] + 1 /\ pos[i] = Len(f[i]) /\ pos[i] \in 1 .. Len(f[i])
      BY <2>3, <2>4, <2>5, <3>1
    <3>3. f[i][Len(f[i - 1]) + 1] = parts[i][1]
      BY <2>2, <3>1 DEF Extends
    <3>4. Len(f[i]) <= Len(b) /\ b[pos[i]] = f[i][pos[i]]
      BY <1>3, <2>1, <3>2 DEF Begins
    <3>5. pos[i] <= Len(b) /\ b[pos[i]] = parts[i][1]
      BY <2>3, <3>2, <3>3, <3>4
    <3> QED
      BY <2>7, <3>2, <3>5 DEF StandsAt
  <2> QED
    BY <2>6, <2>7
<1>11. pos \in [1 .. n + 1 -> 1 .. Len(b) + 1]
  <2>1. pos = [i \in 1 .. n + 1 |-> pos[i]]
    OBVIOUS
  <2> HIDE DEF pos, b
  <2> QED
    BY <1>9, <2>1
<1>12. Positions(n, parts, b, pos)
  <2> HIDE DEF pos, b
  <2> QED
    BY <1>6, <1>7, <1>8, <1>10, <1>11 DEF Positions
<1>13. \E place : Positions(n, parts, b, place)
  <2> HIDE DEF pos, b
  <2> QED
    BY <1>12
<1>14. FlattenSeq(parts) = b
  BY <1>1
<1> HIDE DEF b
<1> QED
  BY <1>6, <1>13, <1>14

(* Pieces that are kept or gone, from one place to another.                *)
Kept(a, parts, i, j) == \A q \in i .. j - 1 : parts[q] = <<a[q]>>
Gone(parts, i, j) == \A q \in i .. j - 1 : parts[q] = <<>>

(* Pieces kept in a row are carried over together.                         *)
LEMMA KeptIsCarried ==
  ASSUME NEW a, NEW n, NEW parts, NEW b, NEW pos, Positions(n, parts, b, pos),
         NEW i \in 1 .. n + 1, NEW j \in 1 .. n + 1, i <= j, Kept(a, parts, i, j)
  PROVE  Carried(a, b, i, j, pos[i] - i) /\ pos[j] = pos[i] + (j - i)
<1>1. n \in Nat /\ Len(b) \in Nat /\ \A q \in 1 .. n + 1 : pos[q] \in 1 .. Len(b) + 1
  BY DEF Positions
<1> DEFINE S == {k \in 0 .. j - i : pos[i + k] = pos[i] + k}
<1>2. j - i \in Nat
  OBVIOUS
<1>3. 0 \in S
  BY <1>1
<1>4. ASSUME NEW k \in 0 .. (j - i) - 1, k \in S PROVE k + 1 \in S
  <2>1. i + k \in i .. j - 1 /\ i + k \in 1 .. n /\ k + 1 \in 0 .. j - i /\ (i + k) + 1 = i + (k + 1)
    BY <1>1
  <2>2. parts[i + k] = <<a[i + k]>> /\ StandsAt(parts, b, pos, i + k)
    BY <2>1 DEF Kept, Positions
  <2>3. parts[i + k] # <<>>
    BY <2>2
  <2>4. pos[(i + k) + 1] = pos[i + k] + 1
    BY <2>2, <2>3 DEF StandsAt
  <2>5. pos[i] \in Int
    BY <1>1
  <2> QED
    BY <1>4, <2>1, <2>4, <2>5
<1>5. 0 .. j - i \subseteq S
  <2> HIDE DEF S
  <2> QED
    BY <1>2, <1>3, <1>4, UpToInduction
<1>6. ASSUME NEW q \in i .. j PROVE pos[q] = pos[i] + (q - i)
  <2>1. q - i \in 0 .. j - i /\ i + (q - i) = q
    OBVIOUS
  <2> QED
    BY <1>5, <2>1
<1>7. ASSUME NEW q \in i .. j - 1 PROVE b[q + (pos[i] - i)] = a[q]
  <2>1. q \in i .. j /\ q \in 1 .. n
    BY <1>1
  <2>2. parts[q] = <<a[q]>> /\ StandsAt(parts, b, pos, q)
    BY <2>1 DEF Kept, Positions
  <2>3. parts[q] # <<>> /\ parts[q][1] = a[q]
    BY <2>2
  <2>4. b[pos[q]] = a[q]
    BY <2>2, <2>3 DEF StandsAt
  <2>5. pos[q] = q + (pos[i] - i)
    BY <1>1, <1>6, <2>1
  <2> QED
    BY <2>4, <2>5
<1>8. j \in i .. j
  OBVIOUS
<1>9. pos[j] = pos[i] + (j - i)
  BY <1>6, <1>8
<1>10. pos[i] - i \in Int /\ i + (pos[i] - i) > 0 /\ j + (pos[i] - i) <= Len(b) + 1
  BY <1>1, <1>9
<1> QED
  BY <1>7, <1>9, <1>10 DEF Carried

(* What comes after pieces that are gone stands where they would.          *)
LEMMA GoneIsNothing ==
  ASSUME NEW n, NEW parts, NEW b, NEW pos, Positions(n, parts, b, pos),
         NEW i \in 1 .. n + 1, NEW j \in 1 .. n + 1, i <= j, Gone(parts, i, j)
  PROVE  pos[j] = pos[i]
<1>1. n \in Nat
  BY DEF Positions
<1> DEFINE S == {k \in 0 .. j - i : pos[i + k] = pos[i]}
<1>2. j - i \in Nat
  OBVIOUS
<1>3. 0 \in S
  OBVIOUS
<1>4. ASSUME NEW k \in 0 .. (j - i) - 1, k \in S PROVE k + 1 \in S
  <2>1. i + k \in i .. j - 1 /\ i + k \in 1 .. n /\ k + 1 \in 0 .. j - i /\ (i + k) + 1 = i + (k + 1)
    BY <1>1
  <2>2. parts[i + k] = <<>> /\ StandsAt(parts, b, pos, i + k)
    BY <2>1 DEF Gone, Positions
  <2>3. pos[(i + k) + 1] = pos[i + k]
    BY <2>2 DEF StandsAt
  <2> QED
    BY <1>4, <2>1, <2>3
<1>5. 0 .. j - i \subseteq S
  <2> HIDE DEF S
  <2> QED
    BY <1>2, <1>3, <1>4, UpToInduction
<1>6. j - i \in 0 .. j - i /\ i + (j - i) = j
  OBVIOUS
<1> QED
  BY <1>5, <1>6

-----------------------------------------------------------------------------
(* What follows a member.                                                  *)

(* A sequence from a place on is its first element and the rest.           *)
LEMMA TailFollows ==
  ASSUME NEW T, NEW b \in Seq(T), NEW p \in 1 .. Len(b)
  PROVE  Follows(SubSeq(b, p, Len(b)), b[p], SubSeq(b, p + 1, Len(b)))
<1> DEFINE N == Len(b)
           s == SubSeq(b, p, N)
           t == SubSeq(b, p + 1, N)
           u == <<b[p]>> \o t
<1>1. N \in Nat /\ p \in 1 .. N
  OBVIOUS
<1>2. /\ s \in Seq(T) /\ Len(s) = N - p + 1 /\ \A i \in 1 .. N - p + 1 : s[i] = b[p + i - 1]
  <2>1. p \in 1 .. N + 1 /\ N \in p - 1 .. N
    BY <1>1
  <2> QED
    BY <1>1, <2>1, SubSeqProperties
<1>3. /\ t \in Seq(T) /\ Len(t) = N - p /\ \A i \in 1 .. N - p : t[i] = b[p + i]
  <2>1. p + 1 \in 1 .. N + 1 /\ N \in (p + 1) - 1 .. N
    BY <1>1
  <2> HIDE DEF N
  <2>2. Len(t) = N - (p + 1) + 1 /\ t \in Seq(T) /\ \A i \in 1 .. N - (p + 1) + 1 : t[i] = b[(p + 1) + i - 1]
    BY <1>1, <2>1, SubSeqProperties DEF N
  <2>3. N - (p + 1) + 1 = N - p /\ \A i \in 1 .. N - p : (p + 1) + i - 1 = p + i
    BY <1>1
  <2> QED
    BY <2>2, <2>3
<1>4. b[p] \in T /\ <<b[p]>> \in Seq(T)
  OBVIOUS
<1> HIDE DEF N, s, t
<1>5. /\ u \in Seq(T) /\ Len(u) = 1 + Len(t) /\ u[1] = b[p]
      /\ \A i \in 1 .. Len(t) : u[i + 1] = t[i]
  BY <1>3, <1>4
<1>6. Len(u) = Len(s)
  BY <1>1, <1>2, <1>3, <1>5
<1>7. ASSUME NEW i \in 1 .. Len(s) PROVE s[i] = u[i]
  <2>1. i \in 1 .. N - p + 1 /\ s[i] = b[p + i - 1]
    BY <1>2
  <2>2. CASE i = 1
    <3>1. p + i - 1 = p
      BY <1>1, <2>2
    <3> QED
      BY <1>5, <2>1, <2>2, <3>1
  <2>3. CASE i # 1
    <3>1. i - 1 \in 1 .. N - p /\ i - 1 \in 1 .. Len(t) /\ (i - 1) + 1 = i /\ p + (i - 1) = p + i - 1
      BY <1>1, <1>3, <2>1, <2>3
    <3>2. u[i] = t[i - 1] /\ t[i - 1] = b[p + (i - 1)]
      <4>1. u[(i - 1) + 1] = t[i - 1]
        BY <1>5, <3>1
      <4> QED
        BY <1>3, <3>1, <4>1
    <3> QED
      BY <2>1, <3>1, <3>2
  <2> QED
    BY <2>2, <2>3
<1>8. s = u
  <2> HIDE DEF u
  <2>1. s = [i \in 1 .. Len(s) |-> s[i]] /\ u = [i \in 1 .. Len(u) |-> u[i]]
    BY <1>2, <1>5
  <2> QED
    BY <1>6, <1>7, <2>1
<1> QED
  BY <1>8 DEF Follows, s, t, N

(* What is left of a joined list from each piece on.                       *)
LeftFrom(items, h, k) ==
  IF items[k] = <<>> THEN h[k] = h[k + 1] ELSE Follows(h[k], items[k][1], h[k + 1])

(* A joined list has a rest from every piece on.                           *)
LEMMA ListLeft ==
  ASSUME NEW T, NEW n \in Nat, NEW items \in [1 .. n -> Seq(T)], \A k \in 1 .. n : Len(items[k]) <= 1
  PROVE  \E h : h[1] = FlattenSeq(items) /\ h[n + 1] = <<>> /\ \A k \in 1 .. n : LeftFrom(items, h, k)
<1> DEFINE b == FlattenSeq(items)
<1>1. b \in Seq(T) /\ \E pos : Positions(n, items, b, pos)
  BY PiecesStand
<1> HIDE DEF b
<1>2. PICK pos : Positions(n, items, b, pos)
  BY <1>1
<1> DEFINE h == [k \in 1 .. n + 1 |-> SubSeq(b, pos[k], Len(b))]
<1>3. \A k \in 1 .. n + 1 : h[k] = SubSeq(b, pos[k], Len(b)) /\ pos[k] \in 1 .. Len(b) + 1
  BY <1>2 DEF Positions
<1>4. 1 \in 1 .. n + 1 /\ n + 1 \in 1 .. n + 1 /\ Len(b) \in Nat
  BY <1>1
<1> HIDE DEF h
<1>5. h[1] = b
  <2>1. h[1] = SubSeq(b, 1, Len(b))
    BY <1>2, <1>3, <1>4 DEF Positions
  <2> QED
    BY <1>1, <2>1
<1>6. h[n + 1] = <<>>
  <2>1. h[n + 1] = SubSeq(b, Len(b) + 1, Len(b))
    BY <1>2, <1>3, <1>4 DEF Positions
  <2> QED
    BY <1>1, <2>1
<1>7. ASSUME NEW k \in 1 .. n PROVE LeftFrom(items, h, k)
  <2>1. k \in 1 .. n + 1 /\ k + 1 \in 1 .. n + 1
    OBVIOUS
  <2>2. StandsAt(items, b, pos, k)
    BY <1>2 DEF Positions
  <2>3. CASE items[k] = <<>>
    BY <1>3, <2>1, <2>2, <2>3 DEF StandsAt, LeftFrom
  <2>4. CASE items[k] # <<>>
    <3>1. pos[k + 1] = pos[k] + 1 /\ pos[k] <= Len(b) /\ b[pos[k]] = items[k][1]
      BY <2>2, <2>4 DEF StandsAt
    <3>2. pos[k] \in 1 .. Len(b)
      BY <1>3, <1>4, <2>1, <3>1
    <3>3. Follows(SubSeq(b, pos[k], Len(b)), b[pos[k]], SubSeq(b, pos[k] + 1, Len(b)))
      BY <1>1, <3>2, TailFollows
    <3> QED
      BY <1>3, <2>1, <2>4, <3>1, <3>3 DEF LeftFrom
  <2> QED
    BY <2>3, <2>4
<1> QED
  BY <1>5, <1>6, <1>7 DEF b

(* Spaces before what follows make no difference.                          *)
LEMMA RestSkips ==
  ASSUME NEW doc, Len(doc) \in Nat, NEW close \in Closers, NEW i \in 1 .. Len(doc) + 1, NEW j \in i .. Len(doc) + 1,
         \A k \in i .. j - 1 : doc[k] = Space
  PROVE  /\ SkipSpace(doc, i) = SkipSpace(doc, j)
         /\ RestOf(doc, close, i) = RestOf(doc, close, j)
<1> DEFINE s == SkipSpace(doc, j)
<1>1. j \in 1 .. Len(doc) + 1 /\ i \in Nat /\ j \in Nat
  OBVIOUS
<1>2. s \in j .. Len(doc) + 1 /\ At(doc, s) # Space /\ \A k \in j .. s - 1 : doc[k] = Space
  BY <1>1, SkipSpaceEnds
<1> HIDE DEF s
<1>3. s \in i .. Len(doc) + 1
  BY <1>1, <1>2
<1>4. ASSUME NEW k \in i .. s - 1 PROVE At(doc, k) = Space
  <2>1. doc[k] = Space
    <3>1. k \in i .. j - 1 \/ k \in j .. s - 1
      BY <1>1, <1>2
    <3> QED
      BY <1>2, <3>1
  <2>2. k \in Nat /\ k > 0 /\ k <= Len(doc)
    BY <1>1, <1>3
  <2> QED
    BY <2>1, <2>2, EndIsNone
<1>5. SkipSpace(doc, i) = s
  BY <1>2, <1>3, <1>4, SkipSpaceIs
<1>6. SkipSpace(doc, i) = SkipSpace(doc, j)
  BY <1>5 DEF s
<1>7. /\ At(doc, s) = close => RestOf(doc, close, i) = {[list |-> <<>>, next |-> s + 1]}
      /\ At(doc, s) = Comma => RestOf(doc, close, i) = ItemsOf(doc, close, s + 1)
      /\ At(doc, s) \notin {close, Comma} => RestOf(doc, close, i) = {}
  BY <1>5, RestReading
<1>8. /\ At(doc, s) = close => RestOf(doc, close, j) = {[list |-> <<>>, next |-> s + 1]}
      /\ At(doc, s) = Comma => RestOf(doc, close, j) = ItemsOf(doc, close, s + 1)
      /\ At(doc, s) \notin {close, Comma} => RestOf(doc, close, j) = {}
  BY <1>1, RestReading DEF s
<1>9. RestOf(doc, close, i) = RestOf(doc, close, j)
  BY <1>7, <1>8
<1> QED
  BY <1>6, <1>9

(* A member whose key and colon are carried over, with any value.          *)
LEMMA MemberCarried ==
  ASSUME NEW a, NEW b, Len(a) \in Nat, Len(b) \in Nat, NEW p \in 1 .. Len(a), IsMember(a, p),
         NEW d, Carried(a, b, p + 1, ValuePlace(a, p), d),
         NEW place, place = ValuePlace(a, p) + d, place \in 1 .. Len(b), b[place] # Space,
         NEW w \in ValueOf(b, place), NEW rest \in RestOf(b, ObjectEnd, w.next)
  PROVE  /\ \E t \in ItemsOf(b, ObjectEnd, (p + 1) + d) :
              t.next = rest.next /\ Follows(t.list, <<Text(a[KeyAt(a, p + 1)]), w.tree>>, rest.list)
         /\ (p + 1) + d \in 1 .. Len(b) + 1
         /\ IsString(At(b, SkipSpace(b, (p + 1) + d)))
<1> DEFINE V == ValuePlace(a, p)
           key == KeyAt(a, p + 1)
           colon == ColonAt(a, p + 1)
           q == (p + 1) + d
<1>1. /\ key \in p + 1 .. Len(a) /\ IsString(a[key]) /\ colon \in key + 1 .. Len(a) /\ a[colon] = Colon
      /\ colon = SkipSpace(a, key + 1) /\ V \in colon + 1 .. Len(a)
  BY MemberPlaces
<1>2. key = SkipSpace(a, p + 1) /\ V = SkipSpace(a, colon + 1)
  BY DEF KeyAt, ValuePlace
<1>3. d \in Int /\ q > 0
  BY DEF Carried
<1>0. place = V + d
  OBVIOUS
<1> HIDE DEF V, key, colon
<1>4. /\ p + 1 \in 1 .. Len(a) + 1 /\ key + 1 \in 1 .. Len(a) + 1 /\ colon + 1 \in 1 .. Len(a) + 1
      /\ key < V /\ key <= Len(a) /\ colon < V /\ colon <= Len(a) /\ p + 1 <= key + 1 /\ p + 1 <= colon + 1
      /\ key \in Int /\ colon \in Int /\ V \in Int
  BY <1>1
<1>5. Carried(a, b, p + 1, V, d)
  BY DEF V
<1>6. Carried(a, b, key + 1, V, d) /\ Carried(a, b, colon + 1, V, d)
  BY <1>4, <1>5, CarriedPart
<1>7. SkipSpace(b, q) = key + d /\ q \in 1 .. Len(b) + 1 /\ key + d \in 1 .. Len(b) /\ b[key + d] = a[key]
  BY <1>2, <1>4, <1>5, CarriedSpace
<1>8. SkipSpace(b, (key + 1) + d) = colon + d /\ colon + d \in 1 .. Len(b) /\ b[colon + d] = a[colon]
      /\ (key + 1) + d = (key + d) + 1
  BY <1>1, <1>3, <1>4, <1>6, CarriedSpace
<1>9. At(b, key + d) = a[key] /\ At(b, colon + d) = Colon
  <2>1. key + d \in Nat /\ key + d > 0 /\ key + d <= Len(b) /\ colon + d \in Nat /\ colon + d > 0 /\ colon + d <= Len(b)
    BY <1>7, <1>8
  <2> QED
    BY <1>1, <1>7, <1>8, <2>1, EndIsNone
<1>10. Keyed(b, ObjectEnd, q) /\ KeyAt(b, q) = key + d /\ From(b, ObjectEnd, q) = (colon + d) + 1
  BY <1>1, <1>7, <1>8, <1>9 DEF Keyed, KeyAt, ColonAt, From
<1>11. SkipSpace(b, (colon + d) + 1) = place /\ (colon + d) + 1 \in 1 .. Len(b) + 1
  <2>1. (colon + d) + 1 \in 1 .. Len(b) + 1 /\ place \in (colon + d) + 1 .. Len(b) + 1 /\ place \in Nat /\ place > 0
        /\ place <= Len(b)
    BY <1>0, <1>3, <1>4, <1>8
  <2>2. At(b, place) # Space
    BY <2>1, EndIsNone
  <2>3. ASSUME NEW k \in (colon + d) + 1 .. place - 1 PROVE At(b, k) = Space
    <3>1. k - d \in colon + 1 .. V - 1 /\ (k - d) + d = k
      BY <1>0, <1>3, <1>4
    <3>2. a[k - d] = Space
      BY <1>2, <1>4, <3>1, SkipSpaceEnds
    <3>3. b[(k - d) + d] = a[k - d]
      BY <1>6, <3>1 DEF Carried
    <3>4. k \in Nat /\ k > 0 /\ k <= Len(b)
      BY <2>1
    <3> QED
      BY <3>1, <3>2, <3>3, <3>4, EndIsNone
  <2> QED
    BY <2>1, <2>2, <2>3, SkipSpaceIs
<1>12. w \in ValueOf(b, From(b, ObjectEnd, q))
  BY <1>10, <1>11, SpaceIsSkipped
<1> DEFINE tree == Item(b, ObjectEnd, q, w.tree)
           t == [list |-> <<tree>> \o rest.list, next |-> rest.next]
<1>13. tree = <<Text(a[key]), w.tree>>
  BY <1>7, <1>10 DEF Item
<1>14. ReadAs(b, ObjectEnd, q, t)
  BY <1>12 DEF ReadAs
<1>15. t \in ItemsOf(b, ObjectEnd, q)
  <2> HIDE DEF t
  <2> QED
    BY <1>7, <1>10, <1>14, ItemsReading DEF Closers
<1>16. t.next = rest.next /\ Follows(t.list, tree, rest.list)
  <2> HIDE DEF tree
  <2> QED
    BY DEF Follows
<1>17. Follows(t.list, <<Text(a[key]), w.tree>>, rest.list)
  <2> HIDE DEF t, tree
  <2> QED
    BY <1>13, <1>16
<1>18. \E u \in ItemsOf(b, ObjectEnd, q) : u.next = rest.next /\ Follows(u.list, <<Text(a[key]), w.tree>>, rest.list)
  <2> HIDE DEF t, tree
  <2> QED
    BY <1>15, <1>16, <1>17
<1>19. IsString(At(b, SkipSpace(b, q)))
  BY <1>1, <1>7, <1>9
<1> QED
  BY <1>7, <1>18, <1>19 DEF key

-----------------------------------------------------------------------------
(* The members of a request in a row.                                      *)

(* The members of an object in a row, by their places.                     *)
EndAt(doc, at, k) == DecodedEnd(doc)[ValuePlace(doc, at[k])]
AfterAt(doc, at, k) == SkipSpace(doc, EndAt(doc, at, k))

RowMember(doc, n, at, k) ==
  /\ at[k] \in 1 .. Len(doc) /\ IsMember(doc, at[k])
  /\ ValuePlace(doc, at[k]) \in at[k] + 1 .. Len(doc)
  /\ EndAt(doc, at, k) \in ValuePlace(doc, at[k]) + 1 .. Len(doc)
  /\ AfterAt(doc, at, k) \in EndAt(doc, at, k) .. Len(doc)
  /\ \A i \in EndAt(doc, at, k) .. AfterAt(doc, at, k) - 1 : doc[i] = Space
  /\ IF k = n THEN doc[AfterAt(doc, at, k)] = ObjectEnd
     ELSE at[k + 1] = AfterAt(doc, at, k) /\ doc[at[k + 1]] = Comma

Row(doc, n, at) ==
  /\ n \in Nat /\ n > 0 /\ at \in [1 .. n -> 1 .. Len(doc)]
  /\ \A k \in 1 .. n : RowMember(doc, n, at, k)
  /\ \A k \in 1 .. n : \A j \in 1 .. n : j < k => EndAt(doc, at, j) <= at[k]

(* The chain of the items of an object is a row of members.                *)
LEMMA RowOfChain ==
  ASSUME NEW doc, Len(doc) \in Nat, NEW p, NEW n, NEW at, Chain(doc, ObjectEnd, p, n, at)
  PROVE  Row(doc, n, at)
<1>1. n \in Nat /\ n > 0 /\ at \in [1 .. n -> 1 .. Len(doc)]
  BY DEF Chain
<1>2. \A i : ItemPlace(doc, ObjectEnd, i + 1) = ValuePlace(doc, i)
  BY DEF ItemPlace, From, ValuePlace
<1>3. \A k : /\ ItemEnd(doc, ObjectEnd, at[k] + 1) = EndAt(doc, at, k)
             /\ AfterItem(doc, ObjectEnd, at[k] + 1) = AfterAt(doc, at, k)
  BY <1>2 DEF ItemEnd, AfterItem, EndAt, AfterAt
<1>4. ASSUME NEW k \in 1 .. n PROVE RowMember(doc, n, at, k)
  <2>1. Linked(doc, ObjectEnd, n, at, k)
    BY DEF Chain
  <2>2. ItemPlaces(doc, ObjectEnd, at[k] + 1) /\ at[k] \in 1 .. Len(doc)
    BY <2>1 DEF Linked
  <2>3. /\ Keyed(doc, ObjectEnd, at[k] + 1) /\ ValuePlace(doc, at[k]) \in at[k] + 1 .. Len(doc)
        /\ EndAt(doc, at, k) \in ValuePlace(doc, at[k]) + 1 .. Len(doc) + 1
        /\ AfterAt(doc, at, k) \in EndAt(doc, at, k) .. Len(doc)
    BY <1>2, <1>3, <2>2 DEF ItemPlaces
  <2>4. IsMember(doc, at[k])
    <3>1. ~(ValuePlace(doc, at[k]) > Len(doc))
      BY <2>2, <2>3
    <3> QED
      BY <2>3, <3>1 DEF IsMember, Keyed
  <2>5. EndAt(doc, at, k) \in ValuePlace(doc, at[k]) + 1 .. Len(doc)
    BY <2>2, <2>3
  <2>6. EndAt(doc, at, k) \in 1 .. Len(doc) + 1
    BY <2>2, <2>3
  <2>7. \A i \in EndAt(doc, at, k) .. AfterAt(doc, at, k) - 1 : doc[i] = Space
    BY <2>6, SkipSpaceEnds DEF AfterAt
  <2>8. IF k = n THEN doc[AfterAt(doc, at, k)] = ObjectEnd
        ELSE at[k + 1] = AfterAt(doc, at, k) /\ doc[at[k + 1]] = Comma
    BY <1>3, <2>1 DEF Linked
  <2> QED
    BY <2>2, <2>3, <2>4, <2>5, <2>7, <2>8 DEF RowMember
<1>5. ObjectEnd \in Closers
  BY DEF Closers
<1>6. \A k \in 1 .. n : \A j \in 1 .. n : j < k => EndAt(doc, at, j) <= at[k]
  BY <1>3, <1>5, ChainIsOrderly
<1> QED
  BY <1>1, <1>4, <1>6 DEF Row

(* The numbers of a row.                                                   *)
LEMMA RowNumbers ==
  ASSUME NEW doc, Len(doc) \in Nat, NEW n, NEW at, Row(doc, n, at), NEW k \in 1 .. n
  PROVE  /\ at[k] \in Nat /\ ValuePlace(doc, at[k]) \in Nat /\ EndAt(doc, at, k) \in Nat /\ AfterAt(doc, at, k) \in Nat
         /\ 1 <= at[k] /\ at[k] < ValuePlace(doc, at[k]) /\ ValuePlace(doc, at[k]) < EndAt(doc, at, k)
         /\ EndAt(doc, at, k) <= AfterAt(doc, at, k) /\ AfterAt(doc, at, k) <= Len(doc)
<1>1. RowMember(doc, n, at, k)
  BY DEF Row
<1>2. /\ at[k] \in 1 .. Len(doc) /\ ValuePlace(doc, at[k]) \in at[k] + 1 .. Len(doc)
      /\ EndAt(doc, at, k) \in ValuePlace(doc, at[k]) + 1 .. Len(doc)
      /\ AfterAt(doc, at, k) \in EndAt(doc, at, k) .. Len(doc)
  BY <1>1 DEF RowMember
<1> QED
  BY <1>2

(* A place belongs to one member at most, and none between two of them.    *)
LEMMA RowIsApart ==
  ASSUME NEW doc, Len(doc) \in Nat, NEW n, NEW at, Row(doc, n, at), NEW j \in 1 .. n, NEW i \in at[j] .. EndAt(doc, at, j) - 1,
         NEW k \in 1 .. n
  PROVE  /\ i \in at[k] .. EndAt(doc, at, k) - 1 => j = k
         /\ i >= EndAt(doc, at, k) => k < j
         /\ i < at[k] => j < k
<1>1. /\ at[k] \in Nat /\ EndAt(doc, at, k) \in Nat /\ at[k] < EndAt(doc, at, k)
      /\ at[j] \in Nat /\ EndAt(doc, at, j) \in Nat /\ at[j] < EndAt(doc, at, j)
  <2>1. ASSUME NEW m \in 1 .. n PROVE at[m] \in Nat /\ EndAt(doc, at, m) \in Nat /\ at[m] < EndAt(doc, at, m)
    <3>1. at[m] \in Nat /\ ValuePlace(doc, at[m]) \in Nat /\ EndAt(doc, at, m) \in Nat
          /\ at[m] < ValuePlace(doc, at[m]) /\ ValuePlace(doc, at[m]) < EndAt(doc, at, m)
      BY RowNumbers
    <3> QED
      BY <3>1
  <2> QED
    BY <2>1
<1>2. j < k => EndAt(doc, at, j) <= at[k]
  BY DEF Row
<1>3. k < j => EndAt(doc, at, k) <= at[j]
  BY DEF Row
<1>4. n \in Nat
  BY DEF Row
<1>5. j < k \/ j = k \/ k < j
  BY <1>4
<1> QED
  BY <1>1, <1>2, <1>3, <1>5

(* The numbers of the members called model.                                *)
ModelsAt(doc, n, at) == {k \in 1 .. n : Text(doc[KeyAt(doc, at[k] + 1)]) = "model"}
RowAt(doc, at, k) == MemberAt(doc, at[k], DecodedEnd(doc))

(* The places of a member of a row.                                        *)
LEMMA RowAtIs ==
  ASSUME NEW doc, NEW at, NEW k
  PROVE  /\ RowAt(doc, at, k).before = at[k] /\ RowAt(doc, at, k).key = KeyAt(doc, at[k] + 1)
         /\ RowAt(doc, at, k).value = ValuePlace(doc, at[k]) /\ RowAt(doc, at, k).end = EndAt(doc, at, k)
BY DEF RowAt, MemberAt, EndAt

(* The members called model are those of the row with that key, each found *)
(* once.                                                                   *)
LEMMA ModelsInRow ==
  ASSUME NEW doc, Len(doc) \in Nat, NEW p, NEW n, NEW at, Chain(doc, ObjectEnd, p, n, at),
         NEW M, M = ModelsOf(doc, Walk(doc, p, DecodedEnd(doc)))
  PROVE  /\ M = {RowAt(doc, at, k) : k \in ModelsAt(doc, n, at)}
         /\ \A k \in 1 .. n : RowAt(doc, at, k) \in M <=> k \in ModelsAt(doc, n, at)
         /\ \A j, k \in 1 .. n : RowAt(doc, at, j) = RowAt(doc, at, k) => j = k
<1>1. Walk(doc, p, DecodedEnd(doc)) = {RowAt(doc, at, k) : k \in 1 .. n}
  BY WalkOfChain DEF RowAt
<1>2. Row(doc, n, at)
  BY RowOfChain
<1>3. ASSUME NEW j \in 1 .. n, NEW k \in 1 .. n, RowAt(doc, at, j) = RowAt(doc, at, k) PROVE j = k
  <2>1. at[j] = at[k]
    BY <1>3, RowAtIs
  <2>2. at[j] \in Nat /\ EndAt(doc, at, j) \in Nat /\ at[j] < EndAt(doc, at, j)
    <3>1. at[j] \in Nat /\ ValuePlace(doc, at[j]) \in Nat /\ EndAt(doc, at, j) \in Nat
          /\ at[j] < ValuePlace(doc, at[j]) /\ ValuePlace(doc, at[j]) < EndAt(doc, at, j)
      BY <1>2, RowNumbers
    <3> QED
      BY <3>1
  <2>3. at[j] \in at[j] .. EndAt(doc, at, j) - 1
    BY <2>2
  <2>4. RowAt(doc, at, j).end = EndAt(doc, at, j) /\ RowAt(doc, at, k).end = EndAt(doc, at, k)
    BY RowAtIs
  <2>5. at[j] \in at[k] .. EndAt(doc, at, k) - 1
    BY <1>3, <2>1, <2>3, <2>4
  <2> QED
    BY <1>2, <2>3, <2>5, RowIsApart
<1>4. ASSUME NEW k \in 1 .. n PROVE RowAt(doc, at, k) \in M <=> k \in ModelsAt(doc, n, at)
  <2>1. RowAt(doc, at, k) \in Walk(doc, p, DecodedEnd(doc))
    BY <1>1
  <2>2. RowAt(doc, at, k).key = KeyAt(doc, at[k] + 1)
    BY RowAtIs
  <2> QED
    BY <2>1, <2>2 DEF ModelsOf, ModelsAt
<1>5. M \subseteq Walk(doc, p, DecodedEnd(doc))
  BY DEF ModelsOf
<1>6. M = {RowAt(doc, at, k) : k \in ModelsAt(doc, n, at)}
  <2>1. ModelsAt(doc, n, at) \subseteq 1 .. n
    BY DEF ModelsAt
  <2> QED
    BY <1>1, <1>4, <1>5, <2>1
<1> QED
  BY <1>3, <1>4, <1>6

(* The first and the last of them, by number.                              *)
LEMMA FirstInRow ==
  ASSUME NEW doc, Len(doc) \in Nat, NEW p, NEW n, NEW at, Chain(doc, ObjectEnd, p, n, at),
         NEW M, M = ModelsOf(doc, Walk(doc, p, DecodedEnd(doc))), M # {}
  PROVE  /\ \E f \in ModelsAt(doc, n, at) : FirstOf(M) = RowAt(doc, at, f) /\ \A k \in ModelsAt(doc, n, at) : f <= k
         /\ \E l \in ModelsAt(doc, n, at) : LastOf(M) = RowAt(doc, at, l) /\ \A k \in ModelsAt(doc, n, at) : k <= l
<1> DEFINE K == ModelsAt(doc, n, at)
<1>1. Row(doc, n, at) /\ K \subseteq 1 .. n /\ n \in Nat
  BY RowOfChain DEF ModelsAt, Chain
<1>2. M = {RowAt(doc, at, k) : k \in K}
  BY ModelsInRow
<1>3. \A k : RowAt(doc, at, k).before = at[k]
  BY RowAtIs
<1>4. \A k \in 1 .. n : at[k] \in 1 .. Len(doc) /\ at[k] \in Nat
  BY <1>1, RowNumbers DEF Row
<1>5. \A j \in 1 .. n : \A k \in 1 .. n : j < k => at[j] < at[k]
  <2> TAKE j \in 1 .. n
  <2> TAKE k \in 1 .. n
  <2> HAVE j < k
  <2>1. EndAt(doc, at, j) <= at[k]
    BY <1>1 DEF Row
  <2>2. at[j] \in Nat /\ ValuePlace(doc, at[j]) \in Nat /\ EndAt(doc, at, j) \in Nat
        /\ at[j] < ValuePlace(doc, at[j]) /\ ValuePlace(doc, at[j]) < EndAt(doc, at, j)
    BY <1>1, RowNumbers
  <2> QED
    BY <1>4, <2>1, <2>2
<1>6. \A m \in M : m.before \in 1 .. Len(doc)
  BY <1>1, <1>2, <1>3, <1>4
<1>7. /\ FirstOf(M) \in M /\ \A m \in M : FirstOf(M).before <= m.before
      /\ LastOf(M) \in M /\ \A m \in M : LastOf(M).before >= m.before
  BY <1>6, FirstAndLast
<1> HIDE DEF K
<1>8. PICK f \in K : FirstOf(M) = RowAt(doc, at, f)
  BY <1>2, <1>7
<1>9. PICK l \in K : LastOf(M) = RowAt(doc, at, l)
  BY <1>2, <1>7
<1>10. ASSUME NEW k \in K PROVE f <= k /\ k <= l
  <2>1. RowAt(doc, at, k) \in M
    BY <1>2
  <2>2. at[f] <= at[k] /\ at[l] >= at[k]
    BY <1>3, <1>7, <1>8, <1>9, <2>1
  <2>3. f \in 1 .. n /\ k \in 1 .. n /\ l \in 1 .. n
    BY <1>1
  <2>4. ~(k < f)
    <3>1. at[f] \in Nat /\ at[k] \in Nat /\ (k < f => at[k] < at[f])
      BY <1>4, <1>5, <2>3
    <3> QED
      BY <2>2, <3>1
  <2>5. ~(l < k)
    <3>1. at[l] \in Nat /\ at[k] \in Nat /\ (l < k => at[l] < at[k])
      BY <1>4, <1>5, <2>3
    <3> QED
      BY <2>2, <3>1
  <2>6. f \in Int /\ k \in Int /\ l \in Int
    BY <2>3
  <2> QED
    BY <2>4, <2>5, <2>6
<1> QED
  BY <1>8, <1>9, <1>10 DEF K

-----------------------------------------------------------------------------
(* The pieces of a canonical text, member by member.                       *)

(* What is left of a row when its first model is replaced and the others   *)
(* are removed.                                                            *)
RowRewritten(doc, n, at, f, parts) ==
  /\ \A k \in 1 .. n :
       /\ k \notin ModelsAt(doc, n, at) => Kept(doc, parts, at[k], EndAt(doc, at, k))
       /\ k \in ModelsAt(doc, n, at) /\ k # f => Gone(parts, at[k], EndAt(doc, at, k))
       /\ k < n => Kept(doc, parts, EndAt(doc, at, k), at[k + 1])
  /\ Kept(doc, parts, at[f], ValuePlace(doc, at[f])) /\ parts[ValuePlace(doc, at[f])] = <<String(Model)>>
  /\ Gone(parts, ValuePlace(doc, at[f]) + 1, EndAt(doc, at, f))
  /\ Kept(doc, parts, EndAt(doc, at, n), Len(doc) + 1) /\ Kept(doc, parts, 1, at[1])

(* The pieces, by the numbers of the members they belong to.               *)
LEMMA PieceInRow ==
  ASSUME NEW doc, Len(doc) \in Nat, NEW p \in 1 .. Len(doc), NEW n, NEW at, Chain(doc, ObjectEnd, p, n, at),
         NEW M, M = ModelsOf(doc, Walk(doc, p, DecodedEnd(doc))), AreModels(doc, p, M),
         NEW f \in ModelsAt(doc, n, at), FirstOf(M) = RowAt(doc, at, f),
         NEW i \in 1 .. Len(doc), NEW piece, piece = PieceOf(doc, CanonicalEdits(M), i)
  PROVE  /\ i \in ValuePlace(doc, at[f]) .. EndAt(doc, at, f) - 1 =>
              piece = IF i = ValuePlace(doc, at[f]) THEN <<String(Model)>> ELSE <<>>
         /\ i \notin ValuePlace(doc, at[f]) .. EndAt(doc, at, f) - 1 =>
              /\ (\A k \in ModelsAt(doc, n, at) : k # f => i \notin at[k] .. EndAt(doc, at, k) - 1) => piece = <<doc[i]>>
              /\ (\E k \in ModelsAt(doc, n, at) : k # f /\ i \in at[k] .. EndAt(doc, at, k) - 1) => piece = <<>>
<1> DEFINE K == ModelsAt(doc, n, at)
<1>1. piece = IF Replaced(M, i) THEN IF i = FirstOf(M).value THEN <<String(Model)>> ELSE <<>>
              ELSE IF Removed(M, i) THEN <<>> ELSE <<doc[i]>>
  BY CanonicalPieces
<1>2. \A k : /\ RowAt(doc, at, k).before = at[k] /\ RowAt(doc, at, k).value = ValuePlace(doc, at[k])
             /\ RowAt(doc, at, k).end = EndAt(doc, at, k)
  BY RowAtIs
<1>3. M = {RowAt(doc, at, k) : k \in K} /\ K \subseteq 1 .. n
      /\ \A j, k \in 1 .. n : RowAt(doc, at, j) = RowAt(doc, at, k) => j = k
  BY ModelsInRow DEF ModelsAt
<1>4. FirstOf(M).value = ValuePlace(doc, at[f]) /\ FirstOf(M).end = EndAt(doc, at, f)
  BY <1>2
<1>5. Replaced(M, i) <=> i \in ValuePlace(doc, at[f]) .. EndAt(doc, at, f) - 1
  BY <1>4 DEF Replaced
<1> HIDE DEF K
<1>6. \A k \in K : RowAt(doc, at, k) \in M /\ (RowAt(doc, at, k) = FirstOf(M) <=> k = f)
  BY <1>3 DEF K
<1>7. Removed(M, i) <=> \E k \in K : k # f /\ i \in at[k] .. EndAt(doc, at, k) - 1
  <2>1. ASSUME NEW m \in M \ {FirstOf(M)}, i \in m.before .. m.end - 1
        PROVE  \E k \in K : k # f /\ i \in at[k] .. EndAt(doc, at, k) - 1
    <3>1. PICK k \in K : m = RowAt(doc, at, k)
      BY <1>3
    <3> QED
      BY <1>2, <1>6, <2>1, <3>1
  <2>2. ASSUME NEW k \in K, k # f, i \in at[k] .. EndAt(doc, at, k) - 1 PROVE Removed(M, i)
    <3>1. RowAt(doc, at, k) \in M \ {FirstOf(M)}
      BY <1>6, <2>2
    <3>2. i \in RowAt(doc, at, k).before .. RowAt(doc, at, k).end - 1
      BY <1>2, <2>2
    <3> QED
      BY <3>1, <3>2 DEF Removed
  <2> QED
    BY <2>1, <2>2 DEF Removed
<1>8. CASE i \in ValuePlace(doc, at[f]) .. EndAt(doc, at, f) - 1
  BY <1>1, <1>4, <1>5, <1>8
<1>9. CASE i \notin ValuePlace(doc, at[f]) .. EndAt(doc, at, f) - 1
  <2>1. piece = IF Removed(M, i) THEN <<>> ELSE <<doc[i]>>
    BY <1>1, <1>5, <1>9
  <2> QED
    BY <1>7, <1>9, <2>1 DEF K
<1> QED
  BY <1>8, <1>9

(* The canonical edits replace the first model of the row, remove the      *)
(* others with the comma before them, and keep all else.                   *)
LEMMA RowIsRewritten ==
  ASSUME NEW doc, Len(doc) \in Nat, NEW p \in 1 .. Len(doc), NEW n, NEW at, Chain(doc, ObjectEnd, p, n, at),
         NEW M, M = ModelsOf(doc, Walk(doc, p, DecodedEnd(doc))), AreModels(doc, p, M),
         NEW f \in ModelsAt(doc, n, at), FirstOf(M) = RowAt(doc, at, f),
         NEW parts, \A i \in 1 .. Len(doc) : parts[i] = PieceOf(doc, CanonicalEdits(M), i)
  PROVE  RowRewritten(doc, n, at, f, parts)
<1> DEFINE K == ModelsAt(doc, n, at)
           V == ValuePlace(doc, at[f])
           E(k) == EndAt(doc, at, k)
<1>1. Row(doc, n, at) /\ K \subseteq 1 .. n /\ n \in Nat /\ n > 0 /\ f \in 1 .. n
  BY RowOfChain DEF ModelsAt, Row
<1>2. ASSUME NEW k \in 1 .. n
      PROVE  /\ at[k] \in Nat /\ ValuePlace(doc, at[k]) \in Nat /\ E(k) \in Nat /\ AfterAt(doc, at, k) \in Nat
             /\ 1 <= at[k] /\ at[k] < ValuePlace(doc, at[k]) /\ ValuePlace(doc, at[k]) < E(k)
             /\ E(k) <= AfterAt(doc, at, k) /\ AfterAt(doc, at, k) <= Len(doc)
  BY <1>1, RowNumbers
<1>3. ASSUME NEW i \in 1 .. Len(doc), \A k \in K : i \notin at[k] .. E(k) - 1 PROVE parts[i] = <<doc[i]>>
  <2>1. i \notin V .. E(f) - 1
    <3>1. at[f] < V /\ at[f] \in Nat /\ V \in Nat /\ E(f) \in Nat
      BY <1>1, <1>2
    <3>2. i \notin at[f] .. E(f) - 1
      BY <1>3
    <3> QED
      BY <3>1, <3>2
  <2> QED
    BY <1>3, <2>1, PieceInRow
<1>4. ASSUME NEW k \in 1 .. n, NEW i \in at[k] .. E(k) - 1
      PROVE  i \in 1 .. Len(doc) /\ \A j \in 1 .. n : i \in at[j] .. E(j) - 1 => j = k
  <2>1. i \in 1 .. Len(doc)
    BY <1>2
  <2>2. ASSUME NEW j \in 1 .. n, i \in at[j] .. E(j) - 1 PROVE j = k
    BY <1>1, <2>2, RowIsApart
  <2> QED
    BY <2>1, <2>2
<1>5. ASSUME NEW k \in 1 .. n, k \notin K PROVE Kept(doc, parts, at[k], E(k))
  <2>1. ASSUME NEW i \in at[k] .. E(k) - 1 PROVE parts[i] = <<doc[i]>>
    <3>1. \A j \in K : i \notin at[j] .. E(j) - 1
      BY <1>1, <1>4, <1>5
    <3> QED
      BY <1>3, <1>4, <3>1
  <2> QED
    BY <2>1 DEF Kept
<1>6. ASSUME NEW k \in K, k # f PROVE Gone(parts, at[k], E(k))
  <2>1. ASSUME NEW i \in at[k] .. E(k) - 1 PROVE parts[i] = <<>>
    <3>1. i \in 1 .. Len(doc) /\ i \notin at[f] .. E(f) - 1
      BY <1>1, <1>4, <1>6
    <3>2. i \notin V .. E(f) - 1
      <4>1. at[f] < V /\ at[f] \in Nat /\ V \in Nat /\ E(f) \in Nat
        BY <1>1, <1>2
      <4> QED
        BY <3>1, <4>1
    <3> QED
      BY <1>6, <3>1, <3>2, PieceInRow
  <2> QED
    BY <2>1 DEF Gone
<1>7. ASSUME NEW k \in 1 .. n, k < n PROVE Kept(doc, parts, E(k), at[k + 1])
  <2>0. k + 1 \in 1 .. n
    BY <1>1, <1>7
  <2>1. ASSUME NEW i \in E(k) .. at[k + 1] - 1 PROVE parts[i] = <<doc[i]>>
    <3>1. at[k] \in Nat /\ at[k + 1] \in Nat /\ E(k) \in Nat /\ at[k] < E(k) /\ 1 <= at[k] /\ at[k + 1] <= Len(doc)
      <4>1. at[k + 1] < ValuePlace(doc, at[k + 1]) /\ ValuePlace(doc, at[k + 1]) < E(k + 1)
            /\ E(k + 1) <= AfterAt(doc, at, k + 1) /\ AfterAt(doc, at, k + 1) <= Len(doc)
            /\ at[k + 1] \in Nat /\ ValuePlace(doc, at[k + 1]) \in Nat /\ E(k + 1) \in Nat /\ AfterAt(doc, at, k + 1) \in Nat
        BY <1>2, <2>0
      <4>2. at[k + 1] <= Len(doc)
        BY <4>1
      <4>3. at[k] < ValuePlace(doc, at[k]) /\ ValuePlace(doc, at[k]) < E(k) /\ 1 <= at[k]
            /\ at[k] \in Nat /\ ValuePlace(doc, at[k]) \in Nat /\ E(k) \in Nat
        BY <1>2
      <4> QED
        BY <4>1, <4>2, <4>3
    <3>2. i \in 1 .. Len(doc) /\ i >= E(k) /\ i < at[k + 1]
      BY <2>1, <3>1
    <3>3. ASSUME NEW j \in 1 .. n, i \in at[j] .. E(j) - 1 PROVE FALSE
      <4>1. k < j /\ j < k + 1
        BY <1>1, <2>0, <3>2, <3>3, RowIsApart
      <4> QED
        BY <4>1
    <3> QED
      BY <1>1, <1>3, <3>2, <3>3
  <2> QED
    BY <2>1 DEF Kept
<1>8. Kept(doc, parts, at[f], V)
  <2>1. ASSUME NEW i \in at[f] .. V - 1 PROVE parts[i] = <<doc[i]>>
    <3>1. i \in at[f] .. E(f) - 1 /\ i \notin V .. E(f) - 1
      <4>1. at[f] \in Nat /\ V \in Nat /\ E(f) \in Nat /\ V < E(f)
        BY <1>1, <1>2
      <4> QED
        BY <4>1
    <3>2. i \in 1 .. Len(doc) /\ \A k \in K : k # f => i \notin at[k] .. E(k) - 1
      BY <1>1, <1>4, <3>1
    <3> QED
      BY <3>1, <3>2, PieceInRow
  <2> QED
    BY <2>1 DEF Kept
<1>9. parts[V] = <<String(Model)>> /\ Gone(parts, V + 1, E(f))
  <2>1. at[f] \in Nat /\ V \in Nat /\ E(f) \in Nat /\ V < E(f) /\ at[f] < V
    BY <1>1, <1>2
  <2>2. V \in V .. E(f) - 1 /\ V \in at[f] .. E(f) - 1
    BY <2>1
  <2>3. V \in 1 .. Len(doc)
    BY <1>1, <1>4, <2>2
  <2>4. parts[V] = <<String(Model)>>
    BY <2>2, <2>3, PieceInRow
  <2>5. ASSUME NEW i \in V + 1 .. E(f) - 1 PROVE parts[i] = <<>>
    <3>1. i \in V .. E(f) - 1 /\ i # V /\ i \in at[f] .. E(f) - 1
      BY <2>1
    <3>2. i \in 1 .. Len(doc)
      BY <1>1, <1>4, <3>1
    <3> QED
      BY <3>1, <3>2, PieceInRow
  <2> QED
    BY <2>4, <2>5 DEF Gone
<1>10. Kept(doc, parts, E(n), Len(doc) + 1)
  <2>0. n \in 1 .. n
    BY <1>1
  <2>1. ASSUME NEW i \in E(n) .. Len(doc) + 1 - 1 PROVE parts[i] = <<doc[i]>>
    <3>1. E(n) \in Nat /\ 1 <= E(n)
      <4>1. /\ at[n] \in Nat /\ ValuePlace(doc, at[n]) \in Nat /\ E(n) \in Nat
            /\ 1 <= at[n] /\ at[n] < ValuePlace(doc, at[n]) /\ ValuePlace(doc, at[n]) < E(n)
        BY <1>2, <2>0
      <4> QED
        BY <4>1
    <3>2. i \in 1 .. Len(doc) /\ i >= E(n)
      BY <2>1, <3>1
    <3>3. ASSUME NEW j \in 1 .. n, i \in at[j] .. E(j) - 1 PROVE FALSE
      <4>1. n < j
        BY <1>1, <2>0, <3>2, <3>3, RowIsApart
      <4> QED
        BY <1>1, <4>1
    <3> QED
      BY <1>1, <1>3, <3>2, <3>3
  <2> QED
    BY <2>1 DEF Kept
<1>11. Kept(doc, parts, 1, at[1])
  <2>0. 1 \in 1 .. n
    BY <1>1
  <2>1. ASSUME NEW i \in 1 .. at[1] - 1 PROVE parts[i] = <<doc[i]>>
    <3>1. at[1] \in 1 .. Len(doc)
      BY <1>1, <2>0 DEF Row
    <3>2. i \in 1 .. Len(doc) /\ i < at[1]
      BY <2>1, <3>1
    <3>3. ASSUME NEW j \in 1 .. n, i \in at[j] .. E(j) - 1 PROVE FALSE
      <4>1. j < 1
        BY <1>1, <2>0, <3>2, <3>3, RowIsApart
      <4> QED
        BY <1>1, <4>1
    <3> QED
      BY <1>1, <1>3, <3>2, <3>3
  <2> QED
    BY <2>1 DEF Kept
<1> HIDE DEF K, V, E
<1> QED
  BY <1>5, <1>6, <1>7, <1>8, <1>9, <1>10, <1>11 DEF RowRewritten, K, V, E

-----------------------------------------------------------------------------
(* The written members.                                                    *)

(* The text b is what is left of the row in a.                             *)
Written(a, n, at, f, parts, b, pos) ==
  /\ Len(a) \in Nat /\ Row(a, n, at) /\ f \in ModelsAt(a, n, at) /\ f \in 1 .. n
  /\ RowRewritten(a, n, at, f, parts) /\ Positions(Len(a), parts, b, pos)

ReadInRow(doc, at, k, x) ==
  \E v \in ValueOf(doc, ValuePlace(doc, at[k])) :
    v.next = EndAt(doc, at, k) /\ x = <<Text(doc[KeyAt(doc, at[k] + 1)]), v.tree>>

RestIs(doc, i, list, next) == \E t \in RestOf(doc, ObjectEnd, i) : t.list = list /\ t.next = next
MemberIs(doc, i, list, next) ==
  /\ i \in 1 .. Len(doc) + 1 /\ IsString(At(doc, SkipSpace(doc, i)))
  /\ \E t \in ItemsOf(doc, ObjectEnd, i) : t.list = list /\ t.next = next

ModelName == "model"
ModelMember == <<ModelName, String(Model)>>
SameAtom(a, b, i, j) == b[j] = a[i]
WrittenItem(k, f, x, item) == item = IF k = f THEN ModelMember ELSE x

(* There is one list of an element and a rest.                             *)
LEMMA FollowsOne ==
  ASSUME NEW r, NEW s, NEW x, NEW y, NEW list, Follows(r, x, list), Follows(s, y, list), x = y PROVE r = s
BY DEF Follows

(* The value of a member that stays, where it stands now.                  *)
LEMMA ValueWritten ==
  ASSUME NEW a, NEW n, NEW at, NEW f, NEW parts, NEW b, NEW pos, Written(a, n, at, f, parts, b, pos),
         NEW k \in 1 .. n, k \notin ModelsAt(a, n, at) \/ k = f, NEW x, ReadInRow(a, at, k, x)
  PROVE  /\ Carried(a, b, at[k], ValuePlace(a, at[k]), pos[at[k]] - at[k])
         /\ pos[ValuePlace(a, at[k])] = pos[at[k]] + (ValuePlace(a, at[k]) - at[k])
         /\ pos[ValuePlace(a, at[k])] \in 1 .. Len(b) /\ b[pos[ValuePlace(a, at[k])]] # Space
         /\ \E w \in ValueOf(b, pos[ValuePlace(a, at[k])]) :
              /\ w.next = pos[EndAt(a, at, k)]
              /\ <<Text(a[KeyAt(a, at[k] + 1)]), w.tree>> = IF k = f THEN ModelMember ELSE x
<1> DEFINE A == at[k]
           V == ValuePlace(a, at[k])
           E == EndAt(a, at, k)
           key == Text(a[KeyAt(a, at[k] + 1)])
<1>1. Len(a) \in Nat /\ Row(a, n, at) /\ RowRewritten(a, n, at, f, parts) /\ Positions(Len(a), parts, b, pos)
  BY DEF Written
<1>2. /\ A \in Nat /\ V \in Nat /\ E \in Nat /\ 1 <= A /\ A < V /\ V < E /\ E <= Len(a)
  <2>1. /\ A \in Nat /\ V \in Nat /\ E \in Nat /\ AfterAt(a, at, k) \in Nat
        /\ 1 <= A /\ A < V /\ V < E /\ E <= AfterAt(a, at, k) /\ AfterAt(a, at, k) <= Len(a)
    BY <1>1, RowNumbers
  <2> QED
    BY <1>1, <2>1
<1>3. Len(b) \in Nat /\ \A i \in 1 .. Len(a) + 1 : pos[i] \in 1 .. Len(b) + 1
  BY DEF Written, Positions
<1>4. IsMember(a, at[k])
  BY <1>1 DEF Row, RowMember
<1>5. PICK v \in ValueOf(a, V) : v.next = E /\ x = <<key, v.tree>>
  BY DEF ReadInRow
<1>6. Kept(a, parts, at[k], V)
  <2>1. CASE k = f
    BY <1>1, <2>1 DEF RowRewritten
  <2>2. CASE k # f
    <3>1. Kept(a, parts, at[k], E)
      BY <1>1, <2>2 DEF RowRewritten
    <3>2. \A i \in at[k] .. V - 1 : i \in at[k] .. E - 1
      BY <1>2
    <3> QED
      BY <3>1, <3>2 DEF Kept
  <2> QED
    BY <2>1, <2>2
<1> HIDE DEF A, V, E, key
<1>7. A = at[k]
  BY DEF A
<1>8. A \in 1 .. Len(a) + 1 /\ V \in 1 .. Len(a) + 1 /\ E \in 1 .. Len(a) + 1 /\ V \in 1 .. Len(a) /\ A <= V /\ V <= E
      /\ A \in 1 .. Len(a)
  BY <1>1, <1>2
<1>9. Carried(a, b, A, V, pos[A] - A) /\ pos[V] = pos[A] + (V - A)
  BY <1>1, <1>6, <1>7, <1>8, KeptIsCarried
<1>10. a[V] # Space
  BY <1>1, <1>4, <1>7, <1>8, MemberPlaces DEF V
<1>11. CASE k = f
  <2>1. parts[V] = <<String(Model)>> /\ Gone(parts, V + 1, E)
    BY <1>1, <1>11 DEF RowRewritten, V, E
  <2>2. StandsAt(parts, b, pos, V)
    BY <1>1, <1>8 DEF Positions
  <2>3. parts[V] # <<>> /\ parts[V][1] = String(Model)
    BY <2>1
  <2>4. pos[V + 1] = pos[V] + 1 /\ pos[V] <= Len(b) /\ b[pos[V]] = String(Model)
    BY <2>2, <2>3 DEF StandsAt
  <2>5. V + 1 \in 1 .. Len(a) + 1 /\ V + 1 <= E
    BY <1>2, <1>8
  <2>6. pos[E] = pos[V + 1]
    BY <1>1, <1>8, <2>1, <2>5, GoneIsNothing
  <2>7. pos[V] \in 1 .. Len(b)
    BY <1>3, <1>8, <2>4
  <2>8. IsString(b[pos[V]]) /\ Text(b[pos[V]]) = Model /\ b[pos[V]] # Space
    BY <2>4, StringsAre, MarksDiffer
  <2>9. ValueOf(b, pos[V]) = {[tree |-> String(Model), next |-> pos[V] + 1]}
    BY <1>3, <2>7, <2>8, StringEnds
  <2> DEFINE w == [tree |-> String(Model), next |-> pos[V] + 1]
  <2>10. w \in ValueOf(b, pos[V]) /\ w.next = pos[E] /\ w.tree = String(Model)
    BY <2>4, <2>6, <2>9
  <2>11. key = ModelName
    BY <1>11 DEF Written, ModelsAt, key, ModelName
  <2> HIDE DEF w
  <2>12. <<key, w.tree>> = ModelMember
    BY <2>10, <2>11 DEF ModelMember
  <2> QED
    BY <1>7, <1>9, <1>11, <2>7, <2>8, <2>10, <2>12 DEF V, E, key
<1>12. CASE k # f
  <2>1. Kept(a, parts, A, E)
    BY <1>1, <1>7, <1>12 DEF RowRewritten, E
  <2>2. A <= E
    BY <1>2
  <2>3. Carried(a, b, A, E, pos[A] - A) /\ pos[E] = pos[A] + (E - A)
    BY <1>1, <1>8, <2>1, <2>2, KeptIsCarried
  <2> DEFINE d == pos[A] - A
  <2>4. pos[A] \in 1 .. Len(b) + 1 /\ pos[E] \in 1 .. Len(b) + 1
    BY <1>3, <1>8
  <2>5. d \in Int /\ V + d = pos[V] /\ E + d = pos[E]
    <3>1. pos[V] = pos[A] + (V - A) /\ pos[E] = pos[A] + (E - A)
      BY <1>9, <2>3
    <3>2. pos[A] \in Int /\ A \in Int /\ V \in Int /\ E \in Int
      BY <1>2, <2>4
    <3> QED
      BY <3>1, <3>2
  <2>6. Carried(a, b, V, E, d)
    <3>1. A \in Int /\ E \in Int /\ V \in Int /\ A <= V /\ E <= E
      BY <1>2
    <3> QED
      BY <1>3, <2>3, <3>1, CarriedPart
  <2> HIDE DEF d
  <2>7. v \in Reading(a)[<<AValue, V>>] /\ AValue \in Whats
    BY DEF ValueOf, Whats
  <2>8. \E s \in Reading(b)[<<AValue, V + d>>] : SameRead(AValue, s, v, d)
    BY <1>1, <1>3, <1>5, <1>8, <2>6, <2>7, CarriedReading
  <2>9. PICK w \in ValueOf(b, pos[V]) : w.next = v.next + d /\ w.tree = v.tree
    BY <2>5, <2>8 DEF SameRead, ValueOf
  <2>10. w.next = pos[E] /\ <<key, w.tree>> = x
    BY <1>5, <2>5, <2>9
  <2>11. pos[V] \in 1 .. Len(b)
    BY <1>2, <1>3, <1>8, <2>4, <2>5
  <2>12. b[pos[V]] # Space
    <3>1. V \in V .. E - 1
      BY <1>2
    <3>2. b[V + d] = a[V]
      BY <2>6, <3>1 DEF Carried
    <3> QED
      BY <1>10, <2>5, <3>2
  <2> QED
    BY <1>7, <1>9, <1>12, <2>9, <2>10, <2>11, <2>12 DEF V, E, key
<1> QED
  BY <1>11, <1>12

(* ... and the member, with the list of those after it.                    *)
LEMMA MemberWritten ==
  ASSUME NEW a, NEW n, NEW at, NEW f, NEW parts, NEW b, NEW pos, Written(a, n, at, f, parts, b, pos),
         NEW k \in 1 .. n, k \notin ModelsAt(a, n, at) \/ k = f, NEW x, ReadInRow(a, at, k, x),
         NEW list, NEW next, RestIs(b, pos[EndAt(a, at, k)], list, next),
         NEW item, WrittenItem(k, f, x, item), NEW more, Follows(more, item, list)
  PROVE  MemberIs(b, pos[at[k]] + 1, more, next) /\ SameAtom(a, b, at[k], pos[at[k]])
<1> DEFINE A == at[k]
           V == ValuePlace(a, at[k])
           E == EndAt(a, at, k)
           key == Text(a[KeyAt(a, at[k] + 1)])
           d == pos[at[k]] - at[k]
<1>1. Len(a) \in Nat /\ Row(a, n, at) /\ Positions(Len(a), parts, b, pos)
  BY DEF Written
<1>2. Len(b) \in Nat /\ \A i \in 1 .. Len(a) + 1 : pos[i] \in 1 .. Len(b) + 1
  BY <1>1 DEF Positions
<1>3. A \in Nat /\ V \in Nat /\ A < V /\ A \in 1 .. Len(a) /\ IsMember(a, A) /\ V <= Len(a)
  <2>1. A \in 1 .. Len(a) /\ IsMember(a, A) /\ V \in A + 1 .. Len(a)
    BY <1>1 DEF Row, RowMember
  <2> QED
    BY <2>1
<1>4. Carried(a, b, A, V, d) /\ pos[V] = pos[A] + (V - A) /\ pos[V] \in 1 .. Len(b) /\ b[pos[V]] # Space
  BY ValueWritten
<1>5. PICK w \in ValueOf(b, pos[V]) : w.next = pos[E] /\ <<key, w.tree>> = item
  BY ValueWritten DEF WrittenItem
<1> HIDE DEF A, V, E, key
<1>6. d = pos[A] - A
  BY DEF A
<1> HIDE DEF d
<1>7. pos[A] \in 1 .. Len(b) + 1 /\ d \in Int /\ V + d = pos[V] /\ (A + 1) + d = pos[A] + 1 /\ A + d = pos[A]
  <2>1. pos[A] \in 1 .. Len(b) + 1
    BY <1>1, <1>2, <1>3
  <2> QED
    BY <1>3, <1>4, <1>6, <2>1
<1>8. Carried(a, b, A + 1, V, d)
  <2>1. A \in Int /\ V \in Int /\ A + 1 \in Int /\ A <= A + 1 /\ V <= V
    BY <1>3
  <2> QED
    BY <1>2, <1>4, <2>1, CarriedPart
<1>9. PICK rest \in RestOf(b, ObjectEnd, pos[E]) : rest.list = list /\ rest.next = next
  BY DEF RestIs, E
<1>10. rest \in RestOf(b, ObjectEnd, w.next)
  BY <1>5, <1>9
<1>11. Carried(a, b, A + 1, ValuePlace(a, A), d) /\ V = ValuePlace(a, A) /\ key = Text(a[KeyAt(a, A + 1)])
  BY <1>8 DEF V, A, key
<1> DEFINE place == pos[V]
<1>12. place = ValuePlace(a, A) + d /\ place \in 1 .. Len(b) /\ b[place] # Space /\ w \in ValueOf(b, place)
  BY <1>4, <1>5, <1>7, <1>11
<1> HIDE DEF place
<1>13. /\ \E t \in ItemsOf(b, ObjectEnd, (A + 1) + d) :
              t.next = rest.next /\ Follows(t.list, <<Text(a[KeyAt(a, A + 1)]), w.tree>>, rest.list)
       /\ (A + 1) + d \in 1 .. Len(b) + 1
       /\ IsString(At(b, SkipSpace(b, (A + 1) + d)))
  BY <1>1, <1>2, <1>3, <1>10, <1>11, <1>12, MemberCarried
<1>14. PICK t \in ItemsOf(b, ObjectEnd, pos[A] + 1) :
          t.next = rest.next /\ Follows(t.list, <<Text(a[KeyAt(a, A + 1)]), w.tree>>, rest.list)
  BY <1>7, <1>13
<1>15. t.list = more
  <2>1. Follows(t.list, <<key, w.tree>>, list)
    BY <1>9, <1>11, <1>14
  <2> QED
    BY <1>5, <2>1, FollowsOne
<1>16. MemberIs(b, pos[A] + 1, more, next)
  BY <1>7, <1>9, <1>13, <1>14, <1>15 DEF MemberIs
<1>17. b[pos[A]] = a[A]
  <2>1. A \in A .. V - 1
    BY <1>3
  <2>2. b[A + d] = a[A]
    BY <1>4, <2>1 DEF Carried
  <2> QED
    BY <1>7, <2>2
<1> QED
  BY <1>16, <1>17 DEF A, SameAtom

(* The pieces of the list, member by member.                               *)
RowItem(K, f, x, k) ==
  IF k \notin K THEN <<x[k]>> ELSE IF k = f THEN <<ModelMember>> ELSE <<>>

(* The list that is left from each member on.                              *)
Lists(n, K, f, x, h) ==
  /\ h[n + 1] = <<>>
  /\ \A k \in 1 .. n : IF k \in K /\ k # f THEN h[k] = h[k + 1]
                       ELSE Follows(h[k], IF k = f THEN ModelMember ELSE x[k], h[k + 1])

(* The object with one model has a rest from every member on.              *)
LEMMA ListsLeft ==
  ASSUME NEW n \in Nat, NEW K, NEW f \in K, NEW x
  PROVE  \E h : h[1] = FlattenSeq([k \in 1 .. n |-> RowItem(K, f, x, k)]) /\ Lists(n, K, f, x, h)
<1> DEFINE items == [k \in 1 .. n |-> RowItem(K, f, x, k)]
           T == {x[k] : k \in 1 .. n} \union {ModelMember}
<1>1. \A k \in 1 .. n : items[k] = RowItem(K, f, x, k)
  OBVIOUS
<1>2. ASSUME NEW k \in 1 .. n PROVE RowItem(K, f, x, k) \in Seq(T) /\ Len(RowItem(K, f, x, k)) <= 1
  <2>1. x[k] \in T /\ ModelMember \in T
    OBVIOUS
  <2> HIDE DEF T
  <2>2. CASE k \notin K
    BY <2>1, <2>2 DEF RowItem
  <2>3. CASE k \in K /\ k = f
    BY <2>1, <2>3 DEF RowItem
  <2>4. CASE k \in K /\ k # f
    BY <2>4 DEF RowItem
  <2> QED
    BY <2>2, <2>3, <2>4
<1>3. items \in [1 .. n -> Seq(T)]
  <2> HIDE DEF T
  <2> QED
    BY <1>2
<1>4. \A k \in 1 .. n : Len(items[k]) <= 1
  BY <1>1, <1>2
<1> HIDE DEF items, T
<1>5. PICK h : h[1] = FlattenSeq(items) /\ h[n + 1] = <<>> /\ \A k \in 1 .. n : LeftFrom(items, h, k)
  BY <1>3, <1>4, ListLeft
<1>6. ASSUME NEW k \in 1 .. n
      PROVE  IF k \in K /\ k # f THEN h[k] = h[k + 1]
             ELSE Follows(h[k], IF k = f THEN ModelMember ELSE x[k], h[k + 1])
  <2>1. LeftFrom(items, h, k) /\ items[k] = RowItem(K, f, x, k)
    BY <1>1, <1>5
  <2>2. CASE k \in K /\ k # f
    <3>1. items[k] = <<>>
      BY <2>1, <2>2 DEF RowItem
    <3> QED
      BY <2>1, <2>2, <3>1 DEF LeftFrom
  <2>3. CASE ~(k \in K /\ k # f)
    <3>1. items[k] = <<IF k = f THEN ModelMember ELSE x[k]>>
      BY <2>1, <2>3 DEF RowItem
    <3>2. items[k] # <<>> /\ items[k][1] = IF k = f THEN ModelMember ELSE x[k]
      BY <3>1
    <3> QED
      BY <2>1, <2>3, <3>2 DEF LeftFrom
  <2> QED
    BY <2>2, <2>3
<1>7. Lists(n, K, f, x, h)
  BY <1>5, <1>6 DEF Lists
<1> QED
  BY <1>5, <1>7 DEF items

(* After the last member comes the end of the object.                      *)
LEMMA LastWritten ==
  ASSUME NEW a, NEW n, NEW at, NEW f, NEW parts, NEW b, NEW pos, Written(a, n, at, f, parts, b, pos),
         NEW next, next = AfterAt(a, at, n) + 1
  PROVE  /\ RestIs(b, pos[EndAt(a, at, n)], <<>>, pos[next])
         /\ next \in EndAt(a, at, n) .. Len(a) + 1 /\ next \in 1 .. Len(a) + 1
<1> DEFINE E == EndAt(a, at, n)
           A == AfterAt(a, at, n)
           N == Len(a)
           d == pos[E] - E
<1>1. N \in Nat /\ Row(a, n, at) /\ RowRewritten(a, n, at, f, parts) /\ Positions(N, parts, b, pos) /\ n \in 1 .. n
  BY DEF Written, Row
<1>2. E \in Nat /\ A \in Nat /\ E <= A /\ A <= N /\ 1 <= E
  <2>1. /\ at[n] \in Nat /\ ValuePlace(a, at[n]) \in Nat /\ E \in Nat /\ A \in Nat
        /\ 1 <= at[n] /\ at[n] < ValuePlace(a, at[n]) /\ ValuePlace(a, at[n]) < E /\ E <= A /\ A <= N
    BY <1>1, RowNumbers
  <2> QED
    BY <2>1
<1>3. A = SkipSpace(a, E) /\ a[A] = ObjectEnd
  BY <1>1 DEF Row, RowMember, AfterAt
<1>4. Kept(a, parts, E, N + 1)
  BY <1>1 DEF RowRewritten
<1>5. Len(b) \in Nat /\ \A i \in 1 .. N + 1 : pos[i] \in 1 .. Len(b) + 1
  BY <1>1 DEF Positions
<1> HIDE DEF E, A, N
<1>6. E \in 1 .. N + 1 /\ N + 1 \in 1 .. N + 1 /\ E <= N + 1 /\ next \in 1 .. N + 1 /\ E <= next /\ next = A + 1
      /\ next \in E .. N + 1
  BY <1>1, <1>2 DEF A
<1>7. Carried(a, b, E, N + 1, d)
  BY <1>1, <1>4, <1>6, KeptIsCarried DEF N
<1>8. pos[next] = pos[E] + (next - E)
  <2>1. Kept(a, parts, E, next)
    <3>1. E \in Int /\ N \in Int /\ next \in Int /\ next <= N + 1
      BY <1>1, <1>2, <1>6 DEF N
    <3>2. \A i \in E .. next - 1 : i \in E .. (N + 1) - 1
      BY <3>1
    <3> QED
      BY <1>4, <3>2 DEF Kept
  <2> QED
    BY <1>1, <1>6, <2>1, KeptIsCarried DEF N
<1>9. E + d = pos[E] /\ A + d + 1 = pos[next] /\ d \in Int /\ pos[E] \in 1 .. Len(b) + 1
  <2>1. pos[E] \in 1 .. Len(b) + 1
    BY <1>5, <1>6
  <2> QED
    BY <1>2, <1>6, <1>8, <2>1
<1> HIDE DEF d
<1>10. SkipSpace(b, pos[E]) = A + d /\ At(b, A + d) = ObjectEnd
  <2>1. A < N + 1 /\ N + 1 \in Int
    BY <1>1, <1>2
  <2>2. SkipSpace(b, E + d) = A + d /\ At(b, A + d) = At(a, A)
    BY <1>1, <1>2, <1>3, <1>5, <1>6, <1>7, <2>1, CarriedSpace DEF N
  <2>3. At(a, A) = ObjectEnd
    BY <1>2, <1>3 DEF At, N
  <2> QED
    BY <1>9, <2>2, <2>3
<1>11. RestOf(b, ObjectEnd, pos[E]) = {[list |-> <<>>, next |-> (A + d) + 1]}
  BY <1>5, <1>9, <1>10, RestReading DEF Closers
<1>12. RestIs(b, pos[E], <<>>, pos[next])
  <2> DEFINE t == [list |-> <<>>, next |-> (A + d) + 1]
  <2>1. t \in RestOf(b, ObjectEnd, pos[E]) /\ t.list = <<>> /\ t.next = pos[next]
    BY <1>9, <1>11
  <2> QED
    BY <2>1 DEF RestIs
<1> QED
  BY <1>6, <1>12 DEF E, N

(* After another member comes a comma, or what follows a removed one.      *)
LEMMA GapWritten ==
  ASSUME NEW a, NEW n, NEW at, NEW f, NEW parts, NEW b, NEW pos, Written(a, n, at, f, parts, b, pos),
         NEW k \in 1 .. n, k < n
  PROVE  /\ RestOf(b, ObjectEnd, pos[EndAt(a, at, k)]) = RestOf(b, ObjectEnd, pos[at[k + 1]])
         /\ k + 1 \in 1 .. n /\ a[at[k + 1]] = Comma /\ at[k + 1] \in 1 .. Len(a)
<1> DEFINE E == EndAt(a, at, k)
           A == at[k + 1]
           d == pos[E] - E
<1>1. Len(a) \in Nat /\ Row(a, n, at) /\ RowRewritten(a, n, at, f, parts) /\ Positions(Len(a), parts, b, pos)
  BY DEF Written
<1>2. RowMember(a, n, at, k) /\ k + 1 \in 1 .. n /\ n \in Nat
  BY <1>1 DEF Row
<1>3. A = AfterAt(a, at, k) /\ a[A] = Comma /\ A \in 1 .. Len(a) /\ \A i \in E .. A - 1 : a[i] = Space
  BY <1>1, <1>2 DEF RowMember, Row
<1>4. E \in Nat /\ A \in Nat /\ E <= A /\ A <= Len(a) /\ 1 <= E
  <2>1. /\ at[k] \in Nat /\ ValuePlace(a, at[k]) \in Nat /\ E \in Nat /\ AfterAt(a, at, k) \in Nat
        /\ 1 <= at[k] /\ at[k] < ValuePlace(a, at[k]) /\ ValuePlace(a, at[k]) < E
        /\ E <= AfterAt(a, at, k) /\ AfterAt(a, at, k) <= Len(a)
    BY <1>1, RowNumbers
  <2>2. 1 <= E
    BY <2>1
  <2> QED
    BY <1>3, <2>1, <2>2
<1>5. Kept(a, parts, E, A)
  BY <1>1 DEF RowRewritten
<1>6. Len(b) \in Nat /\ \A i \in 1 .. Len(a) + 1 : pos[i] \in 1 .. Len(b) + 1
  BY <1>1 DEF Positions
<1> HIDE DEF E, A
<1>7. E \in 1 .. Len(a) + 1 /\ A \in 1 .. Len(a) + 1
  BY <1>1, <1>4
<1>8. Carried(a, b, E, A, d) /\ pos[A] = pos[E] + (A - E)
  BY <1>1, <1>4, <1>5, <1>7, KeptIsCarried
<1>9. pos[E] \in 1 .. Len(b) + 1 /\ pos[A] \in 1 .. Len(b) + 1
  BY <1>6, <1>7
<1>10. d \in Int /\ E + d = pos[E] /\ A + d = pos[A] /\ pos[A] \in pos[E] .. Len(b) + 1
  BY <1>4, <1>8, <1>9
<1> HIDE DEF d
<1>11. ASSUME NEW i \in pos[E] .. pos[A] - 1 PROVE b[i] = Space
  <2>1. i - d \in E .. A - 1 /\ (i - d) + d = i
    BY <1>4, <1>9, <1>10
  <2>2. b[(i - d) + d] = a[i - d]
    BY <1>8, <2>1 DEF Carried
  <2> QED
    BY <1>3, <2>1, <2>2 DEF A, E
<1>12. RestOf(b, ObjectEnd, pos[E]) = RestOf(b, ObjectEnd, pos[A])
  BY <1>6, <1>9, <1>10, <1>11, RestSkips DEF Closers
<1> QED
  BY <1>2, <1>3, <1>12 DEF E, A

(* After every member, what is read of the written text is the rest of the *)
(* object with one model: by induction from the last member.               *)
LEMMA RestWritten ==
  ASSUME NEW a, NEW n, NEW at, NEW f, NEW parts, NEW b, NEW pos, Written(a, n, at, f, parts, b, pos),
         NEW x, \A k \in 1 .. n : ReadInRow(a, at, k, x[k]), NEW h, Lists(n, ModelsAt(a, n, at), f, x, h),
         NEW next, next = AfterAt(a, at, n) + 1
  PROVE  \A k \in 1 .. n : RestIs(b, pos[EndAt(a, at, k)], h[k + 1], pos[next])
<1> DEFINE K == ModelsAt(a, n, at)
           S == {k \in 1 .. n : RestIs(b, pos[EndAt(a, at, k)], h[k + 1], pos[next])}
<1>1. Len(a) \in Nat /\ Row(a, n, at) /\ n \in Nat /\ RowRewritten(a, n, at, f, parts) /\ Positions(Len(a), parts, b, pos)
  BY DEF Written, Row
<1>2. Len(b) \in Nat /\ \A i \in 1 .. Len(a) + 1 : pos[i] \in 1 .. Len(b) + 1
  BY <1>1 DEF Positions
<1>3. ASSUME NEW k \in 1 .. n, \A j \in k + 1 .. n : j \in S PROVE k \in S
  <2>1. CASE k = n
    <3>1. h[n + 1] = <<>>
      BY DEF Lists
    <3>2. RestIs(b, pos[EndAt(a, at, n)], <<>>, pos[next])
      BY LastWritten
    <3> QED
      BY <2>1, <3>1, <3>2
  <2>2. CASE k # n
    <3> DEFINE m == k + 1
               A == at[m]
    <3>1. k < n
      BY <1>1, <2>2
    <3>2. /\ RestOf(b, ObjectEnd, pos[EndAt(a, at, k)]) = RestOf(b, ObjectEnd, pos[A])
          /\ m \in 1 .. n /\ a[A] = Comma /\ A \in 1 .. Len(a)
      BY <3>1, GapWritten
    <3>3. m \in S
      BY <1>1, <1>3, <3>2
    <3>4. RestIs(b, pos[EndAt(a, at, m)], h[m + 1], pos[next])
      BY <3>3
    <3> HIDE DEF m, A
    <3>5. IF m \in K /\ m # f THEN h[m] = h[m + 1]
          ELSE Follows(h[m], IF m = f THEN ModelMember ELSE x[m], h[m + 1])
      BY <3>2 DEF Lists
    <3>6. RestIs(b, pos[A], h[m], pos[next])
      <4>1. CASE m \in K /\ m # f
        <5>1. Gone(parts, at[m], EndAt(a, at, m))
          BY <1>1, <3>2, <4>1 DEF RowRewritten
        <5>2. at[m] \in 1 .. Len(a) + 1 /\ EndAt(a, at, m) \in 1 .. Len(a) + 1 /\ at[m] <= EndAt(a, at, m)
          <6>1. /\ at[m] \in Nat /\ ValuePlace(a, at[m]) \in Nat /\ EndAt(a, at, m) \in Nat /\ AfterAt(a, at, m) \in Nat
                /\ 1 <= at[m] /\ at[m] < ValuePlace(a, at[m]) /\ ValuePlace(a, at[m]) < EndAt(a, at, m)
                /\ EndAt(a, at, m) <= AfterAt(a, at, m) /\ AfterAt(a, at, m) <= Len(a)
            BY <1>1, <3>2, RowNumbers
          <6> QED
            BY <1>1, <6>1
        <5>3. pos[EndAt(a, at, m)] = pos[at[m]]
          BY <1>1, <5>1, <5>2, GoneIsNothing
        <5> QED
          BY <3>4, <3>5, <4>1, <5>3 DEF A
      <4>2. CASE ~(m \in K /\ m # f)
        <5>1. m \notin ModelsAt(a, n, at) \/ m = f
          BY <4>2
        <5>2. Follows(h[m], IF m = f THEN ModelMember ELSE x[m], h[m + 1])
          BY <3>5, <4>2
        <5>3. ReadInRow(a, at, m, x[m])
          BY <3>2
        <5> DEFINE item == IF m = f THEN ModelMember ELSE x[m]
        <5>4. item = IF m = f THEN ModelMember ELSE x[m]
          OBVIOUS
        <5> HIDE DEF item
        <5>5. Follows(h[m], item, h[m + 1])
          BY <5>2, <5>4
        <5>6. MemberIs(b, pos[at[m]] + 1, h[m], pos[next]) /\ b[pos[at[m]]] = a[at[m]]
          <6> DEFINE list == h[m + 1]
                     more == h[m]
                     end == pos[next]
                     xm == x[m]
          <6>1. /\ RestIs(b, pos[EndAt(a, at, m)], list, end) /\ Follows(more, item, list)
                /\ ReadInRow(a, at, m, xm) /\ WrittenItem(m, f, xm, item)
            BY <3>4, <5>3, <5>4, <5>5 DEF WrittenItem
          <6> HIDE DEF list, more, end, xm
          <6>2. m \in 1 .. n /\ Written(a, n, at, f, parts, b, pos)
            BY <3>2
          <6>3. MemberIs(b, pos[at[m]] + 1, more, end) /\ SameAtom(a, b, at[m], pos[at[m]])
            BY <5>1, <6>1, <6>2, MemberWritten
          <6> QED
            BY <6>3 DEF more, end, SameAtom
        <5>7. PICK t \in ItemsOf(b, ObjectEnd, pos[A] + 1) : t.list = h[m] /\ t.next = pos[next]
          BY <5>6 DEF MemberIs, A
        <5>8. pos[A] \in 1 .. Len(b) + 1 /\ pos[A] \in Nat /\ pos[A] > 0 /\ pos[A] <= Len(b)
          <6>1. pos[A] \in 1 .. Len(b) + 1
            BY <1>1, <1>2, <3>2
          <6>2. pos[A] + 1 \in 1 .. Len(b) + 1
            BY <5>6 DEF MemberIs, A
          <6> QED
            BY <1>2, <6>1, <6>2
        <5>9. At(b, pos[A]) = Comma
          BY <1>2, <3>2, <5>6, <5>8, EndIsNone DEF A
        <5>10. SkipSpace(b, pos[A]) = pos[A]
          <6>1. \A i \in pos[A] .. pos[A] - 1 : At(b, i) = Space
            BY <5>8
          <6>2. At(b, pos[A]) # Space /\ pos[A] \in pos[A] .. Len(b) + 1
            BY <5>8, <5>9, MarksDiffer
          <6> QED
            BY <1>2, <5>8, <6>1, <6>2, SkipSpaceIs
        <5>11. RestOf(b, ObjectEnd, pos[A]) = ItemsOf(b, ObjectEnd, pos[A] + 1)
          BY <1>2, <5>8, <5>9, <5>10, RestReading DEF Closers
        <5> QED
          BY <5>7, <5>11 DEF RestIs
      <4> QED
        BY <4>1, <4>2
    <3>7. RestIs(b, pos[EndAt(a, at, k)], h[m], pos[next])
      BY <3>2, <3>6 DEF RestIs
    <3> QED
      BY <3>7 DEF m
  <2> QED
    BY <2>1, <2>2
<1>4. 1 .. n \subseteq S
  <2> HIDE DEF S
  <2> QED
    BY <1>1, <1>3, DownInduction
<1> QED
  BY <1>4

-----------------------------------------------------------------------------
(* The written object.                                                     *)

(* The spaces around the object that is written.                           *)
LEMMA SpacesWritten ==
  ASSUME NEW a, NEW n, NEW at, NEW f, NEW parts, NEW b, NEW pos, Written(a, n, at, f, parts, b, pos),
         at[1] = Root(a), NEW next, next = AfterAt(a, at, n) + 1, SkipSpace(a, next) > Len(a)
  PROVE  /\ pos[at[1]] = at[1] /\ \A i \in 1 .. at[1] - 1 : b[i] = Space
         /\ pos[next] \in 1 .. Len(b) + 1 /\ \A i \in pos[next] .. Len(b) : b[i] = Space
<1> DEFINE E == EndAt(a, at, n)
           N == Len(a)
           p == at[1]
           d == pos[E] - E
<1>1. N \in Nat /\ Row(a, n, at) /\ RowRewritten(a, n, at, f, parts) /\ Positions(N, parts, b, pos)
      /\ n \in 1 .. n /\ 1 \in 1 .. n
  BY DEF Written, Row
<1>2. p \in 1 .. N
  BY <1>1 DEF Row
<1>3. E \in Nat /\ E >= 1 /\ E <= next /\ next <= N + 1 /\ next \in Nat /\ next \in 1 .. N + 1
  <2>1. /\ at[n] \in Nat /\ ValuePlace(a, at[n]) \in Nat /\ E \in Nat /\ AfterAt(a, at, n) \in Nat
        /\ 1 <= at[n] /\ at[n] < ValuePlace(a, at[n]) /\ ValuePlace(a, at[n]) < E
        /\ E <= AfterAt(a, at, n) /\ AfterAt(a, at, n) <= N
    BY <1>1, RowNumbers
  <2> QED
    BY <1>1, <2>1
<1>4. Len(b) \in Nat /\ pos[1] = 1 /\ pos[N + 1] = Len(b) + 1 /\ \A i \in 1 .. N + 1 : pos[i] \in 1 .. Len(b) + 1
  BY <1>1 DEF Positions
<1>5. Kept(a, parts, 1, p) /\ Kept(a, parts, E, N + 1)
  BY <1>1 DEF RowRewritten
<1>6. \A i \in 1 .. p - 1 : a[i] = Space
  <2>1. 1 \in 1 .. N + 1
    BY <1>1
  <2> QED
    BY <1>1, <2>1, SkipSpaceEnds DEF Root
<1>7. \A i \in next .. N : a[i] = Space
  <2>1. /\ SkipSpace(a, next) \in next .. N + 1 /\ \A i \in next .. SkipSpace(a, next) - 1 : a[i] = Space
    BY <1>1, <1>3, SkipSpaceEnds
  <2>2. SkipSpace(a, next) = N + 1
    BY <1>1, <1>3, <2>1
  <2>3. (N + 1) - 1 = N
    BY <1>1
  <2> QED
    BY <2>1, <2>2, <2>3
<1>8. next \in 1 .. N + 1 /\ E \in 1 .. N + 1 /\ N + 1 \in 1 .. N + 1 /\ E <= N + 1 /\ 1 \in 1 .. N + 1 /\ p \in 1 .. N + 1
      /\ 1 <= p
  BY <1>1, <1>2, <1>3
<1> HIDE DEF E, p
<1>9. Carried(a, b, 1, p, pos[1] - 1) /\ pos[p] = pos[1] + (p - 1)
  BY <1>1, <1>5, <1>8, KeptIsCarried
<1>10. Carried(a, b, E, N + 1, d) /\ pos[N + 1] = pos[E] + (N + 1 - E)
  BY <1>1, <1>5, <1>8, KeptIsCarried
<1>11. pos[next] = pos[E] + (next - E)
  <2>1. \A i \in E .. next - 1 : i \in E .. (N + 1) - 1
    BY <1>1, <1>3
  <2>2. Kept(a, parts, E, next)
    BY <1>5, <2>1 DEF Kept
  <2> QED
    BY <1>1, <1>3, <1>8, <2>2, KeptIsCarried
<1>12. pos[p] = p /\ pos[1] - 1 = 0
  BY <1>2, <1>4, <1>9
<1>13. \A i \in 1 .. p - 1 : b[i] = Space
  <2> TAKE i \in 1 .. p - 1
  <2>1. b[i + 0] = a[i] /\ i + 0 = i
    BY <1>9, <1>12 DEF Carried
  <2> QED
    BY <1>6, <2>1
<1>14. pos[E] \in 1 .. Len(b) + 1 /\ pos[next] \in 1 .. Len(b) + 1
  BY <1>4, <1>8
<1>15. d \in Int /\ pos[next] = next + d /\ Len(b) = N + d
  <2>1. pos[N + 1] = Len(b) + 1 /\ pos[N + 1] = pos[E] + (N + 1 - E)
    BY <1>4, <1>10
  <2>2. pos[E] \in Int /\ E \in Int /\ next \in Int /\ N \in Int /\ Len(b) \in Int
    BY <1>1, <1>3, <1>4, <1>14
  <2> QED
    BY <1>11, <2>1, <2>2
<1> HIDE DEF d, N
<1>16. ASSUME NEW i \in pos[next] .. Len(b) PROVE b[i] = Space
  <2>1. i - d \in next .. N /\ i - d \in E .. (N + 1) - 1 /\ (i - d) + d = i
    BY <1>1, <1>3, <1>4, <1>14, <1>15
  <2>2. b[(i - d) + d] = a[i - d]
    BY <1>10, <2>1 DEF Carried
  <2> QED
    BY <1>7, <2>1, <2>2
<1> QED
  BY <1>12, <1>13, <1>14, <1>16 DEF p

(* The value of a text that is an object between spaces.                   *)
LEMMA ObjectDecoded ==
  ASSUME NEW b, Len(b) \in Nat, NEW p \in 1 .. Len(b), b[p] = ObjectStart, \A i \in 1 .. p - 1 : b[i] = Space,
         NEW list, NEW next, MemberIs(b, p + 1, list, next),
         next \in 1 .. Len(b) + 1, \A i \in next .. Len(b) : b[i] = Space
  PROVE  Decoded(b) = {ObjectTree(list)}
<1>1. p \in Nat /\ p > 0 /\ p <= Len(b) /\ p \in 1 .. Len(b) + 1 /\ 1 \in 1 .. Len(b) + 1 /\ p \in Int
  OBVIOUS
<1>2. At(b, p) = ObjectStart
  BY <1>1, EndIsNone
<1>3. SkipSpace(b, 1) = p
  <2>1. \A i \in 1 .. p - 1 : At(b, i) = Space
    BY <1>1 DEF At
  <2>2. At(b, p) # Space
    BY <1>2, MarksDiffer
  <2> QED
    BY <1>1, <2>1, <2>2, SkipSpaceIs
<1>4. ValueOf(b, 1) = ObjectsOf(InsideOf(b, ObjectEnd, p + 1))
  BY <1>1, <1>2, <1>3, ValueReading
<1>5. At(b, SkipSpace(b, p + 1)) # ObjectEnd
  BY MarksDiffer DEF MemberIs
<1>6. InsideOf(b, ObjectEnd, p + 1) = ItemsOf(b, ObjectEnd, p + 1)
  BY <1>5 DEF InsideOf
<1>7. PICK t \in ItemsOf(b, ObjectEnd, p + 1) : t.list = list /\ t.next = next
  BY DEF MemberIs
<1> DEFINE v == [tree |-> <<"object", t.list>>, next |-> t.next]
<1>8. v \in ObjectsOf(InsideOf(b, ObjectEnd, p + 1))
  BY <1>6, <1>7 DEF ObjectsOf
<1>9. v \in ValueOf(b, 1) /\ v.tree = ObjectTree(list) /\ v.next = next
  BY <1>4, <1>7, <1>8 DEF ObjectTree
<1> HIDE DEF v
<1>10. SkipSpace(b, next) > Len(b)
  <2>1. Len(b) + 1 \in next .. Len(b) + 1 /\ Len(b) + 1 \in Nat /\ Len(b) + 1 > 0 /\ Len(b) + 1 > Len(b)
    OBVIOUS
  <2>2. At(b, Len(b) + 1) # Space
    BY <2>1, EndIsNone
  <2>3. \A i \in next .. (Len(b) + 1) - 1 : At(b, i) = Space
    BY DEF At
  <2>4. SkipSpace(b, next) = Len(b) + 1
    BY <2>1, <2>2, <2>3, SkipSpaceIs
  <2> QED
    BY <2>1, <2>4
<1>11. \A u \in ValueOf(b, 1) : u = v
  <2>1. AValue \in Whats
    BY DEF Whats
  <2>2. AtMostOne(ValueOf(b, 1))
    BY <1>1, <2>1, OneReading DEF ValueOf
  <2> QED
    BY <1>9, <2>2 DEF AtMostOne
<1> QED
  BY <1>9, <1>10, <1>11 DEF Decoded, ValueOf

(* The object that is read in a, and the list that is left of it.          *)
RootRead(a, n, at, f, x) ==
  /\ at[1] = Root(a) /\ a[at[1]] = ObjectStart /\ SkipSpace(a, AfterAt(a, at, n) + 1) > Len(a)
  /\ \A k \in ModelsAt(a, n, at) : f <= k
  /\ \A k \in 1 .. n : ReadInRow(a, at, k, x[k])
ListOf(n, K, f, x, all) == \E h : Lists(n, K, f, x, h) /\ all = h[1]

(* The written text is an object between spaces, and its list is the one   *)
(* with one model.                                                         *)
LEMMA RootWritten ==
  ASSUME NEW a, NEW n, NEW at, NEW f, NEW parts, NEW b, NEW pos, Written(a, n, at, f, parts, b, pos),
         NEW x, RootRead(a, n, at, f, x), NEW all, ListOf(n, ModelsAt(a, n, at), f, x, all)
  PROVE  Decoded(b) = {ObjectTree(all)}
<1>0. /\ at[1] = Root(a) /\ a[at[1]] = ObjectStart /\ SkipSpace(a, AfterAt(a, at, n) + 1) > Len(a)
      /\ \A k \in ModelsAt(a, n, at) : f <= k
      /\ \A k \in 1 .. n : ReadInRow(a, at, k, x[k])
  BY DEF RootRead
<1> PICK h : Lists(n, ModelsAt(a, n, at), f, x, h) /\ all = h[1]
  BY DEF ListOf
<1> DEFINE next == AfterAt(a, at, n) + 1
           end == pos[next]
           more == h[1]
           list == h[2]
           x1 == x[1]
           p == at[1]
           item == IF 1 = f THEN ModelMember ELSE x1
<1>1. Len(a) \in Nat /\ Row(a, n, at) /\ Positions(Len(a), parts, b, pos) /\ 1 \in 1 .. n /\ f \in 1 .. n
  BY DEF Written, Row
<1>2. 1 \notin ModelsAt(a, n, at) \/ 1 = f
  BY <1>0, <1>1
<1>3. RestIs(b, pos[EndAt(a, at, 1)], list, end)
  <2>1. 1 + 1 = 2
    OBVIOUS
  <2>2. RestIs(b, pos[EndAt(a, at, 1)], h[1 + 1], pos[next])
    BY <1>0, <1>1, RestWritten
  <2> QED
    BY <2>1, <2>2
<1>4. Follows(more, item, list)
  <2>1. 1 + 1 = 2
    OBVIOUS
  <2>2. IF 1 \in ModelsAt(a, n, at) /\ 1 # f THEN h[1] = h[1 + 1]
        ELSE Follows(h[1], IF 1 = f THEN ModelMember ELSE x[1], h[1 + 1])
    BY <1>1 DEF Lists
  <2> QED
    BY <1>2, <2>1, <2>2
<1>5. ReadInRow(a, at, 1, x1) /\ WrittenItem(1, f, x1, item)
  BY <1>0, <1>1 DEF WrittenItem
<1>6. /\ pos[p] = p /\ \A i \in 1 .. p - 1 : b[i] = Space
      /\ end \in 1 .. Len(b) + 1 /\ \A i \in end .. Len(b) : b[i] = Space
  <2> HIDE DEF next
  <2>1. next = AfterAt(a, at, n) + 1 /\ SkipSpace(a, next) > Len(a)
    BY <1>0 DEF next
  <2> QED
    BY <1>0, <2>1, SpacesWritten
<1> HIDE DEF end, more, list, x1, item, next
<1>7. MemberIs(b, pos[at[1]] + 1, more, end) /\ SameAtom(a, b, at[1], pos[at[1]])
  BY <1>1, <1>2, <1>3, <1>4, <1>5, MemberWritten
<1>8. MemberIs(b, p + 1, more, end) /\ b[p] = ObjectStart
  BY <1>0, <1>6, <1>7 DEF SameAtom
<1>9. Len(b) \in Nat /\ p \in 1 .. Len(b)
  <2>1. Len(b) \in Nat /\ p \in 1 .. Len(a)
    BY <1>1 DEF Positions, Row
  <2>2. p + 1 \in 1 .. Len(b) + 1
    BY <1>8 DEF MemberIs
  <2> QED
    BY <2>1, <2>2
<1> HIDE DEF p
<1>10. Decoded(b) = {ObjectTree(more)}
  BY <1>6, <1>8, <1>9, ObjectDecoded
<1> QED
  BY <1>10 DEF more

(* A text that is read as an object with members in a row.                 *)
ReadAsRow(doc, n, at, x) ==
  /\ Chain(doc, ObjectEnd, Root(doc), n, at) /\ x = [k \in 1 .. n |-> x[k]]
  /\ \A k \in 1 .. n : ReadInRow(doc, at, k, x[k])
  /\ Decoded(doc) = {ObjectTree(x)} /\ SkipSpace(doc, AfterAt(doc, at, n) + 1) > Len(doc)

(* A request that can be rewritten is read as a row of members, once it    *)
(* has any.                                                                *)
LEMMA RequestInARow ==
  ASSUME NEW doc, IsText(doc), Valid(doc), doc[Root(doc)] = ObjectStart,
         At(doc, SkipSpace(doc, Root(doc) + 1)) # ObjectEnd
  PROVE  \E n : \E at : \E x : ReadAsRow(doc, n, at, x)
<1> DEFINE p == Root(doc)
<1>1. Len(doc) \in Nat
  BY TextIs
<1>2. p \in 1 .. Len(doc)
  BY <1>1, RootIsValue
<1>3. PICK v \in ValueOf(doc, p) : SkipSpace(doc, v.next) > Len(doc) /\ Decoded(doc) = {v.tree}
  BY <1>1, OneDecoded
<1>4. doc[p] = ObjectStart /\ At(doc, SkipSpace(doc, p + 1)) # ObjectEnd
  OBVIOUS
<1> HIDE DEF p
<1>5. PICK s : v.tree = ObjectTree(s.list) /\ v.next = s.next /\ s \in ItemsOf(doc, ObjectEnd, p + 1)
  BY <1>1, <1>2, <1>3, <1>4, ObjectLists
<1>6. Chained(doc, doc, ObjectEnd, p, s, s)
  <2>1. SameShape(doc, doc) /\ ObjectEnd \in Closers
    BY <1>1, SameShapeOfItself DEF Closers
  <2> QED
    BY <1>2, <1>5, <2>1, ItemsInARow
<1>7. PICK n : \E at : /\ Chain(doc, ObjectEnd, p, n, at) /\ Listed(doc, ObjectEnd, n, at, s.list)
                       /\ s.next = AfterItem(doc, ObjectEnd, at[n] + 1) + 1
  BY <1>6 DEF Chained
<1>8. PICK at : /\ Chain(doc, ObjectEnd, p, n, at) /\ Listed(doc, ObjectEnd, n, at, s.list)
                /\ s.next = AfterItem(doc, ObjectEnd, at[n] + 1) + 1
  BY <1>7
<1> DEFINE x == s.list
<1>9. x = [k \in 1 .. n |-> x[k]] /\ \A k \in 1 .. n : ItemListed(doc, ObjectEnd, at[k] + 1, x[k])
  BY <1>8 DEF Listed
<1> HIDE DEF x
<1>10. ASSUME NEW k \in 1 .. n PROVE ReadInRow(doc, at, k, x[k])
  <2> DEFINE q == at[k]
             y == x[k]
  <2>1. ItemListed(doc, ObjectEnd, q + 1, y)
    BY <1>9
  <2> HIDE DEF q, y
  <2>2. \E u \in ValueOf(doc, ValuePlace(doc, q)) :
           u.next = DecodedEnd(doc)[ValuePlace(doc, q)] /\ y = <<Text(doc[KeyAt(doc, q + 1)]), u.tree>>
    BY <2>1, MemberListed
  <2> QED
    BY <2>2 DEF ReadInRow, EndAt, q, y
<1>11. s.next = AfterAt(doc, at, n) + 1
  <2>1. ItemPlace(doc, ObjectEnd, at[n] + 1) = ValuePlace(doc, at[n])
    BY DEF ItemPlace, From, ValuePlace
  <2>2. AfterItem(doc, ObjectEnd, at[n] + 1) = AfterAt(doc, at, n)
    BY <2>1 DEF ItemEnd, AfterItem, EndAt, AfterAt
  <2> QED
    BY <1>8, <2>2
<1>12. Decoded(doc) = {ObjectTree(x)} /\ SkipSpace(doc, AfterAt(doc, at, n) + 1) > Len(doc)
  BY <1>3, <1>5, <1>11 DEF x
<1>13. ReadAsRow(doc, n, at, x)
  BY <1>8, <1>9, <1>10, <1>12 DEF ReadAsRow, p
<1> QED
  BY <1>13

(* The members called model, in the text and in what it stands for.        *)
LEMMA ModelsOfTree ==
  ASSUME NEW doc, NEW n, NEW at, NEW x, x = [k \in 1 .. n |-> x[k]],
         \A k \in 1 .. n : ReadInRow(doc, at, k, x[k])
  PROVE  Models(ObjectTree(x)) = ModelsAt(doc, n, at)
<1>1. DOMAIN x = 1 .. n
  <2>1. DOMAIN [k \in 1 .. n |-> x[k]] = 1 .. n
    OBVIOUS
  <2> QED
    BY <2>1
<1>2. Content(ObjectTree(x)) = x
  BY DEF Content, ObjectTree
<1>3. ASSUME NEW k \in 1 .. n PROVE x[k][1] = Text(doc[KeyAt(doc, at[k] + 1)])
  <2> DEFINE y == x[k]
             key == Text(doc[KeyAt(doc, at[k] + 1)])
  <2>1. PICK v \in ValueOf(doc, ValuePlace(doc, at[k])) : y = <<key, v.tree>>
    BY DEF ReadInRow
  <2> HIDE DEF y, key
  <2>2. y[1] = key
    BY <2>1
  <2> QED
    BY <2>2 DEF y, key
<1> QED
  BY <1>1, <1>2, <1>3 DEF Models, ModelsAt

(* The object with one model, by the numbers of its members.               *)
LEMMA WithModelIs ==
  ASSUME NEW n \in Nat, NEW x, x = [k \in 1 .. n |-> x[k]], NEW K, K = Models(ObjectTree(x)),
         NEW f \in K, \A k \in K : f <= k
  PROVE  WithModel(ObjectTree(x)) = ObjectTree(FlattenSeq([k \in 1 .. n |-> RowItem(K, f, x, k)]))
<1> DEFINE tree == ObjectTree(x)
           item(k) == IF k \notin K THEN <<x[k]>>
                      ELSE IF \A j \in K : k <= j THEN <<<<"model", String(Model)>>>> ELSE <<>>
<1>1. DOMAIN x = 1 .. n
  <2>1. DOMAIN [k \in 1 .. n |-> x[k]] = 1 .. n
    OBVIOUS
  <2> QED
    BY <2>1
<1>2. Content(tree) = x
  BY DEF Content, ObjectTree
<1>3. K \subseteq 1 .. n
  BY <1>1, <1>2 DEF Models
<1>4. ASSUME NEW k \in 1 .. n PROVE item(k) = RowItem(K, f, x, k)
  <2>1. k \in K => ((\A j \in K : k <= j) <=> k = f)
    BY <1>3
  <2> QED
    BY <2>1 DEF RowItem, ModelMember, ModelName
<1>5. [k \in 1 .. n |-> item(k)] = [k \in 1 .. n |-> RowItem(K, f, x, k)]
  <2> HIDE DEF item
  <2> QED
    BY <1>4
<1>6. WithModel(tree) = <<"object", FlattenSeq([k \in 1 .. n |-> item(k)])>>
  BY <1>1, <1>2 DEF WithModel
<1> HIDE DEF item
<1> QED
  BY <1>5, <1>6 DEF ObjectTree

-----------------------------------------------------------------------------
(* The whole request.                                                      *)

(* An object without members names no model.                               *)
LEMMA ModelsNeedMembers ==
  ASSUME NEW doc, IsText(doc), Valid(doc), doc[Root(doc)] = ObjectStart,
         At(doc, SkipSpace(doc, Root(doc) + 1)) = ObjectEnd
  PROVE  RequestModels(doc) = {}
<1>1. Len(doc) \in Nat
  BY TextIs
<1>2. Root(doc) \in 1 .. Len(doc)
  BY <1>1, RootIsValue
<1>3. Walk(doc, Root(doc), DecodedEnd(doc)) = {}
  BY <1>1, <1>2, DecodedEnds, EmptyWalk
<1> QED
  BY <1>3 DEF RequestModels, ModelsOf

(* An object with a member called model is a row of members.               *)
LEMMA RewritableInARow ==
  ASSUME NEW doc, IsText(doc), Rewritable(doc)
  PROVE  \E n : \E at : \E x : ReadAsRow(doc, n, at, x)
BY ModelsNeedMembers, RequestInARow DEF Rewritable

(* The text that is written holds the object with one model.               *)
LEMMA CanonicalDecodes ==
  ASSUME NEW doc, IsText(doc), Rewritable(doc), NEW M, M = RequestModels(doc)
  PROVE  Decoded(applyJSONByteEdits(doc, CanonicalEdits(M))) = {WithModel(tree) : tree \in Decoded(doc)}
<1> DEFINE N == Len(doc)
           p == Root(doc)
           T == {doc[i] : i \in 1 .. N} \union {String(Model)}
           parts == [i \in 1 .. N |-> PieceOf(doc, CanonicalEdits(M), i)]
           b == FlattenSeq(parts)
<1>1. N \in Nat
  BY TextIs
<1>2. AreModels(doc, p, M) /\ p \in 1 .. N /\ M # {}
  BY RequestCases DEF Rewritable
<1>3. parts \in [1 .. N -> Seq(T)] /\ (\A i \in 1 .. N : Len(parts[i]) <= 1)
      /\ applyJSONByteEdits(doc, CanonicalEdits(M)) = b
  BY <1>2, CanonicalText
<1>4. \A i \in 1 .. N : parts[i] = PieceOf(doc, CanonicalEdits(M), i)
  OBVIOUS
<1> HIDE DEF parts, T
<1>5. PICK pos : Positions(N, parts, b, pos)
  BY <1>1, <1>3, PiecesStand
<1> HIDE DEF b
<1>6. PICK n : \E at : \E x : ReadAsRow(doc, n, at, x)
  BY RewritableInARow
<1>7. PICK at : \E x : ReadAsRow(doc, n, at, x)
  BY <1>6
<1>8. PICK x : ReadAsRow(doc, n, at, x)
  BY <1>7
<1> DEFINE K == ModelsAt(doc, n, at)
<1>9. /\ Chain(doc, ObjectEnd, p, n, at) /\ x = [k \in 1 .. n |-> x[k]] /\ \A k \in 1 .. n : ReadInRow(doc, at, k, x[k])
      /\ Decoded(doc) = {ObjectTree(x)} /\ SkipSpace(doc, AfterAt(doc, at, n) + 1) > N
  BY <1>8 DEF ReadAsRow
<1>10. M = ModelsOf(doc, Walk(doc, p, DecodedEnd(doc)))
  BY DEF RequestModels
<1>11. PICK f \in K : FirstOf(M) = RowAt(doc, at, f) /\ \A k \in K : f <= k
  BY <1>1, <1>2, <1>9, <1>10, FirstInRow
<1>12. Row(doc, n, at) /\ at[1] = p /\ n \in Nat /\ K \subseteq 1 .. n
  BY <1>1, <1>9, RowOfChain DEF Chain, ModelsAt
<1>13. RowRewritten(doc, n, at, f, parts)
  BY <1>1, <1>2, <1>4, <1>9, <1>10, <1>11, RowIsRewritten
<1>14. Written(doc, n, at, f, parts, b, pos)
  BY <1>1, <1>5, <1>11, <1>12, <1>13 DEF Written
<1>15. PICK h : h[1] = FlattenSeq([k \in 1 .. n |-> RowItem(K, f, x, k)]) /\ Lists(n, K, f, x, h)
  <2> HIDE DEF K
  <2> QED
    BY <1>11, <1>12, ListsLeft
<1>16. doc[at[1]] = ObjectStart
  BY <1>12 DEF Rewritable
<1>17. Decoded(b) = {ObjectTree(h[1])}
  <2>1. RootRead(doc, n, at, f, x)
    BY <1>9, <1>11, <1>12, <1>16 DEF RootRead
  <2> DEFINE all == h[1]
  <2>2. ListOf(n, ModelsAt(doc, n, at), f, x, all)
    BY <1>15 DEF ListOf
  <2> HIDE DEF all
  <2>3. Decoded(b) = {ObjectTree(all)}
    BY <1>14, <2>1, <2>2, RootWritten
  <2> QED
    BY <2>3 DEF all
<1>18. WithModel(ObjectTree(x)) = ObjectTree(h[1])
  <2>1. K = Models(ObjectTree(x))
    BY <1>9, ModelsOfTree
  <2> HIDE DEF K
  <2> QED
    BY <1>9, <1>11, <1>12, <1>15, <2>1, WithModelIs
<1> QED
  BY <1>3, <1>9, <1>17, <1>18

(* When the object names a model, in the text and in what it stands for.   *)
LEMMA NamesModelIs ==
  ASSUME NEW doc, IsText(doc), NEW n, NEW at, NEW x, ReadAsRow(doc, n, at, x),
         NEW M, M = RequestModels(doc)
  PROVE  /\ M = {} => ~NamesModel(ObjectTree(x))
         /\ M # {} => (NamesModel(ObjectTree(x)) <=> IsString(doc[LastOf(M).value]))
<1> DEFINE K == ModelsAt(doc, n, at)
           tree == ObjectTree(x)
<1>1. Len(doc) \in Nat
  BY TextIs
<1>2. /\ Chain(doc, ObjectEnd, Root(doc), n, at) /\ x = [k \in 1 .. n |-> x[k]] /\ \A k \in 1 .. n : ReadInRow(doc, at, k, x[k])
      /\ M = ModelsOf(doc, Walk(doc, Root(doc), DecodedEnd(doc)))
  BY DEF ReadAsRow, RequestModels
<1>3. Models(tree) = K /\ Content(tree) = x /\ Kind(tree) = "object"
  BY <1>2, ModelsOfTree DEF Content, Kind, ObjectTree
<1>4. M = {RowAt(doc, at, k) : k \in K}
  BY <1>1, <1>2, ModelsInRow
<1>5. CASE M = {}
  <2>1. K = {}
    BY <1>4, <1>5
  <2> QED
    BY <1>3, <1>5, <2>1 DEF NamesModel
<1>6. CASE M # {}
  <2>1. PICK l \in K : LastOf(M) = RowAt(doc, at, l) /\ \A k \in K : k <= l
    BY <1>1, <1>2, <1>6, FirstInRow
  <2>2. K \subseteq 1 .. n /\ n \in Nat /\ Row(doc, n, at)
    BY <1>1, <1>2, RowOfChain DEF ModelsAt, Chain
  <2>3. (CHOOSE k \in K : \A m \in K : m <= k) = l
    <3>1. \A k \in K : (\A m \in K : m <= k) => k = l
      BY <2>1, <2>2
    <3> QED
      BY <2>1, <3>1
  <2>4. NamesModel(tree) <=> Kind(x[l][2]) = "string"
    <3> HIDE DEF tree, K
    <3> QED
      BY <1>3, <2>1, <2>3 DEF NamesModel
  <2> DEFINE q == at[l]
             place == ValuePlace(doc, q)
             y == x[l]
             key == Text(doc[KeyAt(doc, at[l] + 1)])
  <2>5. PICK v \in ValueOf(doc, place) : y = <<key, v.tree>>
    BY <1>2, <2>1, <2>2 DEF ReadInRow
  <2>6. q \in 1 .. Len(doc) /\ IsMember(doc, q)
    BY <2>1, <2>2 DEF Row, RowMember
  <2>7. place \in 1 .. Len(doc) /\ doc[place] # Space
    <3>1. place \in q + 1 .. Len(doc)
      BY <2>1, <2>2 DEF Row, RowMember
    <3> HIDE DEF q
    <3>2. doc[place] # Space
      BY <1>1, <2>6, MemberPlaces
    <3> HIDE DEF place
    <3> QED
      BY <2>6, <3>1, <3>2
  <2>8. LastOf(M).value = place
    BY <2>1, RowAtIs
  <2> HIDE DEF place, y, key
  <2>9. Kind(v.tree) = "string" <=> IsString(doc[place])
    BY <1>1, <2>5, <2>7, KindOfValue
  <2>10. y[2] = v.tree
    BY <2>5
  <2> QED
    BY <1>6, <2>4, <2>8, <2>9, <2>10 DEF y
<1> QED
  BY <1>5, <1>6

(* An object whose one model is the mapped one already.                    *)
LEMMA NamesItAlready ==
  ASSUME NEW doc, IsText(doc), NEW n, NEW at, NEW x, ReadAsRow(doc, n, at, x),
         NEW M, M = RequestModels(doc), M # {}, M = {FirstOf(M)},
         IsString(doc[FirstOf(M).value]), Text(doc[FirstOf(M).value]) = Model
  PROVE  WithModel(ObjectTree(x)) = ObjectTree(x)
<1> DEFINE K == ModelsAt(doc, n, at)
<1>1. Len(doc) \in Nat
  BY TextIs
<1>2. /\ Chain(doc, ObjectEnd, Root(doc), n, at) /\ x = [k \in 1 .. n |-> x[k]] /\ \A k \in 1 .. n : ReadInRow(doc, at, k, x[k])
      /\ M = ModelsOf(doc, Walk(doc, Root(doc), DecodedEnd(doc)))
  BY DEF ReadAsRow, RequestModels
<1>3. Models(ObjectTree(x)) = K
  BY <1>2, ModelsOfTree
<1>4. PICK f \in K : FirstOf(M) = RowAt(doc, at, f) /\ \A k \in K : f <= k
  BY <1>1, <1>2, FirstInRow
<1>5. K \subseteq 1 .. n /\ n \in Nat /\ Row(doc, n, at)
  BY <1>1, <1>2, RowOfChain DEF ModelsAt, Chain
<1>6. \A k \in K : k = f
  <2>1. /\ \A k \in 1 .. n : RowAt(doc, at, k) \in M <=> k \in K
        /\ \A j, k \in 1 .. n : RowAt(doc, at, j) = RowAt(doc, at, k) => j = k
    BY <1>1, <1>2, ModelsInRow
  <2> TAKE k \in K
  <2>2. RowAt(doc, at, k) = RowAt(doc, at, f)
    BY <1>4, <1>5, <2>1
  <2> QED
    BY <1>5, <2>1, <2>2
<1>7. x[f] = ModelMember
  <2> DEFINE q == at[f]
             place == ValuePlace(doc, q)
             y == x[f]
             key == Text(doc[KeyAt(doc, at[f] + 1)])
  <2>1. PICK v \in ValueOf(doc, place) : y = <<key, v.tree>>
    BY <1>2, <1>5 DEF ReadInRow
  <2>2. q \in 1 .. Len(doc) /\ IsMember(doc, q) /\ place \in q + 1 .. Len(doc)
    BY <1>5 DEF Row, RowMember
  <2>3. place \in 1 .. Len(doc)
    <3> HIDE DEF q, place
    <3> QED
      BY <2>2
  <2>4. doc[place] # Space
    <3> HIDE DEF q
    <3> QED
      BY <1>1, <2>2, MemberPlaces
  <2>5. FirstOf(M).value = place
    BY <1>4, RowAtIs
  <2>6. key = ModelName
    BY <1>4 DEF ModelsAt, ModelName
  <2> HIDE DEF place, y, key
  <2>7. v.tree = String(Text(doc[place]))
    BY <1>1, <2>1, <2>3, <2>4, <2>5, KindOfValue
  <2>8. Text(doc[place]) = Model
    BY <2>5
  <2>9. y = ModelMember
    BY <2>1, <2>6, <2>7, <2>8 DEF ModelMember
  <2> QED
    BY <2>9 DEF y
<1> HIDE DEF K
<1> DEFINE items == [k \in 1 .. n |-> RowItem(K, f, x, k)]
           T == {x[k] : k \in 1 .. n}
<1>8. ASSUME NEW k \in 1 .. n PROVE RowItem(K, f, x, k) = <<x[k]>>
  <2>1. CASE k \notin K
    BY <2>1 DEF RowItem
  <2>2. CASE k \in K
    <3>1. k = f
      BY <1>6, <2>2
    <3> QED
      BY <1>7, <2>2, <3>1 DEF RowItem
  <2> QED
    BY <2>1, <2>2
<1>9. \A k \in 1 .. n : items[k] = <<x[k]>>
  BY <1>8
<1>10. \A k \in 1 .. n : x[k] \in T
  OBVIOUS
<1>11. items = [k \in 1 .. n |-> items[k]]
  OBVIOUS
<1> HIDE DEF items, T
<1>12. x \in [1 .. n -> T] /\ items \in [1 .. n -> Seq(T)]
  <2>1. \A y \in T : <<y>> \in Seq(T)
    OBVIOUS
  <2>2. \A k \in 1 .. n : items[k] \in Seq(T)
    BY <1>9, <1>10, <2>1
  <2> QED
    BY <1>2, <1>10, <1>11, <2>2
<1>13. FlattenSeq(items) = x
  BY <1>5, <1>9, <1>12, FlattenAtoms
<1>14. WithModel(ObjectTree(x)) = ObjectTree(FlattenSeq(items))
  <2>1. n \in Nat /\ x = [k \in 1 .. n |-> x[k]] /\ K = Models(ObjectTree(x)) /\ f \in K /\ \A k \in K : f <= k
    BY <1>2, <1>3, <1>4, <1>5
  <2>2. WithModel(ObjectTree(x)) = ObjectTree(FlattenSeq([k \in 1 .. n |-> RowItem(K, f, x, k)]))
    BY <2>1, WithModelIs
  <2> QED
    BY <2>2 DEF items
<1> QED
  BY <1>13, <1>14

(* One model that is replaced is the only edit.                            *)
LEMMA OneReplaced ==
  ASSUME NEW doc, IsText(doc), NEW p \in 1 .. Len(doc), NEW M, AreModels(doc, p, M), M = {FirstOf(M)},
         NEW q, q = FirstOf(M).value, IsString(doc[q]), Text(doc[q]) # Model
  PROVE  [doc EXCEPT ![q] = String(Model)] = applyJSONByteEdits(doc, CanonicalEdits(M))
<1> DEFINE m == FirstOf(M)
           edit == Edit(q, q + 1, <<String(Model)>>)
<1>1. Len(doc) \in Nat /\ DOMAIN doc = 1 .. Len(doc)
  BY TextIs
<1>2. GoodMember(doc, p, m)
  BY DEF AreModels
<1>3. /\ m.value = q /\ m.end = DecodedEnd(doc)[q] /\ q \in 1 .. Len(doc)
      /\ doc[SkipSpace(doc, m.end)] \in {ObjectEnd, Comma} /\ SkipSpace(doc, m.end) \in 1 .. Len(doc)
  <2>1. /\ m.before \in p .. Len(doc) /\ m.key \in m.before + 1 .. Len(doc)
        /\ m.value \in m.key + 2 .. Len(doc) /\ m.end = DecodedEnd(doc)[m.value] /\ m.end \in m.value + 1 .. Len(doc)
        /\ SkipSpace(doc, m.end) \in m.end .. Len(doc)
        /\ doc[SkipSpace(doc, m.end)] \in {ObjectEnd, Comma}
    BY <1>1, <1>2, MemberParts
  <2>2. m.value \in 1 .. Len(doc) /\ SkipSpace(doc, m.end) \in 1 .. Len(doc)
    <3> HIDE DEF m
    <3> QED
      BY <1>1, <2>1
  <2> QED
    BY <2>1, <2>2
<1>4. m.end = q + 1
  BY <1>1, <1>3, StringEnds
<1>5. CanonicalEdits(M) = {edit}
  <2>1. M \ {FirstOf(M)} = {}
    OBVIOUS
  <2> QED
    BY <1>3, <1>4, <2>1 DEF CanonicalEdits
<1>6. At(doc, SkipSpace(doc, q + 1)) # Colon
  <2> DEFINE s == SkipSpace(doc, q + 1)
  <2>1. s \in 1 .. Len(doc) /\ doc[s] \in {ObjectEnd, Comma}
    BY <1>3, <1>4
  <2> HIDE DEF s
  <2>2. s \in Nat /\ s > 0 /\ s <= Len(doc)
    BY <2>1
  <2>3. At(doc, s) = doc[s]
    BY <1>1, <2>2, EndIsNone
  <2> QED
    BY <2>1, <2>3, MarksDiffer DEF s
<1>7. IsEdit(doc, edit)
  BY <1>3, <1>6 DEF IsEdit
<1>8. PlacesOf({edit}) = {q}
  BY DEF PlacesOf, Edit
<1> HIDE DEF edit, m
<1>9. applyJSONByteEdits(doc, {edit}) = Named(doc, {q})
  <2>1. \A e \in {edit} : IsEdit(doc, e)
    BY <1>7
  <2>2. applyJSONByteEdits(doc, {edit}) = Named(doc, PlacesOf({edit}))
    BY <2>1, ApplyEdits
  <2> QED
    BY <1>8, <2>2
<1>10. [doc EXCEPT ![q] = String(Model)] = Named(doc, {q})
  <2>1. doc = [i \in 1 .. Len(doc) |-> doc[i]]
    BY <1>1 DEF IsText
  <2> QED
    BY <1>1, <2>1 DEF Named
<1> QED
  BY <1>5, <1>9, <1>10

(* What names no model stays; what names one is written with the model.    *)
LEMMA NamesNone ==
  ASSUME NEW doc, IsText(doc), ~Rewritable(doc), NEW tree \in Decoded(doc)
  PROVE  ~NamesModel(tree)
<1>1. Len(doc) \in Nat /\ Valid(doc)
  BY TextIs DEF Valid
<1>2. Root(doc) \in 1 .. Len(doc)
  BY <1>1, RootIsValue
<1>3. PICK v \in ValueOf(doc, Root(doc)) : Decoded(doc) = {v.tree}
  BY <1>1, OneDecoded
<1>4. tree = v.tree
  BY <1>3
<1>5. doc[Root(doc)] # Space
  <2>1. 1 \in 1 .. Len(doc) + 1
    BY <1>1
  <2>2. At(doc, Root(doc)) # Space
    BY <1>1, <2>1, SkipSpaceEnds DEF Root
  <2>3. Root(doc) \in Nat /\ Root(doc) > 0 /\ Root(doc) <= Len(doc)
    BY <1>2
  <2> QED
    BY <1>1, <2>2, <2>3, EndIsNone
<1>6. CASE doc[Root(doc)] # ObjectStart
  <2>1. ~(Kind(v.tree) = "object")
    BY <1>1, <1>2, <1>5, <1>6, KindOfValue
  <2> QED
    BY <1>4, <2>1 DEF NamesModel
<1>7. CASE doc[Root(doc)] = ObjectStart
  <2>1. RequestModels(doc) = {}
    BY <1>1, <1>7 DEF Rewritable
  <2>2. CASE At(doc, SkipSpace(doc, Root(doc) + 1)) = ObjectEnd
    <3>1. PICK s : v.tree = ObjectTree(s.list) /\ s.list = <<>>
      BY <1>1, <1>2, <1>7, <2>2, MarksDiffer, ObjectLists
    <3>2. v.tree = ObjectTree(<<>>)
      BY <3>1
    <3>3. Models(v.tree) = {}
      BY <3>2 DEF Models, Content, ObjectTree
    <3> QED
      BY <1>4, <3>3 DEF NamesModel
  <2>3. CASE At(doc, SkipSpace(doc, Root(doc) + 1)) # ObjectEnd
    <3>1. PICK n : \E at : \E x : ReadAsRow(doc, n, at, x)
      BY <1>1, <1>7, <2>3, RequestInARow
    <3>2. PICK at : \E x : ReadAsRow(doc, n, at, x)
      BY <3>1
    <3>3. PICK x : ReadAsRow(doc, n, at, x)
      BY <3>2
    <3>4. ~NamesModel(ObjectTree(x))
      BY <2>1, <3>3, NamesModelIs
    <3>5. Decoded(doc) = {ObjectTree(x)}
      BY <3>3 DEF ReadAsRow
    <3> QED
      BY <3>4, <3>5
  <2> QED
    BY <2>2, <2>3
<1> QED
  BY <1>6, <1>7

RequestRewritten(doc, text) ==
  IF \E tree \in Decoded(doc) : NamesModel(tree)
  THEN Decoded(text) = {WithModel(tree) : tree \in Decoded(doc)}
  ELSE text = doc

(* rewriteTopLevelModel writes the object with one model if the text names *)
(* one, and returns any other text.                                        *)
LEMMA RewritingIs ==
  ASSUME NEW doc, IsText(doc), NEW r, r = rewriteTopLevelModel(doc)
  PROVE  RequestRewritten(doc, r.text)
<1> DEFINE M == RequestModels(doc)
<1>1. CASE ~Rewritable(doc)
  <2>1. r.text = doc
    BY <1>1, RequestCases DEF Unchanged
  <2>2. \A tree \in Decoded(doc) : ~NamesModel(tree)
    BY <1>1, NamesNone
  <2> QED
    BY <2>1, <2>2 DEF RequestRewritten
<1>2. CASE Rewritable(doc)
  <2>0. Len(doc) \in Nat
    BY TextIs
  <2>1. AreModels(doc, Root(doc), M) /\ Root(doc) \in 1 .. Len(doc) /\ M # {}
    BY <1>2, RequestCases DEF Rewritable
  <2>2. /\ M # {FirstOf(M)} =>
             r = IF ~IsString(doc[LastOf(M).value]) THEN Unchanged(doc)
                 ELSE [text |-> applyJSONByteEdits(doc, CanonicalEdits(M)), changed |-> TRUE]
        /\ M = {FirstOf(M)} =>
             r = IF ~IsString(doc[FirstOf(M).value]) \/ Text(doc[FirstOf(M).value]) = Model
                 THEN Unchanged(doc)
                 ELSE [text |-> [doc EXCEPT ![FirstOf(M).value] = String(Model)], changed |-> TRUE]
    BY <1>2, RequestCases
  <2>3. PICK n : \E at : \E x : ReadAsRow(doc, n, at, x)
    BY <1>2, RewritableInARow
  <2>4. PICK at : \E x : ReadAsRow(doc, n, at, x)
    BY <2>3
  <2>5. PICK x : ReadAsRow(doc, n, at, x)
    BY <2>4
  <2>6. Decoded(doc) = {ObjectTree(x)}
    BY <2>5 DEF ReadAsRow
  <2>7. NamesModel(ObjectTree(x)) <=> IsString(doc[LastOf(M).value])
    BY <2>1, <2>5, NamesModelIs
  <2>8. M = {FirstOf(M)} => LastOf(M) = FirstOf(M)
    <3>1. LastOf(M) \in M
      BY <2>0, <2>1, ModelsInOrder
    <3> QED
      BY <3>1
  <2>9. Decoded(applyJSONByteEdits(doc, CanonicalEdits(M))) = {WithModel(tree) : tree \in Decoded(doc)}
    BY <1>2, CanonicalDecodes
  <2> HIDE DEF M
  <2>10. CASE ~IsString(doc[LastOf(M).value])
    <3>1. r = Unchanged(doc)
      BY <2>2, <2>8, <2>10
    <3>2. r.text = doc
      BY <3>1 DEF Unchanged
    <3> QED
      BY <2>6, <2>7, <2>10, <3>2 DEF RequestRewritten
  <2>11. CASE IsString(doc[LastOf(M).value])
    <3>1. \E tree \in Decoded(doc) : NamesModel(tree)
      BY <2>6, <2>7, <2>11
    <3>2. Decoded(r.text) = {WithModel(tree) : tree \in Decoded(doc)}
      <4>1. CASE M # {FirstOf(M)}
        <5>1. r.text = applyJSONByteEdits(doc, CanonicalEdits(M))
          BY <2>2, <2>11, <4>1
        <5> QED
          BY <2>9, <5>1
      <4>2. CASE M = {FirstOf(M)} /\ Text(doc[FirstOf(M).value]) = Model
        <5>1. r = Unchanged(doc)
          BY <2>2, <4>2
        <5>2. r.text = doc
          BY <5>1 DEF Unchanged
        <5>3. WithModel(ObjectTree(x)) = ObjectTree(x)
          BY <2>1, <2>5, <2>8, <2>11, <4>2, NamesItAlready DEF M
        <5> QED
          BY <2>6, <5>2, <5>3
      <4>3. CASE M = {FirstOf(M)} /\ Text(doc[FirstOf(M).value]) # Model
        <5> DEFINE q == FirstOf(M).value
        <5>1. IsString(doc[q]) /\ Text(doc[q]) # Model
          BY <2>8, <2>11, <4>3
        <5>2. r.text = [doc EXCEPT ![q] = String(Model)]
          BY <2>2, <4>3, <5>1
        <5> HIDE DEF q
        <5>3. q = FirstOf(M).value
          BY DEF q
        <5>4. [doc EXCEPT ![q] = String(Model)] = applyJSONByteEdits(doc, CanonicalEdits(M))
          BY <2>1, <4>3, <5>1, <5>3, OneReplaced
        <5> QED
          BY <2>9, <5>2, <5>4
      <4> QED
        BY <4>1, <4>2, <4>3
    <3> QED
      BY <3>1, <3>2 DEF RequestRewritten
  <2> QED
    BY <2>10, <2>11
<1> QED
  BY <1>1, <1>2

(* Whatever the bodies are: a request whose last member called model is a  *)
(* string reaches the upstream with that one member called model, the      *)
(* mapped one, where the first was, and every other member as it was; any  *)
(* other text goes as it came (rewriteTopLevelModel and its canonical      *)
(* form).                                                                  *)
THEOREM JsonRewritesRequests == Spec => []RequestNamesOneModel
<1>1. ASSUME Outcome PROVE RequestNamesOneModel
  <2>1. IsText(body)
    BY <1>1, BodiesAreTexts DEF Outcome
  <2>2. CASE pc = "request"
    <3> DEFINE r == rewriteTopLevelModel(body)
    <3>1. out = r.text
      BY <1>1, <2>2 DEF Outcome
    <3>2. RequestRewritten(body, r.text)
      BY <2>1, RewritingIs
    <3> HIDE DEF r
    <3>3. RequestRewritten(body, out)
      BY <3>1, <3>2
    <3> QED
      BY <3>3 DEF RequestNamesOneModel, RequestRewritten
  <2> QED
    BY <2>2 DEF RequestNamesOneModel
<1> QED
  BY <1>1, OutcomeInvariant, PTL
=============================================================================
