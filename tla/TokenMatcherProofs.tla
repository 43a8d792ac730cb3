-------------------------- MODULE TokenMatcherProofs --------------------------
(***************************************************************************)
(* matchTokens accepts exactly what README.md documents, for every         *)
(* alphabet, name and pattern.  The documented cutting of a name is unique *)
(* when it exists, because a token and the position where it begins        *)
(* determine where it ends; the loop computes it from left to right.  The  *)
(* pieces it cuts and captures, joined by buildReplacement, are the name.  *)
(***************************************************************************)
EXTENDS TokenReplacement, Induction, SequenceTheorems

(* The rounds so far cut off the tokens before i as documented.            *)
CutSoFar ==
  /\ Len(cuts) = i /\ cuts[1] = 0 /\ cuts[i] = pos
  /\ \A k \in 1 .. i - 1 : Takes(s, tokens, k, cuts[k], cuts[k + 1])

(* The inner loop passed over wildcards only.                              *)
AheadOfWildcard ==
  result = "ahead" =>
    /\ i <= Len(tokens) /\ tokens[i] = Wildcard
    /\ j > i /\ \A m \in i + 1 .. j - 1 : tokens[m] = Wildcard

(* A documented cutting of the whole name begins with these cuts.          *)
NoOtherCutting ==
  \A c \in Cutting(s, tokens) : Documented(s, tokens, c) => \A k \in 1 .. i : c[k] = cuts[k]

NoCuttingIfFailed == result = "failed" => \A c \in Cutting(s, tokens) : ~Documented(s, tokens, c)

WholeNameIfMatched == result = "matched" => i = Len(tokens) + 1 /\ pos = Len(s)

CaptureCount == Len(captures) = Cardinality(Wildcards(tokens, i - 1))

IInv ==
  /\ TypeOK
  /\ CutSoFar
  /\ AheadOfWildcard
  /\ NoOtherCutting
  /\ NoCuttingIfFailed
  /\ WholeNameIfMatched
  /\ CaptureCount

-----------------------------------------------------------------------------
(* Names and patterns are sequences.                                       *)
LEMMA Inputs ==
  ASSUME TypeOK
  PROVE  /\ s \in Seq(Character) /\ Len(s) \in Nat
         /\ tokens \in Seq(Seq(Character)) /\ Len(tokens) \in Nat
         /\ \A k \in 1 .. Len(tokens) : tokens[k] \in Seq(Character) /\ Len(tokens[k]) \in Nat
BY NamesAssumption, PatternsAssumption DEF TypeOK

(* Where a token begins determines where it ends.                          *)
LEMMA EndDetermined ==
  ASSUME TypeOK,
         NEW k \in 1 .. Len(tokens), NEW from \in 0 .. Len(s),
         NEW to \in 0 .. Len(s), NEW end \in 0 .. Len(s),
         Takes(s, tokens, k, from, to), Takes(s, tokens, k, from, end)
  PROVE  to = end
<1>1. CASE tokens[k] # Wildcard
  BY <1>1 DEF Takes
<1>2. CASE tokens[k] = Wildcard /\ \A m \in 1 .. Len(tokens) : ~NextLiteralAt(tokens, k, m)
  BY <1>2 DEF Takes
<1>3. CASE tokens[k] = Wildcard /\ \E m \in 1 .. Len(tokens) : NextLiteralAt(tokens, k, m)
  <2>1. PICK m \in 1 .. Len(tokens) : NextLiteralAt(tokens, k, m)
    BY <1>3
  <2>2. FirstFrom(s, tokens[m], from, to) /\ FirstFrom(s, tokens[m], from, end)
    BY <1>3, <2>1 DEF Takes
  <2>3. ~(to < end) /\ ~(end < to)
    BY <2>2, Inputs DEF FirstFrom
  <2> QED BY <2>3, Inputs
<1> QED BY <1>1, <1>2, <1>3

(* When a round cuts off token i up to p, the parts of the invariant about *)
(* the cuts are kept.                                                      *)
LEMMA RoundKeepsCuts ==
  ASSUME TypeOK, CutSoFar, NoOtherCutting,
         i <= Len(tokens),
         NEW p \in 0 .. Len(s), Takes(s, tokens, i, pos, p), Advance(p),
         UNCHANGED <<s, tokens>>
  PROVE  /\ CutSoFar' /\ NoOtherCutting'
         /\ i' \in 1 .. Len(tokens') + 1 /\ pos' \in 0 .. Len(s') /\ cuts' \in Seq(0 .. Len(s'))
<1> DEFINE n == Len(tokens)
<1>0. /\ i \in Nat /\ i >= 1 /\ n \in Nat /\ i' = i + 1 /\ pos' = p
      /\ cuts \in Seq(0 .. Len(s)) /\ cuts' = Append(cuts, p) /\ s' = s /\ tokens' = tokens
  BY Inputs DEF TypeOK, Advance
<1>1. /\ Len(cuts') = i + 1 /\ cuts'[i + 1] = p
      /\ \A k \in 1 .. i : cuts'[k] = cuts[k]
  BY <1>0 DEF CutSoFar
<1>2. \A k \in 1 .. i : Takes(s, tokens, k, cuts'[k], cuts'[k + 1])
  <2> SUFFICES ASSUME NEW k \in 1 .. i PROVE Takes(s, tokens, k, cuts'[k], cuts'[k + 1])
    OBVIOUS
  <2>1. CASE k = i
    BY <1>0, <1>1, <2>1 DEF CutSoFar
  <2>2. CASE k # i
    <3>1. k \in 1 .. i - 1 /\ k + 1 \in 1 .. i
      BY <1>0, <2>2
    <3> QED BY <3>1, <1>1 DEF CutSoFar
  <2> QED BY <2>1, <2>2
<1>3. CutSoFar'
  <2>1. \A k \in 1 .. i' - 1 : k \in 1 .. i
    BY <1>0
  <2> QED BY <1>0, <1>1, <1>2, <2>1 DEF CutSoFar
<1>4. NoOtherCutting'
  <2> SUFFICES ASSUME NEW c \in Cutting(s, tokens), Documented(s, tokens, c),
                      NEW k \in 1 .. i + 1
               PROVE  c[k] = cuts'[k]
    BY <1>0 DEF NoOtherCutting
  <2>1. \A m \in 1 .. i : c[m] = cuts[m]
    BY DEF NoOtherCutting
  <2>2. CASE k # i + 1
    <3>1. k \in 1 .. i
      BY <1>0, <2>2
    <3> QED BY <3>1, <2>1, <1>1
  <2>3. CASE k = i + 1
    <3>1. i \in 1 .. n /\ i + 1 \in 1 .. n + 1
      BY <1>0
    <3>2. Takes(s, tokens, i, c[i], c[i + 1])
      BY <3>1 DEF Documented
    <3>3. c[i] = pos /\ pos \in 0 .. Len(s)
      BY <1>0, <2>1 DEF CutSoFar, TypeOK
    <3>4. c[i + 1] \in 0 .. Len(s)
      BY <3>1 DEF Cutting
    <3>5. c[i + 1] = p
      BY <3>1, <3>2, <3>3, <3>4, EndDetermined
    <3> QED BY <3>5, <2>3, <1>1
  <2> QED BY <2>2, <2>3
<1>5. cuts' \in Seq(0 .. Len(s'))
  BY <1>0
<1> QED BY <1>0, <1>3, <1>4, <1>5

(* A round that passes a literal counts no wildcard, one that passes a     *)
(* wildcard counts one.                                                    *)
LEMMA OneMoreWildcard ==
  ASSUME TypeOK, i <= Len(tokens)
  PROVE  Cardinality(Wildcards(tokens, i)) =
           IF tokens[i] = Wildcard THEN Cardinality(Wildcards(tokens, i - 1)) + 1
           ELSE Cardinality(Wildcards(tokens, i - 1))
<1>1. i \in Nat /\ i >= 1
  BY Inputs DEF TypeOK
<1>2. IsFiniteSet(Wildcards(tokens, i - 1))
  <2>1. IsFiniteSet(1 .. i - 1)
    BY <1>1, FS_Interval
  <2> QED BY <2>1, FS_Subset DEF Wildcards
<1>3. i \notin Wildcards(tokens, i - 1)
  BY <1>1 DEF Wildcards
<1>4. CASE tokens[i] = Wildcard
  <2>1. Wildcards(tokens, i) = Wildcards(tokens, i - 1) \union {i}
    BY <1>1, <1>4 DEF Wildcards
  <2> QED BY <2>1, <1>2, <1>3, <1>4, FS_AddElement
<1>5. CASE tokens[i] # Wildcard
  <2>1. Wildcards(tokens, i) = Wildcards(tokens, i - 1)
    BY <1>1, <1>5 DEF Wildcards
  <2> QED BY <2>1, <1>5
<1> QED BY <1>4, <1>5

-----------------------------------------------------------------------------
(* A call of matchTokens begins in the invariant.                          *)
LEMMA InitIInv == ASSUME Init PROVE IInv
<1>1. /\ s \in Names /\ tokens \in Patterns /\ i = 1 /\ j = 1 /\ pos = 0
      /\ captures = <<>> /\ result = "loop" /\ cuts = <<0>>
  BY DEF Init
<1>2. s \in Seq(Character) /\ tokens \in Seq(Seq(Character))
  BY <1>1, NamesAssumption, PatternsAssumption
<1>3. TypeOK
  BY <1>1, <1>2 DEF TypeOK
<1>4. CutSoFar /\ AheadOfWildcard /\ NoCuttingIfFailed /\ WholeNameIfMatched
  BY <1>1 DEF CutSoFar, AheadOfWildcard, NoCuttingIfFailed, WholeNameIfMatched
<1>5. NoOtherCutting
  BY <1>1 DEF NoOtherCutting, Documented
<1>6. CaptureCount
  <2>1. Wildcards(tokens, 0) = {}
    BY DEF Wildcards
  <2> QED BY <1>1, <2>1, FS_EmptySet DEF CaptureCount
<1> QED BY <1>3, <1>4, <1>5, <1>6 DEF IInv

(* A literal is passed or refuses the name.                                *)
LEMMA LiteralKeepsIInv == ASSUME IInv, Literal PROVE IInv'
<1>0. /\ TypeOK /\ CutSoFar /\ NoOtherCutting /\ CaptureCount
      /\ i \in 1 .. Len(tokens) /\ tokens[i] # Wildcard /\ pos \in 0 .. Len(s)
      /\ s' = s /\ tokens' = tokens /\ j' = j /\ captures' = captures
  BY Inputs DEF IInv, Literal, TypeOK
<1>1. CASE OccursAt(s, tokens[i], pos)
  <2> DEFINE p == pos + Len(tokens[i])
  <2>1. Advance(p) /\ result' = "loop"
    BY <1>1 DEF Literal
  <2>2. p \in 0 .. Len(s)
    BY <1>0, <1>1, Inputs DEF OccursAt
  <2>3. Takes(s, tokens, i, pos, p)
    BY <1>0, <1>1 DEF Takes
  <2>4. /\ CutSoFar' /\ NoOtherCutting'
        /\ i' \in 1 .. Len(tokens') + 1 /\ pos' \in 0 .. Len(s') /\ cuts' \in Seq(0 .. Len(s'))
    <3> HIDE DEF p
    <3> QED BY <1>0, <2>1, <2>2, <2>3, RoundKeepsCuts
  <2>5. TypeOK'
    BY <1>0, <2>1, <2>4 DEF TypeOK
  <2>6. AheadOfWildcard' /\ NoCuttingIfFailed' /\ WholeNameIfMatched'
    BY <2>1 DEF AheadOfWildcard, NoCuttingIfFailed, WholeNameIfMatched
  <2>7. CaptureCount'
    <3>1. i' - 1 = i
      BY <1>0, <2>1, Inputs DEF Advance
    <3>2. Cardinality(Wildcards(tokens, i)) = Cardinality(Wildcards(tokens, i - 1))
      BY <1>0, OneMoreWildcard
    <3> QED BY <1>0, <3>1, <3>2 DEF CaptureCount
  <2> QED BY <2>4, <2>5, <2>6, <2>7 DEF IInv
<1>2. CASE ~OccursAt(s, tokens[i], pos)
  <2>1. result' = "failed" /\ UNCHANGED <<i, pos, cuts>>
    BY <1>2 DEF Literal
  <2>2. NoCuttingIfFailed'
    <3> SUFFICES ASSUME NEW c \in Cutting(s, tokens), Documented(s, tokens, c)
                 PROVE  FALSE
      BY <1>0 DEF NoCuttingIfFailed
    <3>1. c[i] = pos
      BY <1>0, Inputs DEF NoOtherCutting, CutSoFar
    <3>2. Takes(s, tokens, i, c[i], c[i + 1])
      BY <1>0 DEF Documented
    <3> QED BY <1>0, <1>2, <3>1, <3>2 DEF Takes
  <2>3. TypeOK'
    BY <1>0, <2>1 DEF TypeOK
  <2>4. CutSoFar' /\ NoOtherCutting' /\ CaptureCount'
    BY <1>0, <2>1 DEF CutSoFar, NoOtherCutting, CaptureCount
  <2>5. AheadOfWildcard' /\ WholeNameIfMatched'
    BY <2>1 DEF AheadOfWildcard, WholeNameIfMatched
  <2> QED BY <2>2, <2>3, <2>4, <2>5 DEF IInv
<1> QED BY <1>1, <1>2

(* The inner loop begins behind the wildcard and passes wildcards only.    *)
LEMMA LookingKeepsIInv == ASSUME IInv, BeginWildcard \/ LookAhead PROVE IInv'
<1>0. /\ TypeOK /\ CutSoFar /\ NoOtherCutting /\ CaptureCount
      /\ result' = "ahead"
      /\ UNCHANGED <<s, tokens, i, pos, captures, cuts>>
  BY DEF IInv, BeginWildcard, LookAhead
<1>1. j' \in 1 .. Len(tokens) + 1
  BY Inputs DEF IInv, TypeOK, BeginWildcard, LookAhead
<1>2. TypeOK'
  BY <1>0, <1>1 DEF TypeOK
<1>3. AheadOfWildcard'
  <2>1. CASE BeginWildcard
    BY <1>0, <2>1, Inputs DEF BeginWildcard, AheadOfWildcard, TypeOK
  <2>2. CASE LookAhead
    <3>1. /\ i <= Len(tokens) /\ tokens[i] = Wildcard /\ j > i /\ j' = j + 1 /\ tokens[j] = Wildcard
          /\ \A m \in i + 1 .. j - 1 : tokens[m] = Wildcard
          /\ i \in Nat /\ j \in Nat
      BY <2>2, Inputs DEF IInv, AheadOfWildcard, LookAhead, TypeOK
    <3>2. \A m \in i + 1 .. j : m = j \/ m \in i + 1 .. j - 1
      BY <3>1
    <3>3. \A m \in i + 1 .. j' - 1 : tokens[m] = Wildcard
      BY <3>1, <3>2
    <3> QED BY <1>0, <3>1, <3>3 DEF AheadOfWildcard
  <2> QED BY <2>1, <2>2
<1>4. CutSoFar' /\ NoOtherCutting' /\ CaptureCount' /\ NoCuttingIfFailed' /\ WholeNameIfMatched'
  BY <1>0 DEF CutSoFar, NoOtherCutting, CaptureCount, NoCuttingIfFailed, WholeNameIfMatched
<1> QED BY <1>2, <1>3, <1>4 DEF IInv

(* A capture up to where the wildcard ends keeps the invariant.            *)
LEMMA CaptureKeepsIInv ==
  ASSUME IInv, result = "ahead",
         NEW end \in 0 .. Len(s), Takes(s, tokens, i, pos, end), Capture(end),
         UNCHANGED <<s, tokens, j>>
  PROVE  IInv'
<1>0. /\ TypeOK /\ CutSoFar /\ NoOtherCutting /\ CaptureCount
      /\ i \in 1 .. Len(tokens) /\ tokens[i] = Wildcard /\ pos \in 0 .. Len(s)
      /\ Advance(end) /\ result' = "loop" /\ captures' = Append(captures, <<pos, end>>)
  BY Inputs DEF IInv, AheadOfWildcard, Capture, TypeOK
<1>1. /\ CutSoFar' /\ NoOtherCutting'
      /\ i' \in 1 .. Len(tokens') + 1 /\ pos' \in 0 .. Len(s') /\ cuts' \in Seq(0 .. Len(s'))
  BY <1>0, RoundKeepsCuts
<1>2. captures' \in Seq((0 .. Len(s)) \X (0 .. Len(s))) /\ Len(captures') = Len(captures) + 1
  BY <1>0 DEF TypeOK
<1>3. TypeOK'
  BY <1>0, <1>1, <1>2 DEF TypeOK
<1>4. CaptureCount'
  <2>1. i' - 1 = i
    BY <1>0, Inputs DEF Advance
  <2>2. Cardinality(Wildcards(tokens, i)) = Cardinality(Wildcards(tokens, i - 1)) + 1
    BY <1>0, OneMoreWildcard
  <2> QED BY <1>0, <1>2, <2>1, <2>2 DEF CaptureCount
<1>5. AheadOfWildcard' /\ NoCuttingIfFailed' /\ WholeNameIfMatched'
  BY <1>0 DEF AheadOfWildcard, NoCuttingIfFailed, WholeNameIfMatched
<1> QED BY <1>1, <1>3, <1>4, <1>5 DEF IInv

(* The literal behind the wildcard ends the capture or refuses the name.   *)
LEMMA ToLiteralKeepsIInv == ASSUME IInv, CaptureToLiteral PROVE IInv'
<1>0. /\ TypeOK /\ CutSoFar /\ NoOtherCutting /\ CaptureCount
      /\ result = "ahead" /\ s' = s /\ tokens' = tokens /\ j' = j
      /\ i \in 1 .. Len(tokens) /\ tokens[i] = Wildcard /\ pos \in 0 .. Len(s)
      /\ j \in i + 1 .. Len(tokens) /\ tokens[j] # Wildcard
      /\ \A m \in i + 1 .. j - 1 : tokens[m] = Wildcard
      /\ Len(tokens) \in Nat /\ Len(s) \in Nat
  BY Inputs DEF IInv, AheadOfWildcard, CaptureToLiteral, TypeOK
<1>1. NextLiteralAt(tokens, i, j)
  BY <1>0 DEF NextLiteralAt
<1>2. \A m \in 1 .. Len(tokens) : NextLiteralAt(tokens, i, m) => m = j
  <2> SUFFICES ASSUME NEW m \in 1 .. Len(tokens), NextLiteralAt(tokens, i, m) PROVE m = j
    OBVIOUS
  <2>1. ~(m < j) /\ ~(j < m)
    BY <1>0 DEF NextLiteralAt
  <2> QED BY <1>0, <2>1
<1>3. CASE \E end \in pos .. Len(s) : FirstFrom(s, tokens[j], pos, end) /\ Capture(end)
  <2>1. PICK end \in pos .. Len(s) : FirstFrom(s, tokens[j], pos, end) /\ Capture(end)
    BY <1>3
  <2>2. Takes(s, tokens, i, pos, end)
    BY <1>0, <1>1, <1>2, <2>1 DEF Takes
  <2>3. end \in 0 .. Len(s)
    BY <1>0
  <2> QED BY <1>0, <2>1, <2>2, <2>3, CaptureKeepsIInv
<1>4. CASE /\ \A end \in pos .. Len(s) : ~OccursAt(s, tokens[j], end)
           /\ result' = "failed" /\ UNCHANGED <<i, pos, captures, cuts>>
  <2>1. NoCuttingIfFailed'
    <3> SUFFICES ASSUME NEW c \in Cutting(s, tokens), Documented(s, tokens, c)
                 PROVE  FALSE
      BY <1>0 DEF NoCuttingIfFailed
    <3>1. c[i] = pos
      BY <1>0, Inputs DEF NoOtherCutting, CutSoFar
    <3>2. Takes(s, tokens, i, pos, c[i + 1]) /\ c[i + 1] \in 0 .. Len(s)
      BY <1>0, <3>1 DEF Documented, Cutting
    <3>3. FirstFrom(s, tokens[j], pos, c[i + 1])
      BY <1>0, <1>1, <3>2 DEF Takes
    <3> QED BY <1>0, <1>4, <3>2, <3>3 DEF FirstFrom
  <2>2. TypeOK'
    BY <1>0, <1>4 DEF TypeOK
  <2>3. CutSoFar' /\ NoOtherCutting' /\ CaptureCount'
    BY <1>0, <1>4 DEF CutSoFar, NoOtherCutting, CaptureCount
  <2>4. AheadOfWildcard' /\ WholeNameIfMatched'
    BY <1>4 DEF AheadOfWildcard, WholeNameIfMatched
  <2> QED BY <2>1, <2>2, <2>3, <2>4 DEF IInv
<1> QED BY <1>3, <1>4 DEF CaptureToLiteral

(* Without a literal behind it, the wildcard takes the rest.               *)
LEMMA RestKeepsIInv == ASSUME IInv, CaptureRest PROVE IInv'
<1>0. /\ result = "ahead" /\ UNCHANGED <<s, tokens, j>> /\ Capture(Len(s))
      /\ tokens[i] = Wildcard /\ Len(s) \in 0 .. Len(s)
      /\ \A m \in i + 1 .. Len(tokens) : m \in i + 1 .. j - 1
      /\ \A m \in i + 1 .. j - 1 : tokens[m] = Wildcard
  BY Inputs DEF IInv, AheadOfWildcard, CaptureRest, TypeOK
<1>1. \A m \in 1 .. Len(tokens) : ~NextLiteralAt(tokens, i, m)
  BY <1>0 DEF NextLiteralAt
<1>2. Takes(s, tokens, i, pos, Len(s))
  BY <1>0, <1>1 DEF Takes
<1> QED BY <1>0, <1>2, CaptureKeepsIInv

(* At the end the whole name must be cut up.                               *)
LEMMA ReturnKeepsIInv == ASSUME IInv, Return PROVE IInv'
<1>0. /\ TypeOK /\ CutSoFar /\ NoOtherCutting /\ CaptureCount
      /\ i = Len(tokens) + 1 /\ Len(tokens) \in Nat
      /\ result' = (IF pos = Len(s) THEN "matched" ELSE "failed")
      /\ UNCHANGED <<s, tokens, i, j, pos, captures, cuts>>
  BY Inputs DEF IInv, Return, TypeOK
<1>1. TypeOK'
  BY <1>0 DEF TypeOK
<1>2. CutSoFar' /\ NoOtherCutting' /\ CaptureCount' /\ AheadOfWildcard' /\ WholeNameIfMatched'
  BY <1>0 DEF CutSoFar, NoOtherCutting, CaptureCount, AheadOfWildcard, WholeNameIfMatched
<1>3. NoCuttingIfFailed'
  <2> SUFFICES ASSUME pos # Len(s), NEW c \in Cutting(s, tokens), Documented(s, tokens, c)
               PROVE  FALSE
    BY <1>0 DEF NoCuttingIfFailed
  <2>1. c[i] = pos
    BY <1>0 DEF NoOtherCutting, CutSoFar
  <2> QED BY <1>0, <2>1 DEF Documented
<1> QED BY <1>1, <1>2, <1>3 DEF IInv

(* The inductive invariant of the loop.                                    *)
THEOREM MatcherInvariant == Spec => []IInv
<1>1. Init => IInv
  BY InitIInv
<1>2. IInv /\ [Next]_vars => IInv'
  <2> SUFFICES ASSUME IInv, [Next]_vars PROVE IInv'
    OBVIOUS
  <2>1. CASE UNCHANGED vars
    BY <2>1 DEF IInv, vars, TypeOK, CutSoFar, AheadOfWildcard, NoOtherCutting,
                NoCuttingIfFailed, WholeNameIfMatched, CaptureCount
  <2> QED BY <2>1, LiteralKeepsIInv, LookingKeepsIInv, ToLiteralKeepsIInv, RestKeepsIInv,
             ReturnKeepsIInv DEF Next
<1> QED BY <1>1, <1>2, PTL DEF Spec

(* No step of matchTokens leaves the name: every slice s[pos:] it takes is *)
(* within bounds.                                                          *)
THEOREM MatcherTypeCorrect == Spec => []TypeOK
BY MatcherInvariant, PTL DEF IInv

(* matchTokens (rules.go) accepts exactly the names that README.md         *)
(* documents, and captures what it documents.                              *)
THEOREM MatcherAsDocumented == Spec => []AcceptsAsDocumented
<1>1. ASSUME IInv PROVE AcceptsAsDocumented
  <2>1. result = "failed" => \A c \in Cutting(s, tokens) : ~Documented(s, tokens, c)
    BY <1>1 DEF IInv, NoCuttingIfFailed
  <2>2. ASSUME result = "matched"
        PROVE  cuts \in Cutting(s, tokens) /\ Documented(s, tokens, cuts)
    <3>1. /\ i = Len(tokens) + 1 /\ pos = Len(s) /\ Len(cuts) = i /\ cuts \in Seq(0 .. Len(s))
          /\ cuts[1] = 0 /\ cuts[i] = pos
          /\ \A k \in 1 .. i - 1 : Takes(s, tokens, k, cuts[k], cuts[k + 1])
          /\ Len(tokens) \in Nat
      BY <1>1, <2>2, Inputs DEF IInv, WholeNameIfMatched, CutSoFar, TypeOK
    <3>2. cuts \in Cutting(s, tokens)
      BY <3>1 DEF Cutting
    <3>3. Documented(s, tokens, cuts)
      BY <3>1 DEF Documented
    <3> QED BY <3>2, <3>3
  <2> QED BY <2>1, <2>2 DEF AcceptsAsDocumented
<1> QED BY <1>1, MatcherInvariant, PTL

(* A match has a capture for every wildcard, so buildReplacement never     *)
(* indexes out of range for a reference that parseReplace admitted.        *)
THEOREM MatcherCapturesEveryWildcard == Spec => []CapturesEveryWildcard
<1>1. ASSUME IInv PROVE CapturesEveryWildcard
  <2>1. TypeOK
    BY <1>1 DEF IInv
  <2>2. result = "matched" => i - 1 = Len(tokens)
    BY <1>1, <2>1, Inputs DEF IInv, WholeNameIfMatched
  <2> QED BY <1>1, <2>2 DEF IInv, CaptureCount, CapturesEveryWildcard
<1> QED BY <1>1, MatcherInvariant, PTL

-----------------------------------------------------------------------------
(* Consecutive cuts of a sequence, joined again, are what was cut.         *)
LEMMA CutsRejoin ==
  ASSUME NEW T, NEW seq \in Seq(T), NEW parts, NEW N \in Nat, DOMAIN parts = 1 .. N,
         parts \in Seq(Seq(T)),
         NEW c \in [1 .. N + 1 -> 0 .. Len(seq)], c[1] = 0, c[N + 1] = Len(seq),
         \A k \in 1 .. N : c[k] <= c[k + 1] /\ parts[k] = SubSeq(seq, c[k] + 1, c[k + 1])
  PROVE  FlattenSeq(parts) = seq
<1>0. Len(parts) = N /\ Len(seq) \in Nat
  OBVIOUS
<1>3. \A k \in 1 .. N : parts[k] = SubSeq(seq, c[k] + 1, c[k + 1])
  OBVIOUS
<1>4. \A k \in 1 .. N : c[k] \in 0 .. Len(seq) /\ c[k + 1] \in c[k] .. Len(seq)
  OBVIOUS
<1>1. CASE N = 0
  <2>1. Len(seq) = 0
    BY <1>1
  <2>2. seq = <<>> /\ parts = <<>>
    BY <1>0, <1>1, <2>1
  <2> QED
    BY <1>0, <1>1, <2>2 DEF FlattenSeq
<1>2. CASE N > 0
  <2> DEFINE Equation(f) == f = [k \in 1 .. N |-> IF k = 1 THEN parts[k] ELSE f[k - 1] \o parts[k]]
             flatten == CHOOSE f : Equation(f)
             prefix == [k \in 1 .. N |-> SubSeq(seq, 1, c[k + 1])]
  <2>1. SubSeq(seq, 1, c[2]) = parts[1]
    <3>1. 1 \in 1 .. N /\ c[1] + 1 = 1 /\ 1 + 1 = 2
      BY <1>2
    <3> QED
      BY <1>3, <3>1
  <2>2. ASSUME NEW k \in 2 .. N
        PROVE  SubSeq(seq, 1, c[k]) \o parts[k] = SubSeq(seq, 1, c[k + 1])
    <3>1. /\ c[k] \in 0 .. Len(seq) /\ c[k + 1] \in c[k] .. Len(seq)
          /\ parts[k] = SubSeq(seq, c[k] + 1, c[k + 1])
      <4>1. k \in 1 .. N /\ k - 1 \in 1 .. N /\ (k - 1) + 1 = k
        OBVIOUS
      <4> QED
        BY <1>3, <1>4, <4>1
    <3>2. SubSeq(seq, 1, c[k]) \o SubSeq(seq, c[k] + 1, c[k + 1]) = SubSeq(seq, 1, c[k + 1])
      <4>1. 1 \in 1 .. Len(seq) + 1 /\ c[k] \in 1 - 1 .. Len(seq)
        BY <1>0, <3>1
      <4> QED
        BY <3>1, <4>1, ConcatAdjacentSubSeq
    <3> QED
      BY <3>1, <3>2
  <2>3. Equation(prefix)
    <3>1. ASSUME NEW k \in 1 .. N, k # 1 PROVE prefix[k] = prefix[k - 1] \o parts[k]
      <4>1. k - 1 \in 1 .. N /\ (k - 1) + 1 = k /\ k \in 2 .. N
        BY <3>1
      <4>2. prefix[k - 1] = SubSeq(seq, 1, c[k]) /\ prefix[k] = SubSeq(seq, 1, c[k + 1])
        BY <4>1
      <4> QED
        BY <2>2, <4>1, <4>2
    <3>2. prefix[1] = parts[1]
      <4>1. 1 \in 1 .. N /\ 1 + 1 = 2
        BY <1>2
      <4> QED
        BY <2>1, <4>1
    <3>3. prefix = [k \in 1 .. N |-> prefix[k]]
      OBVIOUS
    <3> HIDE DEF prefix
    <3>4. \A k \in 1 .. N : prefix[k] = IF k = 1 THEN parts[k] ELSE prefix[k - 1] \o parts[k]
      BY <3>1, <3>2
    <3> QED
      BY <3>3, <3>4, Zenon
  <2>4. Equation(flatten)
    <3>1. \E f : Equation(f)
      BY <2>3
    <3> HIDE DEF Equation
    <3> QED
      BY <3>1
  <2> HIDE DEF flatten
  <2>5. flatten[1] = parts[1]
    BY <1>2, <2>4
  <2>6. \A k \in 2 .. N : flatten[k] = flatten[k - 1] \o parts[k]
    <3>1. \A k \in 2 .. N : k \in 1 .. N /\ k # 1
      OBVIOUS
    <3> QED
      BY <2>4, <3>1
  <2> DEFINE S == {n \in 0 .. N - 1 : flatten[n + 1] = SubSeq(seq, 1, c[n + 2])}
  <2>7. 0 \in S
    BY <1>2, <2>1, <2>5
  <2>8. ASSUME NEW n \in 0 .. (N - 1) - 1, n \in S PROVE n + 1 \in S
    <3>1. n + 2 \in 2 .. N /\ n + 1 \in 0 .. N - 1 /\ (n + 2) - 1 = n + 1 /\ (n + 1) + 1 = n + 2
          /\ (n + 1) + 2 = n + 3 /\ (n + 2) + 1 = n + 3
      OBVIOUS
    <3>2. flatten[n + 2] = flatten[n + 1] \o parts[n + 2]
      BY <2>6, <3>1
    <3>3. flatten[n + 1] = SubSeq(seq, 1, c[n + 2])
      BY <2>8
    <3>4. flatten[n + 2] = SubSeq(seq, 1, c[n + 3])
      BY <2>2, <3>1, <3>2, <3>3
    <3> QED
      BY <3>1, <3>4
  <2>9. 0 .. N - 1 \subseteq S
    <3>1. N - 1 \in Nat
      BY <1>2
    <3> HIDE DEF S
    <3> QED
      BY <2>7, <2>8, <3>1, UpToInduction
  <2>10. flatten[N] = SubSeq(seq, 1, c[N + 1])
    <3>1. N - 1 \in 0 .. N - 1 /\ (N - 1) + 1 = N /\ (N - 1) + 2 = N + 1
      BY <1>2
    <3>2. N - 1 \in S
      BY <2>9, <3>1, Zenon
    <3> QED
      BY <3>1, <3>2
  <2>11. SubSeq(seq, 1, Len(seq)) = seq
    BY SubSeqFull
  <2>12. FlattenSeq(parts) = flatten[N]
    BY <1>0, <1>2 DEF FlattenSeq, flatten
  <2> QED
    BY <2>10, <2>11, <2>12
<1> QED
  BY <1>1, <1>2

(* A capture is the piece its wildcard takes.                              *)
CapturesAreCuts ==
  \A k \in 1 .. i - 1 :
    tokens[k] = Wildcard => captures[Cardinality(Wildcards(tokens, k))] = <<cuts[k], cuts[k + 1]>>

(* The number of a wildcard is one of those counted by then.               *)
LEMMA WildcardNumber ==
  ASSUME NEW pattern, NEW n \in Nat, NEW k \in 1 .. n, pattern[k] = Wildcard
  PROVE  Cardinality(Wildcards(pattern, k)) \in 1 .. Cardinality(Wildcards(pattern, n))
<1>1. \A m \in Nat : IsFiniteSet(Wildcards(pattern, m)) /\ Cardinality(Wildcards(pattern, m)) \in Nat
  <2> SUFFICES ASSUME NEW m \in Nat
               PROVE  IsFiniteSet(Wildcards(pattern, m)) /\ Cardinality(Wildcards(pattern, m)) \in Nat
    OBVIOUS
  <2>1. IsFiniteSet(1 .. m)
    BY FS_Interval
  <2>2. IsFiniteSet(Wildcards(pattern, m))
    BY <2>1, FS_Subset DEF Wildcards
  <2> QED
    BY <2>2, FS_CardinalityType
<1>2. k \in Nat /\ k \in Wildcards(pattern, k) /\ Wildcards(pattern, k) \subseteq Wildcards(pattern, n)
  BY DEF Wildcards
<1>3. Cardinality(Wildcards(pattern, k)) <= Cardinality(Wildcards(pattern, n))
  BY <1>1, <1>2, FS_Subset
<1>4. Cardinality(Wildcards(pattern, k)) # 0
  BY <1>1, <1>2, FS_EmptySet
<1> QED
  BY <1>1, <1>2, <1>3, <1>4

(* A round adds its own cut and, if it passes a wildcard, its own capture. *)
LEMMA RoundKeepsCaptures ==
  ASSUME IInv, CapturesAreCuts, i \in 1 .. Len(tokens), UNCHANGED tokens,
         NEW end \in 0 .. Len(s), Advance(end),
         captures' = IF tokens[i] = Wildcard THEN Append(captures, <<pos, end>>) ELSE captures
  PROVE  CapturesAreCuts'
<1>1. /\ i \in Nat /\ Len(tokens) \in Nat /\ i' = i + 1 /\ tokens' = tokens
      /\ cuts' = Append(cuts, end) /\ cuts \in Seq(0 .. Len(s)) /\ Len(cuts) = i /\ cuts[i] = pos
  BY Inputs DEF IInv, TypeOK, CutSoFar, Advance
<1>2. /\ captures \in Seq((0 .. Len(s)) \X (0 .. Len(s))) /\ pos \in 0 .. Len(s)
      /\ Len(captures) = Cardinality(Wildcards(tokens, i - 1)) /\ i - 1 \in Nat
  BY <1>1 DEF IInv, TypeOK, CaptureCount
<1>3. cuts'[i + 1] = end /\ \A k \in 1 .. i : cuts'[k] = cuts[k]
  BY <1>1
<1>4. \A n \in 1 .. Len(captures) : captures'[n] = captures[n]
  BY <1>2
<1>5. ASSUME NEW k \in 1 .. i - 1, tokens[k] = Wildcard
      PROVE  captures'[Cardinality(Wildcards(tokens, k))] = <<cuts'[k], cuts'[k + 1]>>
  <2>1. Cardinality(Wildcards(tokens, k)) \in 1 .. Len(captures)
    BY <1>2, <1>5, WildcardNumber
  <2>2. k \in 1 .. i /\ k + 1 \in 1 .. i
    BY <1>1
  <2> QED
    BY <1>3, <1>4, <1>5, <2>1, <2>2 DEF CapturesAreCuts
<1>6. ASSUME tokens[i] = Wildcard
      PROVE  captures'[Cardinality(Wildcards(tokens, i))] = <<cuts'[i], cuts'[i + 1]>>
  <2>1. Cardinality(Wildcards(tokens, i)) = Len(captures) + 1
    BY <1>2, <1>6, OneMoreWildcard DEF IInv
  <2>2. captures'[Len(captures) + 1] = <<pos, end>>
    BY <1>2, <1>6
  <2>3. cuts'[i] = pos
    BY <1>1, <1>3
  <2> QED
    BY <1>3, <2>1, <2>2, <2>3
<1>7. \A k \in 1 .. i' - 1 : k \in 1 .. i - 1 \/ k = i
  BY <1>1
<1> QED
  BY <1>1, <1>5, <1>6, <1>7 DEF CapturesAreCuts

(* Every step of the matcher keeps the captures at the cuts of their       *)
(* wildcards.                                                              *)
LEMMA NextKeepsCaptures ==
  ASSUME IInv, CapturesAreCuts, [Next]_vars
  PROVE  CapturesAreCuts'
<1>0. Len(s) \in Nat /\ Len(tokens) \in Nat /\ pos \in 0 .. Len(s) /\ i \in 1 .. Len(tokens) + 1
  BY Inputs DEF IInv, TypeOK
<1>1. CASE Literal /\ OccursAt(s, tokens[i], pos)
  <2>1. pos + Len(tokens[i]) \in 0 .. Len(s)
    BY <1>0, <1>1, Inputs DEF Literal, OccursAt, IInv
  <2> QED
    BY <1>0, <1>1, <2>1, RoundKeepsCaptures DEF Literal
<1>2. CASE \E end \in 0 .. Len(s) : result = "ahead" /\ Capture(end) /\ UNCHANGED tokens
  <2>1. PICK end \in 0 .. Len(s) : result = "ahead" /\ Capture(end) /\ UNCHANGED tokens
    BY <1>2
  <2>2. i \in 1 .. Len(tokens) /\ tokens[i] = Wildcard
    BY <1>0, <2>1 DEF IInv, AheadOfWildcard
  <2> QED
    BY <2>1, <2>2, RoundKeepsCaptures DEF Capture
<1>3. CASE UNCHANGED <<tokens, i, captures, cuts>>
  BY <1>3 DEF CapturesAreCuts
<1>4. CASE CaptureToLiteral
  BY <1>0, <1>2, <1>3, <1>4 DEF CaptureToLiteral
<1>5. CASE CaptureRest
  BY <1>0, <1>2, <1>5 DEF CaptureRest
<1> QED
  BY <1>1, <1>3, <1>4, <1>5 DEF Next, vars, Literal, BeginWildcard, LookAhead, Return

(* buildReplacement makes the name again from the captures and the literals*)
(* of its pattern: the rule that maps a pattern to itself changes no name, *)
(* whatever the alphabet, the name and the pattern.                        *)
THEOREM MatcherRebuilds == Spec => []RebuildsTheName
<1>1. Init => CapturesAreCuts
  BY DEF Init, CapturesAreCuts
<1>2. ASSUME IInv, CapturesAreCuts PROVE RebuildsTheName
  <2> SUFFICES ASSUME result = "matched" PROVE buildReplacement(SamePattern) = s
    BY DEF RebuildsTheName
  <2> DEFINE N == Len(tokens)
             parts == [k \in DOMAIN SamePattern |->
                         IF SamePattern[k].capture = 0 THEN SamePattern[k].literal
                         ELSE Text(captures[SamePattern[k].capture])]
  <2>1. s \in Seq(Character) /\ N \in Nat /\ Len(s) \in Nat /\ tokens \in Seq(Seq(Character))
    BY <1>2, Inputs DEF IInv
  <2>2. /\ i = N + 1 /\ Len(cuts) = N + 1 /\ cuts \in Seq(0 .. Len(s))
        /\ cuts[1] = 0 /\ cuts[N + 1] = Len(s)
        /\ \A k \in 1 .. N : Takes(s, tokens, k, cuts[k], cuts[k + 1])
    BY <1>2, <2>1 DEF IInv, WholeNameIfMatched, CutSoFar, TypeOK
  <2>3. cuts \in [1 .. N + 1 -> 0 .. Len(s)]
    BY <2>1, <2>2
  <2>8. \A k \in 1 .. N : cuts[k] \in 0 .. Len(s) /\ cuts[k + 1] \in 0 .. Len(s)
    <3>1. \A k \in 1 .. N : k \in 1 .. N + 1 /\ k + 1 \in 1 .. N + 1
      BY <2>1
    <3> QED
      BY <2>3, <3>1
  <2>4. DOMAIN parts = 1 .. N
    BY <2>1 DEF SamePattern
  <2>5. ASSUME NEW k \in 1 .. N
        PROVE  /\ cuts[k] <= cuts[k + 1]
               /\ parts[k] = SubSeq(s, cuts[k] + 1, cuts[k + 1])
    <3>1. cuts[k] \in 0 .. Len(s) /\ cuts[k + 1] \in 0 .. Len(s)
      BY <2>8
    <3>2. CASE tokens[k] = Wildcard
      <4> DEFINE number == Cardinality(Wildcards(tokens, k))
      <4>1. number \in 1 .. Cardinality(Wildcards(tokens, N))
        BY <2>1, <3>2, WildcardNumber
      <4>2. captures[number] = <<cuts[k], cuts[k + 1]>>
        BY <1>2, <2>1, <2>2, <3>2 DEF CapturesAreCuts
      <4>3. cuts[k] <= cuts[k + 1]
        <5>1. Takes(s, tokens, k, cuts[k], cuts[k + 1])
          BY <2>2
        <5> QED
          BY <2>1, <3>1, <3>2, <5>1 DEF Takes, FirstFrom
      <4>4. SamePattern[k].capture = number /\ number # 0
        BY <2>1, <3>2, <4>1 DEF SamePattern
      <4>5. parts[k] = Text(captures[number])
        BY <2>4, <4>4
      <4> HIDE DEF number, parts
      <4>6. Text(captures[number]) = SubSeq(s, cuts[k] + 1, cuts[k + 1])
        <5> DEFINE capture == captures[number]
        <5>1. capture[1] = cuts[k] /\ capture[2] = cuts[k + 1]
          BY <4>2
        <5> HIDE DEF capture
        <5>2. Text(capture) = SubSeq(s, cuts[k] + 1, cuts[k + 1])
          BY <5>1 DEF Text
        <5> QED
          BY <5>2 DEF capture
      <4> QED
        BY <4>3, <4>5, <4>6
    <3>3. CASE tokens[k] # Wildcard
      <4>1. OccursAt(s, tokens[k], cuts[k]) /\ cuts[k + 1] = cuts[k] + Len(tokens[k])
        BY <2>2, <3>3 DEF Takes
      <4>2. tokens[k] \in Seq(Character) /\ Len(tokens[k]) \in Nat
        BY <2>1
      <4>3. parts[k] = tokens[k]
        BY <2>1, <2>4, <3>3 DEF SamePattern
      <4> DEFINE piece == SubSeq(s, cuts[k] + 1, cuts[k + 1])
      <4>4. /\ piece \in Seq(Character) /\ Len(piece) = Len(tokens[k])
            /\ \A m \in 1 .. Len(tokens[k]) : piece[m] = s[cuts[k] + m]
        <5>1. /\ cuts[k] + 1 \in Int /\ cuts[k + 1] \in Int
              /\ \A m \in cuts[k] + 1 .. cuts[k + 1] : s[m] \in Character
          BY <2>1, <3>1
        <5>2. /\ piece \in Seq(Character)
              /\ Len(piece) = IF cuts[k] + 1 <= cuts[k + 1] THEN cuts[k + 1] - (cuts[k] + 1) + 1 ELSE 0
              /\ \A m \in 1 .. cuts[k + 1] - (cuts[k] + 1) + 1 : piece[m] = s[cuts[k] + 1 + m - 1]
          BY <5>1, SubSeqProperties
        <5> HIDE DEF piece
        <5>3. Len(tokens[k]) = cuts[k + 1] - (cuts[k] + 1) + 1 /\ cuts[k] \in Nat
          BY <3>1, <4>1, <4>2
        <5>4. Len(piece) = Len(tokens[k])
          BY <3>1, <4>1, <4>2, <5>2, <5>3
        <5>5. \A m \in 1 .. Len(tokens[k]) : cuts[k] + 1 + m - 1 = cuts[k] + m
          BY <4>2, <5>3
        <5>6. \A m \in 1 .. Len(tokens[k]) : piece[m] = s[cuts[k] + m]
          BY <5>2, <5>3, <5>5
        <5> QED
          BY <5>2, <5>4, <5>6
      <4>5. piece = tokens[k]
        <5>1. \A m \in 1 .. Len(tokens[k]) : piece[m] = tokens[k][m]
          BY <4>1, <4>4 DEF OccursAt
        <5> HIDE DEF piece
        <5> QED
          BY <4>2, <4>4, <5>1
      <4>6. cuts[k] <= cuts[k + 1]
        BY <3>1, <4>1, <4>2
      <4> HIDE DEF parts
      <4> QED
        BY <4>3, <4>5, <4>6
    <3> QED
      BY <3>2, <3>3
  <2>6. parts \in Seq(Seq(Character))
    <3>1. ASSUME NEW k \in 1 .. N PROVE parts[k] \in Seq(Character)
      <4>1. cuts[k] \in 0 .. Len(s) /\ cuts[k + 1] \in 0 .. Len(s)
        BY <2>8
      <4>2. SubSeq(s, cuts[k] + 1, cuts[k + 1]) \in Seq(Character)
        BY <2>1, <4>1
      <4> QED
        BY <2>5, <4>2
    <3>2. parts = [k \in 1 .. N |-> parts[k]]
      BY <2>4
    <3> HIDE DEF parts
    <3> QED
      BY <2>1, <3>1, <3>2
  <2> HIDE DEF parts
  <2>7. FlattenSeq(parts) = s
    BY <2>1, <2>2, <2>3, <2>4, <2>5, <2>6, CutsRejoin
  <2> QED
    BY <2>7 DEF buildReplacement, parts
<1> QED
  BY <1>1, <1>2, NextKeepsCaptures, MatcherInvariant, PTL DEF Spec
=============================================================================
