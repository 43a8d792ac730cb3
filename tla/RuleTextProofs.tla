----------------------------- MODULE RuleTextProofs -----------------------------
(***************************************************************************)
(* Whatever parseRules accepts of any text, written by any writers, is     *)
(* safe to apply.  From below: the scanners move forward and make tokens,  *)
(* flush leaves no literals side by side, and parseScope, parseBody and    *)
(* parseEntry accept nothing that is empty.  Each recursive definition is  *)
(* unrolled with the lemmas of Induction.                                  *)
(***************************************************************************)
EXTENDS RuleTextProperties, Induction, SequenceTheorems

(* The tokens with captures up to c.                                       *)
TokensUpTo(c) ==
  {t \in [literal : Seq(STRING), capture : 0 .. c] : t.literal = <<>> <=> t.capture # 0}

(* Tokens with no two literals in a row.                                   *)
Flushed(c) ==
  {tokens \in Seq(TokensUpTo(c)) :
     \A k \in 2 .. Len(tokens) : tokens[k].capture # 0 \/ tokens[k - 1].capture # 0}

(* flush adds a token so that no two literals are neighbours.              *)
LEMMA JoinFlushes ==
  ASSUME NEW c \in Nat, NEW token \in TokensUpTo(c), NEW rest \in Flushed(c)
  PROVE  Join(token, rest) \in Flushed(c) /\ Join(token, rest) # <<>>
<1> DEFINE n == Len(rest)
           out == Join(token, rest)
<1>0. rest \in Seq(TokensUpTo(c)) /\ n \in Nat /\ (rest # <<>> <=> n > 0)
  BY DEF Flushed
<1>1. CASE rest # <<>> /\ token.capture = 0 /\ rest[1].capture = 0
  <2> DEFINE both == [rest[1] EXCEPT !.literal = token.literal \o @]
  <2>1. rest[1] \in TokensUpTo(c) /\ n > 0 /\ 1 \in 1 .. n
    BY <1>0, <1>1
  <2>2. both \in TokensUpTo(c) /\ both.capture = 0
    <3>1. rest[1].literal \in Seq(STRING) /\ token.literal \in Seq(STRING) /\ token.literal # <<>>
      BY <1>1, <2>1 DEF TokensUpTo
    <3>2. token.literal \o rest[1].literal \in Seq(STRING) \ {<<>>}
      BY <3>1
    <3> QED
      BY <1>1, <2>1, <3>2 DEF TokensUpTo
  <2>3. out = [rest EXCEPT ![1] = both]
    BY <1>1 DEF Join
  <2> HIDE DEF both, out
  <2>4. out \in Seq(TokensUpTo(c)) /\ Len(out) = n /\ out[1] = both /\ \A k \in 2 .. n : out[k] = rest[k]
    BY <1>0, <2>1, <2>2, <2>3
  <2>5. ASSUME NEW k \in 2 .. n PROVE out[k].capture # 0 \/ out[k - 1].capture # 0
    <3>1. rest[k].capture # 0 \/ rest[k - 1].capture # 0
      BY DEF Flushed
    <3>2. CASE k = 2
      BY <1>1, <2>4, <3>1, <3>2
    <3>3. CASE k # 2
      <4>1. k - 1 \in 2 .. n
        BY <1>0, <3>3
      <4> QED
        BY <2>4, <3>1, <4>1
    <3> QED
      BY <3>2, <3>3
  <2> QED
    BY <2>1, <2>4, <2>5 DEF Flushed, out
<1>2. CASE ~(rest # <<>> /\ token.capture = 0 /\ rest[1].capture = 0)
  <2>1. out = <<token>> \o rest
    BY <1>2 DEF Join
  <2> HIDE DEF out
  <2>2. /\ out \in Seq(TokensUpTo(c)) /\ Len(out) = n + 1 /\ out[1] = token
        /\ \A k \in 2 .. n + 1 : out[k] = rest[k - 1]
    BY <1>0, <2>1
  <2>3. ASSUME NEW k \in 2 .. n + 1 PROVE out[k].capture # 0 \/ out[k - 1].capture # 0
    <3>1. CASE k = 2
      BY <1>0, <1>2, <2>2, <3>1
    <3>2. CASE k # 2
      <4>1. k - 1 \in 2 .. n /\ k - 1 \in 2 .. n + 1
        BY <1>0, <3>2
      <4>2. rest[k - 1].capture # 0 \/ rest[k - 1 - 1].capture # 0
        BY <4>1 DEF Flushed
      <4> QED
        BY <2>2, <4>1, <4>2
    <3> QED
      BY <3>1, <3>2
  <2> QED
    BY <1>0, <2>2, <2>3 DEF Flushed, out
<1> QED
  BY <1>1, <1>2

(* What stands at each place of a text of length L: tokens with captures   *)
(* up to c, each read further to the right.                                *)
ReadsTokens(L, at, c) ==
  /\ L \in Nat /\ c \in Nat
  /\ \A i \in 1 .. L : \A read \in at[i] :
       read.token \in TokensUpTo(c) /\ read.next \in i + 1 .. L + 1

(* The tokens from place i on, made of those further to the right.         *)
TokensFrom(L, at, i, later) ==
  IF i > L THEN {<<>>}
  ELSE UNION {{Join(read.token, rest) : rest \in later[read.next]} : read \in at[i]}

(* No two literals are neighbours, and there are tokens unless the text    *)
(* has ended.                                                              *)
LEMMA TokensFromType ==
  ASSUME NEW L, NEW at, NEW c, ReadsTokens(L, at, c), NEW i \in 1 .. L + 1, NEW later,
         \A e \in i + 1 .. L + 1 : later[e] \in SUBSET Flushed(c)
  PROVE  /\ TokensFrom(L, at, i, later) \in SUBSET Flushed(c)
         /\ i <= L => <<>> \notin TokensFrom(L, at, i, later)
<1>1. CASE i > L
  <2>1. <<>> \in Flushed(c)
    BY DEF Flushed
  <2> QED
    BY <1>1, <2>1 DEF TokensFrom, ReadsTokens
<1>2. CASE ~(i > L)
  <2>1. ASSUME NEW read \in at[i], NEW rest \in later[read.next]
        PROVE  Join(read.token, rest) \in Flushed(c) \ {<<>>}
    <3>1. i \in 1 .. L /\ c \in Nat
      BY <1>2 DEF ReadsTokens
    <3>2. read.token \in TokensUpTo(c) /\ read.next \in i + 1 .. L + 1
      BY <3>1 DEF ReadsTokens
    <3>3. rest \in Flushed(c)
      BY <3>2
    <3> QED
      BY <3>1, <3>2, <3>3, JoinFlushes
  <2>2. \A t \in TokensFrom(L, at, i, later) :
           \E read \in at[i] : \E rest \in later[read.next] : t = Join(read.token, rest)
    BY <1>2 DEF TokensFrom
  <2>3. \A t \in TokensFrom(L, at, i, later) : t \in Flushed(c) \ {<<>>}
    BY <2>1, <2>2
  <2> QED
    BY <2>3
<1> QED
  BY <1>1, <1>2

(* The tokens from each place on.                                          *)
TokensAt(L, at, c, f) ==
  /\ f \in [1 .. L + 1 -> SUBSET Flushed(c)]
  /\ \A i \in 1 .. L + 1 : f[i] = TokensFrom(L, at, i, f)
  /\ Tokens(L, at) = f[1]

(* There are such tokens, and Tokens is those from the first place on.     *)
LEMMA TokensSolved ==
  ASSUME NEW L, NEW at, NEW c, ReadsTokens(L, at, c)
  PROVE  \E f : TokensAt(L, at, c, f)
<1> DEFINE D == 1 .. L + 1
           T == SUBSET Flushed(c)
           rank == [i \in D |-> L + 1 - i]
           step == [i \in D |-> [later \in [D -> T] |-> TokensFrom(L, at, i, later)]]
           Equation(f) == f = [i \in D |-> IF i > L THEN {<<>>}
                                  ELSE UNION {{Join(read.token, rest) : rest \in f[read.next]} :
                                                read \in at[i]}]
           tokens == CHOOSE f : Equation(f)
<1>0. L \in Nat /\ c \in Nat
  BY DEF ReadsTokens
<1>1. \A i \in D : i + 1 .. L + 1 \subseteq D
  BY <1>0
<1>2. Recursion(D, T, L, rank, step)
  <2>1. rank \in [D -> 0 .. L]
    BY <1>0
  <2>2. step \in [D -> [[D -> T] -> T]]
    <3>1. ASSUME NEW i \in D, NEW later \in [D -> T] PROVE TokensFrom(L, at, i, later) \in T
      <4>1. \A e \in i + 1 .. L + 1 : later[e] \in T
        BY <1>1
      <4> QED
        BY <4>1, TokensFromType
    <3> HIDE DEF D, T
    <3> QED
      BY <3>1
  <2>3. ASSUME NEW i \in D, NEW g \in [D -> T], NEW h \in [D -> T],
               \A e \in D : rank[e] < rank[i] => g[e] = h[e]
        PROVE  step[i][g] = step[i][h]
    <3>1. \A e \in i + 1 .. L + 1 : g[e] = h[e]
      <4>1. \A e \in i + 1 .. L + 1 : e \in D /\ rank[e] < rank[i]
        BY <1>0
      <4> QED
        BY <2>3, <4>1
    <3>2. TokensFrom(L, at, i, g) = TokensFrom(L, at, i, h)
      <4>1. CASE i > L
        BY <4>1 DEF TokensFrom
      <4>2. CASE ~(i > L)
        <5>1. i \in 1 .. L
          BY <1>0, <4>2
        <5>2. \A read \in at[i] : g[read.next] = h[read.next]
          BY <3>1, <5>1 DEF ReadsTokens
        <5> DEFINE Some(read, later) == {Join(read.token, rest) : rest \in later[read.next]}
        <5>3. \A read \in at[i] : Some(read, g) = Some(read, h)
          BY <5>2
        <5>4. \A later : TokensFrom(L, at, i, later) = UNION {Some(read, later) : read \in at[i]}
          BY <4>2 DEF TokensFrom
        <5> HIDE DEF Some
        <5>5. {Some(read, g) : read \in at[i]} = {Some(read, h) : read \in at[i]}
          BY <5>3
        <5> QED
          BY <5>4, <5>5
      <4> QED
        BY <4>1, <4>2
    <3>3. step[i][g] = TokensFrom(L, at, i, g) /\ step[i][h] = TokensFrom(L, at, i, h)
      <4> HIDE DEF D, T
      <4> QED
        OBVIOUS
    <3> QED
      BY <3>2, <3>3
  <2>4. T # {}
    OBVIOUS
  <2> HIDE DEF D, T, rank, step
  <2> QED
    BY <1>0, <2>1, <2>2, <2>3, <2>4 DEF Recursion
<1>3. \E f : Equation(f)
  <2>1. PICK f : Solution(D, T, step, f)
    <3> HIDE DEF D, T, rank, step
    <3> QED
      BY <1>2, RecursionSolved
  <2>2. f \in [D -> T] /\ \A i \in D : f[i] = TokensFrom(L, at, i, f)
    <3> HIDE DEF D, T
    <3>1. f \in [D -> T] /\ \A i \in D : f[i] = step[i][f]
      <4> HIDE DEF step
      <4> QED
        BY <2>1 DEF Solution
    <3> QED
      BY <3>1
  <2>3. Equation(f)
    <3>1. f = [i \in D |-> f[i]]
      <4> HIDE DEF D, T
      <4> QED
        BY <2>2
    <3> HIDE DEF D
    <3> QED
      BY <2>2, <3>1, Zenon DEF TokensFrom
  <2> QED
    BY <2>3
<1>4. Equation(tokens)
  <2> HIDE DEF Equation
  <2> QED
    BY <1>3
<1>5. Tokens(L, at) = tokens[1]
  BY DEF Tokens
<1> HIDE DEF tokens
<1>6. \A i \in D : tokens[i] = TokensFrom(L, at, i, tokens)
  <2> HIDE DEF D
  <2> QED
    BY <1>4 DEF TokensFrom
<1>7. tokens = [i \in D |-> tokens[i]]
  <2> HIDE DEF D
  <2> QED
    BY <1>4
<1> HIDE DEF Equation
<1> DEFINE S == {i \in D : tokens[i] \in T}
<1>8. D \subseteq S
  <2>1. rank \in [D -> 0 .. L]
    BY <1>0
  <2>2. ASSUME NEW i \in D, \A e \in D : rank[e] < rank[i] => e \in S PROVE i \in S
    <3>1. \A e \in i + 1 .. L + 1 : e \in D /\ rank[e] < rank[i]
      BY <1>0
    <3>2. \A e \in i + 1 .. L + 1 : tokens[e] \in T
      BY <2>2, <3>1
    <3>3. tokens[i] \in T
      BY <1>6, <3>2, TokensFromType
    <3> QED
      BY <3>3
  <2> HIDE DEF D, S, rank
  <2> QED
    BY <1>0, <2>1, <2>2, RankInduction
<1>9. tokens \in [D -> T]
  <2>1. tokens = [i \in D |-> tokens[i]]
    BY <1>7
  <2>2. \A i \in D : tokens[i] \in T
    BY <1>8
  <2> HIDE DEF D, T
  <2> QED
    BY <2>1, <2>2
<1> QED
  BY <1>5, <1>6, <1>9 DEF TokensAt

(* What is read from a text that is not empty is not empty, and no two     *)
(* literals are neighbours.                                                *)
LEMMA TokensAreFlushed ==
  ASSUME NEW L, NEW at, NEW c, ReadsTokens(L, at, c), L > 0, NEW out \in Tokens(L, at)
  PROVE  out \in Flushed(c) /\ out # <<>>
<1>1. PICK f : TokensAt(L, at, c, f)
  BY TokensSolved
<1>2. 1 \in 1 .. L + 1 /\ 1 <= L /\ \A e \in 1 + 1 .. L + 1 : e \in 1 .. L + 1
  BY DEF ReadsTokens
<1>3. f \in [1 .. L + 1 -> SUBSET Flushed(c)] /\ Tokens(L, at) = f[1] /\ f[1] = TokensFrom(L, at, 1, f)
  BY <1>1, <1>2 DEF TokensAt
<1>4. \A e \in 1 + 1 .. L + 1 : f[e] \in SUBSET Flushed(c)
  BY <1>2, <1>3
<1>5. /\ TokensFrom(L, at, 1, f) \in SUBSET Flushed(c)
      /\ 1 <= L => <<>> \notin TokensFrom(L, at, 1, f)
  BY <1>2, <1>4, TokensFromType
<1> QED
  BY <1>2, <1>3, <1>5

-----------------------------------------------------------------------------
(* A digit other than "0" is not zero.                                     *)
LEMMA DigitValue ==
  ASSUME NEW d \in DOMAIN Digit
  PROVE  Digit[d] \in 0 .. 9 /\ (d # "0" => Digit[d] # 0)
<1>0. DOMAIN Digits = 1 .. 10 /\ Digits[1] = "0"
  BY DEF Digits
<1>1. d \in {Digits[n] : n \in 1 .. 10}
  BY <1>0 DEF Digit, Range
<1> DEFINE place == CHOOSE n \in 1 .. 10 : Digits[n] = d
<1>2. place \in 1 .. 10 /\ Digits[place] = d
  <2> HIDE DEF Digits
  <2> QED
    BY <1>1
<1>3. Digit[d] = place - 1
  <2> HIDE DEF Digits
  <2> QED
    BY DEF Digit
<1> HIDE DEF place
<1> QED
  BY <1>0, <1>2, <1>3

(* The digits from a place on end somewhere in the text.                   *)
LEMMA NumberEnds ==
  ASSUME NEW s, Len(s) \in Nat, NEW i \in 1 .. Len(s) + 1
  PROVE  LET j == AfterNumber(s, i)
         IN /\ j \in i .. Len(s) + 1
            /\ \A k \in i .. j - 1 : s[k] \in DOMAIN Digit
            /\ j <= Len(s) => s[j] \notin DOMAIN Digit
            /\ BeginsNumber(s, i) => j > i
<1> DEFINE Ends(j) == j <= Len(s) => s[j] \notin DOMAIN Digit
           S == {j \in i .. Len(s) + 1 : Ends(j)}
           j == AfterNumber(s, i)
<1>1. Len(s) + 1 \in S /\ S \subseteq Nat
  OBVIOUS
<1>2. PICK m \in S : \A k \in S : m <= k
  <2> HIDE DEF S
  <2> QED
    BY <1>1, LeastNumber
<1>3. \A k \in i .. m - 1 : s[k] \in DOMAIN Digit
  <2> SUFFICES ASSUME NEW k \in i .. m - 1, s[k] \notin DOMAIN Digit PROVE FALSE
    OBVIOUS
  <2>1. k \in S /\ k < m
    OBVIOUS
  <2> QED
    BY <1>2, <2>1
<1>4. /\ j \in i .. Len(s) + 1
      /\ \A k \in i .. j - 1 : s[k] \in DOMAIN Digit
      /\ Ends(j)
  <2> HIDE DEF Digit
  <2> QED
    BY <1>2, <1>3 DEF AfterNumber
<1> HIDE DEF j
<1> QED
  BY <1>4 DEF BeginsNumber, j

(* What the first digits of a number are, and the next: never zero.        *)
Counted(s, i, v) ==
  /\ v \in [0 .. AfterNumber(s, i) - i -> Nat] /\ v[0] = 0
  /\ \A n \in 1 .. AfterNumber(s, i) - i :
       v[n] = 10 * v[n - 1] + Digit[s[i + n - 1]] /\ v[n] > 0

(* A number is counted digit by digit.                                     *)
LEMMA NumberSolved ==
  ASSUME NEW s, Len(s) \in Nat, NEW i \in 1 .. Len(s), BeginsNumber(s, i)
  PROVE  /\ AfterNumber(s, i) - i \in Nat \ {0}
         /\ \E v : Counted(s, i, v) /\ Number(s, i) = v[AfterNumber(s, i) - i]
<1> DEFINE M == AfterNumber(s, i) - i
           digit == [n \in 1 .. M |-> Digit[s[i + n - 1]]]
           step == [n \in 1 .. M |-> [v \in Nat |-> 10 * v + digit[n]]]
           Equation(f) == f = [n \in 0 .. M |-> IF n = 0 THEN 0
                                                ELSE 10 * f[n - 1] + Digit[s[i + n - 1]]]
           number == CHOOSE f : Equation(f)
<1>0. /\ M \in Nat /\ M >= 1
      /\ \A n \in 1 .. M : s[i + n - 1] \in DOMAIN Digit
  <2> DEFINE j == AfterNumber(s, i)
  <2>1. /\ j \in i .. Len(s) + 1 /\ j > i
        /\ \A k \in i .. j - 1 : s[k] \in DOMAIN Digit
    BY NumberEnds
  <2>2. M = j - i
    OBVIOUS
  <2> HIDE DEF j, M
  <2>3. \A n \in 1 .. M : i + n - 1 \in i .. j - 1
    BY <2>1, <2>2
  <2> QED
    BY <2>1, <2>2, <2>3
<1>1. \A n \in 1 .. M : digit[n] \in Nat
  BY <1>0, DigitValue
<1>2. digit[1] > 0
  <2>1. s[i] \in DOMAIN Digit /\ s[i] # "0"
    BY DEF BeginsNumber
  <2>2. 1 \in 1 .. M /\ i + 1 - 1 = i
    BY <1>0
  <2>3. digit[1] = Digit[s[i]]
    BY <2>2
  <2> QED
    BY <2>1, <2>3, DigitValue
<1>3. \A f : Equation(f) <=> f = [n \in 0 .. M |-> IF n = 0 THEN 0 ELSE 10 * f[n - 1] + digit[n]]
  <2>1. \A f : \A n \in 0 .. M : n # 0 => digit[n] = Digit[s[i + n - 1]]
    BY <1>0
  <2> HIDE DEF digit
  <2> QED
    BY <2>1
<1>4. Number(s, i) = number[M]
  BY DEF Number
<1> HIDE DEF M, digit
<1>5. Loop(M, Nat, 0, step)
  BY <1>0, <1>1 DEF Loop
<1>6. \E f : Equation(f)
  <2>1. PICK f : Unrolled(M, Nat, 0, step, f)
    <3> HIDE DEF step
    <3> QED
      BY <1>5, LoopSolved
  <2>2. f \in [0 .. M -> Nat] /\ f[0] = 0
    BY <2>1 DEF Unrolled
  <2>3. \A n \in 1 .. M : f[n] = 10 * f[n - 1] + digit[n]
    <3>1. \A n \in 1 .. M : f[n - 1] \in Nat
      BY <1>0, <2>2
    <3>2. \A n \in 1 .. M : f[n] = step[n][f[n - 1]]
      <4> HIDE DEF step
      <4> QED
        BY <2>1 DEF Unrolled
    <3> QED
      BY <3>1, <3>2
  <2>4. f = [n \in 0 .. M |-> IF n = 0 THEN 0 ELSE 10 * f[n - 1] + digit[n]]
    <3>1. f = [n \in 0 .. M |-> f[n]]
      BY <2>2
    <3>2. \A n \in 0 .. M : n = 0 \/ n \in 1 .. M
      BY <1>0
    <3> QED
      BY <2>2, <2>3, <3>1, <3>2, Zenon
  <2> HIDE DEF Equation
  <2> QED
    BY <1>3, <2>4
<1>7. number = [n \in 0 .. M |-> IF n = 0 THEN 0 ELSE 10 * number[n - 1] + digit[n]]
  <2>1. Equation(number)
    <3> HIDE DEF Equation
    <3> QED
      BY <1>6
  <2> HIDE DEF Equation, number
  <2> QED
    BY <1>3, <2>1
<1> HIDE DEF number
<1>8. number[0] = 0 /\ \A n \in 1 .. M : number[n] = 10 * number[n - 1] + digit[n]
  BY <1>0, <1>7
<1>9. number = [n \in 0 .. M |-> number[n]]
  BY <1>7
<1>10. \A n \in 1 .. M : number[n - 1] \in Nat => number[n] = step[n][number[n - 1]]
  BY <1>8
<1>11. number \in [0 .. M -> Nat]
  <2>1. Unrolled(M, Nat, 0, step, number)
    <3> HIDE DEF step
    <3> QED
      BY <1>5, <1>8, <1>9, <1>10, LoopUnique
  <2> QED
    BY <2>1 DEF Unrolled
<1> DEFINE S == {n \in 0 .. M - 1 : number[n + 1] > 0}
<1>12. 0 \in S
  <2>1. 1 \in 1 .. M /\ 1 - 1 = 0
    BY <1>0
  <2>2. number[1] = 10 * number[0] + digit[1]
    BY <1>8, <2>1
  <2> QED
    BY <1>0, <1>1, <1>2, <1>8, <2>1, <2>2
<1>13. ASSUME NEW n \in 0 .. (M - 1) - 1, n \in S PROVE n + 1 \in S
  <2>1. n + 1 + 1 \in 1 .. M /\ (n + 1 + 1) - 1 = n + 1 /\ n + 1 \in 0 .. M - 1 /\ n + 1 \in 0 .. M
    BY <1>0
  <2>2. number[n + 1 + 1] = 10 * number[n + 1] + digit[n + 1 + 1]
    BY <1>8, <2>1
  <2>3. number[n + 1] \in Nat /\ number[n + 1] > 0 /\ digit[n + 1 + 1] \in Nat
    BY <1>1, <1>11, <1>13, <2>1
  <2>4. number[n + 1 + 1] > 0
    BY <2>2, <2>3
  <2> QED
    BY <2>1, <2>4
<1>14. 0 .. M - 1 \subseteq S
  <2>1. M - 1 \in Nat
    BY <1>0
  <2> HIDE DEF S
  <2> QED
    BY <1>12, <1>13, <2>1, UpToInduction
<1>15. \A n \in 1 .. M : number[n] > 0
  <2> TAKE n \in 1 .. M
  <2>1. n - 1 \in 0 .. M - 1 /\ (n - 1) + 1 = n
    BY <1>0
  <2> QED
    BY <1>14, <2>1
<1>16. \A n \in 1 .. M : number[n] = 10 * number[n - 1] + Digit[s[i + n - 1]]
  <2>1. \A n \in 1 .. M : digit[n] = Digit[s[i + n - 1]]
    BY DEF digit
  <2> QED
    BY <1>8, <2>1
<1>17. Counted(s, i, number)
  BY <1>8, <1>11, <1>15, <1>16 DEF Counted, M
<1> QED
  BY <1>0, <1>4, <1>17 DEF M

(* A number that does not begin with "0" is not zero, however long it is.  *)
LEMMA NumberIsPositive ==
  ASSUME NEW s, Len(s) \in Nat, NEW i \in 1 .. Len(s), BeginsNumber(s, i)
  PROVE  Number(s, i) \in Nat \ {0}
<1> DEFINE M == AfterNumber(s, i) - i
<1>1. PICK v : Counted(s, i, v) /\ Number(s, i) = v[M]
  BY NumberSolved
<1>2. M \in Nat \ {0}
  BY NumberSolved
<1> HIDE DEF M
<1>3. M \in 0 .. M /\ M \in 1 .. M
  BY <1>2
<1>4. v[M] \in Nat /\ v[M] > 0
  BY <1>1, <1>3 DEF Counted, M
<1> QED
  BY <1>1, <1>4

-----------------------------------------------------------------------------
(* A sequence of one or two elements.                                      *)
LEMMA OneOrTwo ==
  ASSUME NEW S, NEW x \in S, NEW y \in S
  PROVE  /\ <<x>> \in Seq(S) /\ <<x>> # <<>>
         /\ <<x, y>> \in Seq(S) /\ <<x, y>> # <<>>
<1>1. <<x>> \in Seq(S) /\ <<x, y>> \in Seq(S)
  OBVIOUS
<1>2. Len(<<x>>) = 1 /\ Len(<<x, y>>) = 2 /\ Len(<<>>) = 0
  OBVIOUS
<1> QED
  BY <1>1, <1>2, Zenon

(* What a scanner reads at a place is a token: characters,                 *)
LEMMA LiteralIsToken ==
  ASSUME NEW c \in Nat, NEW chars \in Seq(STRING), chars # <<>>
  PROVE  Literal(chars) \in TokensUpTo(c)
<1>1. 0 \in 0 .. c
  OBVIOUS
<1> QED
  BY <1>1 DEF Literal, TokensUpTo

(* an escaped arrow,                                                       *)
LEMMA ArrowIsToken ==
  ASSUME NEW c \in Nat, NEW s \in Seq(STRING), NEW i \in 1 .. Len(s), IsArrow(s, i + 1)
  PROVE  Literal(<<"=", ">">>) \in TokensUpTo(c)
<1>1. i + 1 \in 1 .. Len(s) /\ i + 1 + 1 \in 1 .. Len(s) /\ s[i + 1] = "=" /\ s[i + 1 + 1] = ">"
  BY DEF IsArrow
<1>2. s[i + 1] \in STRING /\ s[i + 1 + 1] \in STRING
  BY <1>1
<1>3. <<s[i + 1], s[i + 1 + 1]>> \in Seq(STRING) /\ <<s[i + 1], s[i + 1 + 1]>> # <<>>
  BY <1>2, OneOrTwo, Zenon
<1>4. Literal(<<s[i + 1], s[i + 1 + 1]>>) \in TokensUpTo(c)
  BY <1>3, LiteralIsToken, Zenon
<1> QED
  BY <1>1, <1>4

(* and a capture.                                                          *)
LEMMA CaptureIsToken ==
  ASSUME NEW c \in Nat, NEW n \in 1 .. c
  PROVE  Capture(n) \in TokensUpTo(c)
BY DEF Capture, TokensUpTo

(* What stands at a place of a pattern is a token, and what stands at one  *)
(* of a replacement for c captures names one of them.                      *)
LEMMA PatternIsRead ==
  ASSUME NEW s \in Seq(STRING)
  PROVE  ReadsTokens(Len(s), [i \in DOMAIN s |-> FindToken(s, i)], 1)
<1> SUFFICES ASSUME NEW i \in 1 .. Len(s), NEW read \in FindToken(s, i)
             PROVE  read.token \in TokensUpTo(1) /\ read.next \in i + 1 .. Len(s) + 1
  BY DEF ReadsTokens
<1>0. /\ Len(s) \in Nat /\ s[i] \in STRING
      /\ i + 1 \in 1 .. Len(s) => s[i + 1] \in STRING
  OBVIOUS
<1>1. CASE s[i] = "*"
  <2>1. read = [token |-> Capture(1), next |-> i + 1]
    BY <1>1 DEF FindToken, Read
  <2>2. Capture(1) \in TokensUpTo(1)
    BY CaptureIsToken
  <2> QED
    BY <1>0, <2>1, <2>2
<1>2. CASE s[i] # "*" /\ s[i] # "\\"
  <2>1. read = [token |-> Literal(<<s[i]>>), next |-> i + 1]
    BY <1>2 DEF FindToken, Read
  <2>2. Literal(<<s[i]>>) \in TokensUpTo(1)
    BY <1>0, OneOrTwo, LiteralIsToken, Zenon
  <2> QED
    BY <1>0, <2>1, <2>2
<1>3. CASE s[i] = "\\" /\ IsArrow(s, i + 1)
  <2>1. read = [token |-> Literal(<<"=", ">">>), next |-> i + 3] /\ i + 2 <= Len(s)
    BY <1>0, <1>3 DEF FindToken, Read, IsArrow
  <2>2. Literal(<<"=", ">">>) \in TokensUpTo(1)
    BY <1>3, ArrowIsToken
  <2> QED
    BY <1>0, <2>1, <2>2
<1>4. CASE s[i] = "\\" /\ ~IsArrow(s, i + 1)
  <2>1. read = [token |-> Literal(<<s[i + 1]>>), next |-> i + 2] /\ i < Len(s)
    BY <1>4 DEF FindToken, Read
  <2>2. Literal(<<s[i + 1]>>) \in TokensUpTo(1)
    <3>1. s[i + 1] \in STRING
      BY <1>0, <2>1
    <3> QED
      BY <3>1, OneOrTwo, LiteralIsToken, Zenon
  <2> QED
    BY <1>0, <2>1, <2>2
<1> QED
  BY <1>1, <1>2, <1>3, <1>4

(* A capture of a replacement is never 0 nor above c.                      *)
LEMMA ReplacementIsRead ==
  ASSUME NEW s \in Seq(STRING), NEW c \in Nat
  PROVE  ReadsTokens(Len(s), [i \in DOMAIN s |-> ReplaceToken(s, i, c)], c)
<1> SUFFICES ASSUME NEW i \in 1 .. Len(s), NEW read \in ReplaceToken(s, i, c)
             PROVE  read.token \in TokensUpTo(c) /\ read.next \in i + 1 .. Len(s) + 1
  BY DEF ReadsTokens
<1>0. /\ Len(s) \in Nat /\ s[i] \in STRING
      /\ i + 1 \in 1 .. Len(s) => s[i + 1] \in STRING
  OBVIOUS
<1>1. CASE s[i] = "$"
  <2>1. /\ read = [token |-> Capture(Number(s, i + 1)), next |-> AfterNumber(s, i + 1)]
        /\ BeginsNumber(s, i + 1) /\ Number(s, i + 1) <= c
    BY <1>1 DEF ReplaceToken, Read
  <2>2. i + 1 \in 1 .. Len(s)
    BY <1>0, <2>1 DEF BeginsNumber
  <2>3. Number(s, i + 1) \in 1 .. c
    <3>1. Number(s, i + 1) \in Nat \ {0}
      BY <1>0, <2>1, <2>2, NumberIsPositive
    <3> QED
      BY <2>1, <3>1
  <2>4. AfterNumber(s, i + 1) \in i + 1 .. Len(s) + 1
    <3>1. i + 1 \in 1 .. Len(s) + 1
      BY <1>0, <2>2
    <3> QED
      BY <1>0, <3>1, NumberEnds
  <2>5. Capture(Number(s, i + 1)) \in TokensUpTo(c)
    BY <2>3, CaptureIsToken
  <2> QED
    BY <2>1, <2>4, <2>5
<1>2. CASE s[i] # "$" /\ s[i] # "\\"
  <2>1. read = [token |-> Literal(<<s[i]>>), next |-> i + 1]
    BY <1>2 DEF ReplaceToken, Read
  <2>2. Literal(<<s[i]>>) \in TokensUpTo(c)
    BY <1>0, OneOrTwo, LiteralIsToken, Zenon
  <2> QED
    BY <1>0, <2>1, <2>2
<1>3. CASE s[i] = "\\" /\ IsArrow(s, i + 1)
  <2>1. read = [token |-> Literal(<<"=", ">">>), next |-> i + 3] /\ i + 2 <= Len(s)
    BY <1>0, <1>3 DEF ReplaceToken, Read, IsArrow
  <2>2. Literal(<<"=", ">">>) \in TokensUpTo(c)
    BY <1>3, ArrowIsToken
  <2> QED
    BY <1>0, <2>1, <2>2
<1>4. CASE s[i] = "\\" /\ ~IsArrow(s, i + 1)
  <2>1. read = [token |-> Literal(<<s[i + 1]>>), next |-> i + 2] /\ i < Len(s)
    BY <1>4 DEF ReplaceToken, Read
  <2>2. Literal(<<s[i + 1]>>) \in TokensUpTo(c)
    <3>1. s[i + 1] \in STRING
      BY <1>0, <2>1
    <3> QED
      BY <3>1, OneOrTwo, LiteralIsToken, Zenon
  <2> QED
    BY <1>0, <2>1, <2>2
<1> QED
  BY <1>1, <1>2, <1>3, <1>4

(* Tokens without neighbouring literals are what the loops of the matcher  *)
(* can tell apart.                                                         *)
LEMMA FlushedIsWellFormed ==
  ASSUME NEW c, NEW tokens \in Flushed(c), tokens # <<>>
  PROVE  WellFormed(tokens)
<1>1. tokens \in Seq(TokensUpTo(c)) /\ Len(tokens) \in Nat
  BY DEF Flushed
<1>2. ASSUME NEW k \in DOMAIN tokens
      PROVE  /\ tokens[k].literal = <<>> <=> tokens[k].capture # 0
             /\ k > 1 => tokens[k].capture # 0 \/ tokens[k - 1].capture # 0
  <2>1. tokens[k] \in TokensUpTo(c) /\ k \in 1 .. Len(tokens)
    BY <1>1
  <2>2. k > 1 => k \in 2 .. Len(tokens)
    BY <1>1, <2>1
  <2> QED
    BY <2>1, <2>2 DEF Flushed, TokensUpTo
<1> QED
  BY <1>2 DEF WellFormed

(* parseFind and parseReplace refuse a text or make well-formed tokens of  *)
(* it.                                                                     *)
LEMMA FindIsWellFormed ==
  ASSUME NEW s \in Seq(STRING), s # <<>>, NEW tokens \in parseFind(s)
  PROVE  WellFormed(tokens) /\ tokens \in Seq(TokensUpTo(1))
<1>1. Len(s) > 0
  OBVIOUS
<1>2. tokens \in Flushed(1) /\ tokens # <<>>
  BY <1>1, PatternIsRead, TokensAreFlushed DEF parseFind
<1> QED
  BY <1>2, FlushedIsWellFormed DEF Flushed

(* In a replacement for c captures no token names another.                 *)
LEMMA ReplaceIsWellFormed ==
  ASSUME NEW s \in Seq(STRING), s # <<>>, NEW c \in Nat, NEW tokens \in parseReplace(s, c)
  PROVE  WellFormed(tokens) /\ tokens \in Seq(TokensUpTo(c))
<1>1. Len(s) > 0
  OBVIOUS
<1>2. tokens \in Flushed(c) /\ tokens # <<>>
  BY <1>1, ReplacementIsRead, TokensAreFlushed DEF parseReplace
<1> QED
  BY <1>2, FlushedIsWellFormed DEF Flushed

(* A sequence of tokens without captures has literals only.                *)
LEMMA CapturesCounted ==
  ASSUME NEW T, NEW tokens \in Seq(T)
  PROVE  Captures(tokens) \in Nat /\ (Captures(tokens) = 0 => \A k \in DOMAIN tokens : tokens[k].capture = 0)
<1> DEFINE S == {k \in DOMAIN tokens : tokens[k].capture # 0}
<1>1. IsFiniteSet(S)
  <2>1. IsFiniteSet(1 .. Len(tokens)) /\ DOMAIN tokens = 1 .. Len(tokens)
    BY FS_Interval
  <2> QED
    BY <2>1, FS_Subset
<1>2. Cardinality(S) \in Nat /\ (Cardinality(S) = 0 <=> S = {})
  BY <1>1, FS_CardinalityType, FS_EmptySet
<1>3. S = {} => \A k \in DOMAIN tokens : tokens[k].capture = 0
  OBVIOUS
<1> HIDE DEF S
<1> QED
  BY <1>2, <1>3 DEF Captures, S

-----------------------------------------------------------------------------
(* A part of a sequence.                                                   *)
LEMMA PartIsSequence ==
  ASSUME NEW S, NEW s \in Seq(S), NEW m \in Nat \ {0}, NEW n \in Int, n <= Len(s)
  PROVE  SubSeq(s, m, n) \in Seq(S)
<1>1. Len(s) \in Nat /\ \A i \in 1 .. Len(s) : s[i] \in S
  OBVIOUS
<1>2. \A i \in m .. n : i \in 1 .. Len(s)
  BY <1>1
<1>3. \A i \in m .. n : s[i] \in S
  BY <1>1, <1>2
<1>4. m \in Int
  OBVIOUS
<1> QED
  BY <1>3, <1>4, SubSeqProperties

(* What the scan of Pieces knows at a place of s.                          *)
Cut(s, cuts, i, scanned) ==
  IF i \in cuts
  THEN [done |-> Append(scanned.done, FromTo(s, scanned.start, i)), start |-> i + 1]
  ELSE scanned

CutSteps(S, s, cuts) ==
  [i \in 1 .. Len(s) |->
     [scanned \in [done : Seq(Seq(S)), start : 1 .. Len(s) + 1] |-> Cut(s, cuts, i, scanned)]]

(* What Pieces knows at each place.                                        *)
Scanned(S, s, cuts, scan) ==
  /\ scan \in [0 .. Len(s) -> [done : Seq(Seq(S)), start : 1 .. Len(s) + 1]]
  /\ scan[0] = [done |-> <<>>, start |-> 1]
  /\ \A i \in 1 .. Len(s) : scan[i] = Cut(s, cuts, i, scan[i - 1])
  /\ Pieces(s, cuts) = Append(scan[Len(s)].done, FromTo(s, scan[Len(s)].start, Len(s) + 1))

(* The scan of Pieces is such a scan.                                      *)
LEMMA PiecesScanned ==
  ASSUME NEW S, NEW s \in Seq(S), NEW cuts
  PROVE  \E scan : Scanned(S, s, cuts, scan)
<1> DEFINE N == Len(s)
           T == [done : Seq(Seq(S)), start : 1 .. Len(s) + 1]
           base == [done |-> <<>>, start |-> 1]
           step == CutSteps(S, s, cuts)
           Equation(f) ==
             f = [i \in 0 .. N |-> IF i = 0 THEN [done |-> <<>>, start |-> 1]
                    ELSE IF i \in cuts
                    THEN [done |-> Append(f[i - 1].done, FromTo(s, f[i - 1].start, i)), start |-> i + 1]
                    ELSE f[i - 1]]
           scan == CHOOSE f : Equation(f)
<1>0. N \in Nat
  OBVIOUS
<1>1. ASSUME NEW i \in 1 .. N, NEW scanned \in T PROVE Cut(s, cuts, i, scanned) \in T
  <2>1. /\ scanned.start \in Nat \ {0} /\ i - 1 \in Int /\ i - 1 <= Len(s)
        /\ i + 1 \in 1 .. Len(s) + 1 /\ scanned.done \in Seq(Seq(S))
    BY <1>0
  <2>2. FromTo(s, scanned.start, i) \in Seq(S)
    BY <2>1, PartIsSequence DEF FromTo
  <2>3. Append(scanned.done, FromTo(s, scanned.start, i)) \in Seq(Seq(S))
    BY <2>1, <2>2
  <2> QED
    BY <2>1, <2>3 DEF Cut
<1>2. Loop(N, T, base, step)
  <2>1. base \in T
    BY <1>0
  <2>2. step \in [1 .. N -> [T -> T]]
    BY <1>1 DEF CutSteps
  <2> HIDE DEF T, base, step
  <2> QED
    BY <1>0, <2>1, <2>2 DEF Loop
<1>3. \E f : Equation(f)
  <2>1. PICK f : Unrolled(N, T, base, step, f)
    <3> HIDE DEF T, base, step
    <3> QED
      BY <1>2, LoopSolved
  <2>2. f \in [0 .. N -> T] /\ f[0] = base
    <3> HIDE DEF T, base, step
    <3> QED
      BY <2>1 DEF Unrolled
  <2>3. \A i \in 1 .. N : f[i] = Cut(s, cuts, i, f[i - 1])
    <3>0. \A i \in 1 .. N : i - 1 \in 0 .. N
      BY <1>0
    <3>1. \A i \in 1 .. N : f[i - 1] \in T
      <4> HIDE DEF T, N
      <4> QED
        BY <2>2, <3>0
    <3>2. \A i \in 1 .. N : f[i] = step[i][f[i - 1]]
      <4> HIDE DEF T, base, step
      <4> QED
        BY <2>1 DEF Unrolled
    <3> QED
      BY <3>1, <3>2 DEF CutSteps
  <2>4. Equation(f)
    <3>1. f = [i \in 0 .. N |-> f[i]]
      <4> HIDE DEF T
      <4> QED
        BY <2>2
    <3>2. \A i \in 0 .. N : i = 0 \/ i \in 1 .. N
      BY <1>0
    <3> HIDE DEF T, N
    <3> QED
      BY <2>2, <2>3, <3>1, <3>2, Zenon DEF Cut
  <2> QED
    BY <2>4
<1>4. Equation(scan)
  <2> HIDE DEF Equation
  <2> QED
    BY <1>3
<1> HIDE DEF scan
<1>5. scan = [i \in 0 .. N |-> scan[i]]
  BY <1>4
<1>6. scan[0] = base
  BY <1>0, <1>4
<1>7. \A i \in 1 .. N : scan[i] = Cut(s, cuts, i, scan[i - 1])
  <2>1. \A i \in 1 .. N : i \in 0 .. N /\ i # 0
    BY <1>0
  <2> HIDE DEF N
  <2> QED
    BY <1>4, <2>1, Zenon DEF Cut
<1>8. \A i \in 1 .. N : scan[i - 1] \in T => scan[i] = step[i][scan[i - 1]]
  BY <1>7 DEF CutSteps
<1>9. scan \in [0 .. N -> T]
  <2>1. Unrolled(N, T, base, step, scan)
    <3> HIDE DEF T, base, step, Equation
    <3> QED
      BY <1>2, <1>5, <1>6, <1>8, LoopUnique
  <2> HIDE DEF T, base, step, Equation
  <2> QED
    BY <2>1 DEF Unrolled
<1>10. Pieces(s, cuts) = Append(scan[N].done, FromTo(s, scan[N].start, N + 1))
  BY DEF Pieces, scan, Equation
<1> HIDE DEF Equation
<1> QED
  BY <1>6, <1>7, <1>9, <1>10 DEF Scanned

(* The pieces of a sequence are sequences of its elements, and there is    *)
(* at least one.                                                           *)
LEMMA PiecesType ==
  ASSUME NEW S, NEW s \in Seq(S), NEW cuts
  PROVE  Pieces(s, cuts) \in Seq(Seq(S)) /\ Len(Pieces(s, cuts)) > 0
<1> DEFINE N == Len(s)
<1>1. PICK scan : Scanned(S, s, cuts, scan)
  BY PiecesScanned
<1> DEFINE done == scan[N].done
           piece == FromTo(s, scan[N].start, N + 1)
<1>2. done \in Seq(Seq(S)) /\ scan[N].start \in 1 .. N + 1
  <2>1. N \in 0 .. N
    OBVIOUS
  <2> QED
    BY <1>1, <2>1 DEF Scanned
<1>3. piece \in Seq(S)
  <2>1. scan[N].start \in Nat \ {0} /\ N + 1 - 1 \in Int /\ N + 1 - 1 <= Len(s)
    BY <1>2
  <2> QED
    BY <2>1, PartIsSequence DEF FromTo
<1>4. Pieces(s, cuts) = Append(done, piece)
  BY <1>1 DEF Scanned
<1> HIDE DEF done, piece
<1> QED
  BY <1>2, <1>3, <1>4

-----------------------------------------------------------------------------
(* splitEscaped refuses a text or cuts it into parts none of which is      *)
(* empty.                                                                  *)
LEMMA SplitIsWhole ==
  ASSUME NEW s \in Seq(STRING), NEW sep, NEW parts \in splitEscaped(s, sep)
  PROVE  /\ parts \in Seq(Seq(STRING)) /\ Len(parts) \in Nat \ {0}
         /\ \A k \in 1 .. Len(parts) : parts[k] \in Seq(STRING) /\ parts[k] # <<>>
<1> DEFINE cuts == {i \in DOMAIN s : s[i] = sep /\ ~Escaped(s)[i]}
<1>1. parts = Pieces(s, cuts) /\ \A k \in DOMAIN parts : parts[k] # <<>>
  <2> DEFINE all == Pieces(s, cuts)
             bad == Escaped(s)[Len(s) + 1] \/ \E k \in DOMAIN all : all[k] = <<>>
  <2>1. parts \in IF bad THEN {} ELSE {all}
    BY DEF splitEscaped
  <2>2. ~bad => \A k \in DOMAIN all : all[k] # <<>>
    OBVIOUS
  <2> HIDE DEF all, bad
  <2>3. parts = all /\ ~bad
    BY <2>1
  <2> QED
    BY <2>2, <2>3 DEF all
<1> HIDE DEF cuts
<1>2. parts \in Seq(Seq(STRING)) /\ Len(parts) > 0
  BY <1>1, PiecesType
<1>3. DOMAIN parts = 1 .. Len(parts) /\ Len(parts) \in Nat \ {0}
  BY <1>2
<1>4. \A k \in 1 .. Len(parts) : parts[k] \in Seq(STRING)
  BY <1>2
<1> QED
  BY <1>1, <1>2, <1>3, <1>4, Zenon

(* parseScope names a key that is not empty, or a pattern with wildcards.  *)
SafeScope(scope) ==
  /\ scope # Unscoped
  /\ scope.pattern # <<>> => WellFormed(scope.pattern) /\ Captures(scope.pattern) > 0
  /\ \A digest \in scope.exact : digest.sha256 # <<>>

(* An exact key is the literal of the first token, which is not empty.     *)
LEMMA ScopeIsSafe ==
  ASSUME NEW text \in Seq(STRING), text # <<>>, NEW scope \in parseScope(text)
  PROVE  SafeScope(scope)
<1>1. PICK key \in parseFind(text) \ {<<>>} :
        scope = IF Captures(key) = 0 THEN [Unscoped EXCEPT !.exact = {callerScope(key[1].literal)}]
                ELSE [Unscoped EXCEPT !.pattern = key]
  BY DEF parseScope
<1>2. WellFormed(key) /\ key \in Seq(TokensUpTo(1)) /\ key # <<>>
  BY <1>1, FindIsWellFormed
<1>3. Captures(key) \in Nat /\ (Captures(key) = 0 => \A k \in DOMAIN key : key[k].capture = 0)
  BY <1>2, CapturesCounted
<1>4. CASE Captures(key) = 0
  <2>1. 1 \in DOMAIN key
    BY <1>2
  <2>2. key[1].literal # <<>>
    BY <1>2, <1>3, <1>4, <2>1 DEF WellFormed
  <2>3. scope.pattern = <<>> /\ scope.exact = {[sha256 |-> key[1].literal]} /\ Unscoped.exact = {}
    BY <1>1, <1>4 DEF Unscoped, callerScope
  <2>4. scope # Unscoped
    BY <2>3
  <2> QED
    BY <2>2, <2>3, <2>4 DEF SafeScope
<1>5. CASE Captures(key) # 0
  <2>1. scope.pattern = key /\ scope.exact = {} /\ Unscoped.pattern = <<>>
    BY <1>1, <1>5 DEF Unscoped
  <2>2. scope # Unscoped
    BY <1>2, <2>1
  <2> QED
    BY <1>2, <1>3, <1>5, <2>1, <2>2 DEF SafeScope
<1> QED
  BY <1>4, <1>5

(* parseBody: a case, or a pattern and a replacement that fit.             *)
SafeBody(body) ==
  body.case = "none" =>
    /\ WellFormed(body.pattern) /\ WellFormed(body.replacement)
    /\ \A t \in DOMAIN body.replacement : body.replacement[t].capture <= Captures(body.pattern)

(* A replacement is read for the captures of its own pattern.              *)
LEMMA MappingIsSafe ==
  ASSUME NEW find \in Seq(STRING), find # <<>>, NEW replace \in Seq(STRING), replace # <<>>,
         NEW body \in Mapping(find, replace)
  PROVE  SafeBody(body)
<1>1. PICK f \in parseFind(find) : \E r \in parseReplace(replace, Captures(f)) :
        body = [case |-> "none", pattern |-> f, replacement |-> r]
  BY DEF Mapping
<1>2. PICK r \in parseReplace(replace, Captures(f)) :
        body = [case |-> "none", pattern |-> f, replacement |-> r]
  BY <1>1
<1>3. WellFormed(f) /\ f \in Seq(TokensUpTo(1))
  BY FindIsWellFormed
<1>4. Captures(f) \in Nat
  BY <1>3, CapturesCounted
<1>5. WellFormed(r) /\ r \in Seq(TokensUpTo(Captures(f)))
  BY <1>4, ReplaceIsWellFormed
<1>6. \A t \in DOMAIN r : r[t].capture <= Captures(f)
  <2>1. \A t \in DOMAIN r : r[t] \in TokensUpTo(Captures(f))
    BY <1>5
  <2> QED
    BY <1>4, <2>1 DEF TokensUpTo
<1>7. body.pattern = f /\ body.replacement = r
  BY <1>2
<1> QED
  BY <1>3, <1>5, <1>6, <1>7 DEF SafeBody

(* What is around the arrow is not empty.                                  *)
LEMMA BodyIsSafe ==
  ASSUME NEW text \in Seq(STRING), NEW body \in parseBody(text)
  PROVE  SafeBody(body)
<1>1. CASE text = <<"\\", "a">> \/ text = <<"\\", "A">>
  <2>1. body \in {CaseOperation("lower"), CaseOperation("upper")}
    BY <1>1, Zenon DEF parseBody
  <2>2. body.case # "none"
    BY <2>1 DEF CaseOperation
  <2> QED
    BY <2>2 DEF SafeBody
<1>2. CASE ~(text = <<"\\", "a">> \/ text = <<"\\", "A">>)
  <2> DEFINE found(sep) ==
        LET find == FromTo(text, 1, sep)
            replace == SubSeq(text, sep + 2, Len(text))
        IN IF find = <<>> \/ replace = <<>> THEN {} ELSE Mapping(find, replace)
  <2>1. parseBody(text) = UNION {found(sep) : sep \in findRuleSeparator(text)}
    BY <1>2, Zenon DEF parseBody
  <2>2. PICK sep \in findRuleSeparator(text) : body \in found(sep)
    <3> HIDE DEF found
    <3> QED
      BY <2>1
  <2>3. sep \in 1 .. Len(text) - 1 /\ Len(text) \in Nat
    BY DEF findRuleSeparator
  <2> DEFINE find == FromTo(text, 1, sep)
             replace == SubSeq(text, sep + 2, Len(text))
  <2>4. find \in Seq(STRING) /\ replace \in Seq(STRING)
    <3>1. 1 \in Nat \ {0} /\ sep - 1 \in Int /\ sep - 1 <= Len(text)
      BY <2>3
    <3>2. sep + 2 \in Nat \ {0} /\ Len(text) \in Int /\ Len(text) <= Len(text)
      BY <2>3
    <3> QED
      BY <3>1, <3>2, PartIsSequence DEF FromTo
  <2>5. find # <<>> /\ replace # <<>> /\ body \in Mapping(find, replace)
    BY <2>2
  <2> HIDE DEF find, replace
  <2> QED
    BY <2>4, <2>5, MappingIsSafe
<1> QED
  BY <1>1, <1>2

(* parseEntry puts them together, and wants a scope for an exclusion.      *)
LEMMA EntryIsSafe ==
  ASSUME NEW part \in Seq(STRING), NEW rule \in parseEntry(part)
  PROVE  SafeToApply(rule)
<1> DEFINE exclude == part # <<>> /\ part[1] = "#"
           rest == IF exclude THEN Tail(part) ELSE part
           Scopes(parts) == IF Len(parts) = 1 THEN {Unscoped} ELSE parseScope(parts[1])
           Counts == IF exclude THEN {2} ELSE {1, 2}
           Made(parts) == {[exclude |-> exclude, scope |-> scope, body |-> body] :
                             scope \in Scopes(parts), body \in parseBody(Last(parts))}
<1>1. rule \in UNION {Made(parts) : parts \in {p \in splitEscaped(rest, "#") : Len(p) \in Counts}}
  <2> DEFINE bad == part = <<>> \/ \E i \in DOMAIN part : part[i] \in Forbidden
             made == UNION {Made(parts) : parts \in {p \in splitEscaped(rest, "#") : Len(p) \in Counts}}
  <2>1. parseEntry(part) = IF bad THEN {} ELSE made
    BY DEF parseEntry
  <2> HIDE DEF bad, made
  <2>2. rule \in made
    BY <2>1
  <2> QED
    BY <2>2 DEF made
<1>2. rest \in Seq(STRING)
  BY HeadTailProperties
<1> HIDE DEF rest
<1>3. PICK parts \in splitEscaped(rest, "#") : Len(parts) \in Counts /\ rule \in Made(parts)
  <2> HIDE DEF Made, Counts
  <2> QED
    BY <1>1
<1>4. /\ Len(parts) \in Nat \ {0}
      /\ \A k \in 1 .. Len(parts) : parts[k] \in Seq(STRING) /\ parts[k] # <<>>
  BY <1>2, SplitIsWhole
<1>5. PICK scope \in Scopes(parts), body \in parseBody(Last(parts)) :
        rule = [exclude |-> exclude, scope |-> scope, body |-> body]
  <2> HIDE DEF Scopes
  <2> QED
    BY <1>3
<1>6. SafeBody(body)
  <2>1. Last(parts) \in Seq(STRING)
    BY <1>4 DEF Last
  <2> QED
    BY <2>1, BodyIsSafe
<1>7. (scope = Unscoped /\ Len(parts) = 1) \/ SafeScope(scope)
  <2>1. CASE Len(parts) = 1
    BY <1>5, <2>1
  <2>2. CASE Len(parts) # 1
    <3>1. scope \in parseScope(parts[1])
      BY <1>5, <2>2
    <3>2. parts[1] \in Seq(STRING) /\ parts[1] # <<>>
      BY <1>4
    <3> QED
      BY <3>1, <3>2, ScopeIsSafe
  <2> QED
    BY <2>1, <2>2
<1>8. exclude => Len(parts) # 1
  BY <1>3
<1>9. rule.body = body /\ rule.scope = scope /\ (rule.exclude <=> exclude)
  <2> HIDE DEF exclude
  <2> QED
    BY <1>5
<1>10. Unscoped.pattern = <<>> /\ Unscoped.exact = {}
  BY DEF Unscoped
<1> HIDE DEF exclude
<1> QED
  BY <1>6, <1>7, <1>8, <1>9, <1>10 DEF SafeBody, SafeScope, SafeToApply

-----------------------------------------------------------------------------
(* What the loop of parseRules makes of the rules read so far.             *)
ReadEntry(entry, rules) ==
  IF hasUnescapedCommentMarker(entry) THEN rules
  ELSE {Append(out, rule) : out \in rules, rule \in parseEntry(entry)}

(* All the rules in the entries that are not comments.                     *)
Parsed(entries) ==
  UNION {parseEntry(entries[n]) : n \in {m \in DOMAIN entries : ~hasUnescapedCommentMarker(entries[m])}}

EntrySteps(entries) ==
  [n \in 1 .. Len(entries) |->
     [rules \in SUBSET Seq(Parsed(entries)) |-> ReadEntry(entries[n], rules)]]

(* Every rule that parseRules returns is that of some entry.               *)
LEMMA RulesAreParsed ==
  ASSUME NEW text \in Seq(STRING), NEW out \in parseRules(text)
  PROVE  splitRuleEntries(text) \in Seq(Seq(STRING)) /\ out \in Seq(Parsed(splitRuleEntries(text)))
<1> DEFINE entries == splitRuleEntries(text)
<1>1. entries \in Seq(Seq(STRING))
  BY PiecesType DEF splitRuleEntries
<1> DEFINE N == Len(entries)
           T == SUBSET Seq(Parsed(entries))
           step == EntrySteps(entries)
           Equation(f) ==
             f = [n \in 0 .. N |-> IF n = 0 THEN {<<>>} ELSE ReadEntry(entries[n], f[n - 1])]
           rules == CHOOSE f : Equation(f)
<1>2. parseRules(text) = IF text = <<>> THEN {} ELSE rules[N]
  BY DEF parseRules, ReadEntry
<1> HIDE DEF entries
<1>0. N \in Nat /\ DOMAIN entries = 1 .. N
  BY <1>1
<1>3. ASSUME NEW n \in 1 .. N, NEW before \in T PROVE ReadEntry(entries[n], before) \in T
  <2>1. CASE hasUnescapedCommentMarker(entries[n])
    BY <2>1 DEF ReadEntry
  <2>2. CASE ~hasUnescapedCommentMarker(entries[n])
    <3>1. parseEntry(entries[n]) \subseteq Parsed(entries)
      BY <1>0, <2>2 DEF Parsed
    <3>2. \A o \in before : \A rule \in parseEntry(entries[n]) : Append(o, rule) \in Seq(Parsed(entries))
      BY <3>1
    <3> QED
      BY <2>2, <3>2 DEF ReadEntry
  <2> QED
    BY <2>1, <2>2
<1>4. Loop(N, T, {<<>>}, step)
  <2>1. {<<>>} \in T
    OBVIOUS
  <2>2. step \in [1 .. N -> [T -> T]]
    BY <1>3 DEF EntrySteps
  <2> HIDE DEF T, step
  <2> QED
    BY <1>0, <2>1, <2>2 DEF Loop
<1>5. \E f : Equation(f)
  <2>1. PICK f : Unrolled(N, T, {<<>>}, step, f)
    <3> HIDE DEF T, step
    <3> QED
      BY <1>4, LoopSolved
  <2>2. f \in [0 .. N -> T] /\ f[0] = {<<>>}
    <3> HIDE DEF T, step
    <3> QED
      BY <2>1 DEF Unrolled
  <2>3. \A n \in 1 .. N : f[n] = ReadEntry(entries[n], f[n - 1])
    <3>0. \A n \in 1 .. N : n - 1 \in 0 .. N
      BY <1>0
    <3>1. \A n \in 1 .. N : f[n - 1] \in T
      <4> HIDE DEF T, N
      <4> QED
        BY <2>2, <3>0
    <3>2. \A n \in 1 .. N : f[n] = step[n][f[n - 1]]
      <4> HIDE DEF T, step
      <4> QED
        BY <2>1 DEF Unrolled
    <3> QED
      BY <3>1, <3>2 DEF EntrySteps
  <2>4. Equation(f)
    <3>1. f = [n \in 0 .. N |-> f[n]]
      <4> HIDE DEF T
      <4> QED
        BY <2>2
    <3>2. \A n \in 0 .. N : n = 0 \/ n \in 1 .. N
      BY <1>0
    <3> HIDE DEF T, N
    <3> QED
      BY <2>2, <2>3, <3>1, <3>2, Zenon
  <2> QED
    BY <2>4
<1>6. Equation(rules)
  <2> HIDE DEF Equation
  <2> QED
    BY <1>5
<1> HIDE DEF rules
<1>7. rules = [n \in 0 .. N |-> rules[n]]
  BY <1>6
<1>8. rules[0] = {<<>>}
  BY <1>0, <1>6
<1>9. \A n \in 1 .. N : rules[n] = ReadEntry(entries[n], rules[n - 1])
  <2>1. \A n \in 1 .. N : n \in 0 .. N /\ n # 0
    BY <1>0
  <2> HIDE DEF N
  <2> QED
    BY <1>6, <2>1, Zenon
<1>10. \A n \in 1 .. N : rules[n - 1] \in T => rules[n] = step[n][rules[n - 1]]
  BY <1>9 DEF EntrySteps
<1> HIDE DEF Equation
<1>11. rules \in [0 .. N -> T]
  <2> HIDE DEF T, step
  <2>1. Unrolled(N, T, {<<>>}, step, rules)
    BY <1>4, <1>7, <1>8, <1>10, LoopUnique
  <2> QED
    BY <2>1 DEF Unrolled
<1>12. rules[N] \in T
  <2> HIDE DEF T
  <2> QED
    BY <1>0, <1>11
<1>13. out \in rules[N]
  BY <1>2
<1>14. out \in Seq(Parsed(entries))
  BY <1>12, <1>13
<1> QED
  BY <1>1, <1>14 DEF entries

(* The text is a sequence of characters, whatever is written to it.        *)
TextTypeOK == raw \in Seq(STRING) /\ writer \in Writers

(* The text is a sequence of characters at every time, by                  *)
(* WritersAssumption.                                                      *)
THEOREM TextIsTyped == Spec => []TextTypeOK
<1>1. Init => TextTypeOK
  BY DEF Init, TextTypeOK
<1>2. TextTypeOK /\ [Write]_vars => TextTypeOK'
  <2> SUFFICES ASSUME TextTypeOK, [Write]_vars PROVE TextTypeOK'
    OBVIOUS
  <2>1. CASE Write
    <3>1. PICK piece \in writer.pieces : raw' = raw \o piece
      BY <2>1 DEF Write
    <3>2. piece \in Seq(STRING)
      BY <3>1, WritersAssumption DEF TextTypeOK
    <3> QED
      BY <2>1, <3>1, <3>2 DEF TextTypeOK, Write
  <2>2. CASE UNCHANGED vars
    BY <2>2 DEF TextTypeOK, vars
  <2> QED
    BY <2>1, <2>2
<1> QED
  BY <1>1, <1>2, PTL DEF Spec

(* Every rule of every text that parseRules accepts is safe to apply,      *)
(* however the text was put together: see AcceptedRulesAreSafe.            *)
THEOREM AcceptedAreSafe == Spec => []AcceptedRulesAreSafe
<1>1. TextTypeOK => AcceptedRulesAreSafe
  <2> SUFFICES ASSUME TextTypeOK, NEW rules \in parseRules(raw), NEW k \in DOMAIN rules
               PROVE  SafeToApply(rules[k])
    BY DEF AcceptedRulesAreSafe
  <2> DEFINE entries == splitRuleEntries(raw)
  <2>1. entries \in Seq(Seq(STRING)) /\ rules \in Seq(Parsed(entries))
    BY RulesAreParsed DEF TextTypeOK
  <2> HIDE DEF entries
  <2>2. rules[k] \in Parsed(entries)
    BY <2>1
  <2>3. PICK n \in DOMAIN entries : rules[k] \in parseEntry(entries[n])
    BY <2>2 DEF Parsed
  <2>4. entries[n] \in Seq(STRING)
    BY <2>1
  <2> QED
    BY <2>3, <2>4, EntryIsSafe
<1> QED
  BY <1>1, TextIsTyped, PTL

-----------------------------------------------------------------------------
(***************************************************************************)
(* The five scanners of parseRules, each with its own account of what a    *)
(* backslash escapes, together read every text as one reading of its       *)
(* symbols does.  From below: every place of a text is in one symbol; the  *)
(* scanners find the marks where symbols begin; what lies between the      *)
(* marks is read by the symbols between them; and there the two tokenizers *)
(* make the tokens that the symbols stand for.                             *)
(***************************************************************************)

(* The symbols of a text, and where each begins.                           *)

(* A symbol: an escape or not, and the characters after the backslash.     *)
SymbolType == [escaped : BOOLEAN, chars : Seq(STRING)]

(* What stands at a place of a text: an arrow, a character, or either of   *)
(* them escaped, or nothing escaped.                                       *)
PlainArrowAt(s, i, y) ==
  y = Plain(Arrow) /\ Width(y) = 2 /\ i + 1 <= Len(s) /\ s[i] = "=" /\ s[i + 1] = ">"
PlainAt(s, i, y) ==
  y = Plain(<<s[i]>>) /\ Width(y) = 1 /\ s[i] # "\\" /\ ~IsArrow(s, i)
EscapedArrowAt(s, i, y) ==
  /\ y = Escape(Arrow) /\ Width(y) = 3 /\ i + 2 <= Len(s)
  /\ s[i] = "\\" /\ s[i + 1] = "=" /\ s[i + 2] = ">"
DanglingAt(s, i, y) ==
  y = Escape(<<>>) /\ Width(y) = 1 /\ i = Len(s) /\ s[i] = "\\"
EscapedAt(s, i, y) ==
  y = Escape(<<s[i + 1]>>) /\ Width(y) = 2 /\ i + 1 <= Len(s) /\ s[i] = "\\" /\ ~IsArrow(s, i + 1)

(* The lengths of an arrow and of nothing,                                 *)
LEMMA ArrowLength == Arrow[1] = "=" /\ Arrow[2] = ">" /\ Len(Arrow) = 2 /\ Len(<<>>) = 0
BY DEF Arrow

(* and of one character.                                                   *)
LEMMA OneLength == ASSUME NEW x PROVE Len(<<x>>) = 1 /\ <<x>>[1] = x
OBVIOUS

(* An escape is one character wider than what it escapes.                  *)
LEMMA WidthIs ==
  ASSUME NEW chars, Len(chars) \in Nat
  PROVE  Width(Plain(chars)) = Len(chars) /\ Width(Escape(chars)) = Len(chars) + 1
BY DEF Width, Plain, Escape

(* The widths of the symbols there are.                                    *)
LEMMA Widths ==
  /\ Width(Plain(Arrow)) = 2 /\ Width(Escape(Arrow)) = 3 /\ Width(Escape(<<>>)) = 1
  /\ \A x : Width(Plain(<<x>>)) = 1 /\ Width(Escape(<<x>>)) = 2
<1>1. Width(Plain(Arrow)) = 2 /\ Width(Escape(Arrow)) = 2 + 1
  <2>1. Len(Arrow) = 2 /\ Len(Arrow) \in Nat
    BY ArrowLength
  <2> QED
    BY <2>1, WidthIs
<1>2. Width(Escape(<<>>)) = 0 + 1
  BY ArrowLength, WidthIs
<1>3. ASSUME NEW x PROVE Width(Plain(<<x>>)) = 1 /\ Width(Escape(<<x>>)) = 1 + 1
  <2>1. Len(<<x>>) = 1
    BY OneLength
  <2> QED
    BY <2>1, WidthIs
<1> QED
  BY <1>1, <1>2, <1>3

(* A symbol is one of the five.                                            *)
LEMMA SymbolCases ==
  ASSUME NEW s \in Seq(STRING), NEW i \in 1 .. Len(s), NEW y, y = Symbol(s, i)
  PROVE  /\ y \in SymbolType
         /\ \/ PlainArrowAt(s, i, y) \/ PlainAt(s, i, y)
            \/ EscapedArrowAt(s, i, y) \/ DanglingAt(s, i, y) \/ EscapedAt(s, i, y)
<1>0. Len(s) \in Nat /\ \A j \in 1 .. Len(s) : s[j] \in STRING
  OBVIOUS
<1>1. CASE IsArrow(s, i)
  <2>1. y = Plain(Arrow) /\ i + 1 \in 1 .. Len(s) /\ s[i] = "=" /\ s[i + 1] = ">"
    BY <1>0, <1>1 DEF Symbol, IsArrow
  <2>2. PlainArrowAt(s, i, y)
    BY <2>1, Widths DEF PlainArrowAt
  <2>3. s[i] \in STRING /\ s[i + 1] \in STRING
    BY <1>0, <2>1
  <2>4. <<s[i], s[i + 1]>> \in Seq(STRING)
    BY <2>3, OneOrTwo, Zenon
  <2>5. Arrow \in Seq(STRING)
    BY <2>1, <2>4 DEF Arrow
  <2> QED
    BY <2>1, <2>2, <2>5 DEF SymbolType, Plain
<1>2. CASE ~IsArrow(s, i) /\ s[i] # "\\"
  <2>1. y = Plain(<<s[i]>>)
    BY <1>2 DEF Symbol
  <2>2. <<s[i]>> \in Seq(STRING)
    BY <1>0, OneOrTwo, Zenon
  <2> QED
    BY <1>2, <2>1, <2>2, Widths DEF SymbolType, Plain, PlainAt
<1>3. CASE ~IsArrow(s, i) /\ s[i] = "\\" /\ IsArrow(s, i + 1)
  <2>1. y = Escape(Arrow) /\ i + 2 <= Len(s) /\ s[i + 1] = "=" /\ s[i + 2] = ">"
    BY <1>0, <1>3 DEF Symbol, IsArrow
  <2>2. EscapedArrowAt(s, i, y)
    BY <1>3, <2>1, Widths DEF EscapedArrowAt
  <2>3. s[i + 1] \in STRING /\ s[i + 2] \in STRING
    BY <1>0, <2>1
  <2>4. <<s[i + 1], s[i + 2]>> \in Seq(STRING)
    BY <2>3, OneOrTwo, Zenon
  <2>5. Arrow \in Seq(STRING)
    BY <2>1, <2>4 DEF Arrow
  <2> QED
    BY <2>1, <2>2, <2>5 DEF SymbolType, Escape
<1>4. CASE ~IsArrow(s, i) /\ s[i] = "\\" /\ ~IsArrow(s, i + 1) /\ i = Len(s)
  <2>1. y = Escape(<<>>)
    BY <1>4 DEF Symbol
  <2>2. <<>> \in Seq(STRING)
    OBVIOUS
  <2>3. y \in SymbolType
    BY <2>1, <2>2 DEF SymbolType, Escape
  <2>4. DanglingAt(s, i, y)
    BY <1>4, <2>1, Widths DEF DanglingAt
  <2> QED
    BY <2>3, <2>4
<1>5. CASE ~IsArrow(s, i) /\ s[i] = "\\" /\ ~IsArrow(s, i + 1) /\ i # Len(s)
  <2>1. y = Escape(<<s[i + 1]>>)
    BY <1>5 DEF Symbol
  <2>2. i + 1 \in 1 .. Len(s)
    BY <1>0, <1>5
  <2>3. <<s[i + 1]>> \in Seq(STRING)
    BY <1>0, <2>2, OneOrTwo, Zenon
  <2> QED
    BY <1>5, <2>1, <2>2, <2>3, Widths DEF SymbolType, Escape, EscapedAt
<1> QED
  BY <1>1, <1>2, <1>3, <1>4, <1>5

(* A symbol ends in the text, or with it.                                  *)
LEMMA SymbolWidth ==
  ASSUME NEW s \in Seq(STRING), NEW i \in 1 .. Len(s)
  PROVE  Width(Symbol(s, i)) \in 1 .. 3 /\ i + Width(Symbol(s, i)) \in i + 1 .. Len(s) + 1
<1> DEFINE y == Symbol(s, i)
<1>0. Len(s) \in Nat
  OBVIOUS
<1>1. \/ PlainArrowAt(s, i, y) \/ PlainAt(s, i, y)
      \/ EscapedArrowAt(s, i, y) \/ DanglingAt(s, i, y) \/ EscapedAt(s, i, y)
  BY SymbolCases
<1> HIDE DEF y
<1>2. Width(y) \in 1 .. 3 /\ i + Width(y) \in i + 1 .. Len(s) + 1
  BY <1>0, <1>1 DEF PlainArrowAt, PlainAt, EscapedArrowAt, DanglingAt, EscapedAt
<1> QED
  BY <1>2 DEF y

(* The symbols of a text from place i on, and where each begins.           *)
ReadsFrom(s, i, symbols, at) ==
  /\ s \in Seq(STRING) /\ symbols \in Seq(SymbolType)
  /\ at \in [1 .. Len(symbols) + 1 -> 1 .. Len(s) + 1]
  /\ at[1] = i /\ at[Len(symbols) + 1] = Len(s) + 1
  /\ \A k \in 1 .. Len(symbols) :
       /\ at[k] <= Len(s) /\ symbols[k] = Symbol(s, at[k])
       /\ at[k + 1] = at[k] + Width(symbols[k])

(* The symbols of a whole text.                                            *)
Reads(s, symbols, at) == ReadsFrom(s, 1, symbols, at)

(* A symbol before those of the rest of a text.                            *)
LEMMA OneMoreSymbol ==
  ASSUME NEW s \in Seq(STRING), NEW i \in 1 .. Len(s), NEW rest, NEW at,
         ReadsFrom(s, i + Width(Symbol(s, i)), rest, at)
  PROVE  \E a : ReadsFrom(s, i, <<Symbol(s, i)>> \o rest, a)
<1> DEFINE y == Symbol(s, i)
           w == Width(y)
           m == Len(rest)
           symbols == <<y>> \o rest
           a == [k \in 1 .. m + 2 |-> IF k = 1 THEN i ELSE at[k - 1]]
<1>0. Len(s) \in Nat /\ m \in Nat /\ rest \in Seq(SymbolType) /\ y \in SymbolType
  BY SymbolCases DEF ReadsFrom
<1>1. w \in 1 .. 3 /\ i + w \in i + 1 .. Len(s) + 1
  BY SymbolWidth
<1> HIDE DEF y, w
<1>2. /\ symbols \in Seq(SymbolType) /\ Len(symbols) = m + 1 /\ symbols[1] = y
      /\ \A k \in 2 .. m + 1 : symbols[k] = rest[k - 1]
  BY <1>0
<1>3. \A k \in 2 .. m + 2 : k - 1 \in 1 .. m + 1
  BY <1>0
<1>4. a \in [1 .. m + 2 -> 1 .. Len(s) + 1] /\ a[1] = i /\ a[m + 2] = Len(s) + 1
  BY <1>0, <1>3 DEF ReadsFrom
<1>5. a[2] = i + w
  BY <1>0 DEF ReadsFrom, w, y
<1>6. ASSUME NEW k \in 1 .. m + 1
      PROVE  /\ a[k] <= Len(s) /\ symbols[k] = Symbol(s, a[k])
             /\ a[k + 1] = a[k] + Width(symbols[k])
  <2>1. CASE k = 1
    BY <1>1, <1>2, <1>4, <1>5, <2>1 DEF w, y
  <2>2. CASE k # 1
    <3>1. k - 1 \in 1 .. m /\ k \in 2 .. m + 1 /\ k \in 1 .. m + 2 /\ k + 1 \in 1 .. m + 2 /\ k + 1 # 1
      BY <1>0, <2>2
    <3>2. a[k] = at[k - 1] /\ a[k + 1] = at[k - 1 + 1]
      BY <1>0, <2>2, <3>1
    <3>3. /\ at[k - 1] <= Len(s) /\ rest[k - 1] = Symbol(s, at[k - 1])
          /\ at[k - 1 + 1] = at[k - 1] + Width(rest[k - 1])
      BY <3>1 DEF ReadsFrom
    <3> QED
      BY <1>2, <3>1, <3>2, <3>3
  <2> QED
    BY <2>1, <2>2
<1> HIDE DEF symbols, a
<1>7. ReadsFrom(s, i, symbols, a)
  BY <1>0, <1>2, <1>4, <1>6 DEF ReadsFrom
<1> QED
  BY <1>7 DEF symbols, y

(* The symbols from place i on, made of those further to the right.        *)
SymbolsFrom(s, i, later) ==
  IF i > Len(s) THEN <<>> ELSE <<Symbol(s, i)>> \o later[i + Width(Symbol(s, i))]

(* Symbols reads the text from each place on.                              *)
LEMMA SymbolsRead ==
  ASSUME NEW s \in Seq(STRING)
  PROVE  \E at : Reads(s, Symbols(s), at)
<1> DEFINE L == Len(s)
           D == 1 .. L + 1
           T == Seq(SymbolType)
           rank == [i \in D |-> L + 1 - i]
           step == [i \in D |-> [later \in [D -> T] |-> SymbolsFrom(s, i, later)]]
           Equation(f) == f = [i \in D |-> IF i > Len(s) THEN <<>>
                                           ELSE <<Symbol(s, i)>> \o f[i + Width(Symbol(s, i))]]
           from == CHOOSE f : Equation(f)
<1>0. L \in Nat
  OBVIOUS
<1>1. \A i \in D : i <= L => /\ i \in 1 .. L /\ Symbol(s, i) \in SymbolType
                             /\ i + Width(Symbol(s, i)) \in i + 1 .. L + 1
                             /\ i + Width(Symbol(s, i)) \in D
  BY <1>0, SymbolCases, SymbolWidth
<1>2. Recursion(D, T, L, rank, step)
  <2>1. rank \in [D -> 0 .. L]
    BY <1>0
  <2>2. step \in [D -> [[D -> T] -> T]]
    <3>1. ASSUME NEW i \in D, NEW later \in [D -> T] PROVE SymbolsFrom(s, i, later) \in T
      <4>1. CASE i > L
        BY <4>1 DEF SymbolsFrom
      <4>2. CASE ~(i > L)
        <5>1. Symbol(s, i) \in SymbolType /\ later[i + Width(Symbol(s, i))] \in T
          BY <1>0, <1>1, <4>2
        <5>2. <<Symbol(s, i)>> \in T
          BY <5>1, OneOrTwo, Zenon
        <5> QED
          BY <4>2, <5>1, <5>2 DEF SymbolsFrom
      <4> QED
        BY <4>1, <4>2
    <3> HIDE DEF D, T
    <3> QED
      BY <3>1
  <2>3. ASSUME NEW i \in D, NEW g \in [D -> T], NEW h \in [D -> T],
               \A e \in D : rank[e] < rank[i] => g[e] = h[e]
        PROVE  step[i][g] = step[i][h]
    <3>1. \A e \in i + 1 .. L + 1 : e \in D /\ rank[e] < rank[i]
      BY <1>0
    <3>2. SymbolsFrom(s, i, g) = SymbolsFrom(s, i, h)
      <4>1. CASE i > L
        BY <4>1 DEF SymbolsFrom
      <4>2. CASE ~(i > L)
        <5>1. g[i + Width(Symbol(s, i))] = h[i + Width(Symbol(s, i))]
          BY <1>0, <1>1, <2>3, <3>1, <4>2
        <5> QED
          BY <4>2, <5>1 DEF SymbolsFrom
      <4> QED
        BY <4>1, <4>2
    <3>3. step[i][g] = SymbolsFrom(s, i, g) /\ step[i][h] = SymbolsFrom(s, i, h)
      <4> HIDE DEF D, T
      <4> QED
        OBVIOUS
    <3> QED
      BY <3>2, <3>3
  <2>4. <<>> \in T
    OBVIOUS
  <2> HIDE DEF D, T, rank, step
  <2> QED
    BY <1>0, <2>1, <2>2, <2>3, <2>4 DEF Recursion
<1>3. \E f : Equation(f)
  <2>1. PICK f : Solution(D, T, step, f)
    <3> HIDE DEF D, T, rank, step
    <3> QED
      BY <1>2, RecursionSolved
  <2>2. f \in [D -> T] /\ \A i \in D : f[i] = SymbolsFrom(s, i, f)
    <3> HIDE DEF D, T
    <3>1. f \in [D -> T] /\ \A i \in D : f[i] = step[i][f]
      <4> HIDE DEF step
      <4> QED
        BY <2>1 DEF Solution
    <3> QED
      BY <3>1
  <2>3. Equation(f)
    <3>1. f = [i \in D |-> f[i]]
      <4> HIDE DEF D, T
      <4> QED
        BY <2>2
    <3> HIDE DEF D
    <3> QED
      BY <2>2, <3>1, Zenon DEF SymbolsFrom
  <2> QED
    BY <2>3
<1>4. Equation(from)
  <2> HIDE DEF Equation
  <2> QED
    BY <1>3
<1>5. Symbols(s) = from[1]
  BY DEF Symbols
<1> HIDE DEF from
<1>6. \A i \in D : from[i] = SymbolsFrom(s, i, from)
  <2> HIDE DEF D
  <2> QED
    BY <1>4 DEF SymbolsFrom
<1> HIDE DEF Equation
<1> DEFINE S == {i \in D : \E at : ReadsFrom(s, i, from[i], at)}
<1>7. ASSUME NEW i \in D, \A e \in D : rank[e] < rank[i] => e \in S PROVE i \in S
  <2>1. CASE i > L
    <3>1. from[i] = <<>> /\ i = L + 1
      <4>1. i = L + 1
        BY <1>0, <2>1
      <4>2. from[i] = SymbolsFrom(s, i, from)
        BY <1>6
      <4> QED
        BY <2>1, <4>1, <4>2, Zenon DEF SymbolsFrom
    <3> DEFINE a == [k \in 1 .. 1 |-> L + 1]
    <3>2. ReadsFrom(s, i, <<>>, a)
      BY <1>0, <3>1 DEF ReadsFrom
    <3> QED
      BY <3>1, <3>2
  <2>2. CASE ~(i > L)
    <3> DEFINE j == i + Width(Symbol(s, i))
    <3>1. i \in 1 .. L /\ j \in D /\ j > i
      BY <1>0, <1>1, <2>2
    <3>2. from[i] = <<Symbol(s, i)>> \o from[j]
      BY <1>6, <2>2 DEF SymbolsFrom
    <3>3. j \in S
      BY <1>0, <1>7, <3>1
    <3>4. PICK at : ReadsFrom(s, j, from[j], at)
      BY <3>3
    <3> QED
      BY <3>1, <3>2, <3>4, OneMoreSymbol
  <2> QED
    BY <2>1, <2>2
<1>8. D \subseteq S
  <2>1. rank \in [D -> 0 .. L]
    BY <1>0
  <2> HIDE DEF D, S, rank
  <2> QED
    BY <1>0, <1>7, <2>1, RankInduction
<1>9. 1 \in S
  <2>1. 1 \in D
    BY <1>0
  <2> HIDE DEF D, S
  <2> QED
    BY <1>8, <2>1
<1> QED
  BY <1>5, <1>9 DEF Reads

(* Symbols begin one after the other,                                      *)
LEMMA SymbolsAdvance ==
  ASSUME NEW s, NEW symbols, NEW at, Reads(s, symbols, at)
  PROVE  \A j, k \in 1 .. Len(symbols) + 1 : j < k => at[j] < at[k]
<1> DEFINE M == Len(symbols)
<1>0. M \in Nat /\ Len(s) \in Nat /\ at \in [1 .. M + 1 -> 1 .. Len(s) + 1]
  BY DEF Reads, ReadsFrom
<1>1. \A k \in 1 .. M : at[k + 1] \in at[k] + 1 .. Len(s) + 1
  <2> SUFFICES ASSUME NEW k \in 1 .. M PROVE at[k + 1] \in at[k] + 1 .. Len(s) + 1
    OBVIOUS
  <2>1. at[k] \in 1 .. Len(s) /\ symbols[k] = Symbol(s, at[k]) /\ at[k + 1] = at[k] + Width(symbols[k])
    BY <1>0 DEF Reads, ReadsFrom
  <2>2. s \in Seq(STRING)
    BY DEF Reads, ReadsFrom
  <2> QED
    BY <2>1, <2>2, SymbolWidth
<1> HIDE DEF M
<1> SUFFICES ASSUME NEW j \in 1 .. M + 1 PROVE \A k \in 1 .. M + 1 : j < k => at[j] < at[k]
  BY DEF M
<1> DEFINE S == {n \in 0 .. M : j < n + 1 => at[j] < at[n + 1]}
<1>2. 0 \in S
  BY <1>0
<1>3. ASSUME NEW n \in 0 .. M - 1, n \in S PROVE n + 1 \in S
  <2>1. /\ n + 1 \in 1 .. M /\ n + 1 \in 1 .. M + 1 /\ n + 1 + 1 \in 1 .. M + 1 /\ n + 1 \in 0 .. M
        /\ at[n + 1] \in Nat /\ at[j] \in Nat /\ at[n + 1 + 1] \in Nat
    BY <1>0
  <2>2. at[n + 1 + 1] > at[n + 1]
    BY <1>1, <2>1
  <2>3. CASE j < n + 1
    BY <1>3, <2>1, <2>2, <2>3
  <2>4. CASE j = n + 1
    BY <2>1, <2>2, <2>4
  <2>5. CASE j > n + 1
    BY <2>1, <2>5
  <2> QED
    BY <2>1, <2>3, <2>4, <2>5
<1>4. 0 .. M \subseteq S
  <2> HIDE DEF S
  <2> QED
    BY <1>0, <1>2, <1>3, UpToInduction
<1>5. \A k \in 1 .. M + 1 : k - 1 \in 0 .. M /\ k - 1 + 1 = k
  BY <1>0
<1> QED
  BY <1>4, <1>5

(* and every place of the text is in one of them.                          *)
LEMMA EveryPlaceInASymbol ==
  ASSUME NEW s, NEW symbols, NEW at, Reads(s, symbols, at), NEW i \in 1 .. Len(s)
  PROVE  \E k \in 1 .. Len(symbols) : at[k] <= i /\ i < at[k + 1]
<1> DEFINE M == Len(symbols)
           S == {n \in 0 .. M : i < at[n + 1] => \E k \in 1 .. n : at[k] <= i /\ i < at[k + 1]}
<1>0. /\ M \in Nat /\ Len(s) \in Nat /\ at \in [1 .. M + 1 -> 1 .. Len(s) + 1]
      /\ at[1] = 1 /\ at[M + 1] = Len(s) + 1
  BY DEF Reads, ReadsFrom
<1> HIDE DEF M
<1>1. 0 \in S
  BY <1>0
<1>2. ASSUME NEW n \in 0 .. M - 1, n \in S PROVE n + 1 \in S
  <2>1. n + 1 \in 0 .. M /\ n + 1 \in 1 .. M + 1 /\ n + 1 + 1 \in 1 .. M + 1 /\ at[n + 1] \in Nat
    BY <1>0
  <2>2. CASE i < at[n + 1]
    <3>1. PICK k \in 1 .. n : at[k] <= i /\ i < at[k + 1]
      BY <1>2, <2>2
    <3> QED
      BY <2>1, <3>1
  <2>3. CASE ~(i < at[n + 1])
    <3>1. n + 1 \in 1 .. n + 1 /\ at[n + 1] <= i
      BY <2>1, <2>3
    <3> QED
      BY <2>1, <3>1
  <2> QED
    BY <2>2, <2>3
<1>3. M \in S
  <2> HIDE DEF S
  <2>1. 0 .. M \subseteq S
    BY <1>0, <1>1, <1>2, UpToInduction
  <2> QED
    BY <1>0, <2>1
<1> QED
  BY <1>0, <1>3 DEF M

(* What is known of a symbol of a text.                                    *)
LEMMA SymbolsAt ==
  ASSUME NEW s, NEW symbols, NEW at, Reads(s, symbols, at), NEW k \in 1 .. Len(symbols)
  PROVE  /\ s \in Seq(STRING) /\ symbols \in Seq(SymbolType) /\ Len(s) \in Nat /\ Len(symbols) \in Nat
         /\ at[k] \in 1 .. Len(s) /\ at[k + 1] \in 1 .. Len(s) + 1
         /\ symbols[k] = Symbol(s, at[k]) /\ symbols[k] \in SymbolType
         /\ at[k + 1] = at[k] + Width(symbols[k]) /\ Width(symbols[k]) \in 1 .. 3
         /\ \/ PlainArrowAt(s, at[k], symbols[k]) \/ PlainAt(s, at[k], symbols[k])
            \/ EscapedArrowAt(s, at[k], symbols[k]) \/ DanglingAt(s, at[k], symbols[k])
            \/ EscapedAt(s, at[k], symbols[k])
<1>1. /\ s \in Seq(STRING) /\ symbols \in Seq(SymbolType) /\ Len(s) \in Nat /\ Len(symbols) \in Nat
      /\ at \in [1 .. Len(symbols) + 1 -> 1 .. Len(s) + 1]
      /\ at[k] <= Len(s) /\ symbols[k] = Symbol(s, at[k]) /\ at[k + 1] = at[k] + Width(symbols[k])
  BY DEF Reads, ReadsFrom
<1>2. at[k] \in 1 .. Len(s) /\ at[k + 1] \in 1 .. Len(s) + 1
  BY <1>1
<1>3. /\ symbols[k] \in SymbolType
      /\ \/ PlainArrowAt(s, at[k], symbols[k]) \/ PlainAt(s, at[k], symbols[k])
         \/ EscapedArrowAt(s, at[k], symbols[k]) \/ DanglingAt(s, at[k], symbols[k])
         \/ EscapedAt(s, at[k], symbols[k])
  BY <1>1, <1>2, SymbolCases
<1>4. Width(symbols[k]) \in 1 .. 3
  BY <1>1, <1>2, SymbolWidth
<1> QED
  BY <1>1, <1>2, <1>3, <1>4

-----------------------------------------------------------------------------
(* What is escaped: the scanners that remember the last character and      *)
(* those that count backslashes mark the places where a symbol begins.     *)

(* Whether the character before i escapes it, given that for those before. *)
EscapedFrom(s, i, earlier) == i > 1 /\ s[i - 1] = "\\" /\ ~earlier[i - 1]

(* A backslash escapes the next character unless it is escaped.            *)
LEMMA EscapedIs ==
  ASSUME NEW s, Len(s) \in Nat
  PROVE  /\ Escaped(s) \in [1 .. Len(s) + 1 -> BOOLEAN]
         /\ ~Escaped(s)[1]
         /\ \A i \in 1 .. Len(s) : Escaped(s)[i + 1] <=> s[i] = "\\" /\ ~Escaped(s)[i]
<1> DEFINE D == 1 .. Len(s) + 1
           N == Len(s)
           rank == [i \in D |-> i - 1]
           step == [i \in D |-> [earlier \in [D -> BOOLEAN] |-> EscapedFrom(s, i, earlier)]]
           Equation(f) == f = [i \in D |-> i > 1 /\ s[i - 1] = "\\" /\ ~f[i - 1]]
           escaped == CHOOSE f : Equation(f)
<1>1. Recursion(D, BOOLEAN, N, rank, step)
  <2>1. rank \in [D -> 0 .. N]
    OBVIOUS
  <2>2. step \in [D -> [[D -> BOOLEAN] -> BOOLEAN]]
    <3> HIDE DEF D
    <3> QED
      BY Zenon DEF EscapedFrom
  <2>3. ASSUME NEW i \in D, NEW g \in [D -> BOOLEAN], NEW h \in [D -> BOOLEAN],
               \A e \in D : rank[e] < rank[i] => g[e] = h[e]
        PROVE  step[i][g] = step[i][h]
    <3>1. EscapedFrom(s, i, g) <=> EscapedFrom(s, i, h)
      <4>1. CASE i > 1
        <5>1. i - 1 \in D /\ rank[i - 1] < rank[i]
          BY <4>1
        <5>2. g[i - 1] = h[i - 1]
          BY <2>3, <5>1
        <5> QED
          BY <5>2 DEF EscapedFrom
      <4>2. CASE ~(i > 1)
        BY <4>2 DEF EscapedFrom
      <4> QED
        BY <4>1, <4>2
    <3>2. step[i][g] = EscapedFrom(s, i, g) /\ step[i][h] = EscapedFrom(s, i, h)
      <4> HIDE DEF D
      <4> QED
        OBVIOUS
    <3>3. EscapedFrom(s, i, g) \in BOOLEAN /\ EscapedFrom(s, i, h) \in BOOLEAN
      BY DEF EscapedFrom
    <3> QED
      BY <3>1, <3>2, <3>3, Zenon
  <2>4. BOOLEAN # {}
    OBVIOUS
  <2> HIDE DEF D, rank, step
  <2> QED
    BY <2>1, <2>2, <2>3, <2>4 DEF Recursion
<1>2. \E f : Equation(f)
  <2>1. PICK f : Solution(D, BOOLEAN, step, f)
    <3> HIDE DEF D, rank, step
    <3> QED
      BY <1>1, RecursionSolved
  <2>2. f \in [D -> BOOLEAN] /\ \A i \in D : f[i] = EscapedFrom(s, i, f)
    <3> HIDE DEF D
    <3>1. f \in [D -> BOOLEAN] /\ \A i \in D : f[i] = step[i][f]
      <4> HIDE DEF step
      <4> QED
        BY <2>1 DEF Solution
    <3> QED
      BY <3>1
  <2>3. Equation(f)
    <3>1. f = [i \in D |-> f[i]]
      <4> HIDE DEF D
      <4> QED
        BY <2>2
    <3> HIDE DEF D
    <3> QED
      BY <2>2, <3>1, Zenon DEF EscapedFrom
  <2> QED
    BY <2>3
<1>3. Equation(escaped)
  <2> HIDE DEF Equation
  <2> QED
    BY <1>2
<1>4. Escaped(s) = escaped
  BY DEF Escaped
<1> HIDE DEF escaped
<1>5. escaped \in [D -> BOOLEAN]
  <2> HIDE DEF D
  <2> QED
    BY <1>3, Zenon
<1>6. \A i \in D : escaped[i] <=> i > 1 /\ s[i - 1] = "\\" /\ ~escaped[i - 1]
  <2> HIDE DEF D
  <2> QED
    BY <1>3, Zenon
<1> HIDE DEF Equation
<1>7. 1 \in D /\ \A i \in 1 .. Len(s) : i + 1 \in D /\ i + 1 > 1 /\ i + 1 - 1 = i
  OBVIOUS
<1>8. ~escaped[1]
  BY <1>6, <1>7
<1>9. \A i \in 1 .. Len(s) : escaped[i + 1] <=> s[i] = "\\" /\ ~escaped[i]
  BY <1>6, <1>7
<1> QED
  BY <1>4, <1>5, <1>8, <1>9

(* No symbol begins with an escaped character, and only one without an end *)
(* escapes what would follow the text.                                     *)
LEMMA EscapesOfSymbols ==
  ASSUME NEW s, NEW symbols, NEW at, Reads(s, symbols, at)
  PROVE  /\ \A k \in 1 .. Len(symbols) : ~Escaped(s)[at[k]]
         /\ Escaped(s)[Len(s) + 1] <=>
              Len(symbols) > 0 /\ symbols[Len(symbols)] = Escape(<<>>)
<1> DEFINE M == Len(symbols)
           e == Escaped(s)
<1>0. /\ M \in Nat /\ Len(s) \in Nat /\ at \in [1 .. M + 1 -> 1 .. Len(s) + 1]
      /\ at[1] = 1 /\ at[M + 1] = Len(s) + 1
  BY DEF Reads, ReadsFrom
<1>1. ~e[1] /\ \A i \in 1 .. Len(s) : e[i + 1] <=> s[i] = "\\" /\ ~e[i]
  BY <1>0, EscapedIs
<1> HIDE DEF e
<1>2. ASSUME NEW k \in 1 .. M, ~e[at[k]]
      PROVE  e[at[k + 1]] <=> symbols[k] = Escape(<<>>)
  <2> DEFINE i == at[k]
             y == symbols[k]
  <2>1. /\ i \in 1 .. Len(s) /\ at[k + 1] = i + Width(y)
        /\ \/ PlainArrowAt(s, i, y) \/ PlainAt(s, i, y)
           \/ EscapedArrowAt(s, i, y) \/ DanglingAt(s, i, y) \/ EscapedAt(s, i, y)
    BY SymbolsAt
  <2> HIDE DEF i, y
  <2>2. /\ \A chars : Plain(chars) # Escape(<<>>)
        /\ Escape(Arrow) # Escape(<<>>) /\ \A x : Escape(<<x>>) # Escape(<<>>)
    BY ArrowLength, OneLength DEF Plain, Escape
  <2>3. CASE PlainArrowAt(s, i, y)
    <3>1. at[k + 1] = i + 1 + 1 /\ i + 1 \in 1 .. Len(s) /\ s[i + 1] # "\\"
      BY <2>1, <2>3 DEF PlainArrowAt
    <3>2. ~e[at[k + 1]]
      BY <1>1, <3>1
    <3>3. y # Escape(<<>>)
      BY <2>2, <2>3 DEF PlainArrowAt
    <3> QED
      BY <3>2, <3>3 DEF y
  <2>4. CASE PlainAt(s, i, y)
    <3>1. at[k + 1] = i + 1 /\ s[i] # "\\"
      BY <2>1, <2>4 DEF PlainAt
    <3>2. ~e[at[k + 1]]
      BY <1>1, <2>1, <3>1
    <3>3. y # Escape(<<>>)
      BY <2>2, <2>4 DEF PlainAt
    <3> QED
      BY <3>2, <3>3 DEF y
  <2>5. CASE EscapedArrowAt(s, i, y)
    <3>1. at[k + 1] = i + 2 + 1 /\ i + 2 \in 1 .. Len(s) /\ s[i + 2] # "\\"
      BY <2>1, <2>5 DEF EscapedArrowAt
    <3>2. ~e[at[k + 1]]
      BY <1>1, <3>1
    <3>3. y # Escape(<<>>)
      BY <2>2, <2>5 DEF EscapedArrowAt
    <3> QED
      BY <3>2, <3>3 DEF y
  <2>6. CASE DanglingAt(s, i, y)
    <3>1. at[k + 1] = i + 1 /\ s[i] = "\\" /\ y = Escape(<<>>)
      BY <2>1, <2>6 DEF DanglingAt
    <3>2. ~e[i]
      BY <1>2 DEF i
    <3> QED
      BY <1>1, <2>1, <3>1, <3>2 DEF y
  <2>7. CASE EscapedAt(s, i, y)
    <3>1. at[k + 1] = i + 1 + 1 /\ i + 1 \in 1 .. Len(s) /\ s[i] = "\\"
      BY <2>1, <2>7 DEF EscapedAt
    <3>2. ~e[i]
      BY <1>2 DEF i
    <3>3. e[i + 1]
      BY <1>1, <2>1, <3>1, <3>2
    <3>4. ~e[at[k + 1]]
      BY <1>1, <3>1, <3>3
    <3>5. y # Escape(<<>>)
      BY <2>2, <2>7 DEF EscapedAt
    <3> QED
      BY <3>4, <3>5 DEF y
  <2> QED
    BY <2>1, <2>3, <2>4, <2>5, <2>6, <2>7
<1>3. ASSUME NEW k \in 1 .. M, symbols[k] = Escape(<<>>) PROVE k = M
  <2>1. /\ at[k] \in 1 .. Len(s) /\ at[k + 1] = at[k] + Width(symbols[k])
        /\ \/ PlainArrowAt(s, at[k], symbols[k]) \/ PlainAt(s, at[k], symbols[k])
           \/ EscapedArrowAt(s, at[k], symbols[k]) \/ DanglingAt(s, at[k], symbols[k])
           \/ EscapedAt(s, at[k], symbols[k])
    BY SymbolsAt
  <2>2. /\ \A chars : Plain(chars) # Escape(<<>>)
        /\ Escape(Arrow) # Escape(<<>>) /\ \A x : Escape(<<x>>) # Escape(<<>>)
    BY ArrowLength, OneLength DEF Plain, Escape
  <2>3. DanglingAt(s, at[k], symbols[k])
    BY <1>3, <2>1, <2>2 DEF PlainArrowAt, PlainAt, EscapedArrowAt, EscapedAt
  <2>4. at[k + 1] = Len(s) + 1
    BY <2>1, <2>3 DEF DanglingAt
  <2>5. k + 1 \in 1 .. M + 1 /\ M + 1 \in 1 .. M + 1 /\ (k # M => k + 1 < M + 1)
    BY <1>0
  <2>6. k # M => at[k + 1] < at[M + 1]
    BY <2>5, SymbolsAdvance
  <2> QED
    BY <1>0, <2>4, <2>6
<1> DEFINE S == {n \in 0 .. M : n < M => ~e[at[n + 1]]}
<1>4. 0 \in S
  BY <1>0, <1>1
<1>5. ASSUME NEW n \in 0 .. M - 1, n \in S PROVE n + 1 \in S
  <2>1. n + 1 \in 1 .. M /\ n + 1 \in 0 .. M /\ ~e[at[n + 1]]
    BY <1>0, <1>5
  <2>2. n + 1 < M => ~e[at[n + 1 + 1]]
    BY <1>2, <1>3, <2>1
  <2> QED
    BY <2>1, <2>2
<1>6. 0 .. M \subseteq S
  <2> HIDE DEF S
  <2> QED
    BY <1>0, <1>4, <1>5, UpToInduction
<1>7. \A k \in 1 .. M : ~e[at[k]]
  <2>1. \A k \in 1 .. M : k - 1 \in 0 .. M /\ k - 1 < M /\ k - 1 + 1 = k
    BY <1>0
  <2> QED
    BY <1>6, <2>1
<1>8. e[Len(s) + 1] <=> M > 0 /\ symbols[M] = Escape(<<>>)
  <2>1. CASE M = 0
    BY <1>0, <1>1, <2>1
  <2>2. CASE M > 0
    <3>1. M \in 1 .. M
      BY <1>0, <2>2
    <3> QED
      BY <1>0, <1>2, <1>7, <2>2, <3>1
  <2> QED
    BY <1>0, <2>1, <2>2
<1> QED
  BY <1>7, <1>8 DEF e

(* What is not escaped and does not end an arrow begins a symbol.          *)
LEMMA InsideASymbol ==
  ASSUME NEW s, NEW symbols, NEW at, Reads(s, symbols, at), NEW i \in 1 .. Len(s),
         ~Escaped(s)[i], s[i] # ">"
  PROVE  \E k \in 1 .. Len(symbols) : i = at[k]
<1> DEFINE y(k) == symbols[k]
<1>1. PICK k \in 1 .. Len(symbols) : at[k] <= i /\ i < at[k + 1]
  BY EveryPlaceInASymbol
<1>2. /\ Len(s) \in Nat /\ at[k] \in 1 .. Len(s) /\ at[k + 1] = at[k] + Width(symbols[k])
      /\ \/ PlainArrowAt(s, at[k], symbols[k]) \/ PlainAt(s, at[k], symbols[k])
         \/ EscapedArrowAt(s, at[k], symbols[k]) \/ DanglingAt(s, at[k], symbols[k])
         \/ EscapedAt(s, at[k], symbols[k])
  BY SymbolsAt
<1>3. ~Escaped(s)[at[k]]
  BY EscapesOfSymbols
<1>4. s[at[k]] = "\\" => Escaped(s)[at[k] + 1]
  BY <1>2, <1>3, EscapedIs
<1>5. i = at[k]
  <2>1. CASE PlainArrowAt(s, at[k], symbols[k])
    BY <1>1, <1>2, <2>1 DEF PlainArrowAt
  <2>2. CASE PlainAt(s, at[k], symbols[k])
    BY <1>1, <1>2, <2>2 DEF PlainAt
  <2>3. CASE EscapedArrowAt(s, at[k], symbols[k])
    BY <1>1, <1>2, <1>4, <2>3 DEF EscapedArrowAt
  <2>4. CASE DanglingAt(s, at[k], symbols[k])
    BY <1>1, <1>2, <2>4 DEF DanglingAt
  <2>5. CASE EscapedAt(s, at[k], symbols[k])
    BY <1>1, <1>2, <1>4, <2>5 DEF EscapedAt
  <2> QED
    BY <1>2, <2>1, <2>2, <2>3, <2>4, <2>5
<1> QED
  BY <1>5

(* The marks that are not escaped, and the places where symbols begin.     *)
MarkedPlaces(s, c) == {i \in DOMAIN s : s[i] = c /\ ~Escaped(s)[i]}
Places(at, K) == {at[k] : k \in K}

(* The marks of a text, counted by characters and by symbols.              *)
LEMMA MarksAgree ==
  ASSUME NEW s, NEW symbols, NEW at, Reads(s, symbols, at), NEW c, c \notin {"\\", "=", ">"}
  PROVE  /\ MarkedPlaces(s, c) = Places(at, Marks(symbols, c))
         /\ \A k \in Marks(symbols, c) : k \in 1 .. Len(symbols) /\ at[k + 1] = at[k] + 1
<1>0. s \in Seq(STRING) /\ symbols \in Seq(SymbolType)
  BY DEF Reads, ReadsFrom
<1>1. DOMAIN s = 1 .. Len(s) /\ DOMAIN symbols = 1 .. Len(symbols)
  BY <1>0
<1>2. ASSUME NEW k \in 1 .. Len(symbols)
      PROVE  /\ symbols[k] = Plain(<<c>>) <=> s[at[k]] = c
             /\ symbols[k] = Plain(<<c>>) => at[k + 1] = at[k] + 1
             /\ at[k] \in 1 .. Len(s)
  <2>1. /\ at[k] \in 1 .. Len(s) /\ at[k + 1] = at[k] + Width(symbols[k])
        /\ \/ PlainArrowAt(s, at[k], symbols[k]) \/ PlainAt(s, at[k], symbols[k])
           \/ EscapedArrowAt(s, at[k], symbols[k]) \/ DanglingAt(s, at[k], symbols[k])
           \/ EscapedAt(s, at[k], symbols[k])
    BY SymbolsAt
  <2>2. Plain(Arrow) # Plain(<<c>>) /\ (\A chars : Escape(chars) # Plain(<<c>>))
        /\ \A x : Plain(<<x>>) = Plain(<<c>>) <=> x = c
    BY ArrowLength, OneLength DEF Plain, Escape
  <2>3. CASE PlainAt(s, at[k], symbols[k])
    BY <2>1, <2>2, <2>3 DEF PlainAt
  <2>4. CASE ~PlainAt(s, at[k], symbols[k])
    BY <2>1, <2>2, <2>4 DEF PlainArrowAt, EscapedArrowAt, DanglingAt, EscapedAt
  <2> QED
    BY <2>1, <2>3, <2>4
<1>3. ASSUME NEW i \in 1 .. Len(s), s[i] = c, ~Escaped(s)[i]
      PROVE  \E k \in Marks(symbols, c) : i = at[k]
  <2>1. PICK k \in 1 .. Len(symbols) : i = at[k]
    BY <1>3, InsideASymbol
  <2>2. k \in Marks(symbols, c)
    BY <1>1, <1>2, <1>3, <2>1 DEF Marks
  <2> QED
    BY <2>1, <2>2
<1>4. ASSUME NEW k \in Marks(symbols, c)
      PROVE  at[k] \in 1 .. Len(s) /\ s[at[k]] = c /\ ~Escaped(s)[at[k]]
             /\ k \in 1 .. Len(symbols) /\ at[k + 1] = at[k] + 1
  <2>1. k \in 1 .. Len(symbols) /\ symbols[k] = Plain(<<c>>)
    BY <1>1 DEF Marks
  <2> QED
    BY <1>2, <2>1, EscapesOfSymbols
<1> QED
  BY <1>1, <1>3, <1>4 DEF MarkedPlaces, Places

(* Scanners that count backslashes find the same marks: an odd number of   *)
(* them escapes.                                                           *)
LEMMA BackslashesCounted ==
  ASSUME NEW s, Len(s) \in Nat
  PROVE  /\ Backslashes(s, 1) = 0
         /\ \A i \in 1 .. Len(s) :
              /\ Backslashes(s, i) \in Nat
              /\ Backslashes(s, i + 1) = IF s[i] = "\\" THEN Backslashes(s, i) + 1 ELSE 0
<1> DEFINE Run(i) == {j \in 1 .. i - 1 : \A k \in j .. i - 1 : s[k] = "\\"}
<1>1. \A i : Backslashes(s, i) = Cardinality(Run(i))
  BY DEF Backslashes
<1>2. Cardinality(Run(1)) = 0
  <2>1. Run(1) = {}
    OBVIOUS
  <2> QED
    BY <2>1, FS_EmptySet
<1>3. ASSUME NEW i \in 1 .. Len(s)
      PROVE  /\ Cardinality(Run(i)) \in Nat
             /\ Cardinality(Run(i + 1)) = IF s[i] = "\\" THEN Cardinality(Run(i)) + 1 ELSE 0
  <2>1. IsFiniteSet(Run(i))
    <3>1. IsFiniteSet(1 .. i - 1)
      <4>1. 1 \in Int /\ i - 1 \in Int
        OBVIOUS
      <4> QED
        BY <4>1, FS_Interval
    <3>2. Run(i) \subseteq 1 .. i - 1
      OBVIOUS
    <3> HIDE DEF Run
    <3> QED
      BY <3>1, <3>2, FS_Subset
  <2>2. CASE s[i] = "\\"
    <3>1. Run(i + 1) = Run(i) \cup {i} /\ i \notin Run(i)
      <4>1. ASSUME NEW j \in Run(i + 1) PROVE j \in Run(i) \cup {i}
        OBVIOUS
      <4>2. ASSUME NEW j \in Run(i) PROVE j \in Run(i + 1)
        <5>1. j \in 1 .. i + 1 - 1 /\ \A k \in j .. i + 1 - 1 : k \in j .. i - 1 \/ k = i
          OBVIOUS
        <5> QED
          BY <2>2, <5>1
      <4>3. i \in Run(i + 1)
        <5>1. i \in 1 .. i + 1 - 1 /\ \A k \in i .. i + 1 - 1 : k = i
          OBVIOUS
        <5> QED
          BY <2>2, <5>1
      <4>4. i \notin Run(i)
        OBVIOUS
      <4> HIDE DEF Run
      <4> QED
        BY <4>1, <4>2, <4>3, <4>4
    <3> HIDE DEF Run
    <3> QED
      BY <2>1, <2>2, <3>1, FS_AddElement, FS_CardinalityType
  <2>3. CASE s[i] # "\\"
    <3>1. Run(i + 1) = {}
      <4>1. ASSUME NEW j \in Run(i + 1) PROVE FALSE
        <5>1. i \in j .. i + 1 - 1
          OBVIOUS
        <5> QED
          BY <2>3, <5>1
      <4> HIDE DEF Run
      <4> QED
        BY <4>1
    <3> HIDE DEF Run
    <3> QED
      BY <2>1, <2>3, <3>1, FS_EmptySet, FS_CardinalityType
  <2> HIDE DEF Run
  <2> QED
    BY <2>2, <2>3
<1> HIDE DEF Run
<1> QED
  BY <1>1, <1>2, <1>3

(* A character is escaped after an odd number of backslashes.              *)
LEMMA OddEscapes ==
  ASSUME NEW s, Len(s) \in Nat, NEW i \in 1 .. Len(s)
  PROVE  Backslashes(s, i) % 2 = 0 <=> ~Escaped(s)[i]
<1> DEFINE L == Len(s)
           b(n) == Backslashes(s, n + 1)
           S == {n \in 0 .. L - 1 : b(n) % 2 = 0 <=> ~Escaped(s)[n + 1]}
<1>0. L \in Nat /\ L - 1 \in Nat /\ i - 1 \in 0 .. L - 1 /\ i - 1 + 1 = i
  OBVIOUS
<1>1. ~Escaped(s)[1] /\ \A n \in 1 .. L : Escaped(s)[n + 1] <=> s[n] = "\\" /\ ~Escaped(s)[n]
  BY EscapedIs
<1>2. 0 \in S
  <2>1. b(0) = 0 /\ 0 + 1 = 1
    BY BackslashesCounted
  <2> QED
    BY <1>0, <1>1, <2>1
<1>3. ASSUME NEW n \in 0 .. (L - 1) - 1, n \in S PROVE n + 1 \in S
  <2>1. n + 1 \in 1 .. L /\ n + 1 \in 0 .. L - 1
    BY <1>0
  <2>2. b(n) \in Nat /\ b(n + 1) = IF s[n + 1] = "\\" THEN b(n) + 1 ELSE 0
    BY <2>1, BackslashesCounted
  <2>3. b(n) % 2 = 0 <=> ~Escaped(s)[n + 1]
    BY <1>3
  <2>4. Escaped(s)[n + 1 + 1] <=> s[n + 1] = "\\" /\ ~Escaped(s)[n + 1]
    BY <1>1, <2>1
  <2> HIDE DEF b
  <2>5. b(n + 1) % 2 = 0 <=> ~(s[n + 1] = "\\" /\ b(n) % 2 = 0)
    BY <2>2
  <2>6. b(n + 1) % 2 = 0 <=> ~Escaped(s)[n + 1 + 1]
    BY <2>3, <2>4, <2>5
  <2> QED
    BY <2>1, <2>6
<1>4. i - 1 \in S
  <2> HIDE DEF S
  <2>1. 0 .. L - 1 \subseteq S
    BY <1>0, <1>2, <1>3, UpToInduction
  <2> QED
    BY <1>0, <2>1
<1> QED
  BY <1>0, <1>4

(* The marks that end an entry, and the one that makes it a comment.       *)
LEMMA EntryMarksAgree ==
  ASSUME NEW s, NEW symbols, NEW at, Reads(s, symbols, at)
  PROVE  /\ splitRuleEntries(s) = Pieces(s, Places(at, Marks(symbols, ";")))
         /\ hasUnescapedCommentMarker(s) <=> Marks(symbols, "!") # {}
<1>0. s \in Seq(STRING) /\ Len(s) \in Nat
  BY DEF Reads, ReadsFrom
<1>1. ASSUME NEW i \in DOMAIN s PROVE Backslashes(s, i) % 2 = 0 <=> ~Escaped(s)[i]
  <2>1. i \in 1 .. Len(s)
    BY <1>0
  <2> QED
    BY <1>0, <2>1, OddEscapes
<1>2. MarkedPlaces(s, ";") = Places(at, Marks(symbols, ";"))
  <2>1. ";" \notin {"\\", "=", ">"}
    OBVIOUS
  <2> QED
    BY <2>1, MarksAgree
<1>3. MarkedPlaces(s, "!") = Places(at, Marks(symbols, "!"))
  <2>1. "!" \notin {"\\", "=", ">"}
    OBVIOUS
  <2> QED
    BY <2>1, MarksAgree
<1>4. splitRuleEntries(s) = Pieces(s, MarkedPlaces(s, ";"))
  <2>1. {i \in DOMAIN s : s[i] = ";" /\ Backslashes(s, i) % 2 = 0} = MarkedPlaces(s, ";")
    BY <1>1 DEF MarkedPlaces
  <2> QED
    BY <2>1 DEF splitRuleEntries
<1>5. hasUnescapedCommentMarker(s) <=> MarkedPlaces(s, "!") # {}
  BY <1>1 DEF hasUnescapedCommentMarker, MarkedPlaces
<1>6. Places(at, Marks(symbols, "!")) # {} <=> Marks(symbols, "!") # {}
  BY DEF Places
<1> QED
  BY <1>2, <1>3, <1>4, <1>5, <1>6

(* A set of one element.                                                   *)
LEMMA OneElement ==
  ASSUME NEW S, IsFiniteSet(S)
  PROVE  Cardinality(S) = 1 <=> \E x : S = {x}
BY FS_Singleton

(* The one arrow of a text.                                                *)
LEMMA ArrowsAgree ==
  ASSUME NEW s, NEW symbols, NEW at, Reads(s, symbols, at)
  PROVE  /\ findRuleSeparator(s) =
              IF Cardinality(Arrows(symbols)) = 1 THEN Places(at, Arrows(symbols)) ELSE {}
         /\ \A k \in Arrows(symbols) : k \in 1 .. Len(symbols) /\ at[k + 1] = at[k] + 2
<1> DEFINE found == {i \in 1 .. Len(s) - 1 : s[i] = "=" /\ s[i + 1] = ">" /\ ~Escaped(s)[i]}
           M == Len(symbols)
<1>0. /\ s \in Seq(STRING) /\ symbols \in Seq(SymbolType) /\ Len(s) \in Nat /\ M \in Nat
      /\ DOMAIN symbols = 1 .. M
  BY DEF Reads, ReadsFrom
<1>1. ASSUME NEW k \in 1 .. M
      PROVE  /\ symbols[k] = Plain(Arrow) <=> IsArrow(s, at[k])
             /\ symbols[k] = Plain(Arrow) => at[k + 1] = at[k] + 2
             /\ at[k] \in 1 .. Len(s) /\ ~Escaped(s)[at[k]]
  <2>1. /\ at[k] \in 1 .. Len(s) /\ at[k + 1] = at[k] + Width(symbols[k])
        /\ \/ PlainArrowAt(s, at[k], symbols[k]) \/ PlainAt(s, at[k], symbols[k])
           \/ EscapedArrowAt(s, at[k], symbols[k]) \/ DanglingAt(s, at[k], symbols[k])
           \/ EscapedAt(s, at[k], symbols[k])
    BY SymbolsAt
  <2>2. (\A chars : Escape(chars) # Plain(Arrow)) /\ \A x : Plain(<<x>>) # Plain(Arrow)
    BY ArrowLength, OneLength DEF Plain, Escape
  <2>3. ~Escaped(s)[at[k]]
    BY EscapesOfSymbols
  <2>4. CASE PlainArrowAt(s, at[k], symbols[k])
    BY <2>1, <2>3, <2>4 DEF PlainArrowAt, IsArrow
  <2>5. CASE PlainAt(s, at[k], symbols[k])
    BY <2>1, <2>2, <2>3, <2>5 DEF PlainAt
  <2>6. CASE ~PlainAt(s, at[k], symbols[k]) /\ ~PlainArrowAt(s, at[k], symbols[k])
    <3>1. s[at[k]] = "\\" /\ symbols[k] # Plain(Arrow)
      BY <2>1, <2>2, <2>6 DEF EscapedArrowAt, DanglingAt, EscapedAt
    <3>2. ~IsArrow(s, at[k])
      BY <3>1 DEF IsArrow
    <3> QED
      BY <2>1, <2>3, <3>1, <3>2
  <2> QED
    BY <2>4, <2>5, <2>6
<1>2. \A k : k \in Arrows(symbols) <=> k \in 1 .. M /\ symbols[k] = Plain(Arrow)
  BY <1>0 DEF Arrows
<1>3. ASSUME NEW i \in found PROVE \E k \in Arrows(symbols) : i = at[k]
  <2>1. i \in 1 .. Len(s) /\ s[i] # ">" /\ ~Escaped(s)[i] /\ IsArrow(s, i)
    BY <1>0 DEF IsArrow
  <2>2. PICK k \in 1 .. M : i = at[k]
    BY <2>1, InsideASymbol
  <2> QED
    BY <1>1, <1>2, <2>1, <2>2
<1>4. ASSUME NEW k \in Arrows(symbols) PROVE at[k] \in found
  <2>1. IsArrow(s, at[k]) /\ at[k] \in 1 .. Len(s) /\ ~Escaped(s)[at[k]]
    BY <1>1, <1>2
  <2> QED
    BY <1>0, <2>1 DEF IsArrow
<1>5. found = Places(at, Arrows(symbols))
  BY <1>3, <1>4 DEF Places
<1>6. IsFiniteSet(found) /\ IsFiniteSet(Arrows(symbols))
  <2>1. IsFiniteSet(1 .. Len(s) - 1) /\ IsFiniteSet(1 .. M)
    BY <1>0, FS_Interval
  <2>2. found \subseteq 1 .. Len(s) - 1 /\ Arrows(symbols) \subseteq 1 .. M
    BY <1>2
  <2> HIDE DEF found
  <2> QED
    BY <2>1, <2>2, FS_Subset
<1>7. \A j, k \in Arrows(symbols) : at[j] = at[k] => j = k
  <2> SUFFICES ASSUME NEW j \in 1 .. M, NEW k \in 1 .. M, at[j] = at[k] PROVE j = k
    BY <1>2
  <2>1. j \in 1 .. M + 1 /\ k \in 1 .. M + 1 /\ at[j] \in Nat
    BY <1>0, <1>1
  <2>2. ~(j < k) /\ ~(k < j)
    BY <2>1, SymbolsAdvance
  <2> QED
    BY <2>2
<1>8. Cardinality(found) = 1 <=> Cardinality(Arrows(symbols)) = 1
  <2> HIDE DEF found
  <2>1. (\E x : found = {x}) <=> \E k : Arrows(symbols) = {k}
    <3>1. ASSUME NEW x, found = {x} PROVE \E k : Arrows(symbols) = {k}
      <4>1. PICK k \in Arrows(symbols) : x = at[k]
        BY <1>5, <3>1 DEF Places
      <4>2. \A j \in Arrows(symbols) : j = k
        BY <1>5, <1>7, <3>1, <4>1 DEF Places
      <4> QED
        BY <4>1, <4>2
    <3>2. ASSUME NEW k, Arrows(symbols) = {k} PROVE found = {at[k]}
      BY <1>5, <3>2 DEF Places
    <3> QED
      BY <3>1, <3>2
  <2> QED
    BY <1>6, <2>1, OneElement
<1>9. findRuleSeparator(s) = IF Cardinality(found) = 1 THEN found ELSE {}
  BY DEF findRuleSeparator
<1> HIDE DEF found
<1> QED
  BY <1>1, <1>2, <1>5, <1>8, <1>9

-----------------------------------------------------------------------------
(* The pieces of a text and those of its symbols.                          *)

(* A part of a sequence, element by element.                               *)
LEMMA FromToIs ==
  ASSUME NEW S, NEW s \in Seq(S), NEW i \in 1 .. Len(s) + 1, NEW j \in i .. Len(s) + 1
  PROVE  /\ FromTo(s, i, j) \in Seq(S) /\ Len(FromTo(s, i, j)) = j - i
         /\ \A k \in 1 .. j - i : FromTo(s, i, j)[k] = s[i + k - 1]
<1>1. Len(s) \in Nat /\ i \in Int /\ j - 1 \in Int /\ \A k \in i .. j - 1 : k \in 1 .. Len(s)
  OBVIOUS
<1>2. \A k \in i .. j - 1 : s[k] \in S
  BY <1>1
<1> DEFINE p == SubSeq(s, i, j - 1)
<1>3. /\ p \in Seq(S) /\ Len(p) = IF i <= j - 1 THEN j - 1 - i + 1 ELSE 0
      /\ \A k \in 1 .. j - 1 - i + 1 : p[k] = s[i + k - 1]
  BY <1>1, <1>2, SubSeqProperties
<1> HIDE DEF p
<1>4. Len(p) = j - i /\ j - 1 - i + 1 = j - i
  BY <1>3
<1> QED
  BY <1>3, <1>4 DEF FromTo, p

(* A symbol is what its kind says.                                         *)
LEMMA SymbolIs ==
  ASSUME NEW s \in Seq(STRING), NEW i \in 1 .. Len(s), NEW y,
         \/ PlainArrowAt(s, i, y) \/ PlainAt(s, i, y)
         \/ EscapedArrowAt(s, i, y) \/ DanglingAt(s, i, y) \/ EscapedAt(s, i, y)
  PROVE  y = Symbol(s, i)
<1>0. Len(s) \in Nat
  OBVIOUS
<1>1. CASE PlainArrowAt(s, i, y)
  BY <1>1 DEF PlainArrowAt, Symbol, IsArrow
<1>2. CASE PlainAt(s, i, y)
  BY <1>2 DEF PlainAt, Symbol
<1>3. CASE EscapedArrowAt(s, i, y)
  <2>1. IsArrow(s, i + 1) /\ ~IsArrow(s, i)
    BY <1>0, <1>3 DEF EscapedArrowAt, IsArrow
  <2> QED
    BY <1>3, <2>1 DEF EscapedArrowAt, Symbol
<1>4. CASE DanglingAt(s, i, y)
  <2>1. ~IsArrow(s, i + 1) /\ ~IsArrow(s, i)
    BY <1>0, <1>4 DEF DanglingAt, IsArrow
  <2> QED
    BY <1>4, <2>1 DEF DanglingAt, Symbol
<1>5. CASE EscapedAt(s, i, y)
  <2>1. ~IsArrow(s, i) /\ i # Len(s)
    BY <1>0, <1>5 DEF EscapedAt, IsArrow
  <2> QED
    BY <1>5, <2>1 DEF EscapedAt, Symbol
<1> QED
  BY <1>1, <1>2, <1>3, <1>4, <1>5

(* A part of a text that ends where a symbol does reads as that part of    *)
(* the symbols.                                                            *)
LEMMA SymbolOfPart ==
  ASSUME NEW s \in Seq(STRING), NEW lo \in 1 .. Len(s) + 1, NEW hi \in lo .. Len(s) + 1,
         NEW i \in lo .. Len(s), i + Width(Symbol(s, i)) <= hi
  PROVE  /\ i - lo + 1 \in 1 .. Len(FromTo(s, lo, hi))
         /\ Symbol(FromTo(s, lo, hi), i - lo + 1) = Symbol(s, i)
<1> DEFINE p == FromTo(s, lo, hi)
           j == i - lo + 1
           y == Symbol(s, i)
<1>0. Len(s) \in Nat /\ i \in 1 .. Len(s)
  OBVIOUS
<1>1. /\ p \in Seq(STRING) /\ Len(p) = hi - lo
      /\ \A k \in 1 .. hi - lo : p[k] = s[lo + k - 1]
  BY FromToIs
<1>2. /\ Width(y) \in 1 .. 3
      /\ \/ PlainArrowAt(s, i, y) \/ PlainAt(s, i, y)
         \/ EscapedArrowAt(s, i, y) \/ DanglingAt(s, i, y) \/ EscapedAt(s, i, y)
  BY <1>0, SymbolCases, SymbolWidth
<1>3. i + Width(y) <= hi
  OBVIOUS
<1> HIDE DEF p, y
<1>4. j \in 1 .. Len(p) /\ j + Width(y) - 1 <= Len(p)
  BY <1>0, <1>1, <1>2, <1>3
<1>5. \A k \in Nat : j + k <= Len(p) => p[j + k] = s[i + k]
  <2> SUFFICES ASSUME NEW k \in Nat, j + k <= Len(p) PROVE p[j + k] = s[i + k]
    OBVIOUS
  <2>1. j + k \in 1 .. hi - lo /\ lo + (j + k) - 1 = i + k
    BY <1>1, <1>4
  <2> QED
    BY <1>1, <2>1
<1>6. p[j] = s[i] /\ (j + 1 <= Len(p) => p[j + 1] = s[i + 1]) /\ (j + 2 <= Len(p) => p[j + 2] = s[i + 2])
  <2>1. p[j + 0] = s[i + 0]
    BY <1>4, <1>5
  <2>2. j + 0 = j /\ i + 0 = i
    BY <1>0
  <2> QED
    BY <1>5, <2>1, <2>2
<1>7. Len(p) <= Len(s) - lo + 1
  BY <1>0, <1>1
<1>8. (IsArrow(p, j) => IsArrow(s, i)) /\ (IsArrow(p, j + 1) => IsArrow(s, i + 1))
  BY <1>0, <1>4, <1>6, <1>7 DEF IsArrow
<1> HIDE DEF j
<1>9. y = Symbol(p, j)
  <2>1. CASE PlainArrowAt(s, i, y)
    <3>1. PlainArrowAt(p, j, y)
      BY <1>4, <1>6, <2>1 DEF PlainArrowAt
    <3> QED
      BY <1>1, <1>4, <3>1, SymbolIs
  <2>2. CASE PlainAt(s, i, y)
    <3>1. PlainAt(p, j, y)
      BY <1>4, <1>6, <1>8, <2>2 DEF PlainAt
    <3> QED
      BY <1>1, <1>4, <3>1, SymbolIs
  <2>3. CASE EscapedArrowAt(s, i, y)
    <3>1. EscapedArrowAt(p, j, y)
      BY <1>4, <1>6, <2>3 DEF EscapedArrowAt
    <3> QED
      BY <1>1, <1>4, <3>1, SymbolIs
  <2>4. CASE DanglingAt(s, i, y)
    <3>1. j = Len(p)
      BY <1>0, <1>1, <1>3, <2>4 DEF DanglingAt, j
    <3>2. DanglingAt(p, j, y)
      BY <1>6, <2>4, <3>1 DEF DanglingAt
    <3> QED
      BY <1>1, <1>4, <3>2, SymbolIs
  <2>5. CASE EscapedAt(s, i, y)
    <3>1. EscapedAt(p, j, y)
      BY <1>4, <1>6, <1>8, <2>5 DEF EscapedAt
    <3> QED
      BY <1>1, <1>4, <3>1, SymbolIs
  <2> QED
    BY <1>2, <2>1, <2>2, <2>3, <2>4, <2>5
<1> QED
  BY <1>4, <1>9 DEF p, y, j

(* Symbols next to one another are those of the part of the text they are  *)
(* read of.                                                                *)
LEMMA PartReads ==
  ASSUME NEW s, NEW symbols, NEW at, Reads(s, symbols, at),
         NEW a \in 1 .. Len(symbols) + 1, NEW b \in a .. Len(symbols) + 1
  PROVE  \E part : Reads(FromTo(s, at[a], at[b]), FromTo(symbols, a, b), part)
<1> DEFINE M == Len(symbols)
           p == FromTo(s, at[a], at[b])
           q == FromTo(symbols, a, b)
           part == [k \in 1 .. b - a + 1 |-> at[a + k - 1] - at[a] + 1]
<1>0. /\ s \in Seq(STRING) /\ symbols \in Seq(SymbolType) /\ M \in Nat /\ Len(s) \in Nat
      /\ at \in [1 .. M + 1 -> 1 .. Len(s) + 1]
  BY DEF Reads, ReadsFrom
<1>1. \A k \in a .. b : k \in 1 .. M + 1 /\ at[k] \in at[a] .. at[b] /\ at[k] \in 1 .. Len(s) + 1
  <2> SUFFICES ASSUME NEW k \in a .. b PROVE k \in 1 .. M + 1 /\ at[k] \in at[a] .. at[b] /\ at[k] \in 1 .. Len(s) + 1
    OBVIOUS
  <2>1. k \in 1 .. M + 1 /\ a \in 1 .. M + 1 /\ b \in 1 .. M + 1
    BY <1>0
  <2>2. at[k] \in 1 .. Len(s) + 1 /\ at[a] \in 1 .. Len(s) + 1 /\ at[b] \in 1 .. Len(s) + 1
    BY <1>0, <2>1
  <2>3. a = k \/ at[a] < at[k]
    BY <2>1, SymbolsAdvance
  <2>4. k = b \/ at[k] < at[b]
    BY <2>1, SymbolsAdvance
  <2> QED
    BY <2>1, <2>2, <2>3, <2>4
<1>2. /\ at[a] \in 1 .. Len(s) + 1 /\ at[b] \in at[a] .. Len(s) + 1 /\ at[b] \in Nat /\ at[a] \in Nat
  <2>1. a \in a .. b /\ b \in a .. b
    OBVIOUS
  <2>2. at[a] \in 1 .. Len(s) + 1 /\ at[b] \in 1 .. Len(s) + 1 /\ at[a] \in at[a] .. at[b]
    BY <1>1, <2>1
  <2> QED
    BY <1>0, <2>2
<1>3. p \in Seq(STRING) /\ Len(p) = at[b] - at[a]
  BY <1>0, <1>2, FromToIs
<1>4. q \in Seq(SymbolType) /\ Len(q) = b - a /\ \A k \in 1 .. b - a : q[k] = symbols[a + k - 1]
  BY <1>0, FromToIs
<1>5. \A k \in 1 .. b - a + 1 : a + k - 1 \in a .. b
  OBVIOUS
<1>6. part \in [1 .. Len(q) + 1 -> 1 .. Len(p) + 1]
  <2>1. \A k \in 1 .. b - a + 1 : at[a + k - 1] - at[a] + 1 \in 1 .. Len(p) + 1
    BY <1>1, <1>2, <1>3, <1>5
  <2> QED
    BY <1>4, <2>1
<1>7. part[1] = 1 /\ part[Len(q) + 1] = Len(p) + 1
  <2>1. 1 \in 1 .. b - a + 1 /\ b - a + 1 \in 1 .. b - a + 1 /\ a + 1 - 1 = a /\ a + (b - a + 1) - 1 = b
    OBVIOUS
  <2> QED
    BY <1>2, <1>3, <1>4, <2>1
<1>8. ASSUME NEW k \in 1 .. Len(q)
      PROVE  /\ part[k] <= Len(p) /\ q[k] = Symbol(p, part[k])
             /\ part[k + 1] = part[k] + Width(q[k])
  <2> DEFINE m == a + k - 1
             i == at[m]
  <2>1. /\ m \in 1 .. M /\ m \in a .. b /\ m + 1 \in a .. b /\ a + (k + 1) - 1 = m + 1
        /\ k \in 1 .. b - a /\ k \in 1 .. b - a + 1 /\ k + 1 \in 1 .. b - a + 1
    BY <1>0, <1>4
  <2>2. /\ i \in 1 .. Len(s) /\ symbols[m] = Symbol(s, i) /\ at[m + 1] = i + Width(symbols[m])
        /\ Width(symbols[m]) \in 1 .. 3
    BY <2>1, SymbolsAt
  <2>3. i \in at[a] .. Len(s) /\ i + Width(Symbol(s, i)) <= at[b]
    BY <1>1, <1>2, <2>1, <2>2
  <2>4. i - at[a] + 1 \in 1 .. Len(p) /\ Symbol(p, i - at[a] + 1) = Symbol(s, i)
    BY <1>0, <1>2, <2>3, SymbolOfPart
  <2>5. part[k] = i - at[a] + 1 /\ part[k + 1] = at[m + 1] - at[a] + 1 /\ q[k] = symbols[m]
    BY <1>4, <2>1
  <2> HIDE DEF i, part, p, q, m
  <2>6. part[k] <= Len(p)
    BY <1>3, <2>4, <2>5
  <2>7. q[k] = Symbol(p, part[k])
    BY <2>2, <2>4, <2>5
  <2>8. part[k + 1] = part[k] + Width(q[k])
    BY <1>2, <2>2, <2>5
  <2> QED
    BY <2>6, <2>7, <2>8
<1> HIDE DEF part, p, q
<1>9. Reads(p, q, part)
  BY <1>3, <1>4, <1>6, <1>7, <1>8 DEF Reads, ReadsFrom
<1> QED
  BY <1>9 DEF p, q

(* The symbols q are those of the text p.                                  *)
Reading(p, q) == \E at : Reads(p, q, at)

(* Pieces of a text and of its symbols, one by one.                        *)
Paired(ps, qs) ==
  /\ ps \in Seq(Seq(STRING)) /\ qs \in Seq(Seq(SymbolType)) /\ Len(ps) = Len(qs)
  /\ \A n \in 1 .. Len(ps) : Reading(ps[n], qs[n])

(* One more piece and its symbols.                                         *)
LEMMA OneMorePair ==
  ASSUME NEW ps, NEW qs, Paired(ps, qs), NEW p, NEW q, Reading(p, q)
  PROVE  Paired(Append(ps, p), Append(qs, q))
<1>1. p \in Seq(STRING) /\ q \in Seq(SymbolType)
  BY DEF Reading, Reads, ReadsFrom
<1> DEFINE P == Append(ps, p)
           Q == Append(qs, q)
           N == Len(ps)
<1>2. ps \in Seq(Seq(STRING)) /\ qs \in Seq(Seq(SymbolType)) /\ N \in Nat /\ Len(qs) = N
  BY DEF Paired
<1>3. P \in Seq(Seq(STRING)) /\ Len(P) = N + 1 /\ P[N + 1] = p /\ \A n \in 1 .. N : P[n] = ps[n]
  BY <1>1, <1>2, AppendProperties
<1>4. Q \in Seq(Seq(SymbolType)) /\ Len(Q) = N + 1 /\ Q[N + 1] = q /\ \A n \in 1 .. N : Q[n] = qs[n]
  BY <1>1, <1>2, AppendProperties
<1>5. \A n \in 1 .. N : Reading(ps[n], qs[n])
  BY DEF Paired
<1> HIDE DEF P, Q, N
<1>6. ASSUME NEW n \in 1 .. N + 1 PROVE Reading(P[n], Q[n])
  <2>1. n \in 1 .. N \/ n = N + 1
    BY <1>2
  <2> QED
    BY <1>3, <1>4, <1>5, <2>1
<1> QED
  BY <1>3, <1>4, <1>6 DEF Paired, P, Q

(* A text is cut at some of its symbols into the pieces of its symbols.    *)
LEMMA PiecesAgree ==
  ASSUME NEW s, NEW symbols, NEW at, Reads(s, symbols, at), NEW K,
         \A k \in K : k \in 1 .. Len(symbols) /\ at[k + 1] = at[k] + 1
  PROVE  Paired(Pieces(s, Places(at, K)), Pieces(symbols, K))
<1> DEFINE M == Len(symbols)
           cuts == Places(at, K)
<1>0. /\ s \in Seq(STRING) /\ symbols \in Seq(SymbolType) /\ M \in Nat /\ Len(s) \in Nat
      /\ at \in [1 .. M + 1 -> 1 .. Len(s) + 1] /\ at[1] = 1 /\ at[M + 1] = Len(s) + 1
  BY DEF Reads, ReadsFrom
<1>1. PICK A : Scanned(STRING, s, cuts, A)
  BY <1>0, PiecesScanned
<1>2. PICK B : Scanned(SymbolType, symbols, K, B)
  BY <1>0, PiecesScanned
<1> DEFINE TA == [done : Seq(Seq(STRING)), start : 1 .. Len(s) + 1]
           TB == [done : Seq(Seq(SymbolType)), start : 1 .. M + 1]
           a(k) == A[at[k + 1] - 1]
<1>3. /\ A \in [0 .. Len(s) -> TA] /\ A[0] = [done |-> <<>>, start |-> 1]
      /\ \A i \in 1 .. Len(s) : A[i] = Cut(s, cuts, i, A[i - 1])
      /\ Pieces(s, cuts) = Append(A[Len(s)].done, FromTo(s, A[Len(s)].start, Len(s) + 1))
  BY <1>1 DEF Scanned
<1>4. /\ B \in [0 .. M -> TB] /\ B[0] = [done |-> <<>>, start |-> 1]
      /\ \A k \in 1 .. M : B[k] = Cut(symbols, K, k, B[k - 1])
      /\ Pieces(symbols, K) = Append(B[M].done, FromTo(symbols, B[M].start, M + 1))
  BY <1>2 DEF Scanned
<1>5. ASSUME NEW k \in 1 .. M, NEW i \in at[k] .. at[k + 1] - 1
      PROVE  i \in cuts <=> k \in K /\ i = at[k]
  <2>1. k \in 1 .. M + 1 /\ k + 1 \in 1 .. M + 1
    BY <1>0
  <2>2. at[k] \in Nat /\ at[k + 1] \in Nat
    BY <1>0, <2>1
  <2>3. ASSUME NEW m \in K, i = at[m] PROVE m = k
    <3>1. m \in 1 .. M + 1 /\ m \in 1 .. M
      BY <1>0
    <3>2. ~(m < k)
      <4>1. m < k => at[m] < at[k]
        BY <2>1, <3>1, SymbolsAdvance
      <4> QED
        BY <2>2, <2>3, <4>1
    <3>3. ~(k + 1 <= m)
      <4>1. k + 1 = m \/ (k + 1 < m => at[k + 1] < at[m])
        BY <2>1, <3>1, SymbolsAdvance
      <4> QED
        BY <2>2, <2>3, <4>1
    <3> QED
      BY <3>1, <3>2, <3>3
  <2> QED
    BY <2>3 DEF Places
<1> DEFINE Agree(k) == /\ Paired(a(k).done, B[k].done)
                       /\ a(k).start = at[B[k].start] /\ B[k].start <= k + 1
           S == {k \in 0 .. M : Agree(k)}
<1>6. 0 \in S
  <2>1. a(0) = [done |-> <<>>, start |-> 1]
    BY <1>0, <1>3
  <2>2. Paired(<<>>, <<>>)
    BY DEF Paired
  <2>3. B[0].start = 1 /\ B[0].done = <<>> /\ a(0).start = 1 /\ a(0).done = <<>>
    BY <1>4, <2>1
  <2> HIDE DEF a
  <2> QED
    BY <1>0, <2>2, <2>3
<1>7. ASSUME NEW n \in 0 .. M - 1, n \in S PROVE n + 1 \in S
  <2> DEFINE k == n + 1
             i == at[k]
             j == at[k + 1]
             start == B[n].start
  <2>1. k \in 1 .. M /\ k - 1 = n /\ n \in 0 .. M /\ k \in 0 .. M /\ start \in 1 .. k /\ start \in 1 .. M + 1
    <3>1. n \in 0 .. M /\ n + 1 \in 1 .. M
      BY <1>0
    <3>2. B[n] \in TB
      BY <1>4, <3>1
    <3>3. start \in 1 .. M + 1 /\ start <= n + 1
      BY <1>7, <3>2
    <3> QED
      BY <1>0, <3>1, <3>3
  <2>2. i \in 1 .. Len(s) /\ j \in i + 1 .. i + 3 /\ j \in 1 .. Len(s) + 1
    <3>1. /\ at[k] \in 1 .. Len(s) /\ at[k + 1] \in 1 .. Len(s) + 1
          /\ at[k + 1] = at[k] + Width(symbols[k]) /\ Width(symbols[k]) \in 1 .. 3
      <4> HIDE DEF k
      <4> QED
        BY <2>1, SymbolsAt
    <3> QED
      BY <1>0, <3>1
  <2>3. Paired(A[i - 1].done, B[n].done) /\ A[i - 1].start = at[start]
    BY <1>7
  <2>4. B[k] = Cut(symbols, K, k, B[n])
    BY <1>4, <2>1
  <2>5. CASE k \in K
    <3>1. j = i + 1
      BY <2>5
    <3>2. A[i] = [done |-> Append(A[i - 1].done, FromTo(s, A[i - 1].start, i)), start |-> i + 1]
      <4>1. i \in cuts
        BY <1>5, <2>1, <2>2, <2>5
      <4>2. A[i] = Cut(s, cuts, i, A[i - 1])
        BY <1>3, <2>2
      <4> QED
        BY <4>1, <4>2 DEF Cut
    <3>3. B[k] = [done |-> Append(B[n].done, FromTo(symbols, start, k)), start |-> k + 1]
      BY <2>4, <2>5 DEF Cut
    <3>4. Reading(FromTo(s, at[start], i), FromTo(symbols, start, k))
      <4>1. start \in 1 .. M + 1 /\ k \in start .. M + 1
        BY <1>0, <2>1
      <4> HIDE DEF start, k
      <4> QED
        BY <4>1, PartReads DEF Reading
    <3>5. Paired(Append(A[i - 1].done, FromTo(s, at[start], i)), Append(B[n].done, FromTo(symbols, start, k)))
      BY <2>3, <3>4, OneMorePair
    <3>6. a(k) = A[i] /\ a(k).start = at[k + 1]
      BY <2>2, <3>1, <3>2
    <3>7. a(k).done = Append(A[i - 1].done, FromTo(s, at[start], i)) /\ B[k].done = Append(B[n].done, FromTo(symbols, start, k))
      <4> HIDE DEF start
      <4> QED
        BY <2>3, <3>2, <3>3, <3>6
    <3>8. B[k].start = k + 1
      BY <3>3
    <3>9. Agree(k)
      <4> HIDE DEF a, k, i, j, start
      <4> QED
        BY <2>1, <3>5, <3>6, <3>7, <3>8
    <3> QED
      BY <2>1, <3>9
  <2>6. CASE k \notin K
    <3>1. \A m \in i .. j - 1 : m \in 1 .. Len(s) /\ m \notin cuts
      BY <1>0, <1>5, <2>1, <2>2, <2>6
    <3>2. \A m \in i .. j - 1 : A[m] = A[m - 1]
      BY <1>3, <3>1 DEF Cut
    <3>3. A[j - 1] = A[i - 1]
      <4>1. A[i] = A[i - 1]
        BY <2>2, <3>2
      <4>2. j > i + 1 => A[i + 1] = A[i]
        <5>1. j > i + 1 => A[i + 1] = A[i + 1 - 1]
          BY <2>2, <3>2
        <5> QED
          BY <2>2, <5>1
      <4>3. j > i + 2 => A[i + 2] = A[i + 1]
        <5>1. j > i + 2 => A[i + 2] = A[i + 2 - 1]
          BY <2>2, <3>2
        <5>2. i + 2 - 1 = i + 1
          BY <2>2
        <5> QED
          BY <5>1, <5>2
      <4>4. j - 1 = i \/ (j - 1 = i + 1 /\ j > i + 1) \/ (j - 1 = i + 2 /\ j > i + 1 /\ j > i + 2)
        BY <2>2
      <4> HIDE DEF i, j
      <4> QED
        BY <4>1, <4>2, <4>3, <4>4
    <3>4. B[k] = B[n]
      BY <2>4, <2>6 DEF Cut
    <3>5. a(k) = A[i - 1]
      BY <3>3
    <3>6. Agree(k)
      <4> HIDE DEF a, i, j
      <4> QED
        BY <2>1, <2>3, <3>4, <3>5
    <3> QED
      BY <2>1, <3>6
  <2> QED
    BY <2>5, <2>6
<1>8. Agree(M)
  <2> HIDE DEF S
  <2>1. 0 .. M \subseteq S
    BY <1>0, <1>6, <1>7, UpToInduction
  <2>2. M \in S
    BY <1>0, <2>1
  <2> QED
    BY <2>2 DEF S
<1>9. a(M) = A[Len(s)]
  BY <1>0
<1>10. B[M].start \in 1 .. M + 1 /\ M + 1 \in B[M].start .. M + 1
  <2>1. B[M] \in TB
    <3> HIDE DEF TB, M
    <3> QED
      BY <1>0, <1>4
  <2>2. B[M].start \in 1 .. M + 1
    BY <2>1
  <2> HIDE DEF M
  <2> QED
    BY <1>0, <2>2
<1>11. Reading(FromTo(s, at[B[M].start], at[M + 1]), FromTo(symbols, B[M].start, M + 1))
  BY <1>10, PartReads DEF Reading
<1> HIDE DEF a
<1>12. Paired(Append(A[Len(s)].done, FromTo(s, A[Len(s)].start, Len(s) + 1)),
              Append(B[M].done, FromTo(symbols, B[M].start, M + 1)))
  BY <1>0, <1>8, <1>9, <1>11, OneMorePair
<1> QED
  BY <1>3, <1>4, <1>12

-----------------------------------------------------------------------------
(* The tokens of a text and of its symbols, from the last one.             *)

(* The joined tokens from place k on, made of those further to the right,  *)
JoinedFrom(tokens, but, k, later) ==
  IF k > Len(tokens) THEN <<>>
  ELSE IF k \in but THEN later[k + 1]
  ELSE Join(tokens[k], later[k + 1])

JoinedAt(tokens, but, c, f) ==
  /\ f \in [1 .. Len(tokens) + 1 -> Flushed(c)]
  /\ \A k \in 1 .. Len(tokens) + 1 : f[k] = JoinedFrom(tokens, but, k, f)
  /\ Joined(tokens, but) = f[1]

(* There are such, and Joined is those from the first place on.            *)
LEMMA JoinedSolved ==
  ASSUME NEW c \in Nat, NEW tokens \in Seq(TokensUpTo(c)), NEW but
  PROVE  \E f : JoinedAt(tokens, but, c, f)
<1> DEFINE L == Len(tokens)
           D == 1 .. L + 1
           T == Flushed(c)
           rank == [k \in D |-> L + 1 - k]
           step == [k \in D |-> [later \in [D -> T] |-> JoinedFrom(tokens, but, k, later)]]
           Equation(f) == f = [k \in D |-> IF k > Len(tokens) THEN <<>>
                                           ELSE IF k \in but THEN f[k + 1]
                                           ELSE Join(tokens[k], f[k + 1])]
           joined == CHOOSE f : Equation(f)
<1>0. L \in Nat /\ \A k \in 1 .. L : tokens[k] \in TokensUpTo(c)
  OBVIOUS
<1>1. <<>> \in T
  BY DEF Flushed
<1>2. Recursion(D, T, L, rank, step)
  <2>1. rank \in [D -> 0 .. L]
    BY <1>0
  <2>2. step \in [D -> [[D -> T] -> T]]
    <3>1. ASSUME NEW k \in D, NEW later \in [D -> T] PROVE JoinedFrom(tokens, but, k, later) \in T
      <4>1. CASE k > L
        BY <1>1, <4>1 DEF JoinedFrom
      <4>2. CASE ~(k > L)
        <5>1. k \in 1 .. L /\ k + 1 \in D
          BY <1>0, <4>2
        <5>2. later[k + 1] \in T /\ tokens[k] \in TokensUpTo(c)
          <6> HIDE DEF T
          <6> QED
            BY <1>0, <5>1
        <5>3. Join(tokens[k], later[k + 1]) \in T
          BY <5>2, JoinFlushes
        <5> HIDE DEF T
        <5> QED
          BY <4>2, <5>2, <5>3 DEF JoinedFrom
      <4> QED
        BY <4>1, <4>2
    <3> HIDE DEF D, T
    <3> QED
      BY <3>1
  <2>3. ASSUME NEW k \in D, NEW g \in [D -> T], NEW h \in [D -> T],
               \A e \in D : rank[e] < rank[k] => g[e] = h[e]
        PROVE  step[k][g] = step[k][h]
    <3>1. k > L \/ g[k + 1] = h[k + 1]
      <4>1. ~(k > L) => k + 1 \in D /\ rank[k + 1] < rank[k]
        BY <1>0
      <4> QED
        BY <2>3, <4>1
    <3>2. JoinedFrom(tokens, but, k, g) = JoinedFrom(tokens, but, k, h)
      BY <3>1, Zenon DEF JoinedFrom
    <3>3. step[k][g] = JoinedFrom(tokens, but, k, g) /\ step[k][h] = JoinedFrom(tokens, but, k, h)
      <4> HIDE DEF D, T
      <4> QED
        OBVIOUS
    <3> QED
      BY <3>2, <3>3
  <2>4. T # {}
    BY <1>1
  <2> HIDE DEF D, T, rank, step
  <2> QED
    BY <1>0, <2>1, <2>2, <2>3, <2>4 DEF Recursion
<1>3. PICK f : Solution(D, T, step, f)
  <2> HIDE DEF D, T, rank, step
  <2> QED
    BY <1>2, RecursionSolved
<1>4. f \in [D -> T] /\ \A k \in D : f[k] = JoinedFrom(tokens, but, k, f)
  <2> HIDE DEF D, T
  <2>1. f \in [D -> T] /\ \A k \in D : f[k] = step[k][f]
    <3> HIDE DEF step
    <3> QED
      BY <1>3 DEF Solution
  <2> QED
    BY <2>1
<1>5. Equation(f)
  <2>1. f = [k \in D |-> f[k]]
    <3> HIDE DEF D, T
    <3> QED
      BY <1>4
  <2> HIDE DEF D
  <2> QED
    BY <1>4, <2>1, Zenon DEF JoinedFrom
<1>6. Equation(joined)
  <2> HIDE DEF Equation
  <2> QED
    BY <1>5
<1>7. Joined(tokens, but) = joined[1]
  BY DEF Joined
<1> HIDE DEF joined
<1>8. joined = [k \in D |-> joined[k]] /\ \A k \in D : joined[k] = JoinedFrom(tokens, but, k, joined)
  <2> HIDE DEF D
  <2> QED
    BY <1>6, Zenon DEF JoinedFrom
<1> HIDE DEF Equation
<1> DEFINE S == {k \in D : joined[k] \in T}
<1>9. D \subseteq S
  <2>1. rank \in [D -> 0 .. L]
    BY <1>0
  <2>2. ASSUME NEW k \in D, \A e \in D : rank[e] < rank[k] => e \in S PROVE k \in S
    <3>1. CASE k > L
      <4>1. joined[k] = <<>>
        BY <1>8, <3>1 DEF JoinedFrom
      <4> QED
        BY <1>1, <4>1
    <3>2. CASE ~(k > L)
      <4>1. k \in 1 .. L /\ k + 1 \in D /\ rank[k + 1] < rank[k]
        BY <1>0, <3>2
      <4>2. joined[k + 1] \in T /\ tokens[k] \in TokensUpTo(c)
        BY <1>0, <2>2, <4>1
      <4>3. Join(tokens[k], joined[k + 1]) \in T
        BY <4>2, JoinFlushes
      <4>4. joined[k] = JoinedFrom(tokens, but, k, joined)
        BY <1>8
      <4> HIDE DEF T
      <4>5. joined[k] \in T
        BY <3>2, <4>2, <4>3, <4>4 DEF JoinedFrom
      <4> QED
        BY <4>5
    <3> QED
      BY <3>1, <3>2
  <2> HIDE DEF D, S, rank
  <2> QED
    BY <1>0, <2>1, <2>2, RankInduction
<1>10. joined \in [D -> T]
  <2>1. \A k \in D : joined[k] \in T
    BY <1>9
  <2>2. joined = [k \in D |-> joined[k]]
    BY <1>8
  <2> HIDE DEF D, T
  <2> QED
    BY <2>1, <2>2
<1> QED
  BY <1>7, <1>8, <1>10 DEF JoinedAt

-----------------------------------------------------------------------------
(* How the tokens of a text follow those of its symbols: f is known at the *)
(* places pos where symbols begin, but for those that are skipped, being   *)
(* read with a symbol before them; the next that is not is nx.             *)
Follows(f, L, M, pos, skip, bad, tok, nx) ==
  /\ f[L + 1] = {<<>>} /\ pos[M + 1] = L + 1 /\ M \in Nat
  /\ skip \subseteq 2 .. M /\ bad \subseteq (1 .. M) \ skip
  /\ \A k \in bad : f[pos[k]] = {}
  /\ \A k \in (1 .. M) \ (skip \cup bad) :
       /\ nx[k] \in k + 1 .. M + 1 /\ nx[k] \notin skip /\ k + 1 .. nx[k] - 1 \subseteq skip
       /\ f[pos[k]] = {Join(tok[k], r) : r \in f[pos[nx[k]]]}

(* A symbol that is not valid leaves nothing of the text.                  *)
LEMMA BadIsRefused ==
  ASSUME NEW f, NEW L, NEW M, NEW pos, NEW skip, NEW bad, NEW tok, NEW nx,
         Follows(f, L, M, pos, skip, bad, tok, nx), NEW b \in bad
  PROVE  f[pos[1]] = {}
<1> DEFINE D == 1 .. b
           rank == [k \in D |-> b - k]
           S == {k \in D : k \notin skip => f[pos[k]] = {}}
<1>0. M \in Nat /\ b \in 1 .. M /\ b \notin skip /\ b \in Nat /\ 1 \notin skip
  BY DEF Follows
<1>1. rank \in [D -> 0 .. b]
  BY <1>0
<1>2. ASSUME NEW k \in D, \A e \in D : rank[e] < rank[k] => e \in S PROVE k \in S
  <2>1. CASE k \in skip
    BY <2>1
  <2>2. CASE k \in bad
    BY <2>2 DEF Follows
  <2>3. CASE k \notin skip /\ k \notin bad
    <3>1. k \in (1 .. M) \ (skip \cup bad)
      BY <1>0, <2>3
    <3>2. /\ nx[k] \in k + 1 .. M + 1 /\ nx[k] \notin skip /\ k + 1 .. nx[k] - 1 \subseteq skip
          /\ f[pos[k]] = {Join(tok[k], r) : r \in f[pos[nx[k]]]}
      BY <3>1 DEF Follows
    <3>3. b # k
      BY <2>3
    <3>4. nx[k] <= b
      <4>1. ~(b \in k + 1 .. nx[k] - 1)
        BY <1>0, <3>2
      <4> QED
        BY <1>0, <3>2, <3>3, <4>1
    <3>5. nx[k] \in D /\ rank[nx[k]] < rank[k]
      BY <1>0, <3>2, <3>4
    <3>6. f[pos[nx[k]]] = {}
      BY <1>2, <3>2, <3>5
    <3>7. f[pos[k]] = {}
      BY <3>2, <3>6
    <3> QED
      BY <3>7
  <2> QED
    BY <2>1, <2>2, <2>3
<1>3. D \subseteq S
  <2> HIDE DEF D, S, rank
  <2> QED
    BY <1>0, <1>1, <1>2, RankInduction
<1>4. 1 \in D
  BY <1>0
<1> QED
  BY <1>0, <1>3, <1>4

(* Valid symbols leave their tokens, joined.                               *)
LEMMA GoodIsJoined ==
  ASSUME NEW f, NEW L, NEW M, NEW pos, NEW skip, NEW bad, NEW tok, NEW nx,
         Follows(f, L, M, pos, skip, bad, tok, nx), bad = {},
         NEW c \in Nat, tok \in Seq(TokensUpTo(c)), Len(tok) = M
  PROVE  f[pos[1]] = {Joined(tok, skip)}
<1>1. PICK J : JoinedAt(tok, skip, c, J)
  BY JoinedSolved
<1>2. Joined(tok, skip) = J[1] /\ \A k \in 1 .. M + 1 : J[k] = JoinedFrom(tok, skip, k, J)
  BY <1>1 DEF JoinedAt
<1> DEFINE D == 1 .. M + 1
           rank == [k \in D |-> M + 1 - k]
           S == {k \in D : k \notin skip => f[pos[k]] = {J[k]}}
<1>0. M \in Nat /\ 1 \notin skip
  BY DEF Follows
<1>3. rank \in [D -> 0 .. M]
  BY <1>0
<1>4. ASSUME NEW k \in D, NEW m \in k .. M + 1, k .. m - 1 \subseteq skip
      PROVE  J[k] = J[m]
  <2> DEFINE R == {n \in 0 .. m - k : J[k + n] = J[k]}
  <2>1. 0 \in R
    BY <1>0
  <2>2. ASSUME NEW n \in 0 .. m - k - 1, n \in R PROVE n + 1 \in R
    <3>1. k + n \in 1 .. M /\ k + n \in k .. m - 1 /\ k + n \in 1 .. M + 1 /\ n + 1 \in 0 .. m - k /\ k + n + 1 = k + (n + 1)
      BY <1>0
    <3>2. k + n \in skip /\ ~(k + n > Len(tok))
      BY <1>0, <1>4, <3>1
    <3>3. J[k + n] = J[k + n + 1]
      BY <1>2, <3>1, <3>2 DEF JoinedFrom
    <3>4. J[k + n] = J[k]
      BY <2>2
    <3> QED
      BY <3>1, <3>3, <3>4
  <2>3. m - k \in R
    <3>1. m - k \in Nat /\ m - k \in 0 .. m - k
      BY <1>0
    <3> HIDE DEF R
    <3> QED
      BY <2>1, <2>2, <3>1, UpToInduction
  <2>4. k + (m - k) = m
    BY <1>0
  <2> QED
    BY <2>3, <2>4
<1>5. ASSUME NEW k \in D, \A e \in D : rank[e] < rank[k] => e \in S PROVE k \in S
  <2>1. CASE k \in skip
    BY <2>1
  <2>2. CASE k = M + 1
    <3>1. J[k] = <<>>
      BY <1>0, <1>2, <2>2 DEF JoinedFrom
    <3> QED
      BY <2>2, <3>1 DEF Follows
  <2>3. CASE k \notin skip /\ k # M + 1
    <3>1. k \in (1 .. M) \ (skip \cup bad)
      BY <1>0, <2>3
    <3>2. /\ nx[k] \in k + 1 .. M + 1 /\ nx[k] \notin skip /\ k + 1 .. nx[k] - 1 \subseteq skip
          /\ f[pos[k]] = {Join(tok[k], r) : r \in f[pos[nx[k]]]}
      BY <3>1 DEF Follows
    <3>3. nx[k] \in D /\ rank[nx[k]] < rank[k]
      BY <1>0, <3>2
    <3>4. f[pos[nx[k]]] = {J[nx[k]]}
      BY <1>5, <3>2, <3>3
    <3>5. J[k + 1] = J[nx[k]]
      <4>1. k + 1 \in D /\ nx[k] \in k + 1 .. M + 1
        BY <1>0, <3>1, <3>2
      <4> QED
        BY <1>4, <3>2, <4>1
    <3>6. J[k] = Join(tok[k], J[k + 1])
      <4>1. k \in 1 .. M + 1 /\ ~(k > Len(tok))
        BY <1>0, <3>1
      <4> QED
        BY <1>2, <2>3, <4>1 DEF JoinedFrom
    <3>7. f[pos[k]] = {J[k]}
      BY <3>2, <3>4, <3>5, <3>6
    <3> QED
      BY <3>7
  <2> QED
    BY <2>1, <2>2, <2>3
<1>6. D \subseteq S
  <2> HIDE DEF D, S, rank
  <2> QED
    BY <1>0, <1>3, <1>5, RankInduction
<1>7. 1 \in D
  BY <1>0
<1> QED
  BY <1>0, <1>2, <1>6, <1>7

(* A token before each of some lists.                                      *)
Prepended(token, rests) == {Join(token, rest) : rest \in rests}

(* Literals and captures of any kind.                                      *)
AnyToken == [literal : Seq(STRING), capture : Nat]

(* A literal put before another.                                           *)
LEMMA LiteralLengthened ==
  ASSUME NEW a \in Seq(STRING), NEW token \in AnyToken, token.capture = 0
  PROVE  [token EXCEPT !.literal = a \o @] = Literal(a \o token.literal)
<1> DEFINE l == token.literal
           x == a \o l
<1>1. l \in Seq(STRING) /\ token = [literal |-> l, capture |-> 0]
  BY DEF AnyToken
<1> HIDE DEF l
<1>2. x \in Seq(STRING)
  BY <1>1, ConcatProperties
<1>3. [token EXCEPT !.literal = a \o @] = [token EXCEPT !.literal = x]
  BY <1>1
<1> HIDE DEF x
<1>4. [token EXCEPT !.literal = x] \in AnyToken
  BY <1>1, <1>2 DEF AnyToken
<1>6. [token EXCEPT !.literal = x].literal = x /\ [token EXCEPT !.literal = x].capture = 0
  BY <1>1, <1>2
<1>5. [token EXCEPT !.literal = x] = [literal |-> x, capture |-> 0]
  BY <1>4, <1>6 DEF AnyToken
<1> QED
  BY <1>3, <1>5 DEF Literal, x, l

(* A literal is a token without a capture.                                 *)
LEMMA LiteralIs ==
  ASSUME NEW a \in Seq(STRING)
  PROVE  Literal(a) \in AnyToken /\ Literal(a).capture = 0 /\ Literal(a).literal = a
BY DEF Literal, AnyToken

(* Two literals, one after the other, are joined as one.                   *)
LEMMA JoinTwo ==
  ASSUME NEW c \in Nat, NEW r \in Flushed(c), NEW a \in Seq(STRING), NEW b \in Seq(STRING)
  PROVE  Join(Literal(a), Join(Literal(b), r)) = Join(Literal(a \o b), r)
<1>0. r \in Seq(AnyToken) /\ a \o b \in Seq(STRING)
  <2>1. TokensUpTo(c) \subseteq AnyToken
    BY DEF TokensUpTo, AnyToken
  <2>2. r \in Seq(TokensUpTo(c))
    BY DEF Flushed
  <2> QED
    BY <2>1, <2>2, SeqMonotonic
<1>1. ASSUME NEW q \in Seq(AnyToken), q # <<>>, q[1].capture = 0, NEW x \in Seq(STRING)
      PROVE  Join(Literal(x), q) = [q EXCEPT ![1] = Literal(x \o q[1].literal)]
  <2>1. q[1] \in AnyToken
    BY <1>1
  <2>2. [q[1] EXCEPT !.literal = x \o @] = Literal(x \o q[1].literal)
    BY <1>1, <2>1, LiteralLengthened
  <2>3. Literal(x).capture = 0 /\ Literal(x).literal = x
    BY LiteralIs
  <2>4. Join(Literal(x), q) = [q EXCEPT ![1].literal = Literal(x).literal \o @]
    BY <1>1, <2>3 DEF Join
  <2>5. [q EXCEPT ![1].literal = x \o @] = [q EXCEPT ![1] = [q[1] EXCEPT !.literal = x \o @]]
    BY <1>1
  <2> QED
    BY <2>2, <2>3, <2>4, <2>5
<1>2. CASE r # <<>> /\ r[1].capture = 0
  <2> DEFINE l == r[1].literal
             in == [r EXCEPT ![1] = Literal(b \o l)]
  <2>1. l \in Seq(STRING) /\ b \o l \in Seq(STRING)
    <3>1. r[1] \in AnyToken
      BY <1>0, <1>2
    <3>2. l \in Seq(STRING)
      BY <3>1 DEF AnyToken
    <3> HIDE DEF l
    <3> QED
      BY <3>2, ConcatProperties
  <2>2. Join(Literal(b), r) = in /\ Join(Literal(a \o b), r) = [r EXCEPT ![1] = Literal((a \o b) \o l)]
    BY <1>0, <1>1, <1>2
  <2> HIDE DEF l
  <2>3. Literal(b \o l) \in AnyToken /\ Literal(b \o l).capture = 0 /\ Literal(b \o l).literal = b \o l
    BY <2>1, LiteralIs
  <2>4. in \in Seq(AnyToken) /\ in # <<>> /\ in[1] = Literal(b \o l)
    BY <1>0, <1>2, <2>3
  <2>5. Join(Literal(a), in) = [in EXCEPT ![1] = Literal(a \o in[1].literal)]
    <3> HIDE DEF in
    <3> QED
      BY <1>1, <2>3, <2>4
  <2>6. Join(Literal(a), in) = [in EXCEPT ![1] = Literal((a \o b) \o l)]
    <3>1. a \o (b \o l) = (a \o b) \o l
      BY <2>1, ConcatAssociative
    <3>2. in[1].literal = b \o l
      BY <2>3, <2>4
    <3> HIDE DEF in
    <3> QED
      BY <2>5, <3>1, <3>2
  <2>7. [in EXCEPT ![1] = Literal((a \o b) \o l)] = [r EXCEPT ![1] = Literal((a \o b) \o l)]
    OBVIOUS
  <2> HIDE DEF in
  <2> QED
    BY <2>2, <2>6, <2>7
<1>3. CASE ~(r # <<>> /\ r[1].capture = 0)
  <2> DEFINE x == Literal(b)
             y == Literal(a \o b)
             in == <<x>> \o r
             out == <<y>> \o r
             n == Len(r)
  <2>1. x \in AnyToken /\ x.capture = 0 /\ x.literal = b /\ y \in AnyToken /\ y.capture = 0
    BY <1>0, LiteralIs
  <2>2. Join(x, r) = in /\ Join(y, r) = out
    BY <1>3, <2>1 DEF Join
  <2> HIDE DEF x, y
  <2>3. /\ in \in Seq(AnyToken) /\ in # <<>> /\ in[1] = x /\ Len(in) = n + 1 /\ n \in Nat
        /\ \A k \in 2 .. n + 1 : in[k] = r[k - 1]
    BY <1>0, <2>1
  <2>4. /\ out \in Seq(AnyToken) /\ out[1] = y /\ Len(out) = n + 1
        /\ \A k \in 2 .. n + 1 : out[k] = r[k - 1]
    BY <1>0, <2>1
  <2> HIDE DEF in, out, n
  <2>5. Join(Literal(a), in) = [in EXCEPT ![1] = y]
    BY <1>1, <2>1, <2>3 DEF y
  <2> DEFINE new == [in EXCEPT ![1] = y]
  <2>6. new \in Seq(AnyToken) /\ Len(new) = n + 1 /\ new[1] = y /\ \A k \in 2 .. n + 1 : new[k] = in[k]
    BY <2>1, <2>3
  <2> HIDE DEF new
  <2>7. \A k \in 1 .. n + 1 : new[k] = out[k]
    <3>1. \A k \in 1 .. n + 1 : k = 1 \/ k \in 2 .. n + 1
      BY <2>3
    <3> QED
      BY <2>3, <2>4, <2>6, <3>1
  <2>8. new = out
    BY <2>4, <2>6, <2>7, SeqEqual
  <2> QED
    BY <2>2, <2>5, <2>8 DEF new, x, y
<1> QED
  BY <1>2, <1>3

(* What the tokens from a place are when one token stands there, when      *)
(* nothing valid does,                                                     *)
LEMMA OneRead ==
  ASSUME NEW L \in Nat, NEW A, NEW c, NEW f, TokensAt(L, A, c, f), NEW i \in 1 .. L
  PROVE  /\ A[i] = {} => f[i] = {}
         /\ \A t, n : A[i] = Read(t, n) => f[i] = Prepended(t, f[n])
<1>1. f[i] = UNION {{Join(read.token, rest) : rest \in f[read.next]} : read \in A[i]}
  <2>1. f[i] = TokensFrom(L, A, i, f) /\ ~(i > L)
    BY DEF TokensAt
  <2> QED
    BY <2>1, Zenon DEF TokensFrom
<1>2. A[i] = {} => f[i] = {}
  BY <1>1
<1>3. ASSUME NEW t, NEW n, A[i] = Read(t, n) PROVE f[i] = Prepended(t, f[n])
  <2> DEFINE r == [token |-> t, next |-> n]
  <2>1. A[i] = {r} /\ r.token = t /\ r.next = n
    BY <1>3 DEF Read
  <2> HIDE DEF r
  <2>2. f[i] = {Join(r.token, rest) : rest \in f[r.next]}
    BY <1>1, <2>1
  <2> QED
    BY <2>1, <2>2 DEF Prepended
<1> QED
  BY <1>2, <1>3

(* and when an arrow does, which the scanners read as two literals.        *)
LEMMA ArrowRead ==
  ASSUME NEW L \in Nat, NEW A, NEW c \in Nat, NEW f, TokensAt(L, A, c, f), NEW i \in 1 .. L, i + 1 <= L,
         Arrow \in Seq(STRING),
         A[i] = Read(Literal(<<"=">>), i + 1), A[i + 1] = Read(Literal(<<">">>), i + 2)
  PROVE  f[i] = Prepended(Literal(Arrow), f[i + 2])
<1>1. i + 1 \in 1 .. L /\ i + 2 \in 1 .. L + 1
  OBVIOUS
<1>2. f[i] = Prepended(Literal(<<"=">>), f[i + 1]) /\ f[i + 1] = Prepended(Literal(<<">">>), f[i + 2])
  BY <1>1, OneRead
<1>3. \A r \in f[i + 2] : r \in Flushed(c)
  BY <1>1 DEF TokensAt
<1>4. <<"=">> \in Seq(STRING) /\ <<">">> \in Seq(STRING) /\ <<"=">> \o <<">">> = Arrow
  <2>1. Arrow[1] \in STRING /\ Arrow[2] \in STRING
    <3>1. 1 \in 1 .. Len(Arrow) /\ 2 \in 1 .. Len(Arrow)
      BY ArrowLength
    <3> QED
      BY <3>1, ElementOfSeq
  <2>2. <<"=">> \in Seq(STRING) /\ <<">">> \in Seq(STRING)
    BY <2>1, ArrowLength, OneOrTwo, Zenon
  <2> DEFINE both == <<"=">> \o <<">">>
  <2>3. both \in Seq(STRING) /\ Len(both) = 2 /\ both[1] = "=" /\ both[2] = ">"
    <3>1. Len(<<"=">>) = 1 /\ Len(<<">">>) = 1 /\ <<"=">>[1] = "=" /\ <<">">>[1] = ">"
      BY OneLength
    <3> QED
      BY <2>2, <3>1, ConcatProperties
  <2> HIDE DEF both
  <2>4. \A k \in 1 .. Len(both) : both[k] = Arrow[k]
    <3>1. \A k \in 1 .. Len(both) : k = 1 \/ k = 2
      BY <2>3
    <3> QED
      BY <2>3, <3>1, ArrowLength
  <2>5. both = Arrow
    BY <2>3, <2>4, ArrowLength, SeqEqual
  <2> QED
    BY <2>2, <2>5 DEF both
<1>5. \A r \in f[i + 2] : Join(Literal(<<"=">>), Join(Literal(<<">">>), r)) = Join(Literal(Arrow), r)
  BY <1>3, <1>4, JoinTwo
<1> QED
  BY <1>2, <1>5 DEF Prepended

-----------------------------------------------------------------------------
(* Patterns.                                                               *)

(* Sequences of one element are the same if that is.                       *)
LEMMA SameElement == ASSUME NEW x, NEW y PROVE <<x>> = <<y>> <=> x = y
BY OneLength

(* A character is a literal.                                               *)
LEMMA LiteralOfOne ==
  ASSUME NEW c \in Nat, NEW x \in STRING
  PROVE  Literal(<<x>>) \in TokensUpTo(c)
BY OneOrTwo, LiteralIsToken, Zenon

(* What Pattern refuses, and the token of what it does not.                *)
PatternEscapes == {Arrow, <<"*">>, <<";">>, <<"$">>, <<"\\">>, <<"#">>, <<"!">>}
BadInPattern(y) == y.escaped /\ y.chars \notin PatternEscapes
PatternToken(y) == IF y = Plain(<<"*">>) THEN Capture(1) ELSE Literal(y.chars)

(* A character is a wildcard or itself, and an escape must be one of those *)
(* known.                                                                  *)
LEMMA FindSymbol ==
  ASSUME NEW s, NEW symbols, NEW at, Reads(s, symbols, at), NEW k \in 1 .. Len(symbols), NEW f,
         TokensAt(Len(s), [i \in DOMAIN s |-> FindToken(s, i)], 1, f)
  PROVE  IF BadInPattern(symbols[k]) THEN f[at[k]] = {}
         ELSE /\ PatternToken(symbols[k]) \in TokensUpTo(1)
              /\ f[at[k]] = Prepended(PatternToken(symbols[k]), f[at[k + 1]])
<1> DEFINE A == [i \in DOMAIN s |-> FindToken(s, i)]
           i == at[k]
           y == symbols[k]
           L == Len(s)
<1>1. /\ s \in Seq(STRING) /\ L \in Nat /\ i \in 1 .. L
      /\ at[k + 1] = i + Width(y) /\ y \in SymbolType
      /\ \/ PlainArrowAt(s, i, y) \/ PlainAt(s, i, y)
         \/ EscapedArrowAt(s, i, y) \/ DanglingAt(s, i, y) \/ EscapedAt(s, i, y)
  BY SymbolsAt
<1>2. \A j \in 1 .. L : A[j] = FindToken(s, j) /\ s[j] \in STRING
  BY <1>1
<1>3. ASSUME NEW j \in 1 .. L
      PROVE  /\ FindToken(s, j) = {} => f[j] = {}
             /\ \A t, n : FindToken(s, j) = Read(t, n) => f[j] = Prepended(t, f[n])
  <2>1. A[j] = FindToken(s, j)
    BY <1>2
  <2> HIDE DEF A
  <2>2. TokensAt(L, A, 1, f)
    BY DEF A
  <2> HIDE DEF L
  <2> QED
    BY <1>1, <2>1, <2>2, OneRead
<1>4. y.chars \in Seq(STRING)
  BY <1>1 DEF SymbolType
<1>5. \A chars : /\ ~Plain(chars).escaped /\ Escape(chars).escaped
                 /\ Plain(chars).chars = chars /\ Escape(chars).chars = chars
                 /\ Escape(chars) # Plain(<<"*">>)
  BY DEF Plain, Escape
<1>6. \A x : Plain(<<x>>) = Plain(<<"*">>) <=> x = "*"
  BY SameElement DEF Plain
<1>7. Plain(Arrow) # Plain(<<"*">>)
  BY ArrowLength, OneLength DEF Plain
<1> HIDE DEF i, y
<1>8. CASE PlainArrowAt(s, i, y)
  <2>1. /\ y = Plain(Arrow) /\ i + 1 \in 1 .. L /\ s[i] = "=" /\ s[i + 1] = ">" /\ at[k + 1] = i + 2
    BY <1>1, <1>8 DEF PlainArrowAt
  <2>2. FindToken(s, i) = Read(Literal(<<"=">>), i + 1) /\ FindToken(s, i + 1) = Read(Literal(<<">">>), i + 2)
    <3>1. i + 1 + 1 = i + 2
      BY <1>1
    <3> QED
      BY <2>1, <3>1 DEF FindToken
  <2>3. y.chars = Arrow /\ PatternToken(y) = Literal(Arrow) /\ ~BadInPattern(y)
    BY <1>5, <1>7, <2>1 DEF PatternToken, BadInPattern
  <2>4. f[i] = Prepended(Literal(Arrow), f[i + 2])
    <3>1. Arrow \in Seq(STRING) /\ i + 1 <= L
      BY <1>1, <1>4, <2>1, <2>3
    <3>2. A[i] = Read(Literal(<<"=">>), i + 1) /\ A[i + 1] = Read(Literal(<<">">>), i + 2)
      BY <1>1, <1>2, <2>1, <2>2
    <3> HIDE DEF A
    <3>3. TokensAt(L, A, 1, f)
      BY DEF A
    <3> HIDE DEF L
    <3> QED
      BY <1>1, <3>1, <3>2, <3>3, ArrowRead
  <2>5. Literal(Arrow) \in TokensUpTo(1)
    <3>1. Arrow # <<>>
      BY ArrowLength
    <3> QED
      BY <1>4, <2>3, <3>1, LiteralIsToken
  <2> QED
    BY <2>1, <2>3, <2>4, <2>5 DEF i, y
<1>9. CASE PlainAt(s, i, y)
  <2>1. y = Plain(<<s[i]>>) /\ s[i] # "\\" /\ at[k + 1] = i + 1
    BY <1>1, <1>9 DEF PlainAt
  <2>2. ~BadInPattern(y)
    BY <1>5, <2>1 DEF BadInPattern
  <2>3. PatternToken(y) = IF s[i] = "*" THEN Capture(1) ELSE Literal(<<s[i]>>)
    BY <1>5, <1>6, <2>1 DEF PatternToken
  <2>4. FindToken(s, i) = Read(PatternToken(y), i + 1)
    BY <2>1, <2>3 DEF FindToken
  <2>5. PatternToken(y) \in TokensUpTo(1)
    <3>1. Literal(<<s[i]>>) \in TokensUpTo(1)
      BY <1>1, <1>2, LiteralOfOne
    <3>2. Capture(1) \in TokensUpTo(1)
      BY CaptureIsToken
    <3> QED
      BY <2>3, <3>1, <3>2
  <2>6. f[i] = Prepended(PatternToken(y), f[i + 1])
    BY <1>1, <1>3, <2>4
  <2> QED
    BY <2>1, <2>2, <2>5, <2>6 DEF i, y
<1>10. CASE EscapedArrowAt(s, i, y)
  <2>1. /\ y = Escape(Arrow) /\ i + 2 <= L /\ s[i] = "\\" /\ s[i + 1] = "=" /\ s[i + 2] = ">"
        /\ at[k + 1] = i + 3
    BY <1>1, <1>10 DEF EscapedArrowAt
  <2>2. IsArrow(s, i + 1)
    BY <1>1, <2>1 DEF IsArrow
  <2>3. FindToken(s, i) = Read(Literal(Arrow), i + 3)
    BY <2>1, <2>2 DEF FindToken, Arrow
  <2>4. ~BadInPattern(y) /\ PatternToken(y) = Literal(Arrow)
    BY <1>5, <2>1 DEF BadInPattern, PatternToken, PatternEscapes
  <2>5. Literal(Arrow) \in TokensUpTo(1)
    <3>1. Arrow # <<>>
      BY ArrowLength
    <3>2. Arrow \in Seq(STRING)
      BY <1>4, <1>5, <2>1
    <3> QED
      BY <3>1, <3>2, LiteralIsToken
  <2>6. f[i] = Prepended(Literal(Arrow), f[i + 3])
    BY <1>1, <1>3, <2>3
  <2> QED
    BY <2>1, <2>4, <2>5, <2>6 DEF i, y
<1>11. CASE DanglingAt(s, i, y)
  <2>1. y = Escape(<<>>) /\ i = L /\ s[i] = "\\"
    BY <1>11 DEF DanglingAt
  <2>2. ~IsArrow(s, i + 1) /\ ~(i < Len(s))
    BY <1>1, <2>1 DEF IsArrow
  <2>3. FindToken(s, i) = {}
    BY <2>1, <2>2 DEF FindToken
  <2>4. BadInPattern(y)
    <3>1. <<>> \notin PatternEscapes
      BY ArrowLength, OneLength DEF PatternEscapes
    <3> QED
      BY <1>5, <2>1, <3>1 DEF BadInPattern
  <2>5. f[i] = {}
    BY <1>1, <1>3, <2>3
  <2> QED
    BY <2>4, <2>5 DEF i, y
<1>12. CASE EscapedAt(s, i, y)
  <2> DEFINE x == s[i + 1]
  <2>1. y = Escape(<<x>>) /\ i + 1 \in 1 .. L /\ i < Len(s) /\ s[i] = "\\" /\ ~IsArrow(s, i + 1) /\ at[k + 1] = i + 2
    BY <1>1, <1>12 DEF EscapedAt
  <2>2. x \in STRING
    BY <1>2, <2>1
  <2>3. <<x>> \in PatternEscapes <=> x \in {"*", ";", "$", "#", "!", "\\"}
    <3>1. <<x>> # Arrow
      BY ArrowLength, OneLength
    <3>2. \A z : <<x>> = <<z>> <=> x = z
      BY SameElement
    <3> HIDE DEF x
    <3> QED
      BY <3>1, <3>2, Zenon DEF PatternEscapes
  <2>4. BadInPattern(y) <=> x \notin {"*", ";", "$", "#", "!", "\\"}
    BY <1>5, <2>1, <2>3 DEF BadInPattern
  <2>5. PatternToken(y) = Literal(<<x>>)
    BY <1>5, <2>1 DEF PatternToken
  <2>6. FindToken(s, i) = IF x \in {"*", ";", "$", "#", "!", "\\"} THEN Read(Literal(<<x>>), i + 2) ELSE {}
    BY <2>1 DEF FindToken
  <2>7. Literal(<<x>>) \in TokensUpTo(1)
    BY <2>2, LiteralOfOne
  <2> HIDE DEF x
  <2>8. IF BadInPattern(y) THEN f[i] = {} ELSE f[i] = Prepended(Literal(<<x>>), f[i + 2])
    BY <1>1, <1>3, <2>4, <2>6
  <2> QED
    BY <2>1, <2>5, <2>7, <2>8 DEF i, y
<1> QED
  BY <1>1, <1>8, <1>9, <1>10, <1>11, <1>12

(* parseFind reads the pattern that the symbols are.                       *)
LEMMA PatternsAgree ==
  ASSUME NEW s, NEW symbols, NEW at, Reads(s, symbols, at)
  PROVE  parseFind(s) = Pattern(symbols)
<1> DEFINE A == [i \in DOMAIN s |-> FindToken(s, i)]
           L == Len(s)
           M == Len(symbols)
           bad == {k \in 1 .. M : BadInPattern(symbols[k])}
           tok == [k \in 1 .. M |-> PatternToken(symbols[k])]
           nx == [k \in 1 .. M |-> k + 1]
<1>0. /\ s \in Seq(STRING) /\ symbols \in Seq(SymbolType) /\ L \in Nat /\ M \in Nat /\ DOMAIN symbols = 1 .. M
      /\ at[1] = 1 /\ at[M + 1] = L + 1
  BY DEF Reads, ReadsFrom
<1>1. PICK f : TokensAt(L, A, 1, f)
  BY <1>0, PatternIsRead, TokensSolved
<1>2. parseFind(s) = f[at[1]]
  BY <1>0, <1>1 DEF parseFind, TokensAt
<1>3. f[L + 1] = {<<>>}
  <2>1. f[L + 1] = TokensFrom(L, A, L + 1, f) /\ L + 1 > L
    <3> HIDE DEF A, L
    <3> QED
      BY <1>0, <1>1 DEF TokensAt
  <2> QED
    BY <2>1, Zenon DEF TokensFrom
<1>4. ASSUME NEW k \in 1 .. M
      PROVE  IF BadInPattern(symbols[k]) THEN f[at[k]] = {}
             ELSE tok[k] \in TokensUpTo(1) /\ f[at[k]] = {Join(tok[k], r) : r \in f[at[nx[k]]]}
  <2>1. IF BadInPattern(symbols[k]) THEN f[at[k]] = {}
        ELSE /\ PatternToken(symbols[k]) \in TokensUpTo(1)
             /\ f[at[k]] = Prepended(PatternToken(symbols[k]), f[at[k + 1]])
    BY <1>1, FindSymbol
  <2>2. tok[k] = PatternToken(symbols[k]) /\ nx[k] = k + 1
    OBVIOUS
  <2> HIDE DEF tok, nx
  <2> QED
    BY <2>1, <2>2 DEF Prepended
<1>5. Follows(f, L, M, at, {}, bad, tok, nx)
  <2>1. \A k \in 1 .. M : nx[k] = k + 1
    OBVIOUS
  <2> HIDE DEF tok, nx, L, M, A
  <2>2. ASSUME NEW k \in (1 .. M) \ ({} \cup bad)
        PROVE  /\ nx[k] \in k + 1 .. M + 1 /\ nx[k] \notin {} /\ k + 1 .. nx[k] - 1 \subseteq {}
               /\ f[at[k]] = {Join(tok[k], r) : r \in f[at[nx[k]]]}
    <3>1. k \in 1 .. M /\ ~BadInPattern(symbols[k])
      OBVIOUS
    <3>2. nx[k] = k + 1 /\ f[at[k]] = {Join(tok[k], r) : r \in f[at[nx[k]]]}
      BY <1>4, <2>1, <3>1
    <3>3. nx[k] \in k + 1 .. M + 1 /\ k + 1 .. nx[k] - 1 \subseteq {}
      BY <1>0, <3>1, <3>2
    <3> QED
      BY <3>2, <3>3
  <2>3. \A k \in bad : f[at[k]] = {}
    BY <1>4
  <2> HIDE DEF bad
  <2>4. bad \subseteq 1 .. M
    BY DEF bad
  <2> QED
    BY <1>0, <1>3, <2>2, <2>3, <2>4 DEF Follows
<1>6. Pattern(symbols) = IF \E k \in 1 .. M : BadInPattern(symbols[k]) THEN {} ELSE {Joined(tok, {})}
  BY <1>0 DEF Pattern, BadInPattern, PatternToken, PatternEscapes
<1>7. CASE bad # {}
  <2>1. PICK b : b \in bad
    BY <1>7
  <2>2. f[at[1]] = {}
    <3> HIDE DEF bad, tok, nx, L, M
    <3> QED
      BY <1>5, <2>1, BadIsRefused
  <2>3. \E k \in 1 .. M : BadInPattern(symbols[k])
    BY <2>1
  <2> QED
    BY <1>2, <1>6, <2>2, <2>3
<1>8. CASE bad = {}
  <2>1. ~\E k \in 1 .. M : BadInPattern(symbols[k])
    BY <1>8
  <2>2. tok \in Seq(TokensUpTo(1)) /\ Len(tok) = M
    <3>1. \A k \in 1 .. M : PatternToken(symbols[k]) \in TokensUpTo(1)
      BY <1>4, <2>1
    <3> QED
      BY <1>0, <3>1
  <2>3. f[at[1]] = {Joined(tok, {})}
    <3> HIDE DEF bad, tok, nx, L, M
    <3> QED
      BY <1>5, <1>8, <2>2, GoodIsJoined
  <2> QED
    BY <1>2, <1>6, <2>1, <2>3
<1> QED
  BY <1>7, <1>8

-----------------------------------------------------------------------------
(* Replacements: the numbers of captures.                                  *)

(* What begins a symbol other than a character is no digit, nor is a       *)
(* dollar.                                                                 *)
LEMMA NoDigits == \A c \in {"\\", "=", ">", "$"} : c \notin DOMAIN Digit
<1>1. DOMAIN Digits = 1 .. 10
  BY DEF Digits
<1>2. DOMAIN Digit = {Digits[n] : n \in 1 .. 10}
  <2>1. DOMAIN Digit = Range(Digits)
    BY DEF Digit
  <2>2. Range(Digits) = {Digits[n] : n \in DOMAIN Digits}
    BY DEF Range
  <2> QED
    BY <1>1, <2>1, <2>2
<1>3. ASSUME NEW n \in 1 .. 10 PROVE Digits[n] \notin {"\\", "=", ">", "$"}
  <2>1. n \in {1, 2, 3, 4, 5, 6, 7, 8, 9, 10}
    OBVIOUS
  <2> QED
    BY <2>1 DEF Digits
<1> QED
  BY <1>2, <1>3

(* A number ends in one place only.                                        *)
LEMMA AfterNumberIs ==
  ASSUME NEW s, Len(s) \in Nat, NEW i \in 1 .. Len(s) + 1, NEW j \in i .. Len(s) + 1,
         \A k \in i .. j - 1 : s[k] \in DOMAIN Digit, j <= Len(s) => s[j] \notin DOMAIN Digit
  PROVE  AfterNumber(s, i) = j
<1> DEFINE P(n) == /\ \A k \in i .. n - 1 : s[k] \in DOMAIN Digit
                   /\ n <= Len(s) => s[n] \notin DOMAIN Digit
           a == CHOOSE n \in i .. Len(s) + 1 : P(n)
<1>1. P(j)
  OBVIOUS
<1>2. a \in i .. Len(s) + 1 /\ P(a)
  <2> HIDE DEF P
  <2> QED
    BY <1>1
<1>3. a = AfterNumber(s, i)
  BY DEF AfterNumber
<1> HIDE DEF a
<1>4. ~(a < j)
  <2> SUFFICES ASSUME a < j PROVE FALSE
    OBVIOUS
  <2>1. a \in i .. j - 1 /\ a <= Len(s)
    BY <1>2
  <2> QED
    BY <1>2, <2>1
<1>5. ~(j < a)
  <2> SUFFICES ASSUME j < a PROVE FALSE
    OBVIOUS
  <2>1. j \in i .. a - 1 /\ j <= Len(s)
    BY <1>2
  <2> QED
    BY <1>2, <2>1
<1> QED
  BY <1>2, <1>3, <1>4, <1>5

(* Numbers of the same digits are the same.                                *)
LEMMA SameNumber ==
  ASSUME NEW s, NEW i, NEW t, NEW j,
         AfterNumber(s, i) - i = AfterNumber(t, j) - j,
         \A n \in 1 .. AfterNumber(s, i) - i : s[i + n - 1] = t[j + n - 1],
         AfterNumber(s, i) - i \in Nat
  PROVE  Number(s, i) = Number(t, j)
<1> DEFINE M == AfterNumber(s, i) - i
           P(f) == f = [n \in 0 .. M |-> IF n = 0 THEN 0 ELSE 10 * f[n - 1] + Digit[s[i + n - 1]]]
           Q(f) == f = [n \in 0 .. M |-> IF n = 0 THEN 0 ELSE 10 * f[n - 1] + Digit[t[j + n - 1]]]
<1>1. \A n \in 0 .. M : n = 0 \/ s[i + n - 1] = t[j + n - 1]
  <2>1. \A n \in 0 .. M : n = 0 \/ n \in 1 .. M
    <3>1. M \in Nat
      OBVIOUS
    <3> HIDE DEF M
    <3> QED
      BY <3>1
  <2> QED
    BY <2>1
<1>2. ASSUME NEW f PROVE P(f) <=> Q(f)
  <2>1. [n \in 0 .. M |-> IF n = 0 THEN 0 ELSE 10 * f[n - 1] + Digit[s[i + n - 1]]]
        = [n \in 0 .. M |-> IF n = 0 THEN 0 ELSE 10 * f[n - 1] + Digit[t[j + n - 1]]]
    <3> HIDE DEF M
    <3> QED
      BY <1>1
  <2> QED
    BY <2>1
<1>3. (CHOOSE f : P(f)) = (CHOOSE f : Q(f))
  <2> HIDE DEF P, Q
  <2>1. \A f : P(f) <=> Q(f)
    BY <1>2
  <2> QED
    BY <2>1, Zenon
<1>4. Number(s, i) = (CHOOSE f : P(f))[M]
  BY DEF Number
<1>5. Number(t, j) = (CHOOSE f : Q(f))[M]
  <2>1. AfterNumber(t, j) - j = M
    OBVIOUS
  <2> HIDE DEF M
  <2> QED
    BY <2>1 DEF Number
<1> QED
  BY <1>3, <1>4, <1>5

(* Every symbol begins with its first character.                           *)
LEMMA HeadsAt ==
  ASSUME NEW s, NEW symbols, NEW at, Reads(s, symbols, at)
  PROVE  /\ Len(Heads(symbols)) = Len(symbols)
         /\ \A k \in 1 .. Len(symbols) :
              /\ Heads(symbols)[k] = s[at[k]]
              /\ s[at[k]] \in DOMAIN Digit \cup {"$"} => symbols[k] = Plain(<<s[at[k]]>>) /\ at[k + 1] = at[k] + 1
<1>0. symbols \in Seq(SymbolType) /\ DOMAIN symbols = 1 .. Len(symbols) /\ Len(symbols) \in Nat
  BY DEF Reads, ReadsFrom
<1>1. Len(Heads(symbols)) = Len(symbols)
  BY <1>0 DEF Heads
<1>2. ASSUME NEW k \in 1 .. Len(symbols)
      PROVE  /\ Heads(symbols)[k] = s[at[k]]
             /\ s[at[k]] \in DOMAIN Digit \cup {"$"} => symbols[k] = Plain(<<s[at[k]]>>) /\ at[k + 1] = at[k] + 1
  <2>1. /\ at[k + 1] = at[k] + Width(symbols[k])
        /\ \/ PlainArrowAt(s, at[k], symbols[k]) \/ PlainAt(s, at[k], symbols[k])
           \/ EscapedArrowAt(s, at[k], symbols[k]) \/ DanglingAt(s, at[k], symbols[k])
           \/ EscapedAt(s, at[k], symbols[k])
    BY SymbolsAt
  <2>2. Heads(symbols)[k] = IF symbols[k].escaped THEN "\\" ELSE symbols[k].chars[1]
    BY <1>0 DEF Heads
  <2>3. \A chars : ~Plain(chars).escaped /\ Escape(chars).escaped /\ Plain(chars).chars = chars
    BY DEF Plain, Escape
  <2>4. CASE PlainArrowAt(s, at[k], symbols[k])
    <3>1. symbols[k] = Plain(Arrow) /\ s[at[k]] = "="
      BY <2>4 DEF PlainArrowAt
    <3>2. Heads(symbols)[k] = Arrow[1]
      BY <2>2, <2>3, <3>1
    <3> QED
      BY <3>1, <3>2, ArrowLength, NoDigits
  <2>5. CASE PlainAt(s, at[k], symbols[k])
    <3>1. symbols[k] = Plain(<<s[at[k]]>>) /\ at[k + 1] = at[k] + 1
      BY <2>1, <2>5 DEF PlainAt
    <3>2. Heads(symbols)[k] = <<s[at[k]]>>[1]
      BY <2>2, <2>3, <3>1
    <3> QED
      BY <3>1, <3>2, OneLength
  <2>6. CASE EscapedArrowAt(s, at[k], symbols[k]) \/ DanglingAt(s, at[k], symbols[k]) \/ EscapedAt(s, at[k], symbols[k])
    <3>1. s[at[k]] = "\\" /\ \E chars : symbols[k] = Escape(chars)
      BY <2>6 DEF EscapedArrowAt, DanglingAt, EscapedAt
    <3>2. Heads(symbols)[k] = "\\"
      BY <2>2, <2>3, <3>1
    <3> QED
      BY <3>1, <3>2, NoDigits
  <2> QED
    BY <2>1, <2>4, <2>5, <2>6
<1> QED
  BY <1>1, <1>2

(* A number ends with a symbol, and is that of the symbols.                *)
LEMMA NumbersAgree ==
  ASSUME NEW s, NEW symbols, NEW at, Reads(s, symbols, at), NEW k \in 1 .. Len(symbols) + 1
  PROVE  LET j == AfterNumber(Heads(symbols), k)
         IN /\ j \in k .. Len(symbols) + 1
            /\ \A m \in k .. j - 1 : Heads(symbols)[m] \in DOMAIN Digit
            /\ j <= Len(symbols) => Heads(symbols)[j] \notin DOMAIN Digit
            /\ AfterNumber(s, at[k]) = at[j]
            /\ Number(s, at[k]) = Number(Heads(symbols), k)
<1> DEFINE h == Heads(symbols)
           j == AfterNumber(h, k)
           M == Len(symbols)
           L == Len(s)
<1>00. M \in Nat /\ L \in Nat /\ at \in [1 .. M + 1 -> 1 .. L + 1] /\ at[M + 1] = L + 1
  BY DEF Reads, ReadsFrom
<1>01. /\ Len(Heads(symbols)) = Len(symbols)
       /\ \A m \in 1 .. Len(symbols) :
            /\ Heads(symbols)[m] = s[at[m]]
            /\ s[at[m]] \in DOMAIN Digit \cup {"$"} => symbols[m] = Plain(<<s[at[m]]>>) /\ at[m + 1] = at[m] + 1
  BY HeadsAt
<1>0. M \in Nat /\ L \in Nat /\ at \in [1 .. M + 1 -> 1 .. L + 1] /\ at[M + 1] = L + 1 /\ Len(h) = M
  BY <1>00, <1>01
<1>1. \A m \in 1 .. M : h[m] = s[at[m]] /\ (s[at[m]] \in DOMAIN Digit => at[m + 1] = at[m] + 1)
  BY <1>01
<1>2. /\ j \in k .. M + 1 /\ \A m \in k .. j - 1 : h[m] \in DOMAIN Digit
      /\ j <= M => h[j] \notin DOMAIN Digit
  <2> HIDE DEF h
  <2>1. Len(h) \in Nat /\ k \in 1 .. Len(h) + 1
    BY <1>0
  <2>2. /\ j \in k .. Len(h) + 1 /\ \A m \in k .. j - 1 : h[m] \in DOMAIN Digit
        /\ j <= Len(h) => h[j] \notin DOMAIN Digit
    BY <2>1, NumberEnds
  <2> HIDE DEF j
  <2> QED
    BY <1>0, <2>2
<1> HIDE DEF h, j, M, L
<1> DEFINE S == {n \in 0 .. j - k : at[k + n] = at[k] + n}
<1>3. 0 \in S
  <2>1. at[k] \in Nat /\ k \in Nat /\ k + 0 = k /\ at[k] + 0 = at[k]
    BY <1>0 DEF M
  <2> QED
    BY <1>2, <2>1
<1>4. ASSUME NEW n \in 0 .. j - k - 1, n \in S PROVE n + 1 \in S
  <2>1. k + n \in k .. j - 1 /\ k + n \in 1 .. M /\ n + 1 \in 0 .. j - k /\ k + n + 1 = k + (n + 1)
    BY <1>0, <1>2 DEF M
  <2>2. at[k + n + 1] = at[k + n] + 1
    BY <1>1, <1>2, <2>1
  <2>3. at[k + n] = at[k] + n /\ at[k] \in Nat
    BY <1>0, <1>4 DEF M
  <2> QED
    BY <2>1, <2>2, <2>3
<1>5. \A n \in 0 .. j - k : at[k + n] = at[k] + n
  <2>1. j - k \in Nat
    BY <1>0, <1>2 DEF M
  <2>2. 0 .. j - k \subseteq S
    <3> HIDE DEF S
    <3> QED
      BY <1>3, <1>4, <2>1, UpToInduction
  <2> QED
    BY <2>2
<1>6. k \in Nat /\ j \in Nat /\ at[k] \in 1 .. L + 1 /\ at[j] = at[k] + (j - k) /\ at[j] \in 1 .. L + 1
  <2>1. k \in 1 .. M + 1 /\ j \in 1 .. M + 1 /\ j - k \in 0 .. j - k /\ k + (j - k) = j
    BY <1>0, <1>2 DEF M
  <2> QED
    BY <1>0, <1>5, <2>1
<1>7. ASSUME NEW n \in 0 .. j - k - 1 PROVE s[at[k] + n] = h[k + n] /\ h[k + n] \in DOMAIN Digit
  <2>1. k + n \in k .. j - 1 /\ k + n \in 1 .. M /\ n \in 0 .. j - k
    BY <1>0, <1>2, <1>6
  <2> QED
    BY <1>1, <1>2, <1>5, <2>1
<1>8. AfterNumber(s, at[k]) = at[j]
  <2>1. at[j] \in at[k] .. L + 1
    BY <1>2, <1>6
  <2>2. \A i \in at[k] .. at[j] - 1 : s[i] \in DOMAIN Digit
    <3> SUFFICES ASSUME NEW i \in at[k] .. at[j] - 1 PROVE s[i] \in DOMAIN Digit
      OBVIOUS
    <3>1. i - at[k] \in 0 .. j - k - 1 /\ at[k] + (i - at[k]) = i
      BY <1>6
    <3> QED
      BY <1>7, <3>1
  <2>3. at[j] <= L => s[at[j]] \notin DOMAIN Digit
    <3>1. CASE j <= M
      <4>1. j \in 1 .. M
        BY <1>0, <1>2, <1>6, <3>1 DEF M
      <4> QED
        BY <1>1, <1>2, <3>1, <4>1
    <3>2. CASE ~(j <= M)
      <4>1. j = M + 1
        BY <1>0, <1>2, <1>6, <3>2
      <4> QED
        BY <1>0, <4>1
    <3> QED
      BY <3>1, <3>2
  <2>4. Len(s) \in Nat /\ at[k] \in 1 .. Len(s) + 1 /\ at[j] \in at[k] .. Len(s) + 1
    BY <1>0, <1>6, <2>1 DEF L
  <2> QED
    BY <2>2, <2>3, <2>4, AfterNumberIs DEF L
<1>9. Number(s, at[k]) = Number(h, k)
  <2>1. AfterNumber(s, at[k]) - at[k] = AfterNumber(h, k) - k /\ AfterNumber(s, at[k]) - at[k] \in Nat
    BY <1>2, <1>6, <1>8 DEF j
  <2>2. \A n \in 1 .. AfterNumber(s, at[k]) - at[k] : s[at[k] + n - 1] = h[k + n - 1]
    <3> SUFFICES ASSUME NEW n \in 1 .. j - k PROVE s[at[k] + n - 1] = h[k + n - 1]
      BY <1>6, <1>8
    <3>1. n - 1 \in 0 .. j - k - 1 /\ at[k] + (n - 1) = at[k] + n - 1 /\ k + (n - 1) = k + n - 1
      BY <1>6
    <3> QED
      BY <1>7, <3>1
  <2> QED
    BY <2>1, <2>2, SameNumber
<1> QED
  BY <1>2, <1>8, <1>9 DEF h, j, M

(* What Replacement refuses, the tokens of what it does not, and the       *)
(* symbol after them.                                                      *)
ReplacementEscapes == {Arrow, <<"#">>, <<"!">>}
BadEscape(y) == y.escaped /\ y.chars \notin ReplacementEscapes
Dollar == Plain(<<"$">>)
BadNumber(symbols, k, c) ==
  /\ symbols[k] = Dollar
  /\ \/ k = Len(symbols) \/ Heads(symbols)[k + 1] \notin DOMAIN Digit \ {"0"}
     \/ Number(Heads(symbols), k + 1) \notin 1 .. c
ReplacementToken(symbols, k) ==
  IF symbols[k] = Dollar THEN Capture(Number(Heads(symbols), k + 1)) ELSE Literal(symbols[k].chars)
NextSymbol(symbols, k) ==
  IF symbols[k] = Dollar THEN AfterNumber(Heads(symbols), k + 1) ELSE k + 1

(* A dollar and the number after it.                                       *)
LEMMA DollarRead ==
  ASSUME NEW s, NEW symbols, NEW at, Reads(s, symbols, at), NEW k \in 1 .. Len(symbols), NEW c \in Nat,
         s[at[k]] = "$", symbols[k] = Dollar, at[k + 1] = at[k] + 1
  PROVE  /\ BadNumber(symbols, k, c) => ReplaceToken(s, at[k], c) = {}
         /\ ~BadNumber(symbols, k, c) =>
              /\ ReplaceToken(s, at[k], c) = Read(ReplacementToken(symbols, k), at[NextSymbol(symbols, k)])
              /\ ReplacementToken(symbols, k) \in TokensUpTo(c)
<1> DEFINE i == at[k]
           h == Heads(symbols)
           n == Number(h, k + 1)
           M == Len(symbols)
           L == Len(s)
<1>0. /\ M \in Nat /\ L \in Nat /\ at \in [1 .. M + 1 -> 1 .. L + 1] /\ at[M + 1] = L + 1
  BY DEF Reads, ReadsFrom
<1>1. k + 1 \in 1 .. M + 1 /\ k \in 1 .. M /\ i \in 1 .. L
  BY <1>0, SymbolsAt
<1>2. /\ AfterNumber(s, at[k + 1]) = at[AfterNumber(h, k + 1)]
      /\ Number(s, at[k + 1]) = n
  BY <1>1, NumbersAgree
<1>3. k # M => i + 1 \in 1 .. L /\ s[i + 1] = h[k + 1]
  <2> SUFFICES ASSUME k # M PROVE i + 1 \in 1 .. L /\ s[i + 1] = h[k + 1]
    OBVIOUS
  <2>1. k + 1 \in 1 .. M
    BY <1>0, <1>1
  <2>2. at[k + 1] \in 1 .. L
    BY <2>1, SymbolsAt
  <2>3. h[k + 1] = s[at[k + 1]]
    <3>1. /\ Len(Heads(symbols)) = Len(symbols)
          /\ \A m \in 1 .. Len(symbols) :
               /\ Heads(symbols)[m] = s[at[m]]
               /\ s[at[m]] \in DOMAIN Digit \cup {"$"} => symbols[m] = Plain(<<s[at[m]]>>) /\ at[m + 1] = at[m] + 1
      BY HeadsAt
    <3> QED
      BY <2>1, <3>1
  <2> QED
    BY <2>2, <2>3
<1>4. k = M => i + 1 = L + 1
  BY <1>0
<1>5. ReplaceToken(s, i, c) =
        IF BeginsNumber(s, i + 1) /\ n <= c
        THEN Read(Capture(n), at[AfterNumber(h, k + 1)]) ELSE {}
  BY <1>2 DEF ReplaceToken
<1>6. BeginsNumber(s, i + 1) <=> k # M /\ h[k + 1] \in DOMAIN Digit \ {"0"}
  <2>1. CASE k = M
    BY <1>0, <1>1, <1>4, <2>1 DEF BeginsNumber
  <2>2. CASE k # M
    <3> HIDE DEF h
    <3> QED
      BY <1>0, <1>1, <1>3, <2>2 DEF BeginsNumber
  <2> QED
    BY <2>1, <2>2
<1>7. BeginsNumber(s, i + 1) => n \in Nat \ {0}
  <2> SUFFICES ASSUME BeginsNumber(s, i + 1) PROVE n \in Nat \ {0}
    OBVIOUS
  <2>1. i + 1 \in 1 .. L
    BY <1>0, <1>3, <1>6
  <2>2. Number(s, i + 1) \in Nat \ {0}
    BY <1>0, <2>1, NumberIsPositive
  <2> QED
    BY <1>2, <2>2
<1>8. BadNumber(symbols, k, c) <=> k = M \/ h[k + 1] \notin DOMAIN Digit \ {"0"} \/ n \notin 1 .. c
  BY DEF BadNumber
<1>9. ReplacementToken(symbols, k) = Capture(n) /\ NextSymbol(symbols, k) = AfterNumber(h, k + 1)
  BY DEF ReplacementToken, NextSymbol
<1> HIDE DEF h, n, M, L, i
<1>10. BeginsNumber(s, i + 1) => (n <= c <=> n \in 1 .. c)
  BY <1>7
<1>11. BadNumber(symbols, k, c) => ReplaceToken(s, i, c) = {}
  BY <1>5, <1>6, <1>8, <1>10
<1>12. ASSUME ~BadNumber(symbols, k, c)
       PROVE  /\ ReplaceToken(s, i, c) = Read(Capture(n), at[AfterNumber(h, k + 1)])
              /\ Capture(n) \in TokensUpTo(c)
  <2>1. n \in 1 .. c
    BY <1>8, <1>12
  <2>2. Capture(n) \in TokensUpTo(c)
    BY <2>1, CaptureIsToken
  <2> QED
    BY <1>5, <1>6, <1>8, <1>10, <1>12, <2>1, <2>2
<1> QED
  BY <1>9, <1>11, <1>12 DEF i

(* A number, a character or an escape of a replacement.                    *)
LEMMA ReplaceSymbol ==
  ASSUME NEW s, NEW symbols, NEW at, Reads(s, symbols, at), NEW k \in 1 .. Len(symbols), NEW f, NEW c \in Nat,
         TokensAt(Len(s), [i \in DOMAIN s |-> ReplaceToken(s, i, c)], c, f)
  PROVE  IF BadEscape(symbols[k]) \/ BadNumber(symbols, k, c) THEN f[at[k]] = {}
         ELSE /\ ReplacementToken(symbols, k) \in TokensUpTo(c)
              /\ f[at[k]] = Prepended(ReplacementToken(symbols, k), f[at[NextSymbol(symbols, k)]])
<1> DEFINE A == [i \in DOMAIN s |-> ReplaceToken(s, i, c)]
           i == at[k]
           y == symbols[k]
           L == Len(s)
<1>1. /\ s \in Seq(STRING) /\ L \in Nat /\ i \in 1 .. L
      /\ at[k + 1] = i + Width(y) /\ y \in SymbolType
      /\ \/ PlainArrowAt(s, i, y) \/ PlainAt(s, i, y)
         \/ EscapedArrowAt(s, i, y) \/ DanglingAt(s, i, y) \/ EscapedAt(s, i, y)
  BY SymbolsAt
<1>2. \A j \in 1 .. L : A[j] = ReplaceToken(s, j, c) /\ s[j] \in STRING
  BY <1>1
<1>3. ASSUME NEW j \in 1 .. L
      PROVE  /\ ReplaceToken(s, j, c) = {} => f[j] = {}
             /\ \A t, n : ReplaceToken(s, j, c) = Read(t, n) => f[j] = Prepended(t, f[n])
  <2>1. A[j] = ReplaceToken(s, j, c)
    BY <1>2
  <2> HIDE DEF A
  <2>2. TokensAt(L, A, c, f)
    BY DEF A
  <2> HIDE DEF L
  <2> QED
    BY <1>1, <2>1, <2>2, OneRead
<1>4. y.chars \in Seq(STRING)
  BY <1>1 DEF SymbolType
<1>5. \A chars : /\ ~Plain(chars).escaped /\ Escape(chars).escaped
                 /\ Plain(chars).chars = chars /\ Escape(chars).chars = chars
                 /\ Escape(chars) # Dollar
  BY DEF Plain, Escape, Dollar
<1>6. \A x : Plain(<<x>>) = Dollar <=> x = "$"
  BY SameElement DEF Plain, Dollar
<1>7. Plain(Arrow) # Dollar
  BY ArrowLength, OneLength DEF Plain, Dollar
<1>70. y # Dollar => /\ ~BadNumber(symbols, k, c) /\ ReplacementToken(symbols, k) = Literal(y.chars)
                     /\ NextSymbol(symbols, k) = k + 1
  BY DEF BadNumber, ReplacementToken, NextSymbol
<1>71. y = Dollar => ~BadEscape(y)
  BY <1>5 DEF BadEscape, Dollar
<1>72. y.chars # <<>> => Literal(y.chars) \in TokensUpTo(c)
  BY <1>4, LiteralIsToken
<1>8. CASE PlainArrowAt(s, i, y)
  <2>1. /\ y = Plain(Arrow) /\ i + 1 \in 1 .. L /\ s[i] = "=" /\ s[i + 1] = ">" /\ at[k + 1] = i + 2
    BY <1>1, <1>8 DEF PlainArrowAt
  <2>2. ReplaceToken(s, i, c) = Read(Literal(<<"=">>), i + 1) /\ ReplaceToken(s, i + 1, c) = Read(Literal(<<">">>), i + 2)
    <3>1. i + 1 + 1 = i + 2
      BY <1>1
    <3> HIDE DEF i, y
    <3> QED
      BY <2>1, <3>1 DEF ReplaceToken
  <2>3. y.chars = Arrow /\ y # Dollar /\ ~BadEscape(y)
    BY <1>5, <1>7, <2>1 DEF BadEscape
  <2>4. f[i] = Prepended(Literal(Arrow), f[i + 2])
    <3>1. Arrow \in Seq(STRING) /\ i + 1 <= L
      BY <1>1, <1>4, <2>1, <2>3
    <3>2. A[i] = Read(Literal(<<"=">>), i + 1) /\ A[i + 1] = Read(Literal(<<">">>), i + 2)
      BY <1>1, <1>2, <2>1, <2>2
    <3> HIDE DEF A
    <3>3. TokensAt(L, A, c, f)
      BY DEF A
    <3> HIDE DEF L, i
    <3> QED
      BY <1>1, <3>1, <3>2, <3>3, ArrowRead
  <2>5. Literal(Arrow) \in TokensUpTo(c)
    <3>1. Arrow # <<>>
      BY ArrowLength
    <3> HIDE DEF y
    <3> QED
      BY <1>72, <2>3, <3>1
  <2> HIDE DEF y
  <2> QED
    BY <1>70, <2>1, <2>3, <2>4, <2>5 DEF y
<1>9. CASE PlainAt(s, i, y)
  <2>1. y = Plain(<<s[i]>>) /\ s[i] # "\\" /\ at[k + 1] = i + 1
    BY <1>1, <1>9 DEF PlainAt
  <2>2. ~BadEscape(y) /\ y.chars = <<s[i]>>
    <3> HIDE DEF y, i
    <3> QED
      BY <1>5, <2>1 DEF BadEscape
  <2>3. CASE s[i] = "$"
    <3>1. y = Dollar
      BY <1>6, <2>1, <2>3
    <3>2. /\ BadNumber(symbols, k, c) => ReplaceToken(s, at[k], c) = {}
          /\ ~BadNumber(symbols, k, c) =>
               /\ ReplaceToken(s, at[k], c) = Read(ReplacementToken(symbols, k), at[NextSymbol(symbols, k)])
               /\ ReplacementToken(symbols, k) \in TokensUpTo(c)
      BY <2>1, <2>3, <3>1, DollarRead
    <3> HIDE DEF A, L
    <3> QED
      BY <1>1, <1>3, <2>2, <3>2
  <2>4. CASE s[i] # "$"
    <3>1. y # Dollar
      BY <1>6, <2>1, <2>4
    <3>2. ReplaceToken(s, i, c) = Read(Literal(<<s[i]>>), i + 1)
      BY <2>1, <2>4 DEF ReplaceToken
    <3>3. f[i] = Prepended(Literal(<<s[i]>>), f[i + 1])
      BY <1>1, <1>3, <3>2
    <3>4. <<s[i]>> # <<>>
      <4>1. s[i] \in STRING
        BY <1>1, <1>2
      <4> QED
        BY <4>1, OneOrTwo, Zenon
    <3> QED
      BY <1>70, <1>72, <2>1, <2>2, <3>1, <3>3, <3>4
  <2> QED
    BY <2>3, <2>4
<1> HIDE DEF i, y
<1>10. CASE EscapedArrowAt(s, i, y)
  <2>1. /\ y = Escape(Arrow) /\ i + 2 <= L /\ s[i] = "\\" /\ s[i + 1] = "=" /\ s[i + 2] = ">"
        /\ at[k + 1] = i + 3
    BY <1>1, <1>10 DEF EscapedArrowAt
  <2>2. IsArrow(s, i + 1)
    BY <1>1, <2>1 DEF IsArrow
  <2>3. ReplaceToken(s, i, c) = Read(Literal(Arrow), i + 3)
    BY <2>1, <2>2 DEF ReplaceToken, Arrow
  <2>4. ~BadEscape(y) /\ y # Dollar /\ y.chars = Arrow
    BY <1>5, <2>1 DEF BadEscape, ReplacementEscapes
  <2>5. Arrow # <<>>
    BY ArrowLength
  <2>6. f[i] = Prepended(Literal(Arrow), f[i + 3])
    BY <1>1, <1>3, <2>3
  <2> QED
    BY <1>70, <1>72, <2>1, <2>4, <2>5, <2>6 DEF i, y
<1>11. CASE DanglingAt(s, i, y)
  <2>1. y = Escape(<<>>) /\ i = L /\ s[i] = "\\"
    BY <1>11 DEF DanglingAt
  <2>2. ~IsArrow(s, i + 1) /\ ~(i < Len(s))
    BY <1>1, <2>1 DEF IsArrow
  <2>3. ReplaceToken(s, i, c) = {}
    BY <2>1, <2>2 DEF ReplaceToken
  <2>4. BadEscape(y)
    <3>1. <<>> \notin ReplacementEscapes
      BY ArrowLength, OneLength DEF ReplacementEscapes
    <3> QED
      BY <1>5, <2>1, <3>1 DEF BadEscape
  <2>5. f[i] = {}
    BY <1>1, <1>3, <2>3
  <2> QED
    BY <2>4, <2>5 DEF i, y
<1>12. CASE EscapedAt(s, i, y)
  <2> DEFINE x == s[i + 1]
  <2>1. y = Escape(<<x>>) /\ i + 1 \in 1 .. L /\ i < Len(s) /\ s[i] = "\\" /\ ~IsArrow(s, i + 1) /\ at[k + 1] = i + 2
    BY <1>1, <1>12 DEF EscapedAt
  <2>2. x \in STRING
    BY <1>2, <2>1
  <2>3. <<x>> \in ReplacementEscapes <=> x \in {"#", "!"}
    <3>1. <<x>> # Arrow
      BY ArrowLength, OneLength
    <3>2. \A z : <<x>> = <<z>> <=> x = z
      BY SameElement
    <3> HIDE DEF x
    <3> QED
      BY <3>1, <3>2, Zenon DEF ReplacementEscapes
  <2>4. BadEscape(y) <=> x \notin {"#", "!"}
    BY <1>5, <2>1, <2>3 DEF BadEscape
  <2>5. y # Dollar /\ y.chars = <<x>>
    BY <1>5, <2>1
  <2>6. ReplaceToken(s, i, c) = IF x \in {"#", "!"} THEN Read(Literal(<<x>>), i + 2) ELSE {}
    BY <2>1 DEF ReplaceToken
  <2>7. <<x>> # <<>>
    BY <2>2, OneOrTwo, Zenon
  <2> HIDE DEF x
  <2>8. IF BadEscape(y) THEN f[i] = {} ELSE f[i] = Prepended(Literal(<<x>>), f[i + 2])
    BY <1>1, <1>3, <2>4, <2>6
  <2> QED
    BY <1>70, <1>72, <2>1, <2>5, <2>7, <2>8 DEF i, y
<1> QED
  BY <1>1, <1>8, <1>9, <1>10, <1>11, <1>12 DEF i, y

(* Reading on from a symbol skips the digits of a number and no more.      *)
Skipped(symbols) == {k \in 1 .. Len(symbols) : InNumber(symbols, k)}
(* The positions that reading skips are those of digits behind a first one.*)
LEMMA DigitsSkipped ==
  ASSUME NEW s, NEW symbols, NEW at, Reads(s, symbols, at)
  PROVE  LET skip == Skipped(symbols)
             M == Len(symbols)
         IN /\ \A k \in skip : /\ k \in 2 .. M /\ Heads(symbols)[k] \in DOMAIN Digit
                               /\ symbols[k] # Dollar /\ ~symbols[k].escaped
            /\ \A k \in (1 .. M) \ skip :
                 /\ NextSymbol(symbols, k) \in k + 1 .. M + 1 /\ NextSymbol(symbols, k) \notin skip
                 /\ k + 1 .. NextSymbol(symbols, k) - 1 \subseteq skip
<1> DEFINE M == Len(symbols)
           h == Heads(symbols)
           skip == {k \in 1 .. M : InNumber(symbols, k)}
           nx == [k \in 1 .. M |-> NextSymbol(symbols, k)]
<1>0. /\ s \in Seq(STRING) /\ symbols \in Seq(SymbolType) /\ M \in Nat /\ DOMAIN symbols = 1 .. M
  BY DEF Reads, ReadsFrom
<1>1. \A k \in 1 .. M : /\ symbols[k] = Dollar => h[k] = "$"
                        /\ symbols[k].escaped => h[k] = "\\"
  <2>1. \A k \in 1 .. M : h[k] = IF symbols[k].escaped THEN "\\" ELSE symbols[k].chars[1]
    BY <1>0 DEF Heads
  <2>2. ~Dollar.escaped /\ Dollar.chars[1] = "$"
    BY OneLength DEF Dollar, Plain
  <2> QED
    BY <2>1, <2>2
<1>2. "$" \notin DOMAIN Digit /\ "\\" \notin DOMAIN Digit
  BY NoDigits
<1>3. \A k \in 1 .. M : k \in skip <=> \E d \in 1 .. M : /\ symbols[d] = Dollar /\ d < k
                                                         /\ \A m \in d + 1 .. k : h[m] \in DOMAIN Digit
  BY <1>0 DEF InNumber, Marks, Dollar
<1>4. \A k \in skip : k \in 2 .. M /\ h[k] \in DOMAIN Digit
  <2> SUFFICES ASSUME NEW k \in skip PROVE k \in 2 .. M /\ h[k] \in DOMAIN Digit
    OBVIOUS
  <2>1. k \in 1 .. M
    OBVIOUS
  <2> HIDE DEF skip, h
  <2>2. PICK d \in 1 .. M : d < k /\ \A m \in d + 1 .. k : h[m] \in DOMAIN Digit
    BY <1>3, <2>1
  <2>3. k \in d + 1 .. k
    BY <1>0, <2>1, <2>2
  <2> QED
    BY <1>0, <2>1, <2>2, <2>3
<1>5. \A k \in skip : symbols[k] # Dollar /\ ~symbols[k].escaped
  <2> SUFFICES ASSUME NEW k \in skip PROVE symbols[k] # Dollar /\ ~symbols[k].escaped
    OBVIOUS
  <2>1. h[k] \in DOMAIN Digit /\ k \in 1 .. M
    BY <1>0, <1>4
  <2> HIDE DEF h, skip
  <2> QED
    BY <1>1, <1>2, <2>1
<1>6. ASSUME NEW k \in (1 .. M) \ skip
       PROVE  nx[k] \in k + 1 .. M + 1 /\ nx[k] \notin skip /\ k + 1 .. nx[k] - 1 \subseteq skip
  <2>1. k \in 1 .. M /\ k \notin skip /\ nx[k] = NextSymbol(symbols, k)
    OBVIOUS
  <2>2. CASE symbols[k] = Dollar
    <3> DEFINE j == AfterNumber(h, k + 1)
    <3>1. nx[k] = j
      BY <2>1, <2>2 DEF NextSymbol
    <3>2. /\ j \in k + 1 .. M + 1
          /\ \A m \in k + 1 .. j - 1 : h[m] \in DOMAIN Digit
          /\ j <= M => h[j] \notin DOMAIN Digit
      <4>1. k + 1 \in 1 .. M + 1
        BY <1>0, <2>1
      <4> QED
        BY <4>1, NumbersAgree
    <3> HIDE DEF j, h, nx
    <3>3. j \notin skip
      <4> HIDE DEF skip
      <4> QED
        BY <1>0, <1>4, <3>2
    <3>4. ASSUME NEW m \in k + 1 .. j - 1 PROVE m \in skip
      <4>1. m \in 1 .. M /\ k < m /\ \A n \in k + 1 .. m : n \in k + 1 .. j - 1
        BY <1>0, <2>1, <3>2
      <4>2. \A n \in k + 1 .. m : h[n] \in DOMAIN Digit
        BY <3>2, <4>1
      <4> HIDE DEF skip
      <4> QED
        BY <1>3, <2>1, <2>2, <4>1, <4>2
    <3> HIDE DEF skip
    <3> QED
      BY <3>1, <3>2, <3>3, <3>4
  <2>3. CASE symbols[k] # Dollar
    <3>1. nx[k] = k + 1
      BY <2>1, <2>3 DEF NextSymbol
    <3> HIDE DEF nx, h
    <3>2. k + 1 \notin skip
      <4> SUFFICES ASSUME k + 1 \in skip PROVE FALSE
        OBVIOUS
      <4>1. k + 1 \in 1 .. M
        OBVIOUS
      <4> HIDE DEF skip
      <4>2. PICK d \in 1 .. M : /\ symbols[d] = Dollar /\ d < k + 1
                                /\ \A m \in d + 1 .. k + 1 : h[m] \in DOMAIN Digit
        BY <1>3, <4>1
      <4>3. d < k /\ \A m \in d + 1 .. k : m \in d + 1 .. k + 1
        BY <1>0, <2>1, <2>3, <4>2
      <4>4. k \in skip
        BY <1>3, <2>1, <4>2, <4>3
      <4> QED
        BY <2>1, <4>4
    <3>3. k + 1 \in k + 1 .. M + 1 /\ k + 1 .. k + 1 - 1 = {}
      BY <1>0, <2>1
    <3> HIDE DEF skip
    <3> QED
      BY <3>1, <3>2, <3>3
  <2> QED
    BY <2>2, <2>3
<1>7. \A k \in (1 .. M) \ skip : nx[k] = NextSymbol(symbols, k)
  OBVIOUS
<1> HIDE DEF nx
<1>8. skip = Skipped(symbols)
  BY DEF Skipped
<1> HIDE DEF skip, h
<1> QED
  BY <1>4, <1>5, <1>6, <1>7, <1>8 DEF h

(* What Replacement is, in these terms.                                    *)
Refused(symbols, k, c) == BadEscape(symbols[k]) \/ BadNumber(symbols, k, c)
ReplacementTokens(symbols) == [k \in 1 .. Len(symbols) |-> ReplacementToken(symbols, k)]
(* A replacement is its tokens joined, unless one of them is refused.     *)
LEMMA ReplacementIs ==
  ASSUME NEW symbols \in Seq(SymbolType), NEW c
  PROVE  Replacement(symbols, c) =
           IF \E k \in 1 .. Len(symbols) : Refused(symbols, k, c) THEN {}
           ELSE {Joined(ReplacementTokens(symbols), Skipped(symbols))}
<1> DEFINE M == Len(symbols)
           Bad(k) == BadEscape(symbols[k]) \/ BadNumber(symbols, k, c)
           skip == {k \in 1 .. M : InNumber(symbols, k)}
           tok == [k \in 1 .. M |-> ReplacementToken(symbols, k)]
<1>0. M \in Nat /\ DOMAIN symbols = 1 .. M
  OBVIOUS
<1>1. Replacement(symbols, c) = IF \E k \in 1 .. M : Bad(k) THEN {} ELSE {Joined(tok, skip)}
  <2>1. Marks(symbols, "$") = {k \in 1 .. M : symbols[k] = Dollar}
    BY <1>0 DEF Marks, Dollar
  <2>2. [k \in DOMAIN symbols |-> IF k \in Marks(symbols, "$") THEN Capture(Number(Heads(symbols), k + 1))
                                  ELSE Literal(symbols[k].chars)] = tok
    BY <1>0, <2>1 DEF ReplacementToken
  <2>3. {k \in DOMAIN symbols : InNumber(symbols, k)} = skip
    BY <1>0
  <2>4. (\/ \E k \in DOMAIN symbols :
             symbols[k].escaped /\ symbols[k].chars \notin {Arrow, <<"#">>, <<"!">>}
         \/ \E k \in Marks(symbols, "$") :
             \/ k = Len(symbols) \/ Heads(symbols)[k + 1] \notin DOMAIN Digit \ {"0"}
             \/ Number(Heads(symbols), k + 1) \notin 1 .. c) <=> \E k \in 1 .. M : Bad(k)
    BY <1>0, <2>1, Zenon DEF BadEscape, BadNumber, ReplacementEscapes
  <2> HIDE DEF tok, skip, Bad
  <2> QED
    BY <2>2, <2>3, <2>4, Zenon DEF Replacement
<1>2. skip = Skipped(symbols) /\ tok = ReplacementTokens(symbols)
  BY DEF Skipped, ReplacementTokens
<1>3. (\E k \in 1 .. M : Bad(k)) <=> \E k \in 1 .. Len(symbols) : Refused(symbols, k, c)
  BY DEF Refused
<1> HIDE DEF skip, tok, Bad
<1> QED
  BY <1>1, <1>2, <1>3, Zenon

(* parseReplace reads the replacement that the symbols are.                *)
LEMMA ReplacementsAgree ==
  ASSUME NEW s, NEW symbols, NEW at, Reads(s, symbols, at), NEW c \in Nat
  PROVE  parseReplace(s, c) = Replacement(symbols, c)
<1> DEFINE A == [i \in DOMAIN s |-> ReplaceToken(s, i, c)]
           L == Len(s)
           M == Len(symbols)
           Bad(k) == Refused(symbols, k, c)
           bad == {k \in 1 .. M : Bad(k)}
           skip == Skipped(symbols)
           tok == ReplacementTokens(symbols)
           nx == [k \in 1 .. M |-> NextSymbol(symbols, k)]
<1>0. /\ s \in Seq(STRING) /\ symbols \in Seq(SymbolType) /\ L \in Nat /\ M \in Nat /\ DOMAIN symbols = 1 .. M
      /\ at[1] = 1 /\ at[M + 1] = L + 1
  BY DEF Reads, ReadsFrom
<1>1. PICK f : TokensAt(L, A, c, f)
  BY <1>0, ReplacementIsRead, TokensSolved
<1>2. parseReplace(s, c) = f[at[1]]
  BY <1>0, <1>1 DEF parseReplace, TokensAt
<1>3. f[L + 1] = {<<>>}
  <2>1. f[L + 1] = TokensFrom(L, A, L + 1, f) /\ L + 1 > L
    <3> HIDE DEF A, L
    <3> QED
      BY <1>0, <1>1 DEF TokensAt
  <2> QED
    BY <2>1, Zenon DEF TokensFrom
<1>4. ASSUME NEW k \in 1 .. M
      PROVE  IF Bad(k) THEN f[at[k]] = {}
             ELSE tok[k] \in TokensUpTo(c) /\ f[at[k]] = {Join(tok[k], r) : r \in f[at[nx[k]]]}
  <2>1. IF Bad(k) THEN f[at[k]] = {}
        ELSE /\ ReplacementToken(symbols, k) \in TokensUpTo(c)
             /\ f[at[k]] = Prepended(ReplacementToken(symbols, k), f[at[NextSymbol(symbols, k)]])
    BY <1>1, ReplaceSymbol DEF Refused
  <2>2. tok[k] = ReplacementToken(symbols, k) /\ nx[k] = NextSymbol(symbols, k)
    BY DEF ReplacementTokens
  <2> HIDE DEF tok, nx
  <2> QED
    BY <2>1, <2>2 DEF Prepended
<1>5. /\ \A k \in skip : k \in 2 .. M /\ symbols[k] # Dollar /\ ~symbols[k].escaped
      /\ \A k \in (1 .. M) \ skip :
           nx[k] \in k + 1 .. M + 1 /\ nx[k] \notin skip /\ k + 1 .. nx[k] - 1 \subseteq skip
  <2>1. \A k \in (1 .. M) \ skip : nx[k] = NextSymbol(symbols, k)
    OBVIOUS
  <2> HIDE DEF nx
  <2> QED
    BY <2>1, DigitsSkipped
<1>6. bad \subseteq (1 .. M) \ skip
  <2> SUFFICES ASSUME NEW k \in 1 .. M, Bad(k), k \in skip PROVE FALSE
    OBVIOUS
  <2> QED
    BY <1>5 DEF Refused, BadEscape, BadNumber
<1>7. ASSUME NEW k \in (1 .. M) \ (skip \cup bad)
       PROVE  nx[k] \in k + 1 .. M + 1 /\ nx[k] \notin skip /\ k + 1 .. nx[k] - 1 \subseteq skip
  <2> HIDE DEF nx, skip, bad, M
  <2> QED
    BY <1>5
<1>8. Follows(f, L, M, at, skip, bad, tok, nx)
  <2>1. \A k \in bad : f[at[k]] = {}
    BY <1>4
  <2>2. \A k \in (1 .. M) \ (skip \cup bad) : f[at[k]] = {Join(tok[k], r) : r \in f[at[nx[k]]]}
    <3> HIDE DEF tok, nx, skip
    <3> QED
      BY <1>4
  <2>3. skip \subseteq 2 .. M
    BY <1>5
  <2> HIDE DEF tok, nx, skip, bad, L, M
  <2> QED
    BY <1>0, <1>3, <1>6, <1>7, <2>1, <2>2, <2>3 DEF Follows
<1>9. Replacement(symbols, c) = IF \E k \in 1 .. M : Bad(k) THEN {} ELSE {Joined(tok, skip)}
  BY <1>0, ReplacementIs
<1>10. CASE bad # {}
  <2>1. PICK b : b \in bad
    BY <1>10
  <2>2. f[at[1]] = {}
    <3> HIDE DEF bad, tok, nx, skip, L, M
    <3> QED
      BY <1>8, <2>1, BadIsRefused
  <2>3. \E k \in 1 .. M : Bad(k)
    BY <2>1
  <2> HIDE DEF Bad
  <2> QED
    BY <1>2, <1>9, <2>2, <2>3
<1>11. CASE bad = {}
  <2>1. ~\E k \in 1 .. M : Bad(k)
    <3> HIDE DEF Bad
    <3> QED
      BY <1>11
  <2>2. tok \in Seq(TokensUpTo(c)) /\ Len(tok) = M
    <3>1. \A k \in 1 .. M : tok[k] \in TokensUpTo(c)
      <4> HIDE DEF tok, Bad
      <4> QED
        BY <1>4, <2>1
    <3>2. tok = [k \in 1 .. M |-> tok[k]]
      BY DEF ReplacementTokens
    <3> HIDE DEF tok
    <3> QED
      BY <1>0, <3>1, <3>2
  <2>3. f[at[1]] = {Joined(tok, skip)}
    <3> HIDE DEF bad, tok, nx, skip, L, M
    <3> QED
      BY <1>8, <1>11, <2>2, GoodIsJoined
  <2> HIDE DEF Bad, tok, skip
  <2> QED
    BY <1>2, <1>9, <2>1, <2>3
<1> QED
  BY <1>10, <1>11

-----------------------------------------------------------------------------
(* Keys, bodies and entries.                                               *)

(* A text is empty if its symbols are.                                     *)
LEMMA EmptyReads ==
  ASSUME NEW p, NEW q, Reading(p, q)
  PROVE  p \in Seq(STRING) /\ q \in Seq(SymbolType) /\ (p = <<>> <=> q = <<>>)
<1>1. PICK at : Reads(p, q, at)
  BY DEF Reading
<1>2. /\ p \in Seq(STRING) /\ q \in Seq(SymbolType) /\ Len(p) \in Nat /\ Len(q) \in Nat
      /\ at[1] = 1 /\ at[Len(q) + 1] = Len(p) + 1
  BY <1>1 DEF Reads, ReadsFrom
<1>3. Len(q) # 0 => Len(p) # 0
  <2> SUFFICES ASSUME Len(q) # 0 PROVE Len(p) # 0
    OBVIOUS
  <2>1. 1 \in 1 .. Len(q) + 1 /\ Len(q) + 1 \in 1 .. Len(q) + 1 /\ 1 < Len(q) + 1
    BY <1>2
  <2>2. at[1] < at[Len(q) + 1]
    BY <1>1, <2>1, SymbolsAdvance
  <2> QED
    BY <1>2, <2>2
<1>4. Len(q) = 0 => Len(p) = 0
  BY <1>2
<1>5. (p = <<>> <=> Len(p) = 0) /\ (q = <<>> <=> Len(q) = 0)
  BY <1>2
<1> QED
  BY <1>2, <1>3, <1>4, <1>5

(* A text of a backslash and one character is that character escaped.      *)
LEMMA OneEscape ==
  ASSUME NEW s, NEW symbols, NEW at, Reads(s, symbols, at), NEW x
  PROVE  s = <<"\\", x>> <=> symbols = <<Escape(<<x>>)>>
<1> DEFINE M == Len(symbols)
           L == Len(s)
           y == symbols[1]
<1>0. /\ s \in Seq(STRING) /\ symbols \in Seq(SymbolType) /\ M \in Nat /\ L \in Nat
      /\ at[1] = 1 /\ at[M + 1] = L + 1
  BY DEF Reads, ReadsFrom
<1>1. Len(<<"\\", x>>) = 2 /\ <<"\\", x>>[1] = "\\" /\ <<"\\", x>>[2] = x
  OBVIOUS
<1>2. Len(<<Escape(<<x>>)>>) = 1 /\ <<Escape(<<x>>)>>[1] = Escape(<<x>>)
  BY OneLength
<1>3. M > 0 => /\ at[2] = 1 + Width(y) /\ 1 \in 1 .. L
               /\ \/ PlainArrowAt(s, 1, y) \/ PlainAt(s, 1, y)
                  \/ EscapedArrowAt(s, 1, y) \/ DanglingAt(s, 1, y) \/ EscapedAt(s, 1, y)
  <2> SUFFICES ASSUME M > 0
               PROVE  /\ at[2] = 1 + Width(y) /\ 1 \in 1 .. L
                      /\ \/ PlainArrowAt(s, 1, y) \/ PlainAt(s, 1, y)
                         \/ EscapedArrowAt(s, 1, y) \/ DanglingAt(s, 1, y) \/ EscapedAt(s, 1, y)
    OBVIOUS
  <2>1. 1 \in 1 .. Len(symbols) /\ 1 + 1 = 2
    BY <1>0
  <2>2. /\ at[1] \in 1 .. Len(s) /\ at[1 + 1] = at[1] + Width(symbols[1])
        /\ \/ PlainArrowAt(s, at[1], symbols[1]) \/ PlainAt(s, at[1], symbols[1])
           \/ EscapedArrowAt(s, at[1], symbols[1]) \/ DanglingAt(s, at[1], symbols[1])
           \/ EscapedAt(s, at[1], symbols[1])
    BY <2>1, SymbolsAt
  <2> QED
    BY <1>0, <2>1, <2>2
<1>4. ASSUME s = <<"\\", x>> PROVE symbols = <<Escape(<<x>>)>>
  <2>1. L = 2 /\ s[1] = "\\" /\ s[2] = x
    BY <1>1, <1>4
  <2>2. M > 0
    BY <1>0, <2>1
  <2>3. EscapedAt(s, 1, y)
    BY <1>3, <2>1, <2>2 DEF PlainArrowAt, PlainAt, EscapedArrowAt, DanglingAt
  <2>4. y = Escape(<<x>>) /\ at[2] = 3
    <3>1. y = Escape(<<s[1 + 1]>>) /\ Width(y) = 2
      BY <2>3 DEF EscapedAt
    <3> QED
      BY <1>3, <2>1, <2>2, <3>1
  <2>5. M = 1
    <3>1. 2 \in 1 .. M + 1 /\ M + 1 \in 1 .. M + 1
      BY <1>0, <2>2
    <3>2. 2 < M + 1 => at[2] < at[M + 1]
      BY <3>1, SymbolsAdvance
    <3>3. ~(2 < M + 1)
      BY <1>0, <2>1, <2>4, <3>2
    <3>4. M \in Nat /\ M # 0
      BY <1>0, <2>2
    <3> HIDE DEF M
    <3> QED
      BY <3>3, <3>4
  <2> HIDE DEF y
  <2>6. y \in SymbolType /\ y = symbols[1]
    <3>1. 1 \in 1 .. M
      BY <1>0, <2>2
    <3> QED
      BY <1>0, <3>1 DEF y
  <2>7. <<y>> \in Seq(SymbolType)
    BY <2>6, OneOrTwo, Zenon
  <2>8. Len(<<y>>) = 1 /\ <<y>>[1] = y
    BY OneLength
  <2>9. symbols = <<y>>
    <3>1. \A k \in 1 .. Len(symbols) : k = 1
      BY <2>5
    <3>2. \A k \in 1 .. Len(symbols) : symbols[k] = <<y>>[k]
      BY <2>6, <2>8, <3>1
    <3> QED
      BY <1>0, <2>5, <2>7, <2>8, <3>2, SeqEqual
  <2> QED
    BY <2>4, <2>9
<1>5. ASSUME symbols = <<Escape(<<x>>)>> PROVE s = <<"\\", x>>
  <2>1. M = 1 /\ y = Escape(<<x>>)
    BY <1>2, <1>5
  <2>2. /\ \A chars : Plain(chars) # Escape(<<x>>)
        /\ Escape(Arrow) # Escape(<<x>>) /\ Escape(<<>>) # Escape(<<x>>)
        /\ \A z : Escape(<<z>>) = Escape(<<x>>) => z = x
    BY ArrowLength, OneLength DEF Plain, Escape
  <2>3. EscapedAt(s, 1, y)
    BY <1>3, <2>1, <2>2 DEF PlainArrowAt, PlainAt, EscapedArrowAt, DanglingAt
  <2>4. s[1] = "\\" /\ s[2] = x /\ Width(y) = 2 /\ L = 2
    <3>1. y = Escape(<<s[1 + 1]>>) /\ Width(y) = 2 /\ s[1] = "\\"
      BY <2>3 DEF EscapedAt
    <3>2. s[1 + 1] = x
      BY <2>1, <2>2, <3>1
    <3>3. at[2] = 1 + Width(y) /\ M + 1 = 2
      BY <1>3, <2>1
    <3>4. at[2] = 3 /\ at[2] = L + 1 /\ L \in Nat
      BY <1>0, <3>1, <3>3
    <3>5. L = 2
      <4> HIDE DEF L
      <4> QED
        BY <3>4
    <3> QED
      BY <3>1, <3>2, <3>5
  <2>5. s[1] \in STRING /\ s[2] \in STRING
    <3>1. 1 \in 1 .. L /\ 2 \in 1 .. L
      BY <2>4
    <3> QED
      BY <1>0, <3>1
  <2>6. <<"\\", x>> \in Seq(STRING)
    BY <2>4, <2>5, OneOrTwo, Zenon
  <2>7. \A k \in 1 .. Len(s) : s[k] = <<"\\", x>>[k]
    <3>1. \A k \in 1 .. Len(s) : k = 1 \/ k = 2
      BY <2>4
    <3> QED
      BY <1>1, <2>4, <3>1
  <2> QED
    BY <1>0, <1>1, <2>4, <2>6, <2>7, SeqEqual
<1> QED
  BY <1>4, <1>5

(* The key of a rule.                                                      *)
LEMMA ScopesAgree ==
  ASSUME NEW p, NEW q, Reading(p, q)
  PROVE  parseScope(p) = Scope(q)
<1>1. p \in Seq(STRING) /\ (p = <<>> <=> q = <<>>)
  BY EmptyReads
<1>2. parseFind(p) = Pattern(q)
  BY PatternsAgree DEF Reading
<1>3. parseFind(p) \ {<<>>} = IF q = <<>> THEN {} ELSE Pattern(q)
  <2>1. CASE p # <<>>
    <3>1. \A key \in parseFind(p) : key # <<>>
      <4>1. \A key \in parseFind(p) : WellFormed(key)
        BY <1>1, <2>1, FindIsWellFormed
      <4> QED
        BY <4>1 DEF WellFormed
    <3> QED
      BY <1>1, <1>2, <2>1, <3>1
  <2>2. CASE p = <<>>
    <3>1. Pattern(q) = {<<>>}
      <4>1. q = <<>>
        BY <1>1, <2>2
      <4> DEFINE tok == [k \in DOMAIN q |-> IF q[k] = Plain(<<"*">>) THEN Capture(1) ELSE Literal(q[k].chars)]
      <4>2. ~(\E k \in DOMAIN q : TRUE) /\ tok = <<>>
        BY <4>1
      <4>3. Pattern(q) = {Joined(tok, {})}
        BY <4>2 DEF Pattern
      <4> HIDE DEF tok
      <4>4. tok \in Seq(TokensUpTo(1)) /\ Len(tok) = 0
        BY <4>2
      <4>5. PICK J : JoinedAt(tok, {}, 1, J)
        BY <4>4, JoinedSolved
      <4>6. Joined(tok, {}) = J[1] /\ J[1] = <<>>
        <5>1. 1 \in 1 .. Len(tok) + 1 /\ 1 > Len(tok)
          BY <4>4
        <5> QED
          BY <4>5, <5>1, Zenon DEF JoinedAt, JoinedFrom
      <4> QED
        BY <4>3, <4>6
    <3> QED
      BY <1>1, <1>2, <2>2, <3>1
  <2> QED
    BY <2>1, <2>2
<1>4. ASSUME NEW key \in parseFind(p) \ {<<>>}
      PROVE  (IF Captures(key) = 0 THEN [Unscoped EXCEPT !.exact = {callerScope(key[1].literal)}]
              ELSE [Unscoped EXCEPT !.pattern = key])
             = (IF Captures(key) > 0 THEN [exact |-> {}, pattern |-> key]
                ELSE [exact |-> {callerScope(key[1].literal)}, pattern |-> <<>>])
  <2>1. p # <<>>
    BY <1>1, <1>3
  <2>2. key \in Seq(TokensUpTo(1))
    BY <1>1, <2>1, FindIsWellFormed
  <2>3. Captures(key) \in Nat
    BY <2>2, CapturesCounted
  <2> DEFINE d == {callerScope(key[1].literal)}
             scopes == [exact : {d, {}}, pattern : {key, <<>>}]
             keyed == [Unscoped EXCEPT !.exact = d]
             patterned == [Unscoped EXCEPT !.pattern = key]
  <2> HIDE DEF d
  <2>4. Unscoped \in scopes /\ Unscoped.exact = {} /\ Unscoped.pattern = <<>>
    BY DEF Unscoped
  <2>5. keyed = [exact |-> d, pattern |-> <<>>]
    <3>1. keyed \in scopes /\ keyed.exact = d /\ keyed.pattern = <<>>
      BY <2>4
    <3> HIDE DEF keyed
    <3> QED
      BY <3>1
  <2>6. patterned = [exact |-> {}, pattern |-> key]
    <3>1. patterned \in scopes /\ patterned.exact = {} /\ patterned.pattern = key
      BY <2>4
    <3> HIDE DEF patterned
    <3> QED
      BY <3>1
  <2>7. Captures(key) > 0 <=> Captures(key) # 0
    BY <2>3
  <2> HIDE DEF keyed, patterned, scopes
  <2>8. (IF Captures(key) = 0 THEN keyed ELSE patterned)
          = (IF Captures(key) > 0 THEN [exact |-> {}, pattern |-> key]
             ELSE [exact |-> d, pattern |-> <<>>])
    BY <2>5, <2>6, <2>7, Zenon
  <2> QED
    BY <2>8 DEF keyed, patterned, d
<1> DEFINE A(key) == IF Captures(key) = 0 THEN [Unscoped EXCEPT !.exact = {callerScope(key[1].literal)}]
                     ELSE [Unscoped EXCEPT !.pattern = key]
           B(key) == IF Captures(key) > 0 THEN [exact |-> {}, pattern |-> key]
                     ELSE [exact |-> {callerScope(key[1].literal)}, pattern |-> <<>>]
           K == parseFind(p) \ {<<>>}
<1>5. parseScope(p) = {A(key) : key \in K}
  BY DEF parseScope
<1>6. Scope(q) = {B(key) : key \in K}
  BY <1>3 DEF Scope
<1>7. \A key \in K : A(key) = B(key)
  BY <1>4
<1> HIDE DEF A, B, K
<1> QED
  BY <1>5, <1>6, <1>7

(* What a text and its symbols are mapped by, either way.                  *)
ReadMapping(find, replace) ==
  UNION {{[case |-> "none", pattern |-> f, replacement |-> r] :
            r \in Replacement(replace, Captures(f))} : f \in Pattern(find)}

(* A pattern and its replacement.                                          *)
LEMMA MappingsAgree ==
  ASSUME NEW find, NEW q, Reading(find, q), NEW replace, NEW r, Reading(replace, r), find # <<>>
  PROVE  Mapping(find, replace) = ReadMapping(q, r)
<1>1. find \in Seq(STRING)
  BY EmptyReads
<1>2. parseFind(find) = Pattern(q)
  BY PatternsAgree DEF Reading
<1>3. ASSUME NEW f \in parseFind(find)
      PROVE  parseReplace(replace, Captures(f)) = Replacement(r, Captures(f))
  <2>1. f \in Seq(TokensUpTo(1))
    BY <1>1, FindIsWellFormed
  <2>2. Captures(f) \in Nat
    BY <2>1, CapturesCounted
  <2> QED
    BY <2>2, ReplacementsAgree DEF Reading
<1> DEFINE A(f) == {[case |-> "none", pattern |-> f, replacement |-> x] : x \in parseReplace(replace, Captures(f))}
           B(f) == {[case |-> "none", pattern |-> f, replacement |-> x] : x \in Replacement(r, Captures(f))}
           K == parseFind(find)
<1>4. Mapping(find, replace) = UNION {A(f) : f \in K}
  BY DEF Mapping
<1>5. ReadMapping(q, r) = UNION {B(f) : f \in K}
  BY <1>2 DEF ReadMapping
<1>6. \A f \in K : A(f) = B(f)
  BY <1>3
<1> HIDE DEF A, B, K
<1> QED
  BY <1>4, <1>5, <1>6

(* The body of a rule.                                                     *)
LEMMA BodiesAgree ==
  ASSUME NEW p, NEW q, Reading(p, q)
  PROVE  parseBody(p) = Body(q)
<1>1. PICK at : Reads(p, q, at)
  BY DEF Reading
<1> DEFINE M == Len(q)
           L == Len(p)
           X(sep) == IF FromTo(p, 1, sep) = <<>> \/ SubSeq(p, sep + 2, L) = <<>> THEN {}
                     ELSE Mapping(FromTo(p, 1, sep), SubSeq(p, sep + 2, L))
           Y(k) == IF FromTo(q, 1, k) = <<>> \/ SubSeq(q, k + 1, M) = <<>> THEN {}
                   ELSE ReadMapping(FromTo(q, 1, k), SubSeq(q, k + 1, M))
           Mapped == UNION {X(sep) : sep \in findRuleSeparator(p)}
           chosen == CHOOSE k \in Arrows(q) : TRUE
           Described == IF Cardinality(Arrows(q)) # 1 THEN {} ELSE Y(chosen)
<1>2. /\ p \in Seq(STRING) /\ q \in Seq(SymbolType) /\ M \in Nat /\ L \in Nat
      /\ at[1] = 1 /\ at[M + 1] = L + 1
  BY <1>1 DEF Reads, ReadsFrom
<1>3. /\ p = <<"\\", "a">> <=> q = <<Escape(<<"a">>)>>
      /\ p = <<"\\", "A">> <=> q = <<Escape(<<"A">>)>>
  BY <1>1, OneEscape
<1>4. /\ findRuleSeparator(p) = IF Cardinality(Arrows(q)) = 1 THEN Places(at, Arrows(q)) ELSE {}
      /\ \A k \in Arrows(q) : k \in 1 .. Len(q) /\ at[k + 1] = at[k] + 2
  BY <1>1, ArrowsAgree
<1>5. Mapped = Described
  <2>1. CASE Cardinality(Arrows(q)) # 1
    <3>1. findRuleSeparator(p) = {}
      BY <1>4, <2>1
    <3> HIDE DEF X
    <3> QED
      BY <2>1, <3>1
  <2>2. CASE Cardinality(Arrows(q)) = 1
    <3>1. IsFiniteSet(Arrows(q))
      <4>1. Arrows(q) \subseteq 1 .. M
        BY <1>4
      <4>2. IsFiniteSet(1 .. M)
        BY <1>2, FS_Interval
      <4> QED
        BY <4>1, <4>2, FS_Subset
    <3>2. PICK k : Arrows(q) = {k}
      BY <2>2, <3>1, OneElement
    <3>3. k \in 1 .. M /\ at[k + 1] = at[k] + 2
      BY <1>4, <3>2
    <3>4. findRuleSeparator(p) = {at[k]}
      BY <1>4, <2>2, <3>2 DEF Places
    <3>5. chosen = k
      BY <3>2
    <3>6. Reading(FromTo(p, 1, at[k]), FromTo(q, 1, k))
      <4>1. 1 \in 1 .. M + 1 /\ k \in 1 .. M + 1
        BY <1>2, <3>3
      <4>2. \E part : Reads(FromTo(p, at[1], at[k]), FromTo(q, 1, k), part)
        BY <1>1, <4>1, PartReads
      <4> QED
        BY <1>2, <4>2 DEF Reading
    <3>7. Reading(SubSeq(p, at[k] + 2, L), SubSeq(q, k + 1, M))
      <4>1. k + 1 \in 1 .. M + 1 /\ M + 1 \in k + 1 .. M + 1
        BY <1>2, <3>3
      <4>2. \E part : Reads(FromTo(p, at[k + 1], at[M + 1]), FromTo(q, k + 1, M + 1), part)
        BY <1>1, <4>1, PartReads
      <4>3. (L + 1) - 1 = L /\ (M + 1) - 1 = M
        BY <1>2
      <4> QED
        BY <1>2, <3>3, <4>2, <4>3 DEF Reading, FromTo
    <3>8. X(at[k]) = Y(k)
      <4> DEFINE find == FromTo(p, 1, at[k])
                 replace == SubSeq(p, at[k] + 2, L)
                 fsym == FromTo(q, 1, k)
                 rsym == SubSeq(q, k + 1, M)
      <4>1. Reading(find, fsym) /\ Reading(replace, rsym)
        BY <3>6, <3>7
      <4>2. X(at[k]) = (IF find = <<>> \/ replace = <<>> THEN {} ELSE Mapping(find, replace))
        OBVIOUS
      <4>3. Y(k) = (IF fsym = <<>> \/ rsym = <<>> THEN {} ELSE ReadMapping(fsym, rsym))
        OBVIOUS
      <4> HIDE DEF find, replace, fsym, rsym, X, Y
      <4>4. (find = <<>> <=> fsym = <<>>) /\ (replace = <<>> <=> rsym = <<>>)
        BY <4>1, EmptyReads
      <4>5. find # <<>> => Mapping(find, replace) = ReadMapping(fsym, rsym)
        BY <4>1, MappingsAgree
      <4> QED
        BY <4>2, <4>3, <4>4, <4>5
    <3> HIDE DEF X, Y, chosen
    <3>9. Mapped = X(at[k])
      BY <3>4
    <3> QED
      BY <2>2, <3>5, <3>8, <3>9
  <2> QED
    BY <2>1, <2>2
<1>6. parseBody(p) = IF p = <<"\\", "a">> THEN {CaseOperation("lower")}
                     ELSE IF p = <<"\\", "A">> THEN {CaseOperation("upper")} ELSE Mapped
  BY DEF parseBody
<1>7. Body(q) = IF q = <<Escape(<<"a">>)>> THEN {CaseOperation("lower")}
                ELSE IF q = <<Escape(<<"A">>)>> THEN {CaseOperation("upper")} ELSE Described
  BY DEF Body, ReadMapping
<1> HIDE DEF Mapped, Described
<1> QED
  BY <1>3, <1>5, <1>6, <1>7

(* What may not be in an entry is not in its symbols, escaped or not.      *)
LEMMA ForbiddenAgree ==
  ASSUME NEW s, NEW symbols, NEW at, Reads(s, symbols, at)
  PROVE  (\E i \in DOMAIN s : s[i] \in Forbidden)
           <=> \E k \in DOMAIN symbols : symbols[k].chars \in {<<c>> : c \in Forbidden}
<1>0. /\ s \in Seq(STRING) /\ symbols \in Seq(SymbolType)
      /\ DOMAIN s = 1 .. Len(s) /\ DOMAIN symbols = 1 .. Len(symbols)
  BY DEF Reads, ReadsFrom
<1>1. \A c \in Forbidden : c \notin {"\\", "=", ">"}
  BY DEF Forbidden
<1>2. /\ \A c : <<c>> # Arrow /\ <<c>> # <<>>
      /\ \A c, d : <<c>> = <<d>> => c = d
  BY ArrowLength, OneLength
<1>3. \A chars : Plain(chars).chars = chars /\ Escape(chars).chars = chars
  BY DEF Plain, Escape
<1>4. ASSUME NEW k \in DOMAIN symbols, NEW c \in Forbidden, symbols[k].chars = <<c>>
      PROVE  \E i \in DOMAIN s : s[i] \in Forbidden
  <2> DEFINE a == at[k]
             y == symbols[k]
  <2>1. /\ a \in 1 .. Len(s) /\ Len(s) \in Nat
        /\ \/ PlainArrowAt(s, a, y) \/ PlainAt(s, a, y)
           \/ EscapedArrowAt(s, a, y) \/ DanglingAt(s, a, y) \/ EscapedAt(s, a, y)
    BY <1>0, SymbolsAt
  <2>2. y.chars = <<c>>
    BY <1>4
  <2> HIDE DEF a, y
  <2>3. CASE PlainAt(s, a, y)
    <3>1. s[a] = c
      BY <1>2, <1>3, <2>2, <2>3 DEF PlainAt
    <3> QED
      BY <1>0, <2>1, <3>1
  <2>4. CASE EscapedAt(s, a, y)
    <3>1. s[a + 1] = c /\ a + 1 <= Len(s)
      BY <1>2, <1>3, <2>2, <2>4 DEF EscapedAt
    <3>2. a + 1 \in 1 .. Len(s)
      BY <2>1, <3>1
    <3> QED
      BY <1>0, <3>1, <3>2
  <2>5. ~PlainArrowAt(s, a, y) /\ ~EscapedArrowAt(s, a, y) /\ ~DanglingAt(s, a, y)
    <3>1. y # Plain(Arrow) /\ y # Escape(Arrow) /\ y # Escape(<<>>)
      BY <1>2, <1>3, <2>2
    <3> QED
      BY <3>1 DEF PlainArrowAt, EscapedArrowAt, DanglingAt
  <2> QED
    BY <2>1, <2>3, <2>4, <2>5
<1>5. ASSUME NEW i \in DOMAIN s, s[i] \in Forbidden
      PROVE  \E k \in DOMAIN symbols : symbols[k].chars \in {<<c>> : c \in Forbidden}
  <2>1. PICK k \in 1 .. Len(symbols) : at[k] <= i /\ i < at[k + 1]
    BY <1>0, EveryPlaceInASymbol
  <2> DEFINE a == at[k]
             y == symbols[k]
  <2>2. /\ a \in 1 .. Len(s) /\ Len(s) \in Nat /\ at[k + 1] = a + Width(y)
        /\ \/ PlainArrowAt(s, a, y) \/ PlainAt(s, a, y)
           \/ EscapedArrowAt(s, a, y) \/ DanglingAt(s, a, y) \/ EscapedAt(s, a, y)
    BY SymbolsAt
  <2>3. a <= i /\ i < a + Width(y) /\ i \in Nat
    BY <1>0, <2>1, <2>2
  <2>4. s[i] \notin {"\\", "=", ">"}
    BY <1>1, <1>5
  <2>5. y.chars = <<s[i]>>
    <3> HIDE DEF a, y
    <3>1. ~PlainArrowAt(s, a, y)
      <4> SUFFICES ASSUME PlainArrowAt(s, a, y) PROVE FALSE
        OBVIOUS
      <4>1. Width(y) = 2 /\ s[a] = "=" /\ s[a + 1] = ">"
        BY DEF PlainArrowAt
      <4>2. i = a \/ i = a + 1
        BY <2>2, <2>3, <4>1
      <4> QED
        BY <2>4, <4>1, <4>2
    <3>2. ~EscapedArrowAt(s, a, y)
      <4> SUFFICES ASSUME EscapedArrowAt(s, a, y) PROVE FALSE
        OBVIOUS
      <4>1. Width(y) = 3 /\ s[a] = "\\" /\ s[a + 1] = "=" /\ s[a + 2] = ">"
        BY DEF EscapedArrowAt
      <4>2. i = a \/ i = a + 1 \/ i = a + 2
        BY <2>2, <2>3, <4>1
      <4> QED
        BY <2>4, <4>1, <4>2
    <3>3. ~DanglingAt(s, a, y)
      <4> SUFFICES ASSUME DanglingAt(s, a, y) PROVE FALSE
        OBVIOUS
      <4>1. Width(y) = 1 /\ s[a] = "\\"
        BY DEF DanglingAt
      <4>2. i = a
        BY <2>2, <2>3, <4>1
      <4> QED
        BY <2>4, <4>1, <4>2
    <3>4. CASE PlainAt(s, a, y)
      <4>1. Width(y) = 1 /\ y = Plain(<<s[a]>>)
        BY <3>4 DEF PlainAt
      <4>2. i = a
        BY <2>2, <2>3, <4>1
      <4> QED
        BY <1>3, <4>1, <4>2
    <3>5. CASE EscapedAt(s, a, y)
      <4>1. Width(y) = 2 /\ s[a] = "\\" /\ y = Escape(<<s[a + 1]>>)
        BY <3>5 DEF EscapedAt
      <4>2. i = a \/ i = a + 1
        BY <2>2, <2>3, <4>1
      <4>3. i = a + 1
        BY <2>4, <4>1, <4>2
      <4> QED
        BY <1>3, <4>1, <4>3
    <3> QED
      BY <2>2, <3>1, <3>2, <3>3, <3>4, <3>5
  <2> QED
    BY <1>0, <1>5, <2>5
<1> QED
  BY <1>4, <1>5

(* The last piece ends as the whole does, if that is no cut.               *)
LEMMA LastPiece ==
  ASSUME NEW S, NEW s \in Seq(S), s # <<>>, NEW cuts, Len(s) \notin cuts
  PROVE  LET pieces == Pieces(s, cuts)
             last == pieces[Len(pieces)]
         IN Len(last) \in Nat \ {0} /\ last[Len(last)] = s[Len(s)]
<1> DEFINE N == Len(s)
           pieces == Pieces(s, cuts)
           last == pieces[Len(pieces)]
<1>1. PICK scan : Scanned(S, s, cuts, scan)
  BY PiecesScanned
<1>2. N \in Nat \ {0}
  OBVIOUS
<1>3. /\ scan \in [0 .. N -> [done : Seq(Seq(S)), start : 1 .. N + 1]]
      /\ scan[0] = [done |-> <<>>, start |-> 1]
      /\ \A i \in 1 .. N : scan[i] = Cut(s, cuts, i, scan[i - 1])
      /\ pieces = Append(scan[N].done, FromTo(s, scan[N].start, N + 1))
  BY <1>1 DEF Scanned
<1> DEFINE Soon == {i \in 0 .. N : scan[i].start <= i + 1}
<1>4. 0 .. N \subseteq Soon
  <2>1. 0 \in Soon
    BY <1>2, <1>3
  <2>2. ASSUME NEW i \in 0 .. N - 1, i \in Soon PROVE i + 1 \in Soon
    <3>1. i + 1 \in 1 .. N /\ i + 1 \in 0 .. N /\ (i + 1) - 1 = i /\ i \in 0 .. N /\ i \in Nat
      BY <1>2
    <3>2. scan[i + 1] = Cut(s, cuts, i + 1, scan[i])
      BY <1>3, <3>1
    <3>3. scan[i].start <= i + 1 /\ scan[i].start \in 1 .. N + 1
      BY <1>3, <2>2, <3>1
    <3>4. scan[i + 1].start = (i + 1) + 1 \/ scan[i + 1].start = scan[i].start
      BY <3>2 DEF Cut
    <3>5. scan[i + 1].start <= (i + 1) + 1
      BY <1>2, <3>1, <3>3, <3>4
    <3> QED
      BY <3>1, <3>5
  <2> HIDE DEF Soon
  <2>3. \A i \in 0 .. N - 1 : i \in Soon => i + 1 \in Soon
    BY <2>2
  <2>4. N \in Nat
    BY <1>2
  <2> HIDE DEF N
  <2> QED
    BY <2>1, <2>3, <2>4, UpToInduction
<1>5. scan[N].start \in 1 .. N
  <2>1. N - 1 \in 0 .. N /\ N \in 1 .. N
    BY <1>2
  <2>2. scan[N - 1].start <= (N - 1) + 1 /\ scan[N - 1].start \in 1 .. N + 1
    BY <1>3, <1>4, <2>1
  <2>3. scan[N] = scan[N - 1]
    BY <1>3, <2>1 DEF Cut
  <2> QED
    BY <1>2, <2>2, <2>3
<1> DEFINE piece == FromTo(s, scan[N].start, N + 1)
           done == scan[N].done
<1>6. done \in Seq(Seq(S))
  <2>1. N \in 0 .. N
    BY <1>2
  <2> QED
    BY <1>3, <2>1
<1>7. /\ piece \in Seq(S) /\ Len(piece) = (N + 1) - scan[N].start
      /\ \A k \in 1 .. (N + 1) - scan[N].start : piece[k] = s[scan[N].start + k - 1]
  <2> DEFINE from == scan[N].start
             to == N + 1
  <2>1. from \in 1 .. N + 1 /\ to \in from .. N + 1
    BY <1>2, <1>5
  <2> HIDE DEF from, to
  <2>2. /\ FromTo(s, from, to) \in Seq(S) /\ Len(FromTo(s, from, to)) = to - from
        /\ \A k \in 1 .. to - from : FromTo(s, from, to)[k] = s[from + k - 1]
    BY <2>1, FromToIs
  <2>3. piece = FromTo(s, from, to)
    BY DEF from, to
  <2>4. to - from = (N + 1) - scan[N].start
    BY DEF from, to
  <2>5. piece \in Seq(S) /\ Len(piece) = (N + 1) - scan[N].start
    BY <2>2, <2>3, <2>4
  <2>6. \A k \in 1 .. (N + 1) - scan[N].start : piece[k] = s[scan[N].start + k - 1]
    <3>1. \A k \in 1 .. to - from : piece[k] = s[from + k - 1]
      BY <2>2, <2>3
    <3> HIDE DEF piece
    <3> QED
      BY <3>1 DEF from, to
  <2> QED
    BY <2>5, <2>6
<1>8. last = piece
  <2>1. pieces = Append(done, piece)
    BY <1>3
  <2> HIDE DEF piece, done, pieces
  <2> QED
    BY <1>6, <1>7, <2>1
<1>9. Len(piece) \in Nat \ {0} /\ piece[Len(piece)] = s[N]
  <2>1. Len(piece) \in 1 .. N /\ Len(piece) = (N + 1) - scan[N].start
    BY <1>2, <1>5, <1>7
  <2>2. piece[Len(piece)] = s[scan[N].start + Len(piece) - 1]
    BY <1>7, <2>1
  <2>3. scan[N].start + Len(piece) - 1 = N
    BY <1>2, <1>5, <2>1
  <2> QED
    BY <2>1, <2>2, <2>3
<1> QED
  BY <1>8, <1>9

(* Nothing is one empty piece.                                             *)
LEMMA NothingIsOnePiece ==
  ASSUME NEW cuts
  PROVE  Len(Pieces(<<>>, cuts)) = 1 /\ Pieces(<<>>, cuts)[1] = <<>>
<1>1. <<>> \in Seq(STRING) /\ Len(<<>>) = 0
  OBVIOUS
<1>2. PICK scan : Scanned(STRING, <<>>, cuts, scan)
  BY <1>1, PiecesScanned
<1>3. Pieces(<<>>, cuts) = Append(<<>>, FromTo(<<>>, 1, 1))
  <2>1. scan[0] = [done |-> <<>>, start |-> 1]
    BY <1>2 DEF Scanned
  <2>2. Pieces(<<>>, cuts) = Append(scan[0].done, FromTo(<<>>, scan[0].start, 0 + 1))
    BY <1>1, <1>2 DEF Scanned
  <2> QED
    BY <2>1, <2>2
<1>4. FromTo(<<>>, 1, 1) = <<>>
  BY DEF FromTo
<1> QED
  BY <1>3, <1>4

(* No rule is read of symbols that are none, or end in an escape of        *)
(* nothing.                                                                *)
LEMMA NothingIsRefused ==
  ASSUME NEW q \in Seq(SymbolType)
  PROVE  /\ q = <<>> => Body(q) = {} /\ Scope(q) = {}
         /\ q # <<>> /\ q[Len(q)] = Escape(<<>>) => Body(q) = {}
<1> DEFINE M == Len(q)
           k == CHOOSE k \in Arrows(q) : TRUE
           replace == SubSeq(q, k + 1, M)
<1>0. M \in Nat
  OBVIOUS
<1>1. ASSUME q = <<>> PROVE Body(q) = {} /\ Scope(q) = {}
  <2>1. Scope(q) = {}
    BY <1>1 DEF Scope
  <2>2. \A x : q # <<x>>
    BY <1>1, OneLength
  <2>3. Arrows(q) = {}
    BY <1>1 DEF Arrows
  <2>4. Cardinality(Arrows(q)) # 1
    BY <2>3, FS_EmptySet
  <2> QED
    BY <2>1, <2>2, <2>4 DEF Body
<1>2. ASSUME q # <<>>, q[M] = Escape(<<>>) PROVE Body(q) = {}
  <2>1. \A x : q # <<Escape(<<x>>)>>
    <3>1. \A x : <<Escape(<<x>>)>>[1] = Escape(<<x>>) /\ Len(<<Escape(<<x>>)>>) = 1
      BY OneLength
    <3>2. \A x : Escape(<<x>>) # Escape(<<>>)
      BY OneLength, ArrowLength DEF Escape
    <3> QED
      BY <1>2, <3>1, <3>2
  <2>2. ASSUME Cardinality(Arrows(q)) = 1, replace # <<>> PROVE \A c : Replacement(replace, c) = {}
    <3>1. k \in 1 .. M
      <4>1. Arrows(q) # {}
        <5>1. Cardinality({}) = 0
          BY FS_EmptySet
        <5>2. Cardinality(Arrows(q)) # 0
          BY <2>2
        <5> QED
          BY <5>1, <5>2, Zenon
      <4> QED
        BY <4>1 DEF Arrows
    <3>2. k + 1 \in 1 .. M + 1 /\ M + 1 \in k + 1 .. M + 1 /\ M + 1 - 1 = M /\ M - k \in Nat
      BY <1>0, <3>1
    <3> HIDE DEF k
    <3>3. /\ replace \in Seq(SymbolType) /\ Len(replace) = (M + 1) - (k + 1)
          /\ \A n \in 1 .. (M + 1) - (k + 1) : replace[n] = q[(k + 1) + n - 1]
      <4> DEFINE from == k + 1
                 to == M + 1
      <4>1. from \in 1 .. M + 1 /\ to \in from .. M + 1 /\ to - 1 = M
        BY <3>2
      <4> HIDE DEF from, to
      <4>2. /\ FromTo(q, from, to) \in Seq(SymbolType) /\ Len(FromTo(q, from, to)) = to - from
            /\ \A n \in 1 .. to - from : FromTo(q, from, to)[n] = q[from + n - 1]
        BY <4>1, FromToIs
      <4>3. replace = FromTo(q, from, to)
        BY <4>1 DEF FromTo, from
      <4>4. to - from = (M + 1) - (k + 1)
        BY DEF from, to
      <4>5. replace \in Seq(SymbolType) /\ Len(replace) = (M + 1) - (k + 1)
        BY <4>2, <4>3, <4>4
      <4>6. \A n \in 1 .. (M + 1) - (k + 1) : replace[n] = q[(k + 1) + n - 1]
        <5>1. \A n \in 1 .. to - from : replace[n] = q[from + n - 1]
          BY <4>2, <4>3
        <5> HIDE DEF replace
        <5> QED
          BY <5>1 DEF from, to
      <4> QED
        BY <4>5, <4>6
    <3> HIDE DEF replace
    <3>4. Len(replace) = M - k /\ M - k # 0
      <4>1. (M + 1) - (k + 1) = M - k
        BY <1>0, <3>1
      <4> QED
        BY <2>2, <3>3, <4>1
    <3>5. M - k \in 1 .. (M + 1) - (k + 1) /\ (k + 1) + (M - k) - 1 = M
      <4>1. k \in Nat /\ k <= M
        BY <1>0, <3>1
      <4> HIDE DEF M
      <4> QED
        BY <1>0, <3>4, <4>1
    <3>6. replace[M - k] = Escape(<<>>) /\ M - k \in DOMAIN replace
      BY <1>2, <3>3, <3>4, <3>5
    <3>7. Escape(<<>>).escaped /\ Escape(<<>>).chars \notin {Arrow, <<"#">>, <<"!">>}
      BY ArrowLength, OneLength DEF Escape
    <3>8. \E n \in DOMAIN replace : replace[n].escaped /\ replace[n].chars \notin {Arrow, <<"#">>, <<"!">>}
      BY <3>6, <3>7
    <3> QED
      BY <3>8 DEF Replacement
  <2>3. Body(q) = IF Cardinality(Arrows(q)) # 1 THEN {}
                  ELSE IF FromTo(q, 1, k) = <<>> \/ replace = <<>> THEN {}
                  ELSE ReadMapping(FromTo(q, 1, k), replace)
    BY <2>1 DEF Body, ReadMapping
  <2> HIDE DEF k, replace
  <2>4. ASSUME \A c : Replacement(replace, c) = {}, NEW z PROVE ReadMapping(z, replace) = {}
    BY <2>4 DEF ReadMapping
  <2> QED
    BY <2>2, <2>3, <2>4
<1> QED
  BY <1>1, <1>2

(* The rules of an entry, with any of its scopes and bodies.               *)
RuleSet(exclude, scopes, bodies) ==
  {[exclude |-> exclude, scope |-> s, body |-> b] : s \in scopes, b \in bodies}

(* What parseEntry makes of the parts, and Entry of the fields.            *)
ParsedFields(exclude, parts) ==
  RuleSet(exclude, IF Len(parts) = 1 THEN {Unscoped} ELSE parseScope(parts[1]), parseBody(Last(parts)))
ParsedEntry(exclude, rest) ==
  UNION {ParsedFields(exclude, parts) :
           parts \in {p \in splitEscaped(rest, "#") : Len(p) \in IF exclude THEN {2} ELSE {1, 2}}}
ReadFields(exclude, fields) ==
  IF Len(fields) = 1 /\ ~exclude THEN RuleSet(exclude, {Unscoped}, Body(fields[1]))
  ELSE IF Len(fields) = 2 THEN RuleSet(exclude, Scope(fields[1]), Body(fields[2]))
  ELSE {}

(* There are no rules without a scope or a body.                           *)
LEMMA NoRules ==
  ASSUME NEW exclude, NEW S
  PROVE  RuleSet(exclude, {}, S) = {} /\ RuleSet(exclude, S, {}) = {}
BY DEF RuleSet

(* What is left of an entry after the mark of an exclusion.                *)
LEMMA FieldsAgree ==
  ASSUME NEW r, NEW z, Reading(r, z), NEW exclude \in BOOLEAN
  PROVE  ParsedEntry(exclude, r) = ReadFields(exclude, Pieces(z, Marks(z, "#")))
<1>1. PICK at : Reads(r, z, at)
  BY DEF Reading
<1> DEFINE parts == Pieces(r, MarkedPlaces(r, "#"))
           fields == Pieces(z, Marks(z, "#"))
           N == Len(parts)
           dangling == Escaped(r)[Len(r) + 1]
           counts == IF exclude THEN {2} ELSE {1, 2}
           split == splitEscaped(r, "#")
           empty == \E k \in DOMAIN parts : parts[k] = <<>>
<1>2. r \in Seq(STRING) /\ z \in Seq(SymbolType) /\ Len(z) \in Nat
  BY <1>1 DEF Reads, ReadsFrom
<1>3. /\ MarkedPlaces(r, "#") = Places(at, Marks(z, "#"))
      /\ \A k \in Marks(z, "#") : k \in 1 .. Len(z) /\ at[k + 1] = at[k] + 1
  <2>1. "#" \notin {"\\", "=", ">"}
    OBVIOUS
  <2> QED
    BY <1>1, <2>1, MarksAgree
<1>4. Paired(parts, fields)
  BY <1>1, <1>3, PiecesAgree
<1>5. split = IF dangling \/ empty THEN {} ELSE {parts}
  BY DEF splitEscaped, MarkedPlaces
<1>6. dangling <=> Len(z) > 0 /\ z[Len(z)] = Escape(<<>>)
  BY <1>1, EscapesOfSymbols
<1>7. ASSUME dangling PROVE Body(fields[N]) = {} /\ N = Len(fields)
  <2>1. z # <<>> /\ z[Len(z)] = Escape(<<>>)
    BY <1>2, <1>6, <1>7
  <2>2. Len(z) \notin Marks(z, "#")
    BY <2>1, <1>3, OneLength, ArrowLength DEF Marks, Plain, Escape
  <2> DEFINE last == fields[Len(fields)]
  <2>3. Len(last) \in Nat \ {0} /\ last[Len(last)] = z[Len(z)]
    BY <1>2, <2>1, <2>2, LastPiece
  <2>4. N = Len(fields) /\ last \in Seq(SymbolType)
    <3>1. fields \in Seq(Seq(SymbolType)) /\ N = Len(fields)
      BY <1>4 DEF Paired
    <3>2. Len(fields) > 0
      BY <1>2, PiecesType
    <3> HIDE DEF fields
    <3> QED
      BY <3>1, <3>2
  <2> HIDE DEF last
  <2>5. last # <<>> /\ last[Len(last)] = Escape(<<>>)
    BY <2>1, <2>3, <2>4
  <2>6. Body(last) = {}
    BY <2>4, <2>5, NothingIsRefused
  <2> QED
    BY <2>4, <2>6 DEF last
<1> HIDE DEF parts, fields
<1>8. /\ parts \in Seq(Seq(STRING)) /\ fields \in Seq(Seq(SymbolType)) /\ N = Len(fields) /\ N \in Nat
      /\ DOMAIN parts = 1 .. N
      /\ \A n \in 1 .. N : Reading(parts[n], fields[n])
  BY <1>4 DEF Paired
<1>9. ASSUME NEW n \in 1 .. N
      PROVE  /\ parts[n] = <<>> => fields[n] = <<>>
             /\ parseBody(parts[n]) = Body(fields[n]) /\ parseScope(parts[n]) = Scope(fields[n])
  <2>1. Reading(parts[n], fields[n])
    BY <1>8
  <2> QED
    BY <2>1, EmptyReads, BodiesAgree, ScopesAgree
<1>10. CASE dangling \/ empty
  <2>1. split = {}
    BY <1>5, <1>10
  <2>2. ParsedEntry(exclude, r) = {}
    BY <2>1 DEF ParsedEntry
  <2>3. N = 1 => Body(fields[1]) = {}
    <3> SUFFICES ASSUME N = 1 PROVE Body(fields[1]) = {}
      OBVIOUS
    <3>1. CASE dangling
      BY <1>7, <3>1
    <3>2. CASE empty
      <4>1. parts[1] = <<>> /\ 1 \in 1 .. N
        <5>1. PICK k \in 1 .. N : parts[k] = <<>>
          BY <1>8, <3>2
        <5>2. k = 1
          BY <5>1
        <5> QED
          BY <5>1, <5>2
      <4>2. fields[1] = <<>> /\ fields[1] \in Seq(SymbolType)
        BY <1>8, <1>9, <4>1
      <4> QED
        BY <4>2, NothingIsRefused
    <3> QED
      BY <1>10, <3>1, <3>2
  <2>4. N = 2 => Body(fields[2]) = {} \/ Scope(fields[1]) = {}
    <3> SUFFICES ASSUME N = 2 PROVE Body(fields[2]) = {} \/ Scope(fields[1]) = {}
      OBVIOUS
    <3>1. CASE dangling
      BY <1>7, <3>1
    <3>2. CASE empty
      <4>1. PICK k \in 1 .. N : parts[k] = <<>>
        BY <1>8, <3>2
      <4>2. fields[k] = <<>> /\ fields[k] \in Seq(SymbolType) /\ (k = 1 \/ k = 2)
        <5>1. k = 1 \/ k = 2
          BY <4>1
        <5>2. fields[k] = <<>>
          BY <1>9, <4>1
        <5>3. fields[k] \in Seq(SymbolType)
          BY <1>8
        <5> QED
          BY <5>1, <5>2, <5>3
      <4>3. Body(fields[k]) = {} /\ Scope(fields[k]) = {}
        BY <4>2, NothingIsRefused
      <4> QED
        BY <4>2, <4>3
    <3> QED
      BY <1>10, <3>1, <3>2
  <2>5. ReadFields(exclude, fields) = {}
    BY <1>8, <2>3, <2>4, NoRules DEF ReadFields
  <2> QED
    BY <2>2, <2>5 DEF fields
<1>11. CASE ~(dangling \/ empty)
  <2>1. split = {parts}
    BY <1>5, <1>11
  <2>2. ParsedEntry(exclude, r) = IF N \in counts THEN ParsedFields(exclude, parts) ELSE {}
    <3> HIDE DEF split, counts
    <3>1. ParsedEntry(exclude, r) = UNION {ParsedFields(exclude, p) : p \in {x \in split : Len(x) \in counts}}
      BY DEF ParsedEntry, split, counts
    <3>2. {x \in split : Len(x) \in counts} = IF N \in counts THEN {parts} ELSE {}
      BY <2>1
    <3> QED
      BY <3>1, <3>2
  <2>3. CASE N = 1
    <3>1. 1 \in 1 .. N /\ Last(parts) = parts[1]
      BY <2>3 DEF Last
    <3>2. ParsedFields(exclude, parts) = RuleSet(exclude, {Unscoped}, Body(fields[1]))
      BY <1>9, <2>3, <3>1 DEF ParsedFields
    <3>3. ReadFields(exclude, fields) = IF exclude THEN {} ELSE RuleSet(exclude, {Unscoped}, Body(fields[1]))
      BY <1>8, <2>3 DEF ReadFields
    <3>4. N \in counts <=> ~exclude
      BY <2>3
    <3> HIDE DEF counts
    <3> QED
      BY <2>2, <3>2, <3>3, <3>4 DEF fields
  <2>4. CASE N = 2
    <3>1. 1 \in 1 .. N /\ 2 \in 1 .. N /\ Last(parts) = parts[2]
      BY <2>4 DEF Last
    <3>2. ParsedFields(exclude, parts) = RuleSet(exclude, Scope(fields[1]), Body(fields[2]))
      BY <1>9, <2>4, <3>1 DEF ParsedFields
    <3>3. ReadFields(exclude, fields) = RuleSet(exclude, Scope(fields[1]), Body(fields[2]))
      BY <1>8, <2>4 DEF ReadFields
    <3>4. N \in counts
      BY <2>4
    <3> HIDE DEF counts
    <3> QED
      BY <2>2, <3>2, <3>3, <3>4 DEF fields
  <2>5. CASE N # 1 /\ N # 2
    <3>1. N \notin counts
      BY <2>5
    <3>2. ReadFields(exclude, fields) = {}
      BY <1>8, <2>5 DEF ReadFields
    <3> HIDE DEF counts
    <3> QED
      BY <2>2, <3>1, <3>2 DEF fields
  <2> QED
    BY <2>3, <2>4, <2>5
<1> QED
  BY <1>10, <1>11

(* The mark of an exclusion, and what comes after it.                      *)
LEMMA ExclusionRead ==
  ASSUME NEW s, NEW symbols, NEW at, Reads(s, symbols, at), s # <<>>
  PROVE  /\ symbols # <<>>
         /\ s[1] = "#" <=> symbols[1] = Plain(<<"#">>)
         /\ s[1] = "#" => Reading(Tail(s), Tail(symbols))
<1> DEFINE M == Len(symbols)
           L == Len(s)
           y == symbols[1]
<1>1. /\ s \in Seq(STRING) /\ symbols \in Seq(SymbolType) /\ M \in Nat /\ L \in Nat
      /\ at[1] = 1 /\ at[M + 1] = L + 1
  BY DEF Reads, ReadsFrom
<1>2. symbols # <<>>
  BY EmptyReads DEF Reading
<1>3. 1 \in 1 .. M /\ 1 + 1 = 2
  BY <1>1, <1>2
<1>4. /\ at[2] = 1 + Width(y)
      /\ \/ PlainArrowAt(s, 1, y) \/ PlainAt(s, 1, y)
         \/ EscapedArrowAt(s, 1, y) \/ DanglingAt(s, 1, y) \/ EscapedAt(s, 1, y)
  <2>1. /\ at[1 + 1] = at[1] + Width(symbols[1])
        /\ \/ PlainArrowAt(s, at[1], symbols[1]) \/ PlainAt(s, at[1], symbols[1])
           \/ EscapedArrowAt(s, at[1], symbols[1]) \/ DanglingAt(s, at[1], symbols[1])
           \/ EscapedAt(s, at[1], symbols[1])
    BY <1>3, SymbolsAt
  <2> QED
    BY <1>1, <1>3, <2>1
<1>5. /\ "#" # "=" /\ "#" # "\\"
      /\ Plain(<<"#">>) # Plain(Arrow)
      /\ \A chars : Escape(chars) # Plain(<<"#">>)
      /\ \A c : Plain(<<c>>) = Plain(<<"#">>) <=> c = "#"
  BY OneLength, ArrowLength DEF Plain, Escape
<1> HIDE DEF y
<1>6. ASSUME s[1] = "#" PROVE y = Plain(<<"#">>) /\ Width(y) = 1
  BY <1>4, <1>5, <1>6 DEF PlainArrowAt, PlainAt, EscapedArrowAt, DanglingAt, EscapedAt
<1>7. ASSUME y = Plain(<<"#">>) PROVE s[1] = "#"
  BY <1>4, <1>5, <1>7 DEF PlainArrowAt, PlainAt, EscapedArrowAt, DanglingAt, EscapedAt
<1>8. ASSUME s[1] = "#" PROVE Reading(Tail(s), Tail(symbols))
  <2>1. at[2] = 2
    BY <1>4, <1>6, <1>8
  <2>2. 2 \in 1 .. M + 1 /\ M + 1 \in 2 .. M + 1
    BY <1>1, <1>3
  <2>3. \E part : Reads(FromTo(s, at[2], at[M + 1]), FromTo(symbols, 2, M + 1), part)
    BY <2>2, PartReads
  <2>4. Reading(FromTo(s, 2, L + 1), FromTo(symbols, 2, M + 1))
    BY <1>1, <2>1, <2>3 DEF Reading
  <2>5. ASSUME NEW S, NEW t \in Seq(S), t # <<>> PROVE FromTo(t, 2, Len(t) + 1) = Tail(t)
    <3>1. Len(t) + 1 - 1 = Len(t) /\ Len(t) \in Nat \ {0}
      BY <2>5
    <3>2. FromTo(t, 2, Len(t) + 1) = SubSeq(t, 2, Len(t))
      BY <3>1 DEF FromTo
    <3> QED
      BY <2>5, <3>1, <3>2
  <2>6. FromTo(s, 2, L + 1) = Tail(s)
    BY <1>1, <2>5
  <2>7. FromTo(symbols, 2, M + 1) = Tail(symbols)
    BY <1>1, <1>2, <2>5
  <2> QED
    BY <2>4, <2>6, <2>7
<1> QED
  BY <1>2, <1>6, <1>7, <1>8 DEF y

(* One entry of the rules field.                                           *)
LEMMA EntriesAgree ==
  ASSUME NEW s, NEW symbols, Reading(s, symbols)
  PROVE  parseEntry(s) = Entry(symbols)
<1>1. PICK at : Reads(s, symbols, at)
  BY DEF Reading
<1> DEFINE bad == \E i \in DOMAIN s : s[i] \in Forbidden
           badSymbol == \E k \in DOMAIN symbols : symbols[k].chars \in {<<c>> : c \in Forbidden}
           exclude == s # <<>> /\ s[1] = "#"
           excludes == symbols # <<>> /\ symbols[1] = Plain(<<"#">>)
           rest == IF exclude THEN Tail(s) ELSE s
           remaining == IF excludes THEN Tail(symbols) ELSE symbols
<1>2. parseEntry(s) = IF s = <<>> \/ bad THEN {} ELSE ParsedEntry(exclude, rest)
  BY DEF parseEntry, ParsedEntry, ParsedFields, RuleSet
<1>3. Entry(symbols) = IF badSymbol THEN {}
                       ELSE ReadFields(excludes, Pieces(remaining, Marks(remaining, "#")))
  BY DEF Entry, ReadFields, RuleSet
<1>4. bad <=> badSymbol
  BY <1>1, ForbiddenAgree
<1>5. s = <<>> <=> symbols = <<>>
  BY EmptyReads
<1>6. exclude <=> excludes
  BY <1>1, <1>5, ExclusionRead
<1>7. Reading(rest, remaining)
  BY <1>1, <1>6, ExclusionRead
<1>8. CASE s = <<>>
  <2>1. remaining = <<>> /\ ~excludes /\ symbols = <<>>
    BY <1>5, <1>8
  <2>2. Body(<<>>) = {}
    <3>1. <<>> \in Seq(SymbolType)
      OBVIOUS
    <3> QED
      BY <3>1, NothingIsRefused
  <2> DEFINE fields == Pieces(<<>>, Marks(<<>>, "#"))
  <2>3. Len(fields) = 1 /\ fields[1] = <<>>
    BY NothingIsOnePiece
  <2> HIDE DEF fields
  <2>4. ReadFields(excludes, fields) = {}
    BY <2>1, <2>2, <2>3, NoRules DEF ReadFields
  <2> QED
    BY <1>2, <1>3, <1>8, <2>1, <2>4 DEF fields
<1>9. CASE s # <<>>
  <2>1. exclude \in BOOLEAN /\ exclude = excludes
    BY <1>6
  <2> HIDE DEF bad, badSymbol, exclude, excludes, rest, remaining
  <2>2. ParsedEntry(exclude, rest) = ReadFields(exclude, Pieces(remaining, Marks(remaining, "#")))
    BY <1>7, <2>1, FieldsAgree
  <2> QED
    BY <1>2, <1>3, <1>4, <1>9, <2>1, <2>2
<1> QED
  BY <1>8, <1>9

-----------------------------------------------------------------------------
(* Every list of rules so far, with each rule of the next entry.           *)
Extended(lists, rules) == {Append(out, rule) : out \in lists, rule \in rules}

(* A text and its symbols are split by the same marks.                     *)
LEMMA SplitsAgree ==
  ASSUME NEW s, NEW symbols, NEW at, Reads(s, symbols, at), NEW c, c \notin {"\\", "=", ">"}
  PROVE  Paired(Pieces(s, Places(at, Marks(symbols, c))), Pieces(symbols, Marks(symbols, c)))
<1>1. /\ MarkedPlaces(s, c) = Places(at, Marks(symbols, c))
      /\ \A k \in Marks(symbols, c) : k \in 1 .. Len(symbols) /\ at[k + 1] = at[k] + 1
  BY MarksAgree
<1> QED
  BY <1>1, PiecesAgree

(* A whole text.                                                           *)
LEMMA TextsAgree ==
  ASSUME NEW s \in Seq(STRING)
  PROVE  parseRules(s) = Documented(s)
<1> DEFINE symbols == Symbols(s)
           entries == splitRuleEntries(s)
           described == Pieces(symbols, Marks(symbols, ";"))
           N == Len(entries)
           c(n, f) == IF n = 0 THEN {<<>>}
                      ELSE IF hasUnescapedCommentMarker(entries[n]) THEN f[n - 1]
                      ELSE Extended(f[n - 1], parseEntry(entries[n]))
           r(n, f) == IF n = 0 THEN {<<>>}
                      ELSE IF Marks(described[n], "!") # {} THEN f[n - 1]
                      ELSE Extended(f[n - 1], Entry(described[n]))
           byCode == CHOOSE f : f = [n \in 0 .. N |-> c(n, f)]
           byReading(L) == CHOOSE f : f = [n \in 0 .. L |-> r(n, f)]
<1>1. PICK at : Reads(s, symbols, at)
  BY SymbolsRead
<1>2. parseRules(s) = IF s = <<>> THEN {} ELSE byCode[N]
  BY DEF parseRules, Extended
<1>3. Documented(s) = IF s = <<>> THEN {} ELSE byReading(Len(described))[Len(described)]
  BY DEF Documented, Extended
<1>4. Paired(entries, described)
  <2>1. ";" \notin {"\\", "=", ">"}
    OBVIOUS
  <2>2. Paired(Pieces(s, Places(at, Marks(symbols, ";"))), described)
    BY <1>1, <2>1, SplitsAgree
  <2> QED
    BY <1>1, <2>2, EntryMarksAgree
<1> HIDE DEF entries, described
<1>5. N = Len(described) /\ N \in Nat /\ \A n \in 1 .. N : Reading(entries[n], described[n])
  BY <1>4 DEF Paired
<1>6. ASSUME NEW n \in 1 .. N
      PROVE  /\ hasUnescapedCommentMarker(entries[n]) <=> Marks(described[n], "!") # {}
             /\ parseEntry(entries[n]) = Entry(described[n])
  <2>1. Reading(entries[n], described[n])
    BY <1>5
  <2>2. PICK a : Reads(entries[n], described[n], a)
    BY <2>1 DEF Reading
  <2> QED
    BY <2>1, <2>2, EntryMarksAgree, EntriesAgree
<1>7. byCode = byReading(N)
  <2> DEFINE ByCode(f) == f = [n \in 0 .. N |-> c(n, f)]
             ByReading(f) == f = [n \in 0 .. N |-> r(n, f)]
  <2>1. ASSUME NEW f PROVE ByCode(f) <=> ByReading(f)
    <3>1. ASSUME NEW n \in 0 .. N PROVE c(n, f) = r(n, f)
      <4>1. CASE n = 0
        BY <4>1
      <4>2. CASE n # 0
        <5>1. n \in 1 .. N
          BY <1>5, <4>2
        <5>2. /\ hasUnescapedCommentMarker(entries[n]) <=> Marks(described[n], "!") # {}
              /\ parseEntry(entries[n]) = Entry(described[n])
          BY <1>6, <5>1
        <5> QED
          BY <5>2
      <4> QED
        BY <4>1, <4>2
    <3> HIDE DEF c, r
    <3>2. [n \in 0 .. N |-> c(n, f)] = [n \in 0 .. N |-> r(n, f)]
      BY <3>1
    <3> QED
      BY <3>2
  <2> HIDE DEF c, r
  <2>2. byCode = (CHOOSE f : ByCode(f)) /\ byReading(N) = (CHOOSE f : ByReading(f))
    OBVIOUS
  <2> HIDE DEF ByCode, ByReading, byCode, byReading
  <2>3. \A f : ByCode(f) <=> ByReading(f)
    BY <2>1
  <2>4. (CHOOSE f : ByCode(f)) = (CHOOSE f : ByReading(f))
    BY <2>3, Zenon
  <2> QED
    BY <2>2, <2>4
<1>8. byReading(Len(described))[Len(described)] = byReading(N)[N]
  <2> HIDE DEF byReading, N
  <2> QED
    BY <1>5
<1> HIDE DEF byCode, byReading
<1> QED
  BY <1>2, <1>3, <1>7, <1>8

(***************************************************************************)
(* The five scanners read every text as one reading of its symbols does.   *)
(***************************************************************************)
THEOREM ScannersReadAlike == Spec => []ScannersAgree
<1>1. TextTypeOK => ScannersAgree
  BY TextsAgree DEF TextTypeOK, ScannersAgree
<1> QED
  BY <1>1, TextIsTyped, PTL

(***************************************************************************)
(* Every rule that is read can be written again.  A sequence of symbols is *)
(* read of a text that is put together of parts, each read on its own,     *)
(* when no part ends where the next one would change how it is read.  So a *)
(* token, a pattern, a replacement, a scope, a body and a rule, written    *)
(* with backslashes before what would be read as something else, are read  *)
(* as the symbols they were read of, escaped where they have to be, and    *)
(* these are given the same meaning.                                       *)
(***************************************************************************)

(* A sequence before another.                                              *)
LEMMA ConcatIs ==
  ASSUME NEW T, NEW s \in Seq(T), NEW t \in Seq(T)
  PROVE  /\ s \o t \in Seq(T) /\ Len(s \o t) = Len(s) + Len(t)
         /\ \A i \in 1 .. Len(s) : (s \o t)[i] = s[i]
         /\ \A i \in 1 .. Len(t) : (s \o t)[Len(s) + i] = t[i]
OBVIOUS

(* An element before a sequence.                                           *)
LEMMA FirstThen ==
  ASSUME NEW T, NEW x \in T, NEW rest \in Seq(T)
  PROVE  /\ <<x>> \o rest \in Seq(T) /\ Len(<<x>> \o rest) = Len(rest) + 1 /\ <<x>> \o rest # <<>>
         /\ (<<x>> \o rest)[1] = x /\ \A k \in 1 .. Len(rest) : (<<x>> \o rest)[k + 1] = rest[k]
<1> DEFINE one == <<x>>
           both == one \o rest
           n == Len(rest)
<1>1. one \in Seq(T) /\ Len(one) = 1 /\ one[1] = x
  OBVIOUS
<1> HIDE DEF one
<1>2. n \in Nat
  OBVIOUS
<1>3. /\ both \in Seq(T) /\ Len(both) = 1 + n
      /\ \A i \in 1 .. 1 : both[i] = one[i]
      /\ \A i \in 1 .. n : both[1 + i] = rest[i]
  BY <1>1, ConcatIs
<1> HIDE DEF both, n
<1>4. both[1] = x
  BY <1>1, <1>3
<1>5. \A k \in 1 .. n : both[k + 1] = rest[k]
  <2> TAKE k \in 1 .. n
  <2>1. k + 1 = 1 + k
    OBVIOUS
  <2> QED
    BY <1>3, <2>1
<1>6. both # <<>>
  BY <1>2, <1>3
<1> QED
  BY <1>2, <1>3, <1>4, <1>5, <1>6 DEF both, one, n

(* What is joined of the first k parts.                                    *)
Joins(T, n, parts, f) ==
  /\ f \in [0 .. n -> Seq(T)] /\ f[0] = <<>>
  /\ \A k \in 1 .. n : f[k] = f[k - 1] \o parts[k]

(* FlattenSeq joins its pieces one by one.                                 *)
LEMMA FlattenJoins ==
  ASSUME NEW T, NEW n \in Nat, NEW parts \in [1 .. n -> Seq(T)]
  PROVE  \E f : Joins(T, n, parts, f) /\ FlattenSeq(parts) = f[n]
<1> DEFINE step == [k \in 1 .. n |-> [s \in Seq(T) |-> s \o parts[k]]]
           base == <<>>
<1>1. PICK f : Unrolled(n, Seq(T), base, step, f)
  <2>1. base \in Seq(T) /\ step \in [1 .. n -> [Seq(T) -> Seq(T)]]
    OBVIOUS
  <2> HIDE DEF step, base
  <2>2. Loop(n, Seq(T), base, step)
    BY <2>1 DEF Loop
  <2> QED
    BY <2>2, LoopSolved
<1>2. Joins(T, n, parts, f)
  <2>1. f \in [0 .. n -> Seq(T)] /\ f[0] = <<>>
    BY <1>1 DEF Unrolled
  <2>2. ASSUME NEW k \in 1 .. n PROVE f[k] = f[k - 1] \o parts[k]
    <3>1. f[k] = step[k][f[k - 1]] /\ f[k - 1] \in Seq(T)
      <4>1. k - 1 \in 0 .. n
        OBVIOUS
      <4> QED
        BY <1>1, <2>1, <4>1 DEF Unrolled
    <3> QED
      BY <3>1
  <2> QED
    BY <2>1, <2>2 DEF Joins
<1>3. Len(parts) = n /\ parts \in Seq(Seq(T))
  OBVIOUS
<1>4. CASE n = 0
  <2>1. parts = <<>>
    BY <1>3, <1>4
  <2> QED
    BY <1>2, <1>3, <1>4, <2>1 DEF FlattenSeq, Joins
<1>5. CASE n > 0
  <2> DEFINE Equation(g) == g = [k \in 1 .. n |-> IF k = 1 THEN parts[k] ELSE g[k - 1] \o parts[k]]
             flatten == CHOOSE g : Equation(g)
             known == [k \in 1 .. n |-> f[k]]
  <2>1. Equation(known)
    <3>1. \A k \in 1 .. n : f[k] = IF k = 1 THEN parts[k] ELSE known[k - 1] \o parts[k]
      <4> TAKE k \in 1 .. n
      <4>1. CASE k = 1
        <5>1. f[1] = <<>> \o parts[1] /\ parts[1] \in Seq(T)
          <6>1. 1 \in 1 .. n /\ 1 - 1 = 0
            BY <1>5
          <6> QED
            BY <1>2, <6>1 DEF Joins
        <5> QED
          BY <4>1, <5>1
      <4>2. CASE k # 1
        <5>1. k - 1 \in 1 .. n
          BY <4>2
        <5> QED
          BY <1>2, <4>2, <5>1 DEF Joins
      <4> QED
        BY <4>1, <4>2
    <3>2. known = [k \in 1 .. n |-> f[k]]
      OBVIOUS
    <3> HIDE DEF known
    <3> QED
      BY <3>1, <3>2, Zenon
  <2>2. Equation(flatten)
    <3> HIDE DEF Equation
    <3> QED
      BY <2>1
  <2> HIDE DEF flatten
  <2> DEFINE S == {k \in 0 .. n : k = 0 \/ flatten[k] = f[k]}
  <2>3. 0 \in S
    OBVIOUS
  <2>4. ASSUME NEW k \in 0 .. n - 1, k \in S PROVE k + 1 \in S
    <3>1. k + 1 \in 1 .. n
      OBVIOUS
    <3>2. flatten[k + 1] = IF k + 1 = 1 THEN parts[k + 1] ELSE flatten[(k + 1) - 1] \o parts[k + 1]
      BY <2>2, <3>1
    <3>3. known[k + 1] = IF k + 1 = 1 THEN parts[k + 1] ELSE known[(k + 1) - 1] \o parts[k + 1]
      <4> HIDE DEF known
      <4> QED
        BY <2>1, <3>1
    <3>4. (k + 1) - 1 = k /\ known[k + 1] = f[k + 1] /\ (k # 0 => known[k] = f[k])
      BY <3>1
    <3>5. flatten[k + 1] = f[k + 1]
      <4> HIDE DEF known
      <4>1. k # 0 => flatten[k] = f[k]
        BY <2>4
      <4> QED
        BY <3>2, <3>3, <3>4, <4>1
    <3> QED
      BY <3>1, <3>5
  <2>5. n \in S
    <3>1. 0 .. n \subseteq S
      <4> HIDE DEF S
      <4> QED
        BY <2>3, <2>4, UpToInduction
    <3> QED
      BY <3>1
  <2>6. FlattenSeq(parts) = flatten[n]
    BY <1>3, <1>5 DEF FlattenSeq, flatten
  <2> QED
    BY <1>2, <1>5, <2>5, <2>6
<1> QED
  BY <1>4, <1>5


(* The first part comes before what is joined of the rest.                 *)
LEMMA FlattenFirst ==
  ASSUME NEW T, NEW x \in Seq(T), NEW rest \in Seq(Seq(T))
  PROVE  FlattenSeq(rest) \in Seq(T) /\ FlattenSeq(<<x>> \o rest) = x \o FlattenSeq(rest)
<1> DEFINE n == Len(rest)
           parts == <<x>> \o rest
<1>1. n \in Nat /\ rest \in [1 .. n -> Seq(T)] /\ n + 1 \in Nat
  OBVIOUS
<1>2. parts \in [1 .. n + 1 -> Seq(T)] /\ parts[1] = x /\ \A k \in 1 .. n : parts[k + 1] = rest[k]
  <2>1. /\ parts \in Seq(Seq(T)) /\ Len(parts) = n + 1
        /\ parts[1] = x /\ \A k \in 1 .. n : parts[k + 1] = rest[k]
    BY FirstThen
  <2> HIDE DEF parts, n
  <2> QED
    BY <1>1, <2>1
<1>3. PICK g : Joins(T, n, rest, g) /\ FlattenSeq(rest) = g[n]
  BY <1>1, FlattenJoins
<1> HIDE DEF parts
<1>4. PICK f : Joins(T, n + 1, parts, f) /\ FlattenSeq(parts) = f[n + 1]
  <2> HIDE DEF n
  <2> QED
    BY <1>1, <1>2, FlattenJoins
<1> HIDE DEF n
<1>5. g \in [0 .. n -> Seq(T)] /\ f \in [0 .. n + 1 -> Seq(T)] /\ g[0] = <<>> /\ f[0] = <<>>
  BY <1>3, <1>4 DEF Joins
<1> DEFINE S == {k \in 0 .. n : f[k + 1] = x \o g[k]}
<1>6. 0 \in S
  <2>1. 1 \in 1 .. n + 1 /\ 1 - 1 = 0
    BY <1>1
  <2>2. f[1] = f[0] \o parts[1]
    BY <1>4, <2>1 DEF Joins
  <2>3. f[1] = x /\ x \o g[0] = x
    BY <1>2, <1>5, <2>2
  <2> QED
    BY <1>1, <2>3
<1>7. ASSUME NEW k \in 0 .. n - 1, k \in S PROVE k + 1 \in S
  <2>1. /\ k + 1 \in 1 .. n /\ k + 2 \in 1 .. n + 1 /\ (k + 1) - 1 = k /\ (k + 2) - 1 = k + 1
        /\ (k + 1) + 1 = k + 2 /\ k \in 0 .. n
    BY <1>1
  <2>2. g[k + 1] = g[k] \o rest[k + 1]
    <3>1. g[k + 1] = g[(k + 1) - 1] \o rest[k + 1]
      BY <1>3, <2>1 DEF Joins
    <3> QED
      BY <2>1, <3>1
  <2>3. f[k + 2] = f[k + 1] \o parts[k + 2]
    <3>1. f[k + 2] = f[(k + 2) - 1] \o parts[k + 2]
      BY <1>4, <2>1 DEF Joins
    <3> QED
      BY <2>1, <3>1
  <2>4. f[k + 1] = x \o g[k]
    BY <1>7
  <2>5. parts[k + 2] = rest[k + 1] /\ rest[k + 1] \in Seq(T) /\ g[k] \in Seq(T)
    <3>1. parts[(k + 1) + 1] = rest[k + 1]
      BY <1>2, <2>1
    <3> QED
      BY <1>1, <1>5, <2>1, <3>1
  <2> DEFINE u == g[k]
             v == rest[k + 1]
  <2>6. u \in Seq(T) /\ v \in Seq(T)
    BY <2>5
  <2> HIDE DEF u, v
  <2>7. (x \o u) \o v = x \o (u \o v)
    BY <2>6, ConcatAssociative
  <2>8. f[k + 2] = (x \o u) \o v /\ g[k + 1] = u \o v
    BY <2>2, <2>3, <2>4, <2>5 DEF u, v
  <2>9. f[(k + 1) + 1] = x \o g[k + 1]
    BY <2>1, <2>7, <2>8
  <2> QED
    BY <2>1, <2>9
<1>8. n \in S
  <2>1. 0 .. n \subseteq S
    <3> HIDE DEF S
    <3> QED
      BY <1>1, <1>6, <1>7, UpToInduction
  <2> QED
    BY <1>1, <2>1
<1>9. g[n] \in Seq(T)
  BY <1>1, <1>5
<1> QED
  BY <1>3, <1>4, <1>8, <1>9 DEF parts

(* Nothing is joined of no parts, and the part of a single one.            *)
LEMMA FlattenNone == FlattenSeq(<<>>) = <<>>
BY DEF FlattenSeq

(* A single part joined is that part.                                      *)
LEMMA FlattenOne ==
  ASSUME NEW T, NEW x \in Seq(T)
  PROVE  FlattenSeq(<<x>>) = x
<1>1. <<>> \in Seq(Seq(T)) /\ <<x>> \o <<>> = <<x>> /\ x \o <<>> = x
  OBVIOUS
<1> QED
  BY <1>1, FlattenFirst, FlattenNone

(* What holds from the last place down to the first one.                   *)
LEMMA BackwardInduction ==
  ASSUME NEW N \in Nat, NEW S, N + 1 \in S,
         \A k \in 1 .. N : (\A m \in k + 1 .. N + 1 : m \in S) => k \in S
  PROVE  1 .. N + 1 \subseteq S
<1> DEFINE D == 1 .. N + 1
           rank == [k \in D |-> N + 1 - k]
<1>1. rank \in [D -> 0 .. N]
  OBVIOUS
<1>2. ASSUME NEW k \in D, \A e \in D : rank[e] < rank[k] => e \in S PROVE k \in S
  <2>1. CASE k = N + 1
    BY <2>1
  <2>2. CASE k # N + 1
    <3>1. k \in 1 .. N /\ \A m \in k + 1 .. N + 1 : m \in D /\ rank[m] < rank[k]
      BY <2>2
    <3> HIDE DEF D, rank
    <3> QED
      BY <1>2, <3>1
  <2> QED
    BY <2>1, <2>2
<1> HIDE DEF D, rank
<1>3. D \subseteq S
  BY <1>1, <1>2, RankInduction
<1> QED
  BY <1>3 DEF D

(* What is written for a character, and for one before others.             *)
CharAt(s, i, special) ==
  IF s[i] \in special \/ IsArrow(s, i) THEN <<"\\", s[i]>> ELSE <<s[i]>>
CharBefore(x, y, special) ==
  IF x \in special \/ (x = "=" /\ y # <<>> /\ y[1] = ">") THEN <<"\\", x>> ELSE <<x>>

(* A literal is written character by character.                            *)
LEMMA WrittenFirst ==
  ASSUME NEW special, NEW x \in STRING, NEW y \in Seq(STRING)
  PROVE  /\ Written(y, special) \in Seq(STRING) /\ CharBefore(x, y, special) \in Seq(STRING)
         /\ Written(<<x>> \o y, special) = CharBefore(x, y, special) \o Written(y, special)
<1> DEFINE n == Len(y)
           t == <<x>> \o y
           c == CharBefore(x, y, special)
           ys == [i \in DOMAIN y |-> CharAt(y, i, special)]
           ts == [i \in DOMAIN t |-> CharAt(t, i, special)]
<1>1. /\ t \in Seq(STRING) /\ Len(t) = n + 1 /\ t[1] = x /\ \A k \in 1 .. n : t[k + 1] = y[k]
  <2>1. t \in Seq(STRING) /\ t[1] = x
    BY FirstThen, Zenon
  <2>2. Len(t) = n + 1
    BY FirstThen
  <2>3. \A k \in 1 .. n : t[k + 1] = y[k]
    <3> TAKE k \in 1 .. n
    <3> QED
      BY FirstThen
  <2> QED
    BY <2>1, <2>2, <2>3
<1>2. n \in Nat /\ DOMAIN y = 1 .. n /\ \A k \in 1 .. n : y[k] \in STRING
  OBVIOUS
<1> HIDE DEF t
<1>3. DOMAIN t = 1 .. n + 1
  BY <1>1
<1>4. ASSUME NEW s \in Seq(STRING), NEW i \in 1 .. Len(s)
      PROVE  CharAt(s, i, special) \in Seq(STRING)
  <2>1. s[i] \in STRING /\ "\\" \in STRING
    BY MarksAssumption
  <2>2. <<s[i]>> \in Seq(STRING) /\ <<"\\", s[i]>> \in Seq(STRING)
    BY <2>1, OneOrTwo, Zenon
  <2> QED
    BY <2>2 DEF CharAt
<1>5. CharAt(t, 1, special) = c
  <2>1. IsArrow(t, 1) <=> x = "=" /\ y # <<>> /\ y[1] = ">"
    <3>1. y # <<>> <=> n # 0
      OBVIOUS
    <3>2. n # 0 => t[1 + 1] = y[1]
      BY <1>1, <1>2
    <3> QED
      BY <1>1, <1>2, <3>1, <3>2 DEF IsArrow
  <2> QED
    BY <1>1, <2>1 DEF CharAt, CharBefore
<1>6. ASSUME NEW k \in 1 .. n PROVE CharAt(t, k + 1, special) = CharAt(y, k, special)
  <2>1. t[k + 1] = y[k]
    BY <1>1
  <2>2. IsArrow(t, k + 1) <=> IsArrow(y, k)
    <3>1. k + 1 <= n => t[(k + 1) + 1] = y[k + 1]
      BY <1>1, <1>2
    <3>2. (k + 1) + 1 <= n + 1 <=> k + 1 <= n
      BY <1>2
    <3> QED
      BY <1>1, <2>1, <3>1, <3>2 DEF IsArrow
  <2> QED
    BY <2>1, <2>2 DEF CharAt
<1>7. c \in Seq(STRING)
  <2>1. 1 \in 1 .. Len(t)
    BY <1>1, <1>2
  <2> QED
    BY <1>1, <1>4, <1>5, <2>1
<1> HIDE DEF c
<1>8. ys \in Seq(Seq(STRING)) /\ Len(ys) = n /\ \A k \in 1 .. n : ys[k] = CharAt(y, k, special)
  <2>1. \A k \in 1 .. n : CharAt(y, k, special) \in Seq(STRING)
    BY <1>4
  <2> QED
    BY <1>2, <2>1
<1>9. ts \in Seq(Seq(STRING)) /\ Len(ts) = n + 1 /\ \A k \in 1 .. n + 1 : ts[k] = CharAt(t, k, special)
  <2>1. \A k \in 1 .. n + 1 : CharAt(t, k, special) \in Seq(STRING)
    BY <1>1, <1>4
  <2> QED
    BY <1>2, <1>3, <2>1
<1>10. Written(y, special) = FlattenSeq(ys) /\ Written(t, special) = FlattenSeq(ts)
  BY DEF Written, CharAt
<1> HIDE DEF ys, ts
<1> DEFINE zs == <<c>> \o ys
<1>11. /\ zs \in Seq(Seq(STRING)) /\ Len(zs) = n + 1 /\ zs[1] = c
       /\ \A k \in 1 .. n : zs[k + 1] = ys[k]
  BY <1>7, <1>8, FirstThen
<1>12. FlattenSeq(ys) \in Seq(STRING) /\ FlattenSeq(zs) = c \o FlattenSeq(ys)
  BY <1>7, <1>8, FlattenFirst
<1> HIDE DEF zs
<1>13. ts = zs
  <2>1. ASSUME NEW k \in 1 .. n + 1 PROVE ts[k] = zs[k]
    <3>1. CASE k = 1
      BY <1>5, <1>9, <1>11, <3>1
    <3>2. CASE k # 1
      <4>1. k - 1 \in 1 .. n /\ (k - 1) + 1 = k
        BY <1>2, <3>2
      <4>2. zs[k] = ys[k - 1] /\ ys[k - 1] = CharAt(y, k - 1, special)
        BY <1>8, <1>11, <4>1
      <4>3. CharAt(t, k, special) = CharAt(y, k - 1, special)
        BY <1>6, <4>1
      <4> QED
        BY <1>9, <4>2, <4>3
    <3> QED
      BY <3>1, <3>2
  <2> QED
    BY <1>9, <1>11, <2>1, SeqEqual
<1> QED
  BY <1>7, <1>10, <1>12, <1>13 DEF t, c

(* Nothing is written for nothing.                                         *)
LEMMA WrittenNothing ==
  ASSUME NEW special
  PROVE  Written(<<>>, special) = <<>>
<1>1. [i \in DOMAIN <<>> |-> CharAt(<<>>, i, special)] = <<>>
  OBVIOUS
<1> QED
  BY <1>1, FlattenNone DEF Written, CharAt

(* Neighbouring literals are written one after the other, unless they make *)
(* an arrow.                                                               *)
LEMMA WrittenOne ==
  ASSUME NEW special, NEW x \in STRING
  PROVE  Written(<<x>>, special) = IF x \in special THEN <<"\\", x>> ELSE <<x>>
<1>1. <<>> \in Seq(STRING) /\ <<x>> \in Seq(STRING)
  <2>1. <<>> \in Seq(STRING)
    OBVIOUS
  <2>2. <<x>> \in Seq(STRING)
    BY OneOrTwo, Zenon
  <2> QED
    BY <2>1, <2>2
<1>2. <<x>> \o <<>> = <<x>>
  BY <1>1, ConcatEmptySeq
<1>3. Written(<<x>>, special) = CharBefore(x, <<>>, special) \o <<>>
  BY <1>1, <1>2, WrittenFirst, WrittenNothing
<1>4. CharBefore(x, <<>>, special) = IF x \in special THEN <<"\\", x>> ELSE <<x>>
  BY DEF CharBefore
<1>5. CharBefore(x, <<>>, special) \in Seq(STRING)
  BY <1>1, WrittenFirst
<1> QED
  BY <1>3, <1>4, <1>5, ConcatEmptySeq

(* Digits and their values.                                                *)
LEMMA DigitsAre ==
  /\ \A d \in DOMAIN Digit : Digit[d] \in 0 .. 9 /\ Digits[Digit[d] + 1] = d
  /\ \A n \in 0 .. 9 : Digits[n + 1] \in STRING
<1>0. DOMAIN Digits = 1 .. 10
  BY DEF Digits
<1> HIDE DEF Digits
<1>1. ASSUME NEW d \in DOMAIN Digit
      PROVE  Digit[d] \in 0 .. 9 /\ Digits[Digit[d] + 1] = d
  <2>1. d \in {Digits[n] : n \in 1 .. 10}
    BY <1>0 DEF Digit, Range
  <2> DEFINE place == CHOOSE n \in 1 .. 10 : Digits[n] = d
  <2>2. place \in 1 .. 10 /\ Digits[place] = d
    BY <2>1
  <2>3. Digit[d] = place - 1
    BY DEF Digit
  <2> HIDE DEF place
  <2>4. Digit[d] \in 0 .. 9 /\ Digit[d] + 1 = place
    BY <2>2, <2>3
  <2> QED
    BY <2>2, <2>4
<1>2. ASSUME NEW n \in 0 .. 9 PROVE Digits[n + 1] \in STRING
  <2>1. Range(Digits) \subseteq STRING
    BY MarksAssumption
  <2>2. n + 1 \in DOMAIN Digits
    BY <1>0
  <2> QED
    BY <2>1, <2>2 DEF Range
<1> QED
  BY <1>1, <1>2

(* The digits of m, made of those of smaller numbers.                      *)
DigitsOf(m, f) ==
  IF m < 10 THEN <<Digits[m + 1]>> ELSE Append(f[m \div 10], Digits[(m % 10) + 1])

(* Decimal writes a number with its last digit after those of the rest.    *)
LEMMA DecimalSolved ==
  ASSUME NEW n \in Nat
  PROVE  \E f : /\ f \in [0 .. n -> Seq(STRING)] /\ Decimal(n) = f[n]
                /\ \A m \in 0 .. n : f[m] = DigitsOf(m, f)
<1> DEFINE D == 0 .. n
           T == Seq(STRING)
           rank == [m \in D |-> m]
           step == [m \in D |-> [f \in [D -> T] |-> DigitsOf(m, f)]]
           Equation(f) == f = [m \in 0 .. n |->
             IF m < 10 THEN <<Digits[m + 1]>> ELSE Append(f[m \div 10], Digits[(m % 10) + 1])]
           digits == CHOOSE f : Equation(f)
<1>0. \A m \in D : m >= 10 => m \div 10 \in D /\ m \div 10 < m /\ m % 10 \in 0 .. 9
  OBVIOUS
<1>1. ASSUME NEW m \in D, NEW f, m >= 10 => f[m \div 10] \in T PROVE DigitsOf(m, f) \in T
  <2>1. CASE m < 10
    <3>1. m \in 0 .. 9
      BY <2>1
    <3>2. Digits[m + 1] \in STRING
      BY <3>1, DigitsAre
    <3>3. <<Digits[m + 1]>> \in Seq(STRING)
      BY <3>2, OneOrTwo, Zenon
    <3> QED
      BY <2>1, <3>3 DEF DigitsOf
  <2>2. CASE ~(m < 10)
    <3>1. m >= 10
      BY <2>2
    <3>2. f[m \div 10] \in Seq(STRING) /\ m % 10 \in 0 .. 9
      BY <1>0, <1>1, <3>1
    <3> DEFINE d == Digits[(m % 10) + 1]
               p == f[m \div 10]
    <3>3. d \in STRING /\ p \in Seq(STRING)
      BY <3>2, DigitsAre
    <3> HIDE DEF d, p
    <3>4. Append(p, d) \in Seq(STRING)
      BY <3>3, AppendProperties
    <3> QED
      BY <2>2, <3>4 DEF DigitsOf, d, p
  <2> QED
    BY <2>1, <2>2
<1>2. Recursion(D, T, n, rank, step)
  <2>1. rank \in [D -> 0 .. n]
    OBVIOUS
  <2>2. step \in [D -> [[D -> T] -> T]]
    <3>1. ASSUME NEW m \in D, NEW f \in [D -> T] PROVE DigitsOf(m, f) \in T
      <4>1. m >= 10 => f[m \div 10] \in T
        <5> HIDE DEF D, T
        <5> QED
          BY <1>0
      <4> QED
        BY <1>1, <4>1
    <3> HIDE DEF D, T
    <3> QED
      BY <3>1
  <2>3. ASSUME NEW m \in D, NEW g \in [D -> T], NEW h \in [D -> T],
               \A e \in D : rank[e] < rank[m] => g[e] = h[e]
        PROVE  step[m][g] = step[m][h]
    <3>1. m < 10 \/ g[m \div 10] = h[m \div 10]
      <4>1. m < 10 \/ (m \div 10 \in D /\ rank[m \div 10] < rank[m])
        BY <1>0
      <4> QED
        BY <2>3, <4>1
    <3>2. DigitsOf(m, g) = DigitsOf(m, h)
      BY <3>1, Zenon DEF DigitsOf
    <3>3. step[m][g] = DigitsOf(m, g) /\ step[m][h] = DigitsOf(m, h)
      <4> HIDE DEF D, T
      <4> QED
        OBVIOUS
    <3> QED
      BY <3>2, <3>3
  <2>4. T # {}
    <3>1. <<>> \in T
      OBVIOUS
    <3> QED
      BY <3>1
  <2> HIDE DEF D, T, rank, step
  <2> QED
    BY <2>1, <2>2, <2>3, <2>4 DEF Recursion
<1>3. PICK f : Solution(D, T, step, f)
  <2> HIDE DEF D, T, rank, step
  <2> QED
    BY <1>2, RecursionSolved
<1>4. f \in [D -> T] /\ \A m \in D : f[m] = DigitsOf(m, f)
  <2> HIDE DEF D, T
  <2>1. f \in [D -> T] /\ \A m \in D : f[m] = step[m][f]
    <3> HIDE DEF step
    <3> QED
      BY <1>3 DEF Solution
  <2> QED
    BY <2>1
<1>5. Equation(f)
  <2>1. f = [m \in D |-> f[m]]
    <3> HIDE DEF D, T
    <3> QED
      BY <1>4
  <2>2. f = [m \in D |-> DigitsOf(m, f)]
    <3> HIDE DEF D
    <3> QED
      BY <1>4, <2>1
  <2> QED
    BY <2>2 DEF DigitsOf
<1>6. Equation(digits)
  <2> HIDE DEF Equation
  <2> QED
    BY <1>5
<1>7. Decimal(n) = digits[n]
  BY DEF Decimal
<1> HIDE DEF digits
<1>8. digits = [m \in D |-> DigitsOf(m, digits)]
  BY <1>6 DEF DigitsOf
<1> HIDE DEF Equation
<1>9. digits = [m \in D |-> digits[m]] /\ \A m \in D : digits[m] = DigitsOf(m, digits)
  <2> HIDE DEF D
  <2> QED
    BY <1>8
<1> DEFINE S == {m \in D : digits[m] \in T}
<1>10. D \subseteq S
  <2>1. rank \in [D -> 0 .. n]
    OBVIOUS
  <2>2. ASSUME NEW m \in D, \A e \in D : rank[e] < rank[m] => e \in S PROVE m \in S
    <3>1. m >= 10 => digits[m \div 10] \in T
      <4>1. m >= 10 => m \div 10 \in D /\ rank[m \div 10] < rank[m]
        BY <1>0
      <4> QED
        BY <2>2, <4>1
    <3>2. DigitsOf(m, digits) \in T
      BY <1>1, <3>1
    <3>3. digits[m] = DigitsOf(m, digits)
      BY <1>9
    <3> HIDE DEF T
    <3> QED
      BY <3>2, <3>3
  <2> HIDE DEF D, S, rank
  <2> QED
    BY <2>1, <2>2, RankInduction
<1>11. digits \in [D -> T]
  <2>1. \A m \in D : digits[m] \in T
    BY <1>10
  <2>2. digits = [m \in D |-> digits[m]]
    BY <1>9
  <2> HIDE DEF D, T
  <2> QED
    BY <2>1, <2>2
<1> QED
  BY <1>7, <1>9, <1>11

(* A part of a sequence that is one element longer.                        *)
LEMMA FromToLonger ==
  ASSUME NEW S, NEW s \in Seq(S), NEW i \in 1 .. Len(s), NEW j \in i .. Len(s)
  PROVE  /\ FromTo(s, i, i) = <<>>
         /\ FromTo(s, i, j + 1) = Append(FromTo(s, i, j), s[j])
<1> DEFINE p == FromTo(s, i, j)
           q == FromTo(s, i, j + 1)
           e == FromTo(s, i, i)
           a == Append(p, s[j])
           x == s[j]
<1>0. Len(s) \in Nat /\ i \in 1 .. Len(s) + 1 /\ j \in i .. Len(s) + 1 /\ j + 1 \in i .. Len(s) + 1 /\ i \in i .. Len(s) + 1
  OBVIOUS
<1>1. /\ p \in Seq(S) /\ Len(p) = j - i
      /\ \A k \in 1 .. j - i : p[k] = s[i + k - 1]
  BY <1>0, FromToIs
<1>2. q \in Seq(S) /\ Len(q) = (j + 1) - i /\ \A k \in 1 .. (j + 1) - i : q[k] = s[i + k - 1]
  <2> DEFINE to == j + 1
  <2>1. to \in i .. Len(s) + 1
    BY <1>0
  <2> HIDE DEF to
  <2>2. /\ FromTo(s, i, to) \in Seq(S) /\ Len(FromTo(s, i, to)) = to - i
        /\ \A k \in 1 .. to - i : FromTo(s, i, to)[k] = s[i + k - 1]
    BY <1>0, <2>1, FromToIs
  <2> QED
    BY <2>2 DEF to
<1>3. e = <<>>
  <2>1. e \in Seq(S) /\ Len(e) = i - i
    BY <1>0, FromToIs
  <2> HIDE DEF e
  <2> QED
    BY <1>0, <2>1
<1>4. x \in S
  BY <1>0
<1> HIDE DEF p, q, e
<1>5. /\ a \in Seq(S) /\ Len(a) = (j - i) + 1 /\ a[(j - i) + 1] = x
      /\ \A k \in 1 .. j - i : a[k] = p[k]
  <2> HIDE DEF x
  <2>1. a = Append(p, x)
    BY DEF x
  <2> HIDE DEF a
  <2>2. p \in Seq(S)
    BY <1>1
  <2>3. /\ a \in Seq(S) /\ Len(a) = Len(p) + 1 /\ a[Len(p) + 1] = x
        /\ \A k \in 1 .. Len(p) : a[k] = p[k]
    BY <1>4, <2>1, <2>2, AppendProperties, Zenon
  <2>4. Len(p) = j - i
    BY <1>1
  <2> QED
    BY <2>3, <2>4, Zenon
<1> HIDE DEF a
<1>6. q = a
  <2>1. Len(q) = Len(a)
    BY <1>0, <1>2, <1>5
  <2>2. ASSUME NEW k \in 1 .. Len(q) PROVE q[k] = a[k]
    <3>1. k \in 1 .. (j + 1) - i /\ q[k] = s[i + k - 1]
      BY <1>2
    <3>2. CASE k = (j - i) + 1
      <4>1. i + k - 1 = j
        BY <1>0, <3>2
      <4> QED
        BY <1>5, <3>1, <3>2, <4>1 DEF x
    <3>3. CASE k # (j - i) + 1
      <4>1. k \in 1 .. j - i
        BY <1>0, <3>1, <3>3
      <4> QED
        BY <1>1, <1>5, <3>1, <4>1
    <3> QED
      BY <3>2, <3>3
  <2> QED
    BY <1>2, <1>5, <2>1, <2>2, SeqEqual
<1> QED
  BY <1>3, <1>6 DEF p, q, e, a

(* A number is written with the digits that it was read of.                *)
LEMMA DecimalOfNumber ==
  ASSUME NEW s \in Seq(STRING), NEW i \in 1 .. Len(s), BeginsNumber(s, i)
  PROVE  Decimal(Number(s, i)) = FromTo(s, i, AfterNumber(s, i))
<1> DEFINE M == AfterNumber(s, i) - i
           n == Number(s, i)
<1>0. Len(s) \in Nat /\ i \in 1 .. Len(s) + 1
  OBVIOUS
<1>1. PICK v : Counted(s, i, v) /\ n = v[M]
  BY <1>0, NumberSolved
<1>2. M \in Nat \ {0}
  BY <1>0, NumberSolved
<1>3. AfterNumber(s, i) = i + M /\ i + M <= Len(s) + 1 /\ \A k \in i .. i + M - 1 : s[k] \in DOMAIN Digit
  <2> DEFINE j == AfterNumber(s, i)
  <2>1. j \in i .. Len(s) + 1 /\ \A k \in i .. j - 1 : s[k] \in DOMAIN Digit
    BY <1>0, NumberEnds
  <2>2. M = j - i
    OBVIOUS
  <2>3. j = AfterNumber(s, i)
    OBVIOUS
  <2> HIDE DEF j, M
  <2>4. j = i + M /\ j <= Len(s) + 1
    BY <1>0, <2>1, <2>2
  <2>5. \A k \in i .. i + M - 1 : s[k] \in DOMAIN Digit
    <3> TAKE k \in i .. i + M - 1
    <3>1. k \in i .. j - 1
      BY <1>0, <1>2, <2>1, <2>4
    <3> QED
      BY <2>1, <3>1
  <2> QED
    BY <2>3, <2>4, <2>5
<1>4. /\ v \in [0 .. M -> Nat] /\ v[0] = 0
      /\ \A k \in 1 .. M : v[k] = 10 * v[k - 1] + Digit[s[i + k - 1]] /\ v[k] > 0
  BY <1>1 DEF Counted
<1>5. n \in Nat
  <2> HIDE DEF n, M
  <2> QED
    BY <1>1, <1>2, <1>4
<1>6. PICK f : /\ f \in [0 .. n -> Seq(STRING)] /\ Decimal(n) = f[n]
               /\ \A m \in 0 .. n : f[m] = DigitsOf(m, f)
  <2> HIDE DEF n
  <2> QED
    BY <1>5, DecimalSolved
<1> HIDE DEF M, n
<1>7. ASSUME NEW k \in 1 .. M
      PROVE  /\ Digit[s[i + k - 1]] \in 0 .. 9 /\ Digits[Digit[s[i + k - 1]] + 1] = s[i + k - 1]
             /\ i + k - 1 \in i .. Len(s)
  <2>1. i + k - 1 \in i .. i + M - 1 /\ i + k - 1 \in i .. Len(s)
    BY <1>0, <1>2, <1>3
  <2>2. s[i + k - 1] \in DOMAIN Digit
    BY <1>3, <2>1
  <2> QED
    BY <2>1, <2>2, DigitsAre
<1> DEFINE T == {k \in 0 .. M - 1 : v[M - k] <= n}
<1>8. 0 .. M - 1 \subseteq T
  <2>1. 0 \in T
    <3>1. M - 0 = M
      BY <1>2
    <3> QED
      BY <1>1, <1>2, <1>5, <3>1
  <2>2. ASSUME NEW k \in 0 .. (M - 1) - 1, k \in T PROVE k + 1 \in T
    <3>1. M - k \in 1 .. M /\ (M - k) - 1 = M - (k + 1) /\ k + 1 \in 0 .. M - 1 /\ M - (k + 1) \in 0 .. M
      BY <1>2
    <3>2. v[M - k] = 10 * v[M - (k + 1)] + Digit[s[i + (M - k) - 1]]
      BY <1>4, <3>1
    <3>3. v[M - (k + 1)] \in Nat /\ Digit[s[i + (M - k) - 1]] \in 0 .. 9 /\ v[M - k] <= n
      <4>1. Digit[s[i + (M - k) - 1]] \in 0 .. 9
        BY <1>7, <3>1
      <4> QED
        BY <1>4, <2>2, <3>1, <4>1
    <3>4. v[M - (k + 1)] <= n
      BY <1>5, <3>2, <3>3
    <3> QED
      BY <3>1, <3>4
  <2>3. M - 1 \in Nat
    BY <1>2
  <2> HIDE DEF T
  <2> QED
    BY <2>1, <2>2, <2>3, UpToInduction
<1>9. \A k \in 1 .. M : v[k] \in 0 .. n /\ v[k] > 0
  <2> TAKE k \in 1 .. M
  <2>1. M - k \in 0 .. M - 1 /\ M - (M - k) = k /\ k \in 0 .. M
    BY <1>2
  <2>2. v[M - (M - k)] <= n
    BY <1>8, <2>1
  <2> QED
    BY <1>4, <1>5, <2>1, <2>2
<1> DEFINE R == {k \in 0 .. M - 1 : f[v[k + 1]] = FromTo(s, i, i + k + 1)}
<1>10. 0 \in R
  <2>1. 1 \in 1 .. M /\ 1 - 1 = 0 /\ i + 1 - 1 = i /\ 0 + 1 = 1 /\ i + 0 + 1 = i + 1
    BY <1>0, <1>2
  <2>2. v[1] = 10 * v[0] + Digit[s[i]]
    BY <1>4, <2>1
  <2>3. Digit[s[i]] \in 0 .. 9 /\ Digits[Digit[s[i]] + 1] = s[i]
    BY <1>7, <2>1
  <2>4. v[1] = Digit[s[i]] /\ v[1] < 10 /\ v[1] \in 0 .. n
    BY <1>4, <1>9, <2>1, <2>2, <2>3
  <2>5. f[v[1]] = <<s[i]>>
    <3>1. f[v[1]] = DigitsOf(v[1], f)
      BY <1>6, <2>4
    <3>2. DigitsOf(v[1], f) = <<Digits[v[1] + 1]>>
      BY <2>4 DEF DigitsOf
    <3> QED
      BY <2>3, <2>4, <3>1, <3>2
  <2>6. FromTo(s, i, i + 1) = <<s[i]>>
    <3>1. FromTo(s, i, i) = <<>> /\ FromTo(s, i, i + 1) = Append(FromTo(s, i, i), s[i])
      BY <1>0, FromToLonger
    <3> QED
      BY <3>1
  <2> QED
    BY <1>2, <2>1, <2>5, <2>6
<1>11. ASSUME NEW k \in 0 .. (M - 1) - 1, k \in R PROVE k + 1 \in R
  <2> DEFINE x == v[k + 1]
             y == v[k + 2]
             d == Digit[s[i + k + 1]]
  <2>1. /\ k + 2 \in 1 .. M /\ k + 1 \in 1 .. M /\ k + 1 \in 0 .. M - 1 /\ (k + 2) - 1 = k + 1
        /\ i + (k + 2) - 1 = i + k + 1 /\ (k + 1) + 1 = k + 2 /\ i + (k + 1) + 1 = (i + k + 1) + 1
    BY <1>0, <1>2
  <2>2. y = 10 * x + d /\ x \in 0 .. n /\ x > 0 /\ y \in 0 .. n
    <3>1. v[k + 2] = 10 * v[(k + 2) - 1] + Digit[s[i + (k + 2) - 1]]
      BY <1>4, <2>1
    <3>2. v[k + 1] \in 0 .. n /\ v[k + 1] > 0 /\ v[k + 2] \in 0 .. n
      BY <1>9, <2>1
    <3> QED
      BY <2>1, <3>1, <3>2
  <2>3. d \in 0 .. 9 /\ Digits[d + 1] = s[i + k + 1] /\ i + k + 1 \in i .. Len(s)
    <3>1. /\ Digit[s[i + (k + 2) - 1]] \in 0 .. 9
          /\ Digits[Digit[s[i + (k + 2) - 1]] + 1] = s[i + (k + 2) - 1]
          /\ i + (k + 2) - 1 \in i .. Len(s)
      BY <1>7, <2>1
    <3> QED
      BY <2>1, <3>1
  <2>4. f[x] = FromTo(s, i, i + k + 1)
    BY <1>11
  <2> HIDE DEF x, y, d
  <2>5. ~(y < 10) /\ y \div 10 = x /\ y % 10 = d
    BY <1>5, <2>2, <2>3
  <2>6. f[y] = Append(f[x], Digits[d + 1])
    <3>1. f[y] = DigitsOf(y, f)
      BY <1>6, <2>2
    <3>2. DigitsOf(y, f) = Append(f[y \div 10], Digits[(y % 10) + 1])
      BY <2>5, Zenon DEF DigitsOf
    <3> QED
      BY <2>5, <3>1, <3>2
  <2>7. FromTo(s, i, (i + k + 1) + 1) = Append(FromTo(s, i, i + k + 1), s[i + k + 1])
    <3> DEFINE j == i + k + 1
    <3>1. j \in i .. Len(s)
      BY <2>3
    <3> HIDE DEF j
    <3>2. FromTo(s, i, j + 1) = Append(FromTo(s, i, j), s[j])
      BY <3>1, FromToLonger
    <3> QED
      BY <3>2 DEF j
  <2>8. f[y] = FromTo(s, i, i + (k + 1) + 1)
    BY <2>1, <2>3, <2>4, <2>6, <2>7
  <2>9. f[v[(k + 1) + 1]] = FromTo(s, i, i + (k + 1) + 1)
    BY <2>1, <2>8 DEF y
  <2> QED
    BY <2>1, <2>9
<1>12. M - 1 \in R
  <2>1. M - 1 \in Nat
    BY <1>2
  <2>2. 0 .. M - 1 \subseteq R
    <3> HIDE DEF R
    <3> QED
      BY <1>10, <1>11, <2>1, UpToInduction
  <2> QED
    BY <2>1, <2>2
<1>13. (M - 1) + 1 = M /\ i + (M - 1) + 1 = i + M
  BY <1>0, <1>2
<1>14. f[v[M]] = FromTo(s, i, i + M)
  BY <1>12, <1>13
<1> QED
  BY <1>1, <1>3, <1>6, <1>14 DEF n

(* What is written for a token.                                            *)
TokenText(token, special, numbered) ==
  IF token.capture = 0 THEN Written(token.literal, special)
  ELSE IF numbered THEN <<"$">> \o Decimal(token.capture)
  ELSE <<"*">>

(* Characters are written for every token.                                 *)
LEMMA TokenTextType ==
  ASSUME NEW c \in Nat, NEW token \in TokensUpTo(c), NEW special, NEW numbered
  PROVE  TokenText(token, special, numbered) \in Seq(STRING)
<1>1. token.literal \in Seq(STRING) /\ token.capture \in Nat
  BY DEF TokensUpTo
<1>2. "$" \in STRING /\ "*" \in STRING
  BY MarksAssumption
<1>3. <<"$">> \in Seq(STRING) /\ <<"*">> \in Seq(STRING)
  BY <1>2, OneOrTwo, Zenon
<1>4. Written(token.literal, special) \in Seq(STRING)
  BY <1>1, <1>2, WrittenFirst
<1>5. Decimal(token.capture) \in Seq(STRING)
  <2> DEFINE n == token.capture
  <2>1. n \in Nat
    BY <1>1
  <2> HIDE DEF n
  <2>2. PICK f : f \in [0 .. n -> Seq(STRING)] /\ Decimal(n) = f[n]
    BY <2>1, DecimalSolved
  <2> QED
    BY <2>1, <2>2 DEF n
<1>6. <<"$">> \o Decimal(token.capture) \in Seq(STRING)
  BY <1>3, <1>5, ConcatIs, Zenon
<1> QED
  BY <1>3, <1>4, <1>6 DEF TokenText

(* One sequence before another: with its name the provers leave it whole.  *)
Before(a, b) == a \o b

(* Tokens are written one after the other.                                 *)
LEMMA TokensWrittenFirst ==
  ASSUME NEW c \in Nat, NEW token \in TokensUpTo(c), NEW rest \in Seq(TokensUpTo(c)),
         NEW special, NEW numbered
  PROVE  /\ WrittenTokens(rest, special, numbered) \in Seq(STRING)
         /\ WrittenTokens(<<token>> \o rest, special, numbered)
              = Before(TokenText(token, special, numbered), WrittenTokens(rest, special, numbered))
<1> DEFINE T == TokensUpTo(c)
           n == Len(rest)
           all == <<token>> \o rest
           x == TokenText(token, special, numbered)
           ys == [k \in DOMAIN rest |-> TokenText(rest[k], special, numbered)]
           ts == [k \in DOMAIN all |-> TokenText(all[k], special, numbered)]
<1>1. n \in Nat /\ DOMAIN rest = 1 .. n /\ \A k \in 1 .. n : rest[k] \in T
  OBVIOUS
<1>2. /\ all \in Seq(T) /\ Len(all) = n + 1 /\ all[1] = token
      /\ \A k \in 1 .. n : all[k + 1] = rest[k]
  <2> HIDE DEF T
  <2> QED
    BY FirstThen DEF T
<1> HIDE DEF all
<1>3. DOMAIN all = 1 .. n + 1 /\ \A k \in 1 .. n + 1 : all[k] \in T
  BY <1>2
<1>4. x \in Seq(STRING)
  BY TokenTextType
<1>5. ys \in Seq(Seq(STRING)) /\ Len(ys) = n /\ \A k \in 1 .. n : ys[k] = TokenText(rest[k], special, numbered)
  <2>1. \A k \in 1 .. n : TokenText(rest[k], special, numbered) \in Seq(STRING)
    BY <1>1, TokenTextType
  <2> HIDE DEF n
  <2> QED
    BY <1>1, <2>1
<1>6. ts \in Seq(Seq(STRING)) /\ Len(ts) = n + 1 /\ \A k \in 1 .. n + 1 : ts[k] = TokenText(all[k], special, numbered)
  <2>1. \A k \in 1 .. n + 1 : TokenText(all[k], special, numbered) \in Seq(STRING)
    BY <1>3, TokenTextType
  <2> HIDE DEF n
  <2> QED
    BY <1>1, <1>3, <2>1
<1>7. /\ WrittenTokens(rest, special, numbered) = FlattenSeq(ys)
      /\ WrittenTokens(all, special, numbered) = FlattenSeq(ts)
  BY DEF WrittenTokens, TokenText
<1> HIDE DEF ys, ts, n
<1> DEFINE zs == <<x>> \o ys
<1>8. zs \in Seq(Seq(STRING)) /\ Len(zs) = n + 1 /\ zs[1] = x /\ \A k \in 1 .. n : zs[k + 1] = ys[k]
  <2> HIDE DEF x
  <2> QED
    BY <1>4, <1>5, FirstThen
<1>9. FlattenSeq(ys) \in Seq(STRING) /\ FlattenSeq(zs) = x \o FlattenSeq(ys)
  BY <1>4, <1>5, FlattenFirst
<1> HIDE DEF zs
<1>10. ts = zs
  <2>1. ASSUME NEW k \in 1 .. n + 1 PROVE ts[k] = zs[k]
    <3>1. CASE k = 1
      <4>1. ts[1] = x
        BY <1>2, <1>6, <3>1
      <4> QED
        BY <1>8, <3>1, <4>1
    <3>2. CASE k # 1
      <4> DEFINE j == k - 1
      <4>1. j \in 1 .. n /\ j + 1 = k
        BY <1>1, <3>2
      <4> HIDE DEF j
      <4>2. all[k] = rest[j] /\ zs[k] = ys[j]
        <5>1. all[j + 1] = rest[j] /\ zs[j + 1] = ys[j]
          BY <1>2, <1>8, <4>1
        <5> QED
          BY <4>1, <5>1
      <4>3. ts[k] = TokenText(all[k], special, numbered) /\ ys[j] = TokenText(rest[j], special, numbered)
        BY <1>5, <1>6, <4>1
      <4> QED
        BY <4>2, <4>3
    <3> QED
      BY <3>1, <3>2
  <2> QED
    BY <1>6, <1>8, <2>1, SeqEqual
<1> QED
  BY <1>7, <1>9, <1>10 DEF all, x, Before

(* Nothing is written for no tokens.                                       *)
LEMMA NoTokensWritten ==
  ASSUME NEW special, NEW numbered
  PROVE  WrittenTokens(<<>>, special, numbered) = <<>>
<1>1. [k \in DOMAIN <<>> |-> TokenText(<<>>[k], special, numbered)] = <<>>
  OBVIOUS
<1> QED
  BY <1>1, FlattenNone DEF WrittenTokens, TokenText

(* A sequence that is not empty is its first element and the others.       *)
LEMMA FirstAndOthers ==
  ASSUME NEW T, NEW s \in Seq(T), s # <<>>
  PROVE  s[1] \in T /\ Tail(s) \in Seq(T) /\ s = <<s[1]>> \o Tail(s)
<1>1. 1 \in 1 .. Len(s) /\ Len(s) \in Nat /\ s[1] \in T
  OBVIOUS
<1>2. Tail(s) = SubSeq(s, 2, Len(s)) /\ Tail(s) \in Seq(T)
  BY TailIsSubSeq, HeadTailProperties
<1>3. SubSeq(s, 1, Len(s)) = s
  BY SubSeqFull
<1>4. Len(s) \in 1 .. Len(s) /\ 1 + 1 = 2
  BY <1>1
<1>5. SubSeq(s, 1, Len(s)) = <<s[1]>> \o SubSeq(s, 1 + 1, Len(s))
  BY <1>1, <1>4, SubSeqRecursiveFirst
<1> QED
  BY <1>1, <1>2, <1>3, <1>4, <1>5

(* The first element of two sequences is that of the first one.            *)
LEMMA FirstOfConcat ==
  ASSUME NEW T, NEW a \in Seq(T), NEW b \in Seq(T), a # <<>>
  PROVE  a \o b \in Seq(T) /\ a \o b # <<>> /\ (a \o b)[1] = a[1]
<1>1. Len(a) \in Nat /\ Len(b) \in Nat /\ 1 \in 1 .. Len(a)
  OBVIOUS
<1> DEFINE s == a \o b
<1>2. s \in Seq(T) /\ Len(s) = Len(a) + Len(b) /\ \A i \in 1 .. Len(a) : s[i] = a[i]
  BY ConcatIs
<1> HIDE DEF s
<1>3. s # <<>>
  BY <1>1, <1>2
<1> QED
  BY <1>1, <1>2, <1>3 DEF s

(* What is written for a character begins with it or with a backslash.     *)
LEMMA CharBegins ==
  ASSUME NEW x \in STRING, NEW y, NEW special, ">" \notin special
  PROVE  /\ CharBefore(x, y, special) \in Seq(STRING) /\ CharBefore(x, y, special) # <<>>
         /\ CharBefore(x, y, special)[1] = ">" <=> x = ">"
<1>1. "\\" \in STRING
  BY MarksAssumption
<1>2. <<"\\", x>> \in Seq(STRING) /\ <<x>> \in Seq(STRING) /\ <<"\\", x>> # <<>> /\ <<x>> # <<>>
  BY <1>1, OneOrTwo, Zenon
<1>3. <<"\\", x>>[1] = "\\" /\ <<x>>[1] = x
  OBVIOUS
<1>4. CASE x \in special \/ (x = "=" /\ y # <<>> /\ y[1] = ">")
  <2>1. CharBefore(x, y, special) = <<"\\", x>>
    BY <1>4 DEF CharBefore
  <2>2. x # ">"
    BY <1>4
  <2> QED
    BY <1>2, <1>3, <2>1, <2>2
<1>5. CASE ~(x \in special \/ (x = "=" /\ y # <<>> /\ y[1] = ">"))
  <2>1. CharBefore(x, y, special) = <<x>>
    BY <1>5 DEF CharBefore
  <2> QED
    BY <1>2, <1>3, <2>1
<1> QED
  BY <1>4, <1>5

(* What is written for a literal begins with ">" when the literal does.    *)
LEMMA LiteralBegins ==
  ASSUME NEW y \in Seq(STRING), y # <<>>, NEW special, ">" \notin special
  PROVE  Written(y, special) # <<>> /\ (Written(y, special)[1] = ">" <=> y[1] = ">")
<1> DEFINE x == y[1]
           z == Tail(y)
           a == CharBefore(x, z, special)
           b == Written(z, special)
<1>1. x \in STRING /\ z \in Seq(STRING) /\ y = <<x>> \o z
  BY FirstAndOthers, Zenon
<1> HIDE DEF x, z
<1>2. b \in Seq(STRING) /\ Written(y, special) = a \o b
  BY <1>1, WrittenFirst
<1>3. a \in Seq(STRING) /\ a # <<>> /\ (a[1] = ">" <=> x = ">")
  BY <1>1, CharBegins
<1> HIDE DEF a, b
<1>4. a \o b # <<>> /\ (a \o b)[1] = a[1]
  BY <1>2, <1>3, FirstOfConcat, Zenon
<1> QED
  BY <1>2, <1>3, <1>4 DEF x

(* What is written for a token begins with an arrow's head only when the   *)
(* token is a literal that does.                                           *)
LEMMA TokenBegins ==
  ASSUME NEW c \in Nat, NEW token \in TokensUpTo(c), NEW special, ">" \notin special, NEW numbered
  PROVE  LET t == TokenText(token, special, numbered)
         IN t # <<>> /\ (t[1] = ">" <=> token.capture = 0 /\ token.literal[1] = ">")
<1> DEFINE t == TokenText(token, special, numbered)
<1>1. token.literal \in Seq(STRING) /\ (token.literal = <<>> <=> token.capture # 0) /\ token.capture \in Nat
  BY DEF TokensUpTo
<1>2. CASE token.capture = 0
  <2>1. t = Written(token.literal, special)
    BY <1>2 DEF TokenText
  <2> QED
    BY <1>1, <1>2, <2>1, LiteralBegins
<1>3. CASE token.capture # 0
  <2> DEFINE n == token.capture
             d == Decimal(n)
  <2>1. d \in Seq(STRING)
    <3>1. n \in Nat
      BY <1>1
    <3> HIDE DEF n
    <3>2. PICK f : f \in [0 .. n -> Seq(STRING)] /\ Decimal(n) = f[n]
      BY <3>1, DecimalSolved
    <3> QED
      BY <3>1, <3>2
  <2>2. t = IF numbered THEN <<"$">> \o d ELSE <<"*">>
    BY <1>3 DEF TokenText
  <2> HIDE DEF d, t
  <2>3. "$" \in STRING
    BY MarksAssumption
  <2>4. <<"$">> \in Seq(STRING) /\ <<"$">> # <<>>
    BY <2>3, OneOrTwo, Zenon
  <2>5. <<"$">> \o d # <<>> /\ (<<"$">> \o d)[1] = <<"$">>[1]
    BY <2>1, <2>4, FirstOfConcat, Zenon
  <2>6. t # <<>> /\ t[1] # ">"
    <3>1. CASE numbered
      <4>1. <<"$">>[1] = "$"
        OBVIOUS
      <4> QED
        BY <2>2, <2>5, <3>1, <4>1
    <3>2. CASE ~numbered
      <4>1. <<"*">>[1] = "*" /\ <<"*">> # <<>>
        OBVIOUS
      <4> QED
        BY <2>2, <3>2, <4>1
    <3> QED
      BY <3>1, <3>2
  <2> QED
    BY <1>3, <2>6 DEF t
<1> QED
  BY <1>2, <1>3

(* And so does what is written for some tokens.                            *)
LEMMA TokensBegin ==
  ASSUME NEW c \in Nat, NEW rest \in Seq(TokensUpTo(c)), rest # <<>>,
         NEW special, ">" \notin special, NEW numbered
  PROVE  LET t == WrittenTokens(rest, special, numbered)
         IN t # <<>> /\ (t[1] = ">" <=> rest[1].capture = 0 /\ rest[1].literal[1] = ">")
<1> DEFINE x == rest[1]
           z == Tail(rest)
           a == TokenText(x, special, numbered)
           b == WrittenTokens(z, special, numbered)
           t == WrittenTokens(rest, special, numbered)
<1>1. x \in TokensUpTo(c) /\ z \in Seq(TokensUpTo(c)) /\ rest = <<x>> \o z
  BY FirstAndOthers, Zenon
<1> HIDE DEF x, z
<1>2. b \in Seq(STRING) /\ t = a \o b
  <2>1. b \in Seq(STRING)
    BY <1>1, TokensWrittenFirst, Zenon
  <2>2. t = a \o b
    <3>1. WrittenTokens(<<x>> \o z, special, numbered) = Before(a, b)
      BY <1>1, TokensWrittenFirst
    <3> QED
      BY <1>1, <3>1 DEF Before
  <2> QED
    BY <2>1, <2>2
<1>3. a \in Seq(STRING)
  BY <1>1, TokenTextType
<1>4. a # <<>> /\ (a[1] = ">" <=> x.capture = 0 /\ x.literal[1] = ">")
  BY <1>1, TokenBegins
<1> HIDE DEF a, b, t
<1>5. a \o b # <<>> /\ (a \o b)[1] = a[1]
  BY <1>2, <1>3, <1>4, FirstOfConcat, Zenon
<1> QED
  BY <1>2, <1>4, <1>5 DEF x, t

(* A character that flush adds to the tokens is written before them.       *)
LEMMA CharJoined ==
  ASSUME NEW c \in Nat, NEW x \in STRING, NEW rest \in Flushed(c),
         NEW special, ">" \notin special, NEW numbered
  PROVE  LET t == WrittenTokens(rest, special, numbered)
         IN /\ t \in Seq(STRING) /\ CharBefore(x, t, special) \in Seq(STRING)
            /\ WrittenTokens(Join(Literal(<<x>>), rest), special, numbered) = Before(CharBefore(x, t, special), t)
<1> DEFINE T == TokensUpTo(c)
           WT(tokens) == WrittenTokens(tokens, special, numbered)
           l == Literal(<<x>>)
           t == WT(rest)
<1>1. rest \in Seq(T) /\ l \in T /\ l.capture = 0 /\ l.literal = <<x>>
  <2>1. l \in T
    BY LiteralOfOne
  <2>2. l.capture = 0 /\ l.literal = <<x>>
    BY DEF Literal
  <2> QED
    BY <2>1, <2>2 DEF Flushed
<1>0. ASSUME NEW a \in T, NEW s \in Seq(T)
      PROVE  WT(s) \in Seq(STRING) /\ WT(<<a>> \o s) = TokenText(a, special, numbered) \o WT(s)
  <2>1. WT(s) \in Seq(STRING)
    BY TokensWrittenFirst, Zenon
  <2>2. WT(<<a>> \o s) = TokenText(a, special, numbered) \o WT(s)
    <3>1. WT(<<a>> \o s) = Before(TokenText(a, special, numbered), WT(s))
      BY TokensWrittenFirst
    <3> QED
      BY <3>1 DEF Before
  <2> QED
    BY <2>1, <2>2
<1> HIDE DEF WT, l
<1>2. t \in Seq(STRING)
  BY <1>0, <1>1
<1>3. CharBefore(x, t, special) \in Seq(STRING)
  BY CharBegins
<1>4. CASE rest # <<>> /\ rest[1].capture = 0
  <2> DEFINE r == rest[1]
             z == Tail(rest)
             y == r.literal
             b == <<x>> \o y
             q == Written(y, special)
             u == WT(z)
             v == CharBefore(x, y, special)
  <2>1. r \in T /\ z \in Seq(T) /\ rest = <<r>> \o z
    BY <1>1, <1>4, FirstAndOthers, Zenon
  <2>2. y \in Seq(STRING) /\ y # <<>> /\ r.capture = 0
    BY <1>4, <2>1 DEF TokensUpTo
  <2>3. b \in Seq(STRING) /\ b # <<>>
    <3> HIDE DEF y
    <3> QED
      BY <2>2, FirstThen, Zenon
  <2>4. Literal(b) \in T
    BY <2>3, LiteralIsToken
  <2>5. Join(l, rest) = <<Literal(b)>> \o z
    <3> DEFINE both == [r EXCEPT !.literal = <<x>> \o @]
    <3>1. Join(l, rest) = [rest EXCEPT ![1] = both]
      BY <1>1, <1>4 DEF Join
    <3>2. both = Literal(b)
      <4>1. r \in AnyToken
        BY <2>1 DEF TokensUpTo, AnyToken
      <4>2. <<x>> \in Seq(STRING)
        BY OneOrTwo, Zenon
      <4> HIDE DEF r
      <4> QED
        BY <2>2, <4>1, <4>2, LiteralLengthened
    <3>3. ASSUME NEW m \in T PROVE [rest EXCEPT ![1] = m] = <<m>> \o z
      <4> DEFINE s1 == [rest EXCEPT ![1] = m]
                 s2 == <<m>> \o z
                 s3 == <<r>> \o z
      <4>1. Len(z) \in Nat /\ 1 \in 1 .. Len(rest)
        BY <1>1, <1>4, <2>1
      <4>2. s2 \in Seq(T) /\ Len(s2) = Len(z) + 1 /\ s2[1] = m /\ \A k \in 1 .. Len(z) : s2[k + 1] = z[k]
        <5> HIDE DEF z, T
        <5> QED
          BY <2>1, FirstThen
      <4>3. s3 \in Seq(T) /\ Len(s3) = Len(z) + 1 /\ s3[1] = r /\ \A k \in 1 .. Len(z) : s3[k + 1] = z[k]
        <5> HIDE DEF z, T, r
        <5> QED
          BY <2>1, FirstThen
      <4>4. s1 \in Seq(T) /\ Len(s1) = Len(rest) /\ \A k \in 1 .. Len(rest) : s1[k] = IF k = 1 THEN m ELSE rest[k]
        BY <1>1, <4>1, ExceptSeq
      <4>5. rest = s3
        BY <2>1
      <4> HIDE DEF s1, s2, s3, z, r, T
      <4>6. ASSUME NEW k \in 1 .. Len(s1) PROVE s1[k] = s2[k]
        <5>1. CASE k = 1
          BY <4>2, <4>4, <5>1
        <5>2. CASE k # 1
          <6>1. k - 1 \in 1 .. Len(z) /\ (k - 1) + 1 = k
            BY <4>1, <4>3, <4>4, <4>5, <5>2
          <6>2. s2[(k - 1) + 1] = z[k - 1] /\ s3[(k - 1) + 1] = z[k - 1]
            BY <4>2, <4>3, <6>1
          <6> QED
            BY <4>4, <4>5, <5>2, <6>1, <6>2
        <5> QED
          BY <5>1, <5>2
      <4>7. Len(s1) = Len(s2)
        BY <4>2, <4>3, <4>4, <4>5
      <4>8. s1 = s2
        BY <4>2, <4>4, <4>6, <4>7, SeqEqual
      <4> QED
        BY <4>8 DEF s1, s2
    <3> HIDE DEF both
    <3> QED
      BY <2>4, <3>1, <3>2, <3>3
  <2>6. WT(Join(l, rest)) = TokenText(Literal(b), special, numbered) \o u /\ u \in Seq(STRING)
    <3> HIDE DEF b, z, T
    <3> QED
      BY <1>0, <2>1, <2>4, <2>5
  <2>7. TokenText(Literal(b), special, numbered) = Written(b, special)
    BY DEF TokenText, Literal
  <2>8. Written(b, special) = v \o q /\ v \in Seq(STRING) /\ q \in Seq(STRING)
    <3> HIDE DEF y
    <3> QED
      BY <2>2, WrittenFirst
  <2>9. t = q \o u
    <3>1. t = TokenText(r, special, numbered) \o u
      <4> HIDE DEF r, z, T
      <4> QED
        BY <1>0, <2>1
    <3>2. TokenText(r, special, numbered) = q
      BY <2>2 DEF TokenText
    <3> QED
      BY <3>1, <3>2
  <2>10. v = CharBefore(x, t, special)
    <3>1. t # <<>> /\ (t[1] = ">" <=> y[1] = ">")
      <4>1. t # <<>> /\ (t[1] = ">" <=> rest[1].capture = 0 /\ rest[1].literal[1] = ">")
        BY <1>1, <1>4, TokensBegin DEF WT
      <4> QED
        BY <2>2, <4>1
    <3> HIDE DEF t, y
    <3> QED
      BY <2>2, <3>1 DEF CharBefore
  <2> HIDE DEF v, q, u, t
  <2>11. (v \o q) \o u = v \o (q \o u)
    BY <2>6, <2>8, ConcatAssociative
  <2>12. WT(Join(l, rest)) = CharBefore(x, t, special) \o t
    BY <2>6, <2>7, <2>8, <2>9, <2>10, <2>11
  <2> QED
    BY <1>2, <1>3, <2>12 DEF t, WT, l, Before
<1>5. CASE ~(rest # <<>> /\ rest[1].capture = 0)
  <2>1. Join(l, rest) = <<l>> \o rest
    BY <1>5 DEF Join
  <2>2. WT(<<l>> \o rest) = TokenText(l, special, numbered) \o t
    BY <1>0, <1>1
  <2>3. TokenText(l, special, numbered) = Written(<<x>>, special)
    BY <1>1 DEF TokenText
  <2>4. Written(<<x>>, special) = CharBefore(x, t, special)
    <3>1. ~(t # <<>> /\ t[1] = ">")
      <4>1. CASE rest = <<>>
        BY <4>1, NoTokensWritten DEF WT
      <4>2. CASE rest # <<>>
        <5>1. t[1] = ">" => rest[1].capture = 0
          BY <1>1, <4>2, TokensBegin DEF WT
        <5> QED
          BY <1>5, <4>2, <5>1
      <4> QED
        BY <4>1, <4>2
    <3> HIDE DEF t
    <3> QED
      BY <3>1, WrittenOne DEF CharBefore
  <2> QED
    BY <1>2, <1>3, <2>1, <2>2, <2>3, <2>4 DEF WT, l, Before
<1> QED
  BY <1>4, <1>5 DEF WT, l

(* A symbol of the first text is read with the second one behind it, when  *)
(* no escape is left dangling and no arrow stands across the two.          *)
LEMMA SymbolBefore ==
  ASSUME NEW a \in Seq(STRING), NEW b \in Seq(STRING), NEW i \in 1 .. Len(a),
         Symbol(a, i) # Escape(<<>>),
         ~(b # <<>> /\ a[Len(a)] = "=" /\ b[1] = ">")
  PROVE  Symbol(a \o b, i) = Symbol(a, i)
<1> DEFINE s == a \o b
           y == Symbol(a, i)
           n == Len(a)
           m == Len(b)
<1>1. n \in Nat /\ m \in Nat /\ (b # <<>> <=> m > 0)
  OBVIOUS
<1>2. s \in Seq(STRING) /\ Len(s) = n + m /\ \A k \in 1 .. n : s[k] = a[k]
  <2>1. s \in Seq(STRING)
    BY ConcatIs, Zenon
  <2>2. Len(s) = n + m /\ \A k \in 1 .. n : s[k] = a[k]
    BY ConcatIs
  <2> QED
    BY <2>1, <2>2
<1>3. m > 0 => s[n + 1] = b[1]
  <2>1. \A k \in 1 .. m : s[n + k] = b[k]
    BY ConcatIs
  <2> QED
    BY <1>1, <2>1
<1>4. \/ PlainArrowAt(a, i, y) \/ PlainAt(a, i, y)
      \/ EscapedArrowAt(a, i, y) \/ DanglingAt(a, i, y) \/ EscapedAt(a, i, y)
  BY SymbolCases
<1> HIDE DEF s, y, n, m
<1>5. i \in 1 .. n /\ i \in 1 .. Len(s) /\ s[i] = a[i] /\ (i + 1 <= n => s[i + 1] = a[i + 1])
      /\ (i + 2 <= n => s[i + 2] = a[i + 2])
  <2>1. i \in 1 .. n
    BY DEF n
  <2> QED
    BY <1>1, <1>2, <2>1
<1>6. ASSUME NEW k \in 1 .. n PROVE IsArrow(s, k) <=> IsArrow(a, k)
  <2>1. CASE k + 1 <= n
    <3>1. s[k] = a[k] /\ s[k + 1] = a[k + 1]
      BY <1>1, <1>2, <2>1
    <3> QED
      BY <1>1, <1>2, <2>1, <3>1 DEF IsArrow, n
  <2>2. CASE k = n
    <3>1. ~IsArrow(a, k)
      BY <1>1, <2>2 DEF IsArrow, n
    <3>2. ~IsArrow(s, k)
      <4>1. CASE m = 0
        BY <1>1, <1>2, <2>2, <4>1 DEF IsArrow
      <4>2. CASE m > 0
        <5>1. ~(a[n] = "=" /\ b[1] = ">")
          BY <1>1, <4>2 DEF n
        <5>2. s[n] = a[n]
          BY <1>2, <2>2
        <5> QED
          BY <1>3, <2>2, <4>2, <5>1, <5>2 DEF IsArrow
      <4> QED
        BY <1>1, <4>1, <4>2
    <3> QED
      BY <3>1, <3>2
  <2> QED
    BY <1>1, <2>1, <2>2
<1>7. CASE PlainArrowAt(a, i, y)
  <2>1. PlainArrowAt(s, i, y)
    BY <1>1, <1>2, <1>5, <1>7 DEF PlainArrowAt, n
  <2> QED
    BY <1>2, <1>5, <2>1, SymbolIs DEF s, y
<1>8. CASE PlainAt(a, i, y)
  <2>1. PlainAt(s, i, y)
    BY <1>5, <1>6, <1>8 DEF PlainAt
  <2> QED
    BY <1>2, <1>5, <2>1, SymbolIs DEF s, y
<1>9. CASE EscapedArrowAt(a, i, y)
  <2>1. EscapedArrowAt(s, i, y)
    <3>1. i + 1 <= n /\ i + 2 <= n
      BY <1>1, <1>5, <1>9 DEF EscapedArrowAt, n
    <3> QED
      BY <1>1, <1>2, <1>5, <1>9, <3>1 DEF EscapedArrowAt
  <2> QED
    BY <1>2, <1>5, <2>1, SymbolIs DEF s, y
<1>10. CASE DanglingAt(a, i, y)
  BY <1>10 DEF DanglingAt, y
<1>11. CASE EscapedAt(a, i, y)
  <2>1. EscapedAt(s, i, y)
    <3>1. i + 1 <= n /\ i + 1 \in 1 .. n
      BY <1>1, <1>5, <1>11 DEF EscapedAt, n
    <3>2. IsArrow(s, i + 1) <=> IsArrow(a, i + 1)
      BY <1>6, <3>1
    <3> QED
      BY <1>1, <1>2, <1>5, <1>11, <3>1, <3>2 DEF EscapedAt
  <2> QED
    BY <1>2, <1>5, <2>1, SymbolIs DEF s, y
<1> QED
  BY <1>4, <1>7, <1>8, <1>9, <1>10, <1>11

(* A symbol of the second text is read whatever stands before it.          *)
LEMMA SymbolAfter ==
  ASSUME NEW a \in Seq(STRING), NEW b \in Seq(STRING), NEW i \in 1 .. Len(b)
  PROVE  Symbol(a \o b, Len(a) + i) = Symbol(b, i)
<1> DEFINE s == a \o b
           n == Len(a)
           m == Len(b)
           lo == n + 1
           hi == Len(s) + 1
           p == n + i
<1>1. n \in Nat /\ m \in Nat /\ i \in 1 .. m
  OBVIOUS
<1>2. s \in Seq(STRING)
  BY ConcatIs, Zenon
<1>3. Len(s) = n + m /\ \A k \in 1 .. m : s[n + k] = b[k]
  BY ConcatIs
<1> HIDE DEF s, n, m
<1>4. lo \in 1 .. Len(s) + 1 /\ hi \in lo .. Len(s) + 1 /\ p \in lo .. Len(s) /\ p \in 1 .. Len(s) /\ p - lo + 1 = i
  BY <1>1, <1>3
<1>5. hi - lo = m
  BY <1>1, <1>3
<1> HIDE DEF lo, hi, p
<1>6. FromTo(s, lo, hi) = b
  <2>1. /\ FromTo(s, lo, hi) \in Seq(STRING) /\ Len(FromTo(s, lo, hi)) = hi - lo
        /\ \A k \in 1 .. hi - lo : FromTo(s, lo, hi)[k] = s[lo + k - 1]
    <3>1. FromTo(s, lo, hi) \in Seq(STRING)
      BY <1>2, <1>4, FromToIs, Zenon
    <3>2. Len(FromTo(s, lo, hi)) = hi - lo /\ \A k \in 1 .. hi - lo : FromTo(s, lo, hi)[k] = s[lo + k - 1]
      BY <1>2, <1>4, FromToIs
    <3> QED
      BY <3>1, <3>2
  <2> DEFINE t == FromTo(s, lo, hi)
  <2> HIDE DEF t
  <2>2. ASSUME NEW k \in 1 .. m PROVE t[k] = b[k]
    <3>1. lo + k - 1 = n + k
      BY <1>1 DEF lo
    <3> QED
      BY <1>3, <1>5, <2>1, <3>1 DEF t
  <2>3. t \in Seq(STRING) /\ Len(t) = m /\ b \in Seq(STRING) /\ Len(b) = m
    BY <1>5, <2>1 DEF t, m
  <2>4. t = b
    BY <2>2, <2>3, SeqEqual
  <2> QED
    BY <2>4 DEF t
<1>7. p + Width(Symbol(s, p)) <= hi
  <2>1. p + Width(Symbol(s, p)) \in p + 1 .. Len(s) + 1
    BY <1>2, <1>4, SymbolWidth
  <2> QED
    BY <1>2, <1>4, <2>1 DEF hi
<1>8. Symbol(FromTo(s, lo, hi), p - lo + 1) = Symbol(s, p)
  BY <1>2, <1>4, <1>7, SymbolOfPart
<1> QED
  BY <1>4, <1>6, <1>8 DEF s, p, n

(* Two texts one after the other are read one after the other, when no     *)
(* escape is left dangling and no arrow stands across the two.             *)
LEMMA ReadingJoined ==
  ASSUME NEW a, NEW p, Reading(a, p), NEW b, NEW q, Reading(b, q),
         p # <<>> => p[Len(p)] # Escape(<<>>),
         ~(a # <<>> /\ b # <<>> /\ a[Len(a)] = "=" /\ b[1] = ">")
  PROVE  Reading(a \o b, p \o q)
<1> DEFINE s == a \o b
           S == p \o q
           n == Len(a)
           m == Len(b)
           N == Len(p)
           M == Len(q)
<1>1. PICK f : Reads(a, p, f)
  BY DEF Reading
<1>2. PICK g : Reads(b, q, g)
  BY DEF Reading
<1>3. /\ a \in Seq(STRING) /\ b \in Seq(STRING) /\ p \in Seq(SymbolType) /\ q \in Seq(SymbolType)
      /\ n \in Nat /\ m \in Nat /\ N \in Nat /\ M \in Nat
  BY <1>1, <1>2 DEF Reads, ReadsFrom
<1>4. s \in Seq(STRING) /\ Len(s) = n + m
  <2>1. s \in Seq(STRING)
    BY <1>3, ConcatIs, Zenon
  <2>2. Len(s) = n + m
    BY <1>3, ConcatIs
  <2> QED
    BY <2>1, <2>2
<1>5. S \in Seq(SymbolType) /\ Len(S) = N + M /\ (\A k \in 1 .. N : S[k] = p[k]) /\ \A k \in 1 .. M : S[N + k] = q[k]
  BY <1>3, ConcatIs
<1>6. /\ f \in [1 .. N + 1 -> 1 .. n + 1] /\ f[1] = 1 /\ f[N + 1] = n + 1
      /\ \A k \in 1 .. N : f[k] <= n /\ p[k] = Symbol(a, f[k]) /\ f[k + 1] = f[k] + Width(p[k])
  BY <1>1 DEF Reads, ReadsFrom
<1>7. /\ g \in [1 .. M + 1 -> 1 .. m + 1] /\ g[1] = 1 /\ g[M + 1] = m + 1
      /\ \A k \in 1 .. M : g[k] <= m /\ q[k] = Symbol(b, g[k]) /\ g[k + 1] = g[k] + Width(q[k])
  BY <1>2 DEF Reads, ReadsFrom
<1>8. \A k \in 1 .. N : f[k] \in 1 .. n /\ Symbol(s, f[k]) = Symbol(a, f[k])
  <2> TAKE k \in 1 .. N
  <2>1. f[k] \in 1 .. n
    BY <1>3, <1>6
  <2>2. Symbol(a, f[k]) # Escape(<<>>)
    <3>1. CASE k = N
      <4>1. p # <<>>
        BY <1>3, <3>1
      <4> QED
        BY <1>6, <3>1, <4>1
    <3>2. CASE k # N
      <4>1. f[k + 1] < f[N + 1]
        <5>1. k + 1 \in 1 .. N + 1 /\ N + 1 \in 1 .. N + 1 /\ k + 1 < N + 1
          BY <1>3, <3>2
        <5> QED
          BY <1>1, <5>1, SymbolsAdvance
      <4>2. SUFFICES ASSUME Symbol(a, f[k]) = Escape(<<>>) PROVE FALSE
        OBVIOUS
      <4>3. DanglingAt(a, f[k], p[k])
        <5>1. \/ PlainArrowAt(a, f[k], p[k]) \/ PlainAt(a, f[k], p[k])
              \/ EscapedArrowAt(a, f[k], p[k]) \/ DanglingAt(a, f[k], p[k])
              \/ EscapedAt(a, f[k], p[k])
          BY <1>1, SymbolsAt
        <5>2. p[k] = Escape(<<>>)
          BY <1>6, <4>2
        <5>3. Escape(<<>>).escaped /\ Escape(<<>>).chars = <<>> /\ Arrow # <<>> /\ \A x : <<x>> # <<>>
          BY DEF Escape, Arrow
        <5>4. \A chars : ~Plain(chars).escaped /\ Escape(chars).chars = chars
          BY DEF Plain, Escape
        <5>5. ~PlainArrowAt(a, f[k], p[k]) /\ ~PlainAt(a, f[k], p[k])
          BY <5>2, <5>3, <5>4 DEF PlainArrowAt, PlainAt
        <5>6. ~EscapedArrowAt(a, f[k], p[k]) /\ ~EscapedAt(a, f[k], p[k])
          <6>1. p[k].chars = <<>>
            BY <5>2, <5>3
          <6>2. p[k] # Escape(Arrow) /\ p[k] # Escape(<<a[f[k] + 1]>>)
            BY <5>3, <5>4, <6>1
          <6> QED
            BY <6>2 DEF EscapedArrowAt, EscapedAt
        <5> QED
          BY <5>1, <5>5, <5>6
      <4>4. f[k + 1] = f[k] + 1 /\ f[k] = n
        BY <1>6, <4>3 DEF DanglingAt
      <4> QED
        BY <1>3, <1>6, <4>1, <4>4
    <3> QED
      BY <3>1, <3>2
  <2>3. ~(b # <<>> /\ a[Len(a)] = "=" /\ b[1] = ">")
    <3>1. a # <<>>
      BY <1>3, <2>1
    <3> QED
      BY <3>1
  <2> QED
    BY <1>3, <2>1, <2>2, <2>3, SymbolBefore
<1>9. \A k \in 1 .. M : g[k] \in 1 .. m /\ Symbol(s, n + g[k]) = Symbol(b, g[k])
  <2> TAKE k \in 1 .. M
  <2>1. g[k] \in 1 .. m
    <3>1. k \in 1 .. M + 1 /\ g[k] <= m
      BY <1>3, <1>7
    <3>2. g[k] \in 1 .. m + 1
      BY <1>7, <3>1
    <3> QED
      BY <1>3, <3>1, <3>2
  <2> QED
    BY <1>3, <2>1, SymbolAfter
<1> HIDE DEF s, S, n, m, N, M
<1> DEFINE L == N + M
           at == [k \in 1 .. L + 1 |-> IF k <= N + 1 THEN f[k] ELSE n + g[k - N]]
<1>10. \A k \in 1 .. M + 1 : N + k \in 1 .. L + 1 /\ at[N + k] = n + g[k]
  <2> TAKE k \in 1 .. M + 1
  <2>1. N + k \in 1 .. L + 1 /\ (N + k) - N = k /\ (N + k <= N + 1 <=> k = 1)
    BY <1>3
  <2>2. f[N + 1] = n + g[1]
    BY <1>6, <1>7
  <2> QED
    BY <2>1, <2>2
<1>11. \A k \in 1 .. N + 1 : k \in 1 .. L + 1 /\ at[k] = f[k]
  BY <1>3
<1>12. \A k \in 1 .. L + 1 : k \in 1 .. N \/ \E j \in 1 .. M + 1 : k = N + j
  <2> TAKE k \in 1 .. L + 1
  <2>1. k \notin 1 .. N => k - N \in 1 .. M + 1 /\ k = N + (k - N)
    BY <1>3
  <2> QED
    BY <2>1
<1>13. L \in Nat /\ Len(S) = L /\ at = [k \in 1 .. L + 1 |-> at[k]]
  BY <1>3, <1>5
<1> HIDE DEF at
<1>14. at \in [1 .. L + 1 -> 1 .. Len(s) + 1]
  <2>1. ASSUME NEW k \in 1 .. L + 1 PROVE at[k] \in 1 .. Len(s) + 1
    <3>1. CASE k \in 1 .. N
      BY <1>3, <1>4, <1>8, <1>11, <3>1
    <3>2. ASSUME NEW j \in 1 .. M + 1, k = N + j PROVE at[k] \in 1 .. Len(s) + 1
      <4>1. g[j] \in 1 .. m + 1 /\ at[k] = n + g[j]
        BY <1>7, <1>10, <3>2
      <4> QED
        BY <1>3, <1>4, <4>1
    <3> QED
      BY <1>12, <3>1, <3>2
  <2> HIDE DEF L
  <2> QED
    BY <1>13, <2>1
<1>15. at[1] = 1 /\ at[L + 1] = Len(s) + 1
  <2>1. at[1] = f[1]
    <3>1. 1 \in 1 .. N + 1
      BY <1>3
    <3> QED
      BY <1>11, <3>1
  <2>2. at[N + (M + 1)] = n + g[M + 1]
    <3>1. M + 1 \in 1 .. M + 1
      BY <1>3
    <3> QED
      BY <1>10, <3>1
  <2>3. N + (M + 1) = L + 1
    BY <1>3
  <2> QED
    BY <1>3, <1>4, <1>6, <1>7, <2>1, <2>2, <2>3
<1>16. ASSUME NEW k \in 1 .. L
       PROVE  at[k] <= Len(s) /\ S[k] = Symbol(s, at[k]) /\ at[k + 1] = at[k] + Width(S[k])
  <2>1. CASE k \in 1 .. N
    <3>1. k \in 1 .. N + 1 /\ k + 1 \in 1 .. N + 1
      BY <1>3, <2>1
    <3>2. at[k] = f[k] /\ at[k + 1] = f[k + 1]
      BY <1>11, <3>1
    <3>3. S[k] = p[k] /\ p[k] = Symbol(a, f[k]) /\ f[k + 1] = f[k] + Width(p[k]) /\ f[k] \in 1 .. n
          /\ Symbol(s, f[k]) = Symbol(a, f[k])
      BY <1>5, <1>6, <1>8, <2>1
    <3>4. at[k] <= Len(s)
      BY <1>3, <1>4, <3>2, <3>3
    <3> QED
      BY <3>2, <3>3, <3>4
  <2>2. ASSUME NEW j \in 1 .. M, k = N + j
        PROVE  at[k] <= Len(s) /\ S[k] = Symbol(s, at[k]) /\ at[k + 1] = at[k] + Width(S[k])
    <3>1. j \in 1 .. M + 1 /\ j + 1 \in 1 .. M + 1 /\ N + (j + 1) = k + 1
      BY <1>3, <2>2
    <3>2. at[k] = n + g[j] /\ at[k + 1] = n + g[j + 1]
      <4>1. at[N + j] = n + g[j] /\ at[N + (j + 1)] = n + g[j + 1]
        BY <1>10, <3>1
      <4> QED
        BY <2>2, <3>1, <4>1
    <3>3. S[k] = q[j] /\ q[j] = Symbol(b, g[j]) /\ g[j + 1] = g[j] + Width(q[j]) /\ g[j] \in 1 .. m
          /\ Symbol(s, n + g[j]) = Symbol(b, g[j])
      BY <1>5, <1>7, <1>9, <2>2
    <3>4. at[k] <= Len(s)
      BY <1>3, <1>4, <3>2, <3>3
    <3>5. at[k + 1] = at[k] + Width(S[k])
      <4>1. Width(q[j]) \in Int
        <5>1. Width(q[j]) \in 1 .. 3
          BY <1>2, SymbolsAt DEF M
        <5> QED
          BY <5>1
      <4> QED
        BY <1>3, <3>2, <3>3, <4>1
    <3> QED
      BY <3>2, <3>3, <3>4, <3>5
  <2>3. k \in 1 .. N \/ (k - N \in 1 .. M /\ k = N + (k - N))
    BY <1>3
  <2> QED
    BY <2>1, <2>2, <2>3
<1>17. Reads(s, S, at)
  <2> HIDE DEF L
  <2> QED
    BY <1>4, <1>5, <1>13, <1>14, <1>15, <1>16 DEF Reads, ReadsFrom
<1> QED
  BY <1>17 DEF Reading, s, S

(* A text that is one symbol.                                              *)
LEMMA OneSymbol ==
  ASSUME NEW s \in Seq(STRING), s # <<>>, NEW y, y = Symbol(s, 1), Width(y) = Len(s)
  PROVE  Reading(s, <<y>>)
<1> DEFINE S == <<y>>
           n == Len(s)
           at == [k \in 1 .. 2 |-> IF k = 1 THEN 1 ELSE n + 1]
<1>1. n \in Nat /\ n > 0 /\ 1 \in 1 .. n
  OBVIOUS
<1>2. y \in SymbolType
  BY <1>1, SymbolCases
<1>3. S \in Seq(SymbolType) /\ Len(S) = 1 /\ S[1] = y
  <2>1. S \in Seq(SymbolType)
    BY <1>2, OneOrTwo, Zenon
  <2>2. Len(S) = 1 /\ S[1] = y
    BY OneLength
  <2> QED
    BY <2>1, <2>2
<1>4. at \in [1 .. 2 -> 1 .. n + 1] /\ at[1] = 1 /\ at[2] = n + 1
  BY <1>1
<1> HIDE DEF S, at, n
<1>5. Reads(s, S, at)
  <2>1. 1 + 1 = 2 /\ Len(S) + 1 = 2 /\ 1 .. Len(S) = {1}
    BY <1>3
  <2>2. at[1 + 1] = at[1] + Width(S[1])
    BY <1>1, <1>3, <1>4, <2>1 DEF n
  <2>3. at[1] <= Len(s) /\ S[1] = Symbol(s, at[1])
    BY <1>1, <1>3, <1>4 DEF n
  <2> QED
    BY <1>1, <1>3, <1>4, <2>1, <2>2, <2>3 DEF Reads, ReadsFrom, n
<1> QED
  BY <1>5 DEF Reading, S

(* Nothing is read of nothing.                                             *)
LEMMA NothingRead == Reading(<<>>, <<>>)
<1> DEFINE at == [k \in 1 .. 1 |-> 1]
<1>1. Len(<<>>) = 0 /\ <<>> \in Seq(STRING) /\ <<>> \in Seq(SymbolType) /\ 0 + 1 = 1
  OBVIOUS
<1>2. at \in [1 .. 1 -> 1 .. 1] /\ at[1] = 1
  OBVIOUS
<1> HIDE DEF at
<1>3. Reads(<<>>, <<>>, at)
  BY <1>1, <1>2 DEF Reads, ReadsFrom
<1> QED
  BY <1>3 DEF Reading

(* What is written for a single symbol is read as that symbol.             *)
LEMMA PlainRead ==
  ASSUME NEW x \in STRING, x # "\\"
  PROVE  <<x>> \in Seq(STRING) /\ Reading(<<x>>, <<Plain(<<x>>)>>)
<1> DEFINE s == <<x>>
           y == Plain(<<x>>)
<1>1. s \in Seq(STRING) /\ s # <<>> /\ Len(s) = 1 /\ s[1] = x
  BY OneOrTwo, OneLength, Zenon
<1>2. Width(y) = 1
  BY Widths
<1> HIDE DEF s
<1>3. ~IsArrow(s, 1)
  BY <1>1 DEF IsArrow
<1>4. PlainAt(s, 1, y)
  BY <1>1, <1>2, <1>3 DEF PlainAt
<1> HIDE DEF y
<1>5. y = Symbol(s, 1)
  <2>1. 1 \in 1 .. Len(s)
    BY <1>1
  <2> QED
    BY <1>1, <1>4, <2>1, SymbolIs
<1>6. Reading(s, <<y>>)
  BY <1>1, <1>2, <1>5, OneSymbol
<1> QED
  BY <1>1, <1>6 DEF s, y

(* A character behind a backslash is read as that character, escaped.      *)
LEMMA EscapeRead ==
  ASSUME NEW x \in STRING
  PROVE  <<"\\", x>> \in Seq(STRING) /\ Reading(<<"\\", x>>, <<Escape(<<x>>)>>)
<1> DEFINE s == <<"\\", x>>
           y == Escape(<<x>>)
<1>1. s \in Seq(STRING) /\ s # <<>>
  <2>1. "\\" \in STRING
    BY MarksAssumption
  <2> QED
    BY <2>1, OneOrTwo, Zenon
<1>2. Len(s) = 2 /\ s[1] = "\\" /\ s[2] = x
  OBVIOUS
<1>3. Width(y) = 2
  BY Widths
<1> HIDE DEF s
<1>4. ~IsArrow(s, 1 + 1)
  BY <1>2 DEF IsArrow
<1>5. EscapedAt(s, 1, y)
  BY <1>2, <1>3, <1>4 DEF EscapedAt
<1> HIDE DEF y
<1>6. y = Symbol(s, 1)
  <2>1. 1 \in 1 .. Len(s)
    BY <1>2
  <2> QED
    BY <1>1, <1>5, <2>1, SymbolIs
<1>7. Reading(s, <<y>>)
  BY <1>1, <1>2, <1>3, <1>6, OneSymbol
<1> QED
  BY <1>1, <1>7 DEF s, y

(* An arrow, and an arrow behind a backslash.                              *)
LEMMA ArrowsRead ==
  /\ Arrow \in Seq(STRING) /\ Reading(Arrow, <<Plain(Arrow)>>)
  /\ <<"\\", "=">> \o <<">">> \in Seq(STRING) /\ Reading(<<"\\", "=">> \o <<">">>, <<Escape(Arrow)>>)
<1>1. "\\" \in STRING /\ "=" \in STRING /\ ">" \in STRING
  BY MarksAssumption
<1>2. Arrow \in Seq(STRING) /\ Arrow # <<>>
  <2>1. <<"=", ">">> \in Seq(STRING) /\ <<"=", ">">> # <<>>
    BY <1>1, OneOrTwo, Zenon
  <2> QED
    BY <2>1 DEF Arrow
<1>3. Reading(Arrow, <<Plain(Arrow)>>)
  <2> DEFINE y == Plain(Arrow)
  <2>1. PlainArrowAt(Arrow, 1, y)
    <3>1. 1 + 1 = 2 /\ 1 + 1 <= Len(Arrow)
      BY ArrowLength
    <3> QED
      BY <3>1, ArrowLength, Widths DEF PlainArrowAt
  <2>2. Width(y) = Len(Arrow)
    BY ArrowLength, Widths
  <2> HIDE DEF y
  <2>3. y = Symbol(Arrow, 1)
    <3>1. 1 \in 1 .. Len(Arrow)
      BY ArrowLength
    <3> QED
      BY <1>2, <2>1, <3>1, SymbolIs
  <2>4. Reading(Arrow, <<y>>)
    BY <1>2, <2>2, <2>3, OneSymbol
  <2> QED
    BY <2>4 DEF y
<1>4. <<"\\", "=">> \o <<">">> \in Seq(STRING) /\ Reading(<<"\\", "=">> \o <<">">>, <<Escape(Arrow)>>)
  <2> DEFINE u == <<"\\", "=">>
             v == <<">">>
             s == u \o v
             y == Escape(Arrow)
  <2>1. u \in Seq(STRING) /\ v \in Seq(STRING)
    BY <1>1, OneOrTwo, Zenon
  <2>2. Len(u) = 2 /\ u[1] = "\\" /\ u[2] = "=" /\ Len(v) = 1 /\ v[1] = ">"
    OBVIOUS
  <2> HIDE DEF u, v
  <2>3. s \in Seq(STRING) /\ s # <<>>
    <3>1. s \in Seq(STRING)
      BY <2>1, ConcatIs, Zenon
    <3>2. u # <<>>
      BY <2>2
    <3> QED
      BY <2>1, <3>1, <3>2, FirstOfConcat, Zenon
  <2>4. Len(s) = 3 /\ s[1] = "\\" /\ s[2] = "=" /\ s[3] = ">"
    <3>1. /\ Len(s) = Len(u) + Len(v) /\ \A i \in 1 .. Len(u) : s[i] = u[i]
          /\ \A i \in 1 .. Len(v) : s[Len(u) + i] = v[i]
      BY <2>1, ConcatIs
    <3>2. 1 \in 1 .. Len(u) /\ 2 \in 1 .. Len(u) /\ 1 \in 1 .. Len(v) /\ Len(u) + 1 = 3
      BY <2>2
    <3>3. s[Len(u) + 1] = v[1]
      BY <3>1, <3>2
    <3> HIDE DEF s
    <3> QED
      BY <2>2, <3>1, <3>2, <3>3
  <2> HIDE DEF s
  <2>5. EscapedArrowAt(s, 1, y)
    <3>1. 1 + 1 = 2 /\ 1 + 2 = 3 /\ 1 + 2 <= Len(s)
      BY <2>4
    <3> QED
      BY <2>4, <3>1, Widths DEF EscapedArrowAt
  <2>6. Width(y) = Len(s)
    BY <2>4, Widths
  <2> HIDE DEF y
  <2>7. y = Symbol(s, 1)
    <3>1. 1 \in 1 .. Len(s)
      BY <2>4
    <3> QED
      BY <2>3, <2>5, <3>1, SymbolIs
  <2>8. Reading(s, <<y>>)
    BY <2>3, <2>6, <2>7, OneSymbol
  <2> QED
    BY <2>3, <2>8 DEF s, u, v, y
<1> QED
  BY <1>2, <1>3, <1>4

(* The first symbol of a text that begins with no escape and no arrow.     *)
LEMMA ReadBegins ==
  ASSUME NEW t, NEW q, Reading(t, q), t # <<>>, t[1] \notin {"\\", "="}
  PROVE  q # <<>> /\ q[1] = Plain(<<t[1]>>)
<1>1. PICK at : Reads(t, q, at)
  BY DEF Reading
<1>2. q # <<>> /\ q \in Seq(SymbolType) /\ t \in Seq(STRING)
  BY EmptyReads
<1>3. 1 \in 1 .. Len(q)
  BY <1>2
<1>4. at[1] = 1
  BY <1>1 DEF Reads, ReadsFrom
<1>5. \/ PlainArrowAt(t, 1, q[1]) \/ PlainAt(t, 1, q[1])
      \/ EscapedArrowAt(t, 1, q[1]) \/ DanglingAt(t, 1, q[1]) \/ EscapedAt(t, 1, q[1])
  <2>1. \/ PlainArrowAt(t, at[1], q[1]) \/ PlainAt(t, at[1], q[1])
        \/ EscapedArrowAt(t, at[1], q[1]) \/ DanglingAt(t, at[1], q[1]) \/ EscapedAt(t, at[1], q[1])
    BY <1>1, <1>3, SymbolsAt
  <2> QED
    BY <1>4, <2>1
<1>6. t[1] # "\\" /\ t[1] # "="
  OBVIOUS
<1>7. q[1] = Plain(<<t[1]>>)
  BY <1>5, <1>6 DEF PlainArrowAt, PlainAt, EscapedArrowAt, DanglingAt, EscapedAt
<1> QED
  BY <1>2, <1>7

(* Two elements, one after the other.                                      *)
LEMMA TwoElements ==
  ASSUME NEW S, NEW x \in S, NEW y \in S
  PROVE  <<x>> \o <<y>> = <<x, y>>
<1> DEFINE a == <<x>>
           b == <<y>>
           p == <<x, y>>
           q == a \o b
<1>1. a \in Seq(S) /\ b \in Seq(S) /\ p \in Seq(S)
  BY OneOrTwo
<1>2. Len(a) = 1 /\ a[1] = x /\ Len(b) = 1 /\ b[1] = y /\ Len(p) = 2 /\ p[1] = x /\ p[2] = y
  OBVIOUS
<1> HIDE DEF a, b, p
<1>3. /\ q \in Seq(S) /\ Len(q) = Len(a) + Len(b) /\ \A i \in 1 .. Len(a) : q[i] = a[i]
      /\ \A i \in 1 .. Len(b) : q[Len(a) + i] = b[i]
  BY <1>1, ConcatIs
<1> HIDE DEF q
<1>4. q[1] = x /\ q[2] = y /\ Len(q) = 2
  <2>1. 1 \in 1 .. Len(a) /\ 1 \in 1 .. Len(b) /\ Len(a) + 1 = 2
    BY <1>2
  <2>2. q[Len(a) + 1] = b[1]
    BY <1>3, <2>1
  <2> QED
    BY <1>2, <1>3, <2>1, <2>2
<1>5. q = p
  <2>1. \A i \in 1 .. Len(q) : q[i] = p[i]
    BY <1>2, <1>4
  <2> QED
    BY <1>1, <1>2, <1>3, <1>4, <2>1, SeqEqual
<1> QED
  BY <1>5 DEF p, q, a, b

(* The symbol that is written for another one, which need not have been    *)
(* escaped, and those that can be written.                                 *)
Special(chars, special) == chars = Arrow \/ \E x \in special : chars = <<x>>
Rewritten(y, special) == IF Special(y.chars, special) THEN Escape(y.chars) ELSE y
CanWrite(y, special) ==
  /\ y \in SymbolType
  /\ y.chars = Arrow \/ \E x \in STRING : y.chars = <<x>>
  /\ y.escaped => Special(y.chars, special)
  /\ y = Plain(<<"\\">>) => "\\" \in special

(* A symbol before a text.                                                 *)
LEMMA SymbolThen ==
  ASSUME NEW s \in Seq(STRING), NEW y, Reading(s, <<y>>), y # Escape(<<>>),
         NEW t, NEW q, Reading(t, q),
         ~(s # <<>> /\ t # <<>> /\ s[Len(s)] = "=" /\ t[1] = ">")
  PROVE  Reading(s \o t, <<y>> \o q)
<1> DEFINE p == <<y>>
<1>1. p # <<>> => p[Len(p)] # Escape(<<>>)
  BY OneLength
<1> HIDE DEF p
<1>2. Reading(s, p)
  BY DEF p
<1>3. Reading(s \o t, p \o q)
  BY <1>1, <1>2, ReadingJoined
<1> QED
  BY <1>3 DEF p

(* The characters of a symbol, as flush adds them to the tokens, are       *)
(* written as its rewritten form.                                          *)
LEMMA SymbolWritten ==
  ASSUME NEW c \in Nat, NEW rest \in Flushed(c), NEW special, "=" \notin special, ">" \notin special,
         NEW numbered, NEW y, CanWrite(y, special), NEW q,
         Reading(WrittenTokens(rest, special, numbered), q),
         ~(y = Plain(<<"=">>) /\ q # <<>> /\ q[1] = Plain(<<">">>))
  PROVE  Reading(WrittenTokens(Join(Literal(y.chars), rest), special, numbered),
                 <<Rewritten(y, special)>> \o q)
<1> DEFINE WT(tokens) == WrittenTokens(tokens, special, numbered)
           t == WT(rest)
<1>1. t \in Seq(STRING) /\ q \in Seq(SymbolType) /\ Reading(t, q)
  BY EmptyReads, Zenon
<1>2. ASSUME NEW x \in STRING, NEW r \in Flushed(c)
      PROVE  WT(Join(Literal(<<x>>), r)) = CharBefore(x, WT(r), special) \o WT(r)
  <2>1. WT(Join(Literal(<<x>>), r)) = Before(CharBefore(x, WT(r), special), WT(r))
    BY CharJoined
  <2> QED
    BY <2>1 DEF Before
<1> HIDE DEF WT, t
<1>3. "\\" \in STRING /\ "=" \in STRING /\ ">" \in STRING
  BY MarksAssumption
<1>4. \A chars : Escape(chars) # Escape(<<>>) <=> chars # <<>>
  BY DEF Escape
<1>5. CASE y.chars = Arrow
  <2> DEFINE r == Join(Literal(<<">">>), rest)
             u == <<"\\", "=">>
             v == <<">">>
  <2>1. r \in Flushed(c)
    <3>1. Literal(<<">">>) \in TokensUpTo(c)
      BY <1>3, LiteralOfOne
    <3> QED
      BY <3>1, JoinFlushes
  <2>2. u \in Seq(STRING) /\ v \in Seq(STRING) /\ <<"=">> \in Seq(STRING) /\ v # <<>>
    BY <1>3, OneOrTwo, Zenon
  <2>3. Join(Literal(Arrow), rest) = Join(Literal(<<"=">>), r)
    <3>1. <<"=">> \o <<">">> = Arrow
      BY <1>3, TwoElements, Zenon DEF Arrow
    <3>2. Join(Literal(<<"=">>), Join(Literal(<<">">>), rest)) = Join(Literal(<<"=">> \o <<">">>), rest)
      BY <2>2, JoinTwo
    <3> QED
      BY <3>1, <3>2
  <2>4. WT(r) = v \o t
    <3>1. WT(r) = CharBefore(">", t, special) \o t
      BY <1>2, <1>3 DEF t
    <3>2. CharBefore(">", t, special) = v
      BY DEF CharBefore
    <3> QED
      BY <3>1, <3>2
  <2>5. v \o t # <<>> /\ (v \o t)[1] = ">" /\ v \o t \in Seq(STRING)
    <3>1. v[1] = ">"
      OBVIOUS
    <3> HIDE DEF v
    <3> QED
      BY <1>1, <2>2, <3>1, FirstOfConcat, Zenon
  <2>6. WT(Join(Literal(Arrow), rest)) = u \o (v \o t)
    <3>1. WT(Join(Literal(<<"=">>), r)) = CharBefore("=", WT(r), special) \o WT(r)
      <4> HIDE DEF r
      <4> QED
        BY <1>2, <1>3, <2>1
    <3>2. CharBefore("=", WT(r), special) = u
      BY <2>4, <2>5 DEF CharBefore
    <3> QED
      BY <2>3, <2>4, <3>1, <3>2
  <2>7. Reading(u \o v, <<Escape(Arrow)>>) /\ u \o v \in Seq(STRING)
    BY ArrowsRead
  <2>8. (u \o v)[Len(u \o v)] = ">"
    <3>1. Len(u) = 2 /\ Len(v) = 1 /\ v[1] = ">"
      OBVIOUS
    <3> HIDE DEF u, v
    <3>2. Len(u \o v) = Len(u) + Len(v) /\ \A i \in 1 .. Len(v) : (u \o v)[Len(u) + i] = v[i]
      BY <2>2, ConcatIs
    <3> QED
      BY <3>1, <3>2
  <2>9. Escape(Arrow) # Escape(<<>>)
    <3>1. Arrow # <<>>
      BY DEF Arrow
    <3> QED
      BY <1>4, <3>1
  <2> HIDE DEF u, v, r
  <2>10. Reading((u \o v) \o t, <<Escape(Arrow)>> \o q)
    <3> DEFINE s == u \o v
    <3>1. s \in Seq(STRING) /\ Reading(s, <<Escape(Arrow)>>) /\ s[Len(s)] = ">"
      BY <2>7, <2>8
    <3> HIDE DEF s
    <3>2. Reading(s \o t, <<Escape(Arrow)>> \o q)
      BY <1>1, <2>9, <3>1, SymbolThen
    <3> QED
      BY <3>2 DEF s
  <2>11. (u \o v) \o t = u \o (v \o t)
    BY <1>1, <2>2, ConcatAssociative
  <2>12. Rewritten(y, special) = Escape(Arrow)
    BY <1>5 DEF Rewritten, Special
  <2> QED
    BY <1>5, <2>6, <2>10, <2>11, <2>12 DEF WT
<1>6. ASSUME NEW x \in STRING, y.chars = <<x>>, x \in special
      PROVE  Reading(WT(Join(Literal(y.chars), rest)), <<Rewritten(y, special)>> \o q)
  <2> DEFINE s == <<"\\", x>>
  <2>1. WT(Join(Literal(<<x>>), rest)) = s \o t
    <3>1. CharBefore(x, t, special) = s
      BY <1>6 DEF CharBefore
    <3> QED
      BY <1>2, <3>1 DEF t
  <2>2. s \in Seq(STRING) /\ Reading(s, <<Escape(<<x>>)>>)
    BY EscapeRead
  <2>3. s[Len(s)] = x /\ x # "="
    BY <1>6
  <2>4. Escape(<<x>>) # Escape(<<>>)
    <3>1. <<x>> # <<>>
      OBVIOUS
    <3> QED
      BY <1>4, <3>1
  <2> HIDE DEF s
  <2>5. Reading(s \o t, <<Escape(<<x>>)>> \o q)
    BY <1>1, <2>2, <2>3, <2>4, SymbolThen
  <2>6. Rewritten(y, special) = Escape(<<x>>)
    BY <1>6 DEF Rewritten, Special
  <2> QED
    BY <1>6, <2>1, <2>5, <2>6
<1>7. ASSUME NEW x \in STRING, y.chars = <<x>>, x \notin special
      PROVE  Reading(WT(Join(Literal(y.chars), rest)), <<Rewritten(y, special)>> \o q)
  <2> DEFINE s == <<x>>
  <2>1. ~Special(y.chars, special)
    <3>1. <<x>> # Arrow
      <4>1. Len(<<x>>) = 1
        OBVIOUS
      <4> QED
        BY <4>1, ArrowLength
    <3>2. \A w \in special : <<x>> # <<w>>
      BY <1>7, SameElement
    <3> QED
      BY <1>7, <3>1, <3>2 DEF Special
  <2>2. y = Plain(<<x>>) /\ x # "\\"
    <3>1. y \in SymbolType /\ ~y.escaped
      BY <2>1 DEF CanWrite
    <3>2. y = Plain(<<x>>)
      BY <1>7, <3>1 DEF SymbolType, Plain
    <3> QED
      BY <1>7, <3>2 DEF CanWrite
  <2>3. ~(x = "=" /\ t # <<>> /\ t[1] = ">")
    <3>1. SUFFICES ASSUME x = "=", t # <<>>, t[1] = ">" PROVE FALSE
      OBVIOUS
    <3>2. t[1] \notin {"\\", "="}
      BY <3>1
    <3>3. q # <<>> /\ q[1] = Plain(<<t[1]>>)
      BY <1>1, <3>1, <3>2, ReadBegins
    <3> QED
      BY <2>2, <3>1, <3>3
  <2>4. WT(Join(Literal(<<x>>), rest)) = s \o t
    <3>1. CharBefore(x, t, special) = s
      BY <1>7, <2>3 DEF CharBefore
    <3> QED
      BY <1>2, <3>1 DEF t
  <2>5. s \in Seq(STRING) /\ Reading(s, <<y>>)
    BY <2>2, PlainRead
  <2>6. s[Len(s)] = x
    OBVIOUS
  <2>7. y # Escape(<<>>)
    BY <2>2 DEF Plain, Escape
  <2> HIDE DEF s
  <2>8. Reading(s \o t, <<y>> \o q)
    BY <1>1, <2>3, <2>5, <2>6, <2>7, SymbolThen
  <2>9. Rewritten(y, special) = y
    BY <2>1 DEF Rewritten
  <2> QED
    BY <1>7, <2>4, <2>8, <2>9
<1>8. y.chars = Arrow \/ \E x \in STRING : y.chars = <<x>>
  BY DEF CanWrite
<1> QED
  BY <1>5, <1>6, <1>7, <1>8 DEF WT

(* What is written with a backslash in a pattern, and the symbols of a     *)
(* pattern that is written so.                                             *)
PatternMarks == {"*", ";", "$", "\\", "#", "!"}
PatternRewritten(symbols) ==
  [k \in DOMAIN symbols |->
     IF symbols[k] = Plain(<<"*">>) THEN symbols[k] ELSE Rewritten(symbols[k], PatternMarks)]

(* No "=" is read before a ">": the two are an arrow.                      *)
LEMMA NoArrowAcross ==
  ASSUME NEW s, NEW symbols, NEW at, Reads(s, symbols, at), NEW k \in 1 .. Len(symbols),
         k + 1 <= Len(symbols), symbols[k] = Plain(<<"=">>), symbols[k + 1] = Plain(<<">">>)
  PROVE  FALSE
<1>1. Len(symbols) \in Nat /\ k + 1 \in 1 .. Len(symbols)
  BY SymbolsAt
<1>2. \A a, b : /\ Plain(a) # Escape(b) /\ (Plain(a) = Plain(b) <=> a = b)
  BY DEF Plain, Escape
<1>3. \A x : <<x>> # Arrow
  <2> TAKE x
  <2>1. Len(<<x>>) = 1
    OBVIOUS
  <2> QED
    BY <2>1, ArrowLength
<1>4. ASSUME NEW j \in 1 .. Len(symbols), NEW x, symbols[j] = Plain(<<x>>)
      PROVE  PlainAt(s, at[j], symbols[j]) /\ s[at[j]] = x
  <2>1. \/ PlainArrowAt(s, at[j], symbols[j]) \/ PlainAt(s, at[j], symbols[j])
        \/ EscapedArrowAt(s, at[j], symbols[j]) \/ DanglingAt(s, at[j], symbols[j])
        \/ EscapedAt(s, at[j], symbols[j])
    BY SymbolsAt
  <2>2. ~PlainArrowAt(s, at[j], symbols[j])
    BY <1>2, <1>3, <1>4 DEF PlainArrowAt
  <2>3. ~EscapedArrowAt(s, at[j], symbols[j]) /\ ~DanglingAt(s, at[j], symbols[j]) /\ ~EscapedAt(s, at[j], symbols[j])
    BY <1>2, <1>4 DEF EscapedArrowAt, DanglingAt, EscapedAt
  <2>4. PlainAt(s, at[j], symbols[j])
    BY <2>1, <2>2, <2>3
  <2>5. <<s[at[j]]>> = <<x>>
    BY <1>2, <1>4, <2>4 DEF PlainAt
  <2> QED
    BY <2>4, <2>5, SameElement
<1>5. PlainAt(s, at[k], symbols[k]) /\ s[at[k]] = "="
  BY <1>4
<1>6. s[at[k + 1]] = ">"
  BY <1>1, <1>4
<1>7. at[k + 1] = at[k] + 1 /\ at[k + 1] \in 1 .. Len(s)
  <2>1. at[k + 1] = at[k] + Width(symbols[k]) /\ at[k + 1] \in 1 .. Len(s)
    BY <1>1, SymbolsAt
  <2> QED
    BY <1>5, <2>1 DEF PlainAt
<1>8. IsArrow(s, at[k])
  BY <1>5, <1>6, <1>7 DEF IsArrow
<1> QED
  BY <1>5, <1>8 DEF PlainAt

(* The characters of a symbol are an arrow or a single one, unless an      *)
(* escape is left dangling.                                                *)
LEMMA CharsOfSymbol ==
  ASSUME NEW s, NEW symbols, NEW at, Reads(s, symbols, at), NEW k \in 1 .. Len(symbols),
         symbols[k] # Escape(<<>>)
  PROVE  /\ symbols[k] \in SymbolType /\ symbols[k].chars \in Seq(STRING) /\ symbols[k].chars # <<>>
         /\ symbols[k].chars = Arrow \/ \E x \in STRING : symbols[k].chars = <<x>>
         /\ symbols[k] # Plain(<<"\\">>)
<1> DEFINE i == at[k]
           y == symbols[k]
<1>1. /\ s \in Seq(STRING) /\ i \in 1 .. Len(s) /\ y \in SymbolType /\ Len(s) \in Nat
      /\ \/ PlainArrowAt(s, i, y) \/ PlainAt(s, i, y)
         \/ EscapedArrowAt(s, i, y) \/ DanglingAt(s, i, y) \/ EscapedAt(s, i, y)
  BY SymbolsAt
<1>2. \A a, b : /\ Plain(a).chars = a /\ Escape(a).chars = a /\ Plain(a) # Escape(b)
                /\ (Plain(a) = Plain(b) <=> a = b)
  BY DEF Plain, Escape
<1>3. s[i] \in STRING /\ (i + 1 <= Len(s) => s[i + 1] \in STRING)
  <2> DEFINE T == STRING
  <2>1. s \in Seq(T)
    BY <1>1
  <2> HIDE DEF T, i
  <2>2. s[i] \in T /\ (i + 1 <= Len(s) => s[i + 1] \in T)
    BY <1>1, <2>1
  <2> QED
    BY <2>2 DEF T
<1>4. \A x : <<x>> # Arrow
  <2> TAKE x
  <2>1. Len(<<x>>) = 1
    OBVIOUS
  <2> QED
    BY <2>1, ArrowLength
<1> HIDE DEF i, y
<1>5. y # Escape(<<>>)
  BY DEF y
<1>6. y.chars = Arrow \/ \E x \in STRING : y.chars = <<x>>
  <2>1. CASE PlainArrowAt(s, i, y) \/ EscapedArrowAt(s, i, y)
    BY <1>2, <2>1 DEF PlainArrowAt, EscapedArrowAt
  <2>2. CASE PlainAt(s, i, y)
    BY <1>2, <1>3, <2>2 DEF PlainAt
  <2>3. CASE EscapedAt(s, i, y)
    BY <1>2, <1>3, <2>3 DEF EscapedAt
  <2>4. ~DanglingAt(s, i, y)
    BY <1>5 DEF DanglingAt
  <2> QED
    BY <1>1, <2>1, <2>2, <2>3, <2>4
<1>7. y # Plain(<<"\\">>)
  <2>1. ~(PlainArrowAt(s, i, y) /\ y = Plain(<<"\\">>))
    BY <1>2, <1>4 DEF PlainArrowAt
  <2>2. ~(PlainAt(s, i, y) /\ y = Plain(<<"\\">>))
    BY <1>2, SameElement DEF PlainAt
  <2>3. EscapedArrowAt(s, i, y) \/ DanglingAt(s, i, y) \/ EscapedAt(s, i, y) => \E b : y = Escape(b)
    BY DEF EscapedArrowAt, DanglingAt, EscapedAt
  <2> QED
    BY <1>1, <1>2, <2>1, <2>2, <2>3
<1>8. y.chars \in Seq(STRING)
  BY <1>1 DEF SymbolType
<1>9. y.chars # <<>>
  <2>1. Arrow # <<>> /\ \A x : <<x>> # <<>>
    BY DEF Arrow
  <2> QED
    BY <1>6, <2>1
<1> QED
  BY <1>1, <1>6, <1>7, <1>8, <1>9 DEF y

(* What remains from a place on begins with the element there.             *)
LEMMA FromPlace ==
  ASSUME NEW T, NEW s \in Seq(T), NEW k \in 1 .. Len(s)
  PROVE  /\ FromTo(s, k, Len(s) + 1) = <<s[k]>> \o FromTo(s, k + 1, Len(s) + 1)
         /\ FromTo(s, k, Len(s) + 1) # <<>> /\ FromTo(s, k, Len(s) + 1)[1] = s[k]
<1> DEFINE n == Len(s)
           r == FromTo(s, k + 1, n + 1)
<1>1. n \in Nat /\ k \in 1 .. n /\ n \in k .. n /\ (n + 1) - 1 = n /\ k + 1 \in 1 .. n + 1 /\ n + 1 \in k + 1 .. n + 1
  OBVIOUS
<1>2. SubSeq(s, k, n) = <<s[k]>> \o SubSeq(s, k + 1, n)
  BY <1>1, SubSeqRecursiveFirst
<1>3. FromTo(s, k, n + 1) = SubSeq(s, k, n) /\ r = SubSeq(s, k + 1, n)
  BY <1>1 DEF FromTo
<1>4. r \in Seq(T)
  <2> DEFINE lo == k + 1
             hi == n + 1
  <2>1. lo \in 1 .. Len(s) + 1 /\ hi \in lo .. Len(s) + 1
    BY <1>1
  <2> HIDE DEF lo, hi
  <2>2. FromTo(s, lo, hi) \in Seq(T)
    BY <2>1, FromToIs
  <2> QED
    BY <2>2 DEF lo, hi
<1>5. s[k] \in T
  BY <1>1
<1> HIDE DEF r, n
<1>6. <<s[k]>> \o r # <<>> /\ (<<s[k]>> \o r)[1] = s[k]
  BY <1>4, <1>5, FirstThen
<1> QED
  BY <1>2, <1>3, <1>6 DEF r, n

(* The whole of a sequence, and nothing of it.                             *)
LEMMA WholeAndNothing ==
  ASSUME NEW T, NEW s \in Seq(T)
  PROVE  FromTo(s, 1, Len(s) + 1) = s /\ FromTo(s, Len(s) + 1, Len(s) + 1) = <<>>
<1> DEFINE n == Len(s)
<1>1. n \in Nat /\ (n + 1) - 1 = n /\ n < n + 1 /\ n \in Int /\ n + 1 \in Int
  OBVIOUS
<1>2. SubSeq(s, 1, n) = s
  BY SubSeqFull
<1>3. SubSeq(s, n + 1, n) = <<>>
  BY <1>1, SubSeqEmpty
<1> QED
  BY <1>1, <1>2, <1>3 DEF FromTo

(* flush leaves a capture apart, and it is written before the others.      *)
LEMMA CaptureWritten ==
  ASSUME NEW c \in Nat, NEW n \in 1 .. c, NEW rest \in Flushed(c), NEW special, NEW numbered
  PROVE  WrittenTokens(Join(Capture(n), rest), special, numbered)
           = Before(TokenText(Capture(n), special, numbered), WrittenTokens(rest, special, numbered))
<1>1. Capture(n) \in TokensUpTo(c) /\ rest \in Seq(TokensUpTo(c))
  BY CaptureIsToken DEF Flushed
<1>2. Join(Capture(n), rest) = <<Capture(n)>> \o rest
  BY DEF Join, Capture
<1>3. WrittenTokens(<<Capture(n)>> \o rest, special, numbered)
        = Before(TokenText(Capture(n), special, numbered), WrittenTokens(rest, special, numbered))
  BY <1>1, TokensWrittenFirst
<1> QED
  BY <1>2, <1>3

(* The symbols that a pattern was read of can be written, and those that   *)
(* are written for them make the same pattern.                             *)
LEMMA PatternSymbols ==
  ASSUME NEW s, NEW symbols, NEW at, Reads(s, symbols, at), NEW key \in Pattern(symbols)
  PROVE  LET tokens == [k \in DOMAIN symbols |-> PatternToken(symbols[k])]
         IN /\ tokens \in Seq(TokensUpTo(1)) /\ Len(tokens) = Len(symbols) /\ key = Joined(tokens, {})
            /\ PatternRewritten(symbols) \in Seq(SymbolType)
            /\ Len(PatternRewritten(symbols)) = Len(symbols)
            /\ \A k \in 1 .. Len(symbols) :
                 /\ ~BadInPattern(symbols[k]) /\ CanWrite(symbols[k], PatternMarks)
                 /\ symbols[k].chars # <<>>
<1> DEFINE tokens == [k \in DOMAIN symbols |-> PatternToken(symbols[k])]
           c == PatternRewritten(symbols)
<1>1. s \in Seq(STRING) /\ symbols \in Seq(SymbolType)
  BY DEF Reads, ReadsFrom
<1>2. DOMAIN symbols = 1 .. Len(symbols) /\ Len(symbols) \in Nat
  BY <1>1
<1>3. (\A k \in DOMAIN symbols : ~BadInPattern(symbols[k])) /\ key = Joined(tokens, {})
  BY DEF Pattern, BadInPattern, PatternEscapes, PatternToken
<1>4. ASSUME NEW k \in 1 .. Len(symbols)
      PROVE  /\ ~BadInPattern(symbols[k]) /\ CanWrite(symbols[k], PatternMarks) /\ symbols[k].chars # <<>>
             /\ tokens[k] \in TokensUpTo(1) /\ c[k] \in SymbolType
  <2> DEFINE y == symbols[k]
  <2>1. ~BadInPattern(y)
    BY <1>2, <1>3
  <2>2. y # Escape(<<>>)
    <3>1. <<>> \notin PatternEscapes
      <4>1. Arrow # <<>> /\ \A x : <<x>> # <<>>
        BY DEF Arrow
      <4> QED
        BY <4>1 DEF PatternEscapes
    <3>2. BadInPattern(Escape(<<>>))
      BY <3>1 DEF BadInPattern, Escape
    <3> QED
      BY <2>1, <3>2
  <2>3. /\ y \in SymbolType /\ y.chars \in Seq(STRING) /\ y.chars # <<>>
        /\ y.chars = Arrow \/ \E x \in STRING : y.chars = <<x>>
        /\ y # Plain(<<"\\">>)
    BY <2>2, CharsOfSymbol
  <2>4. y.escaped => Special(y.chars, PatternMarks)
    BY <2>1 DEF BadInPattern, PatternEscapes, Special, PatternMarks
  <2>5. CanWrite(y, PatternMarks)
    <3> HIDE DEF y
    <3> QED
      BY <2>3, <2>4 DEF CanWrite
  <2>6. tokens[k] \in TokensUpTo(1)
    <3>1. tokens[k] = PatternToken(y)
      BY <1>2
    <3> HIDE DEF y
    <3>2. Capture(1) \in TokensUpTo(1)
      BY CaptureIsToken
    <3>3. Literal(y.chars) \in TokensUpTo(1)
      BY <2>3, LiteralIsToken
    <3> QED
      BY <3>1, <3>2, <3>3 DEF PatternToken
  <2>7. c[k] \in SymbolType
    <3>1. c[k] = IF y = Plain(<<"*">>) THEN y ELSE Rewritten(y, PatternMarks)
      BY <1>2 DEF PatternRewritten
    <3> HIDE DEF y
    <3>2. Escape(y.chars) \in SymbolType
      BY <2>3 DEF Escape, SymbolType
    <3> QED
      BY <2>3, <3>1, <3>2 DEF Rewritten
  <2> QED
    BY <2>1, <2>3, <2>5, <2>6, <2>7
<1>5. tokens = [k \in 1 .. Len(symbols) |-> tokens[k]] /\ c = [k \in 1 .. Len(symbols) |-> c[k]]
  BY <1>2 DEF PatternRewritten
<1> HIDE DEF tokens, c
<1>6. tokens \in Seq(TokensUpTo(1)) /\ Len(tokens) = Len(symbols)
  BY <1>2, <1>4, <1>5
<1>7. c \in Seq(SymbolType) /\ Len(c) = Len(symbols)
  BY <1>2, <1>4, <1>5
<1> QED
  BY <1>3, <1>4, <1>6, <1>7 DEF tokens, c

(* A pattern that was read of a text is written so that it is read as the  *)
(* same symbols, with the marks of a pattern escaped.                      *)
LEMMA PatternWritten ==
  ASSUME NEW s, NEW symbols, NEW at, Reads(s, symbols, at), NEW key \in Pattern(symbols)
  PROVE  Reading(WrittenPattern(key), PatternRewritten(symbols))
<1> DEFINE WT(tokens) == WrittenTokens(tokens, PatternMarks, FALSE)
           tok == [k \in DOMAIN symbols |-> PatternToken(symbols[k])]
           c == PatternRewritten(symbols)
           L == Len(symbols)
           none == {}
<1>1. /\ s \in Seq(STRING) /\ symbols \in Seq(SymbolType) /\ L \in Nat /\ DOMAIN symbols = 1 .. L
  BY DEF Reads, ReadsFrom
<1>2. /\ tok \in Seq(TokensUpTo(1)) /\ Len(tok) = L /\ key = Joined(tok, {})
      /\ c \in Seq(SymbolType) /\ Len(c) = L
      /\ \A k \in 1 .. L : CanWrite(symbols[k], PatternMarks) /\ symbols[k].chars # <<>>
  BY PatternSymbols
<1>3. \A k \in 1 .. L : /\ tok[k] = PatternToken(symbols[k])
                        /\ c[k] = IF symbols[k] = Plain(<<"*">>) THEN symbols[k]
                                  ELSE Rewritten(symbols[k], PatternMarks)
  BY <1>1 DEF PatternRewritten
<1> HIDE DEF tok, c, L, WT
<1>4. PICK f : JoinedAt(tok, none, 1, f)
  BY <1>2, JoinedSolved
<1> DEFINE rest(k) == FromTo(c, k, L + 1)
           S == {k \in 1 .. L + 1 : Reading(WT(f[k]), rest(k))}
<1>5. /\ f \in [1 .. L + 1 -> Flushed(1)] /\ key = f[1] /\ f[L + 1] = <<>>
      /\ \A k \in 1 .. L : f[k] = Join(tok[k], f[k + 1])
  <2>1. f \in [1 .. L + 1 -> Flushed(1)] /\ key = f[1] /\ \A k \in 1 .. L + 1 : f[k] = JoinedFrom(tok, none, k, f)
    BY <1>2, <1>4 DEF JoinedAt
  <2>2. f[L + 1] = <<>>
    <3>1. L + 1 \in 1 .. L + 1 /\ L + 1 > L
      BY <1>1
    <3> QED
      BY <1>2, <2>1, <3>1 DEF JoinedFrom
  <2>3. \A k \in 1 .. L : f[k] = Join(tok[k], f[k + 1])
    <3> TAKE k \in 1 .. L
    <3>1. k \in 1 .. L + 1 /\ ~(k > L) /\ k \notin none
      BY <1>1
    <3> QED
      BY <1>2, <2>1, <3>1 DEF JoinedFrom
  <2> QED
    BY <2>1, <2>2, <2>3
<1>6. L + 1 \in S
  <2>1. rest(L + 1) = <<>>
    BY <1>2, WholeAndNothing
  <2>2. WT(f[L + 1]) = <<>>
    BY <1>5, NoTokensWritten DEF WT
  <2> QED
    BY <1>1, <2>1, <2>2, NothingRead
<1>7. ASSUME NEW k \in 1 .. L, k + 1 \in S PROVE k \in S
  <2> DEFINE y == symbols[k]
             r == f[k + 1]
             q == rest(k + 1)
  <2>1. k \in 1 .. L + 1 /\ k + 1 \in 1 .. L + 1 /\ r \in Flushed(1)
    BY <1>1, <1>5
  <2>2. Reading(WT(r), q)
    BY <1>7
  <2>3. rest(k) = <<c[k]>> \o q
    <3>1. k \in 1 .. Len(c)
      BY <1>2
    <3>2. FromTo(c, k, Len(c) + 1) = <<c[k]>> \o FromTo(c, k + 1, Len(c) + 1)
      BY <1>2, <3>1, FromPlace
    <3> QED
      BY <1>2, <3>2
  <2>4. f[k] = Join(PatternToken(y), r)
    BY <1>3, <1>5
  <2>5. CASE y = Plain(<<"*">>)
    <3> DEFINE star == <<"*">>
    <3>1. PatternToken(y) = Capture(1) /\ c[k] = y
      BY <1>3, <2>5 DEF PatternToken
    <3>2. WT(Join(Capture(1), r)) = Before(TokenText(Capture(1), PatternMarks, FALSE), WT(r))
      <4> HIDE DEF r
      <4>1. \A numbered : WrittenTokens(Join(Capture(1), r), PatternMarks, numbered)
              = Before(TokenText(Capture(1), PatternMarks, numbered), WrittenTokens(r, PatternMarks, numbered))
        BY <2>1, CaptureWritten
      <4> QED
        BY <4>1, Zenon DEF WT
    <3>4. TokenText(Capture(1), PatternMarks, FALSE) = star
      BY DEF TokenText, Capture
    <3>5. star \in Seq(STRING) /\ Reading(star, <<y>>)
      <4>1. "*" \in STRING /\ "*" # "\\"
        BY MarksAssumption
      <4> QED
        BY <2>5, <4>1, PlainRead
    <3>6. star[Len(star)] # "=" /\ y # Escape(<<>>)
      BY <2>5 DEF Plain, Escape
    <3> HIDE DEF star, y, r, q
    <3>7. Reading(star \o WT(r), <<y>> \o q)
      BY <2>2, <3>5, <3>6, SymbolThen
    <3>8. WT(f[k]) = star \o WT(r)
      BY <2>4, <3>1, <3>2, <3>4 DEF Before
    <3> QED
      BY <2>1, <2>3, <3>1, <3>7, <3>8
  <2>6. CASE y # Plain(<<"*">>)
    <3>1. PatternToken(y) = Literal(y.chars) /\ c[k] = Rewritten(y, PatternMarks)
      BY <1>3, <2>6 DEF PatternToken
    <3>2. CanWrite(y, PatternMarks)
      BY <1>2
    <3>3. "=" \notin PatternMarks /\ ">" \notin PatternMarks
      BY DEF PatternMarks
    <3>4. ~(y = Plain(<<"=">>) /\ q # <<>> /\ q[1] = Plain(<<">">>))
      <4>1. SUFFICES ASSUME y = Plain(<<"=">>), q # <<>>, q[1] = Plain(<<">">>) PROVE FALSE
        OBVIOUS
      <4>2. k + 1 <= L
        <5>1. k = L => q = <<>>
          BY <1>2, WholeAndNothing
        <5> QED
          BY <1>1, <4>1, <5>1
      <4>3. k + 1 \in 1 .. L /\ q[1] = c[k + 1]
        <5>1. k + 1 \in 1 .. L /\ k + 1 \in 1 .. Len(c)
          BY <1>1, <1>2, <4>2
        <5>2. FromTo(c, k + 1, Len(c) + 1)[1] = c[k + 1]
          BY <1>2, <5>1, FromPlace
        <5> QED
          BY <1>2, <5>1, <5>2
      <4>4. symbols[k + 1] = Plain(<<">">>)
        <5>1. c[k + 1] = symbols[k + 1] \/ c[k + 1] = Escape(symbols[k + 1].chars)
          BY <1>3, <4>3 DEF Rewritten
        <5>2. \A a, b : Plain(a) # Escape(b)
          BY DEF Plain, Escape
        <5> QED
          BY <4>1, <4>3, <5>1, <5>2
      <4> QED
        BY <4>1, <4>2, <4>4, NoArrowAcross DEF L
    <3> HIDE DEF y, q, r
    <3>5. Reading(WT(Join(Literal(y.chars), r)), <<Rewritten(y, PatternMarks)>> \o q)
      BY <2>1, <2>2, <3>2, <3>3, <3>4, SymbolWritten DEF WT
    <3> QED
      BY <2>1, <2>3, <2>4, <3>1, <3>5
  <2> QED
    BY <2>5, <2>6
<1>8. 1 \in S
  <2>1. \A k \in 1 .. L : (\A m \in k + 1 .. L + 1 : m \in S) => k \in S
    <3> TAKE k \in 1 .. L
    <3>1. k + 1 \in k + 1 .. L + 1
      BY <1>1
    <3> HIDE DEF S
    <3> QED
      BY <1>7, <3>1
  <2> HIDE DEF S
  <2>2. 1 .. L + 1 \subseteq S
    BY <1>1, <1>6, <2>1, BackwardInduction
  <2> QED
    BY <1>1, <2>2
<1>9. rest(1) = c
  BY <1>2, WholeAndNothing
<1>10. WrittenPattern(key) = WT(key)
  BY DEF WrittenPattern, WT, PatternMarks
<1> QED
  BY <1>5, <1>8, <1>9, <1>10 DEF c

(* Places that are left out change nothing.                                *)
LEMMA NothingJoined ==
  ASSUME NEW tokens, NEW but, NEW c, NEW f, JoinedAt(tokens, but, c, f), Len(tokens) \in Nat,
         NEW a \in 1 .. Len(tokens) + 1, NEW b \in a .. Len(tokens) + 1, a .. b - 1 \subseteq but
  PROVE  f[a] = f[b]
<1> DEFINE L == Len(tokens)
           d == b - a
           S == {e \in 0 .. d : f[b - e] = f[b]}
<1>1. d \in Nat /\ L \in Nat /\ a \in 1 .. L + 1 /\ b \in a .. L + 1 /\ b - d = a
  OBVIOUS
<1> HIDE DEF L, d
<1>2. 0 \in S
  <2>1. b - 0 = b
    BY <1>1
  <2> QED
    BY <1>1, <2>1
<1>3. ASSUME NEW e \in 0 .. d - 1, e \in S PROVE e + 1 \in S
  <2> DEFINE k == b - (e + 1)
  <2>1. k \in a .. b - 1 /\ k + 1 = b - e /\ k \in 1 .. L + 1 /\ ~(k > L) /\ e + 1 \in 0 .. d
    BY <1>1 DEF d
  <2>2. k \in but
    BY <2>1
  <2> HIDE DEF k
  <2>3. f[k] = f[k + 1]
    <3>1. f[k] = JoinedFrom(tokens, but, k, f)
      BY <2>1 DEF JoinedAt, L
    <3> QED
      BY <2>1, <2>2, <3>1 DEF JoinedFrom, L
  <2>4. f[b - e] = f[b]
    BY <1>3
  <2>5. f[b - (e + 1)] = f[b]
    BY <2>1, <2>3, <2>4 DEF k
  <2> QED
    BY <2>1, <2>5
<1>4. 0 .. d \subseteq S
  <2> HIDE DEF S
  <2> QED
    BY <1>1, <1>2, <1>3, UpToInduction
<1>5. d \in S
  BY <1>1, <1>4
<1> QED
  BY <1>1, <1>5

(* The symbols that a replacement was read of, and their tokens.           *)
ReplacementMarks == {"#", "!"}
(* What is known of every symbol of a replacement that is accepted.        *)
LEMMA ReplacementSymbols ==
  ASSUME NEW s, NEW symbols, NEW at, Reads(s, symbols, at), NEW c \in Nat, NEW out \in Replacement(symbols, c)
  PROVE  /\ ReplacementTokens(symbols) \in Seq(TokensUpTo(c))
         /\ Len(ReplacementTokens(symbols)) = Len(symbols)
         /\ out = Joined(ReplacementTokens(symbols), Skipped(symbols))
         /\ \A k \in 1 .. Len(symbols) :
              /\ ~Refused(symbols, k, c) /\ CanWrite(symbols[k], ReplacementMarks)
              /\ symbols[k] = Dollar => Number(Heads(symbols), k + 1) \in 1 .. c
<1> DEFINE tok == ReplacementTokens(symbols)
           M == Len(symbols)
<1>1. symbols \in Seq(SymbolType) /\ M \in Nat /\ s \in Seq(STRING)
  BY DEF Reads, ReadsFrom
<1>2. (\A k \in 1 .. M : ~Refused(symbols, k, c)) /\ out = Joined(tok, Skipped(symbols))
  BY <1>1, ReplacementIs
<1>3. ASSUME NEW k \in 1 .. M
      PROVE  /\ tok[k] \in TokensUpTo(c) /\ CanWrite(symbols[k], ReplacementMarks)
             /\ symbols[k] = Dollar => Number(Heads(symbols), k + 1) \in 1 .. c
  <2> DEFINE y == symbols[k]
  <2>1. ~BadEscape(y) /\ ~BadNumber(symbols, k, c)
    BY <1>2 DEF Refused
  <2>2. y # Escape(<<>>)
    <3>1. <<>> \notin ReplacementEscapes
      <4>1. Arrow # <<>> /\ \A x : <<x>> # <<>>
        BY DEF Arrow
      <4> QED
        BY <4>1 DEF ReplacementEscapes
    <3>2. BadEscape(Escape(<<>>))
      BY <3>1 DEF BadEscape, Escape
    <3> QED
      BY <2>1, <3>2
  <2>3. /\ y \in SymbolType /\ y.chars \in Seq(STRING) /\ y.chars # <<>>
        /\ y.chars = Arrow \/ \E x \in STRING : y.chars = <<x>>
        /\ y # Plain(<<"\\">>)
    BY <2>2, CharsOfSymbol
  <2>4. y.escaped => Special(y.chars, ReplacementMarks)
    BY <2>1 DEF BadEscape, ReplacementEscapes, Special, ReplacementMarks
  <2>5. CanWrite(y, ReplacementMarks)
    <3> HIDE DEF y
    <3> QED
      BY <2>3, <2>4 DEF CanWrite
  <2>6. y = Dollar => Number(Heads(symbols), k + 1) \in 1 .. c
    BY <2>1 DEF BadNumber
  <2>7. tok[k] = IF y = Dollar THEN Capture(Number(Heads(symbols), k + 1)) ELSE Literal(y.chars)
    BY DEF ReplacementTokens, ReplacementToken
  <2>8. tok[k] \in TokensUpTo(c)
    <3> DEFINE n == Number(Heads(symbols), k + 1)
    <3>1. Literal(y.chars) \in TokensUpTo(c)
      BY <2>3, LiteralIsToken
    <3>2. n \in 1 .. c => Capture(n) \in TokensUpTo(c)
      BY CaptureIsToken
    <3> HIDE DEF n, y, tok
    <3> QED
      BY <2>6, <2>7, <3>1, <3>2 DEF n
  <2> QED
    BY <2>5, <2>6, <2>8
<1>4. tok = [k \in 1 .. M |-> tok[k]]
  BY DEF ReplacementTokens
<1> HIDE DEF tok
<1>5. tok \in Seq(TokensUpTo(c)) /\ Len(tok) = M
  BY <1>1, <1>3, <1>4
<1> QED
  BY <1>2, <1>3, <1>5 DEF tok

(* A dollar and its digits are written as they were read.                  *)
LEMMA NumberWritten ==
  ASSUME NEW s, NEW symbols, NEW at, Reads(s, symbols, at), NEW k \in 1 .. Len(symbols),
         symbols[k] = Dollar, NEW c \in Nat, ~BadNumber(symbols, k, c)
  PROVE  LET j == NextSymbol(symbols, k)
             digits == Decimal(Number(Heads(symbols), k + 1))
         IN /\ j \in k + 2 .. Len(symbols) + 1
            /\ Reading(digits, FromTo(symbols, k + 1, j))
            /\ digits # <<>> /\ digits[Len(digits)] \in DOMAIN Digit
            /\ symbols[j - 1] # Escape(<<>>)
<1> DEFINE h == Heads(symbols)
           M == Len(symbols)
           j == AfterNumber(h, k + 1)
           i == at[k + 1]
           n == Number(h, k + 1)
<1>1. /\ s \in Seq(STRING) /\ symbols \in Seq(SymbolType) /\ Len(s) \in Nat /\ M \in Nat
      /\ at \in [1 .. M + 1 -> 1 .. Len(s) + 1] /\ at[M + 1] = Len(s) + 1
  BY DEF Reads, ReadsFrom
<1>2. k # M /\ h[k + 1] \in DOMAIN Digit \ {"0"}
  BY DEF BadNumber
<1>3. k + 1 \in 1 .. M /\ k + 1 \in 1 .. M + 1
  BY <1>1, <1>2
<1>4. /\ j \in k + 1 .. M + 1
      /\ \A m \in k + 1 .. j - 1 : h[m] \in DOMAIN Digit
      /\ j <= M => h[j] \notin DOMAIN Digit
      /\ AfterNumber(s, i) = at[j] /\ Number(s, i) = n
  BY <1>3, NumbersAgree
<1>5. NextSymbol(symbols, k) = j
  BY DEF NextSymbol
<1>6. /\ \A m \in 1 .. M : /\ h[m] = s[at[m]]
                           /\ s[at[m]] \in DOMAIN Digit => symbols[m] = Plain(<<s[at[m]]>>) /\ at[m + 1] = at[m] + 1
  BY HeadsAt
<1> HIDE DEF h, j, i, n, M
<1>7. j \in k + 2 .. M + 1
  <2>1. j # k + 1
    BY <1>1, <1>2, <1>3, <1>4
  <2> QED
    BY <1>1, <1>3, <1>4, <2>1
<1>8. i \in 1 .. Len(s) /\ BeginsNumber(s, i)
  <2>1. i \in 1 .. Len(s)
    BY <1>3, SymbolsAt DEF i, M
  <2>2. s[i] \in DOMAIN Digit \ {"0"}
    BY <1>2, <1>3, <1>6 DEF i
  <2> QED
    BY <1>1, <2>1, <2>2 DEF BeginsNumber
<1>9. Decimal(n) = FromTo(s, i, at[j])
  BY <1>1, <1>4, <1>8, DecimalOfNumber
<1>10. Reading(FromTo(s, i, at[j]), FromTo(symbols, k + 1, j))
  <2> DEFINE a == k + 1
  <2>1. a \in 1 .. Len(symbols) + 1 /\ j \in a .. Len(symbols) + 1
    BY <1>3, <1>4 DEF M
  <2> HIDE DEF a
  <2>2. \E part : Reads(FromTo(s, at[a], at[j]), FromTo(symbols, a, j), part)
    BY <2>1, PartReads
  <2> QED
    BY <2>2 DEF Reading, a, i
<1>11. j - 1 \in k + 1 .. j - 1 /\ j - 1 \in 1 .. M /\ (j - 1) + 1 = j
  BY <1>1, <1>3, <1>7
<1>12. s[at[j - 1]] \in DOMAIN Digit /\ symbols[j - 1] = Plain(<<s[at[j - 1]]>>) /\ at[j] = at[j - 1] + 1
  BY <1>4, <1>6, <1>11
<1>13. symbols[j - 1] # Escape(<<>>)
  BY <1>12 DEF Plain, Escape
<1>14. Decimal(n) # <<>> /\ Decimal(n)[Len(Decimal(n))] = s[at[j - 1]]
  <2> DEFINE hi == at[j]
  <2>1. hi = at[j - 1] + 1 /\ at[j - 1] \in 1 .. Len(s) + 1 /\ hi \in 1 .. Len(s) + 1
    BY <1>1, <1>7, <1>11, <1>12
  <2>2. i < hi
    BY <1>3, <1>7, SymbolsAdvance DEF i, M
  <2> HIDE DEF hi
  <2>3. i \in 1 .. Len(s) + 1 /\ hi \in i .. Len(s) + 1 /\ hi - i \in 1 .. hi - i /\ i + (hi - i) - 1 = at[j - 1]
    BY <1>1, <1>8, <2>1, <2>2
  <2>4. Len(FromTo(s, i, hi)) = hi - i /\ \A m \in 1 .. hi - i : FromTo(s, i, hi)[m] = s[i + m - 1]
    BY <1>1, <2>3, FromToIs
  <2>5. FromTo(s, i, hi)[hi - i] = s[at[j - 1]]
    BY <2>3, <2>4
  <2>6. Len(FromTo(s, i, hi)) # 0
    BY <2>3, <2>4
  <2> QED
    BY <1>9, <2>4, <2>5, <2>6 DEF hi
<1> QED
  BY <1>5, <1>7, <1>9, <1>10, <1>12, <1>13, <1>14 DEF h, n, M

(* Two parts that lie side by side.                                        *)
LEMMA SideBySide ==
  ASSUME NEW T, NEW s \in Seq(T), NEW i \in 1 .. Len(s) + 1, NEW j \in i .. Len(s) + 1
  PROVE  FromTo(s, i, j) \o FromTo(s, j, Len(s) + 1) = FromTo(s, i, Len(s) + 1)
<1> DEFINE n == Len(s)
           a == FromTo(s, i, j)
           b == FromTo(s, j, n + 1)
           w == FromTo(s, i, n + 1)
           ab == a \o b
<1>1. n \in Nat /\ i \in 1 .. n + 1 /\ j \in i .. n + 1 /\ j \in 1 .. n + 1
      /\ n + 1 \in j .. n + 1 /\ n + 1 \in i .. n + 1
  OBVIOUS
<1>2. /\ a \in Seq(T) /\ Len(a) = j - i /\ \A k \in 1 .. j - i : a[k] = s[i + k - 1]
      /\ b \in Seq(T) /\ Len(b) = n + 1 - j /\ \A k \in 1 .. n + 1 - j : b[k] = s[j + k - 1]
      /\ w \in Seq(T) /\ Len(w) = n + 1 - i /\ \A k \in 1 .. n + 1 - i : w[k] = s[i + k - 1]
  <2> HIDE DEF a, b, w
  <2>1. a \in Seq(T) /\ Len(a) = j - i /\ \A k \in 1 .. j - i : a[k] = s[i + k - 1]
    BY <1>1, FromToIs DEF a
  <2> DEFINE e == n + 1
  <2>2. e \in j .. Len(s) + 1 /\ e \in i .. Len(s) + 1 /\ j \in 1 .. Len(s) + 1
    BY <1>1
  <2>3. b = FromTo(s, j, e) /\ w = FromTo(s, i, e)
    BY DEF b, w
  <2> HIDE DEF e
  <2>4. b \in Seq(T) /\ Len(b) = e - j /\ \A k \in 1 .. e - j : b[k] = s[j + k - 1]
    BY <2>2, <2>3, FromToIs
  <2>5. w \in Seq(T) /\ Len(w) = e - i /\ \A k \in 1 .. e - i : w[k] = s[i + k - 1]
    BY <2>2, <2>3, FromToIs
  <2> QED
    BY <2>1, <2>4, <2>5 DEF e
<1> HIDE DEF n, a, b, w
<1>3. /\ ab \in Seq(T) /\ Len(ab) = Len(a) + Len(b)
      /\ \A k \in 1 .. Len(a) + Len(b) : ab[k] = IF k <= Len(a) THEN a[k] ELSE b[k - Len(a)]
  BY <1>2, ConcatProperties
<1> HIDE DEF ab
<1>4. Len(ab) = Len(w)
  BY <1>1, <1>2, <1>3
<1>5. ASSUME NEW k \in 1 .. Len(w) PROVE ab[k] = w[k]
  <2>1. k \in 1 .. n + 1 - i /\ k \in 1 .. Len(a) + Len(b)
    BY <1>1, <1>2
  <2>2. ab[k] = IF k <= Len(a) THEN a[k] ELSE b[k - Len(a)]
    BY <1>3, <2>1
  <2>3. CASE k <= j - i
    <3>1. k \in 1 .. j - i
      BY <1>1, <2>1, <2>3
    <3>2. ab[k] = a[k]
      BY <1>2, <2>2, <2>3
    <3>3. a[k] = s[i + k - 1]
      BY <1>2, <3>1
    <3>4. w[k] = s[i + k - 1]
      BY <1>2, <2>1
    <3> QED
      BY <3>2, <3>3, <3>4
  <2>4. CASE ~(k <= j - i)
    <3>1. k - (j - i) \in 1 .. n + 1 - j /\ j + (k - (j - i)) - 1 = i + k - 1
      BY <1>1, <2>1, <2>4
    <3>2. b[k - (j - i)] = s[j + (k - (j - i)) - 1]
      BY <1>2, <3>1
    <3>3. ab[k] = b[k - (j - i)]
      BY <1>2, <2>2, <2>4
    <3>4. w[k] = s[i + k - 1]
      BY <1>2, <2>1
    <3> QED
      BY <3>1, <3>2, <3>3, <3>4
  <2> QED
    BY <2>3, <2>4
<1>6. ab = w
  BY <1>2, <1>3, <1>4, <1>5, SeqEqual
<1> QED
  BY <1>6 DEF ab, a, b, w, n

(* A dollar, its digits and what follows them.                             *)
LEMMA DollarWritten ==
  ASSUME NEW s, NEW symbols, NEW at, Reads(s, symbols, at), NEW k \in 1 .. Len(symbols),
         symbols[k] = Dollar, NEW c \in Nat, ~BadNumber(symbols, k, c),
         NEW t, Reading(t, FromTo(symbols, NextSymbol(symbols, k), Len(symbols) + 1))
  PROVE  Reading((<<"$">> \o Decimal(Number(Heads(symbols), k + 1))) \o t,
                 FromTo(symbols, k, Len(symbols) + 1))
<1> DEFINE M == Len(symbols)
           j == NextSymbol(symbols, k)
           digits == Decimal(Number(Heads(symbols), k + 1))
           p == FromTo(symbols, k + 1, j)
           q == FromTo(symbols, j, M + 1)
           dollar == <<"$">>
<1>1. s \in Seq(STRING) /\ symbols \in Seq(SymbolType) /\ M \in Nat
  BY DEF Reads, ReadsFrom
<1>2. /\ j \in k + 2 .. M + 1 /\ Reading(digits, p) /\ digits # <<>>
      /\ digits[Len(digits)] \in DOMAIN Digit /\ symbols[j - 1] # Escape(<<>>)
  BY NumberWritten
<1>3. Reading(t, q)
  OBVIOUS
<1>4. t \in Seq(STRING) /\ digits \in Seq(STRING)
  BY <1>2, <1>3, EmptyReads, Zenon
<1>5. p[Len(p)] # Escape(<<>>)
  <2>1. k + 1 \in 1 .. Len(symbols) + 1 /\ j \in k + 1 .. Len(symbols) + 1 /\ j - (k + 1) \in 1 .. j - (k + 1)
        /\ (k + 1) + (j - (k + 1)) - 1 = j - 1
    BY <1>1, <1>2
  <2> DEFINE a == k + 1
  <2> HIDE DEF j, a
  <2>2. Len(FromTo(symbols, a, j)) = j - a /\ \A m \in 1 .. j - a : FromTo(symbols, a, j)[m] = symbols[a + m - 1]
    BY <1>1, <2>1, FromToIs DEF a
  <2>3. FromTo(symbols, a, j)[j - a] = symbols[j - 1]
    BY <2>1, <2>2 DEF a
  <2> QED
    BY <1>2, <2>2, <2>3 DEF a
<1>6. p \o q = FromTo(symbols, k + 1, M + 1)
  <2>1. k + 1 \in 1 .. Len(symbols) + 1 /\ j \in k + 1 .. Len(symbols) + 1
    BY <1>1, <1>2
  <2> HIDE DEF j
  <2> QED
    BY <1>1, <2>1, SideBySide
<1>7. FromTo(symbols, k, M + 1) = <<Dollar>> \o FromTo(symbols, k + 1, M + 1)
  BY <1>1, FromPlace
<1>8. dollar \in Seq(STRING) /\ Reading(dollar, <<Dollar>>) /\ dollar[Len(dollar)] # "=" /\ Dollar # Escape(<<>>)
  <2>1. "$" \in STRING /\ "$" # "\\"
    BY MarksAssumption
  <2>2. dollar \in Seq(STRING) /\ Reading(dollar, <<Dollar>>)
    BY <2>1, PlainRead DEF Dollar
  <2>3. dollar[Len(dollar)] = "$"
    BY OneLength
  <2>4. Dollar # Escape(<<>>)
    BY DEF Dollar, Plain, Escape
  <2> QED
    BY <2>2, <2>3, <2>4
<1>9. digits[Len(digits)] # "="
  BY <1>2, NoDigits
<1> DEFINE whole == FromTo(symbols, k + 1, M + 1)
<1> HIDE DEF digits, p, q, dollar, j, M, whole
<1>10. Reading(digits \o t, whole)
  <2>1. Reading(digits \o t, p \o q)
    BY <1>2, <1>3, <1>5, <1>9, ReadingJoined
  <2> QED
    BY <1>6, <2>1 DEF whole
<1>11. Reading(dollar \o (digits \o t), <<Dollar>> \o whole)
  BY <1>8, <1>10, SymbolThen
<1>12. (dollar \o digits) \o t = dollar \o (digits \o t)
  BY <1>4, <1>8, ConcatAssociative
<1>13. Reading((dollar \o digits) \o t, FromTo(symbols, k, M + 1))
  BY <1>7, <1>11, <1>12 DEF whole
<1> QED
  BY <1>13 DEF dollar, digits, M

(* No comment, end of a scope or arrow stands in these symbols as it is.   *)
NoMarks(symbols) ==
  \A k \in 1 .. Len(symbols) : symbols[k] \notin {Plain(<<"#">>), Plain(<<"!">>), Plain(Arrow)}

(* A replacement is written as it was read.                                *)
LEMMA ReplacementWritten ==
  ASSUME NEW s, NEW symbols, NEW at, Reads(s, symbols, at), NoMarks(symbols),
         NEW c \in Nat, NEW out \in Replacement(symbols, c)
  PROVE  Reading(WrittenReplacement(out), symbols)
<1> DEFINE WT(tokens) == WrittenTokens(tokens, ReplacementMarks, TRUE)
           tok == ReplacementTokens(symbols)
           skip == Skipped(symbols)
           L == Len(symbols)
<1>1. /\ s \in Seq(STRING) /\ symbols \in Seq(SymbolType) /\ L \in Nat
  BY DEF Reads, ReadsFrom
<1>2. /\ tok \in Seq(TokensUpTo(c)) /\ Len(tok) = L /\ out = Joined(tok, skip)
      /\ \A k \in 1 .. L : /\ ~Refused(symbols, k, c) /\ CanWrite(symbols[k], ReplacementMarks)
                           /\ symbols[k] = Dollar => Number(Heads(symbols), k + 1) \in 1 .. c
  BY ReplacementSymbols
<1>3. \A k \in 1 .. L : tok[k] = ReplacementToken(symbols, k)
  BY DEF ReplacementTokens
<1>4. \A k \in (1 .. L) \ skip :
        /\ NextSymbol(symbols, k) \in k + 1 .. L + 1 /\ NextSymbol(symbols, k) \notin skip
        /\ k + 1 .. NextSymbol(symbols, k) - 1 \subseteq skip
  <2> HIDE DEF L, skip
  <2> QED
    BY DigitsSkipped DEF L, skip
<1>5. 1 \notin skip /\ skip \subseteq 2 .. L
  <2>1. \A k \in skip : k \in 2 .. L
    BY DigitsSkipped
  <2> HIDE DEF skip
  <2> QED
    BY <1>1, <2>1
<1> HIDE DEF tok, skip, L, WT
<1>6. PICK f : JoinedAt(tok, skip, c, f)
  BY <1>2, JoinedSolved
<1> DEFINE rest(k) == FromTo(symbols, k, L + 1)
           S == {k \in 1 .. L + 1 : k \in skip \/ Reading(WT(f[k]), rest(k))}
<1>7. /\ f \in [1 .. L + 1 -> Flushed(c)] /\ out = f[1] /\ f[L + 1] = <<>>
      /\ \A k \in (1 .. L) \ skip : f[k] = Join(tok[k], f[k + 1])
  <2>1. f \in [1 .. L + 1 -> Flushed(c)] /\ out = f[1] /\ \A k \in 1 .. L + 1 : f[k] = JoinedFrom(tok, skip, k, f)
    BY <1>2, <1>6 DEF JoinedAt
  <2>2. f[L + 1] = <<>>
    <3>1. L + 1 \in 1 .. L + 1 /\ L + 1 > L
      BY <1>1
    <3> QED
      BY <1>2, <2>1, <3>1 DEF JoinedFrom
  <2>3. \A k \in (1 .. L) \ skip : f[k] = Join(tok[k], f[k + 1])
    <3> TAKE k \in (1 .. L) \ skip
    <3>1. k \in 1 .. L + 1 /\ ~(k > L) /\ k \notin skip
      BY <1>1
    <3> QED
      BY <1>2, <2>1, <3>1 DEF JoinedFrom
  <2> QED
    BY <2>1, <2>2, <2>3
<1>8. L + 1 \in S
  <2>1. rest(L + 1) = <<>>
    BY <1>1, WholeAndNothing DEF L
  <2>2. WT(f[L + 1]) = <<>>
    BY <1>7, NoTokensWritten DEF WT
  <2> QED
    BY <1>1, <2>1, <2>2, NothingRead
<1>9. ASSUME NEW k \in 1 .. L, \A m \in k + 1 .. L + 1 : m \in S PROVE k \in S
  <2>1. CASE k \in skip
    BY <1>1, <2>1
  <2>2. CASE k \notin skip
    <3> DEFINE j == NextSymbol(symbols, k)
               y == symbols[k]
               t == WT(f[j])
    <3>1. j \in k + 1 .. L + 1 /\ j \notin skip /\ k + 1 .. j - 1 \subseteq skip /\ k \in 1 .. L + 1
          /\ k + 1 \in 1 .. L + 1 /\ j \in 1 .. L + 1
      BY <1>1, <1>4, <2>2
    <3> HIDE DEF j
    <3>2. Reading(t, rest(j))
      BY <1>9, <3>1
    <3>3. f[k] = Join(ReplacementToken(symbols, k), f[j])
      <4>1. f[k] = Join(tok[k], f[k + 1])
        BY <1>7, <2>2
      <4> DEFINE a == k + 1
      <4>2. a \in 1 .. Len(tok) + 1 /\ j \in a .. Len(tok) + 1 /\ a .. j - 1 \subseteq skip /\ Len(tok) \in Nat
        BY <1>1, <1>2, <3>1
      <4> HIDE DEF a
      <4>3. f[a] = f[j]
        BY <1>6, <4>2, NothingJoined
      <4> QED
        BY <1>3, <4>1, <4>3 DEF a
    <3>4. f[j] \in Flushed(c)
      BY <1>7, <3>1
    <3>5. CASE y = Dollar
      <4> DEFINE n == Number(Heads(symbols), k + 1)
                 digits == Decimal(n)
      <4>1. n \in 1 .. c /\ ~BadNumber(symbols, k, c)
        BY <1>2, <3>5 DEF Refused
      <4>2. f[k] = Join(Capture(n), f[j])
        BY <3>3, <3>5 DEF ReplacementToken
      <4>3. Reading((<<"$">> \o digits) \o t, rest(k))
        <5>1. Reading(t, FromTo(symbols, NextSymbol(symbols, k), Len(symbols) + 1))
          BY <3>2 DEF j, L
        <5>2. k \in 1 .. Len(symbols) /\ symbols[k] = Dollar
          BY <3>5 DEF L
        <5> HIDE DEF t
        <5>3. Reading((<<"$">> \o Decimal(Number(Heads(symbols), k + 1))) \o t, FromTo(symbols, k, Len(symbols) + 1))
          BY <4>1, <5>1, <5>2, DollarWritten
        <5> QED
          BY <5>3 DEF L
      <4> HIDE DEF n
      <4>4. WT(Join(Capture(n), f[j])) = Before(TokenText(Capture(n), ReplacementMarks, TRUE), t)
        <5>1. \A numbered : WrittenTokens(Join(Capture(n), f[j]), ReplacementMarks, numbered)
                = Before(TokenText(Capture(n), ReplacementMarks, numbered),
                         WrittenTokens(f[j], ReplacementMarks, numbered))
          BY <3>4, <4>1, CaptureWritten
        <5> QED
          BY <5>1, Zenon DEF WT
      <4>5. TokenText(Capture(n), ReplacementMarks, TRUE) = <<"$">> \o digits
        BY <4>1 DEF TokenText, Capture
      <4>6. WT(f[k]) = (<<"$">> \o digits) \o t
        BY <4>2, <4>4, <4>5 DEF Before
      <4> HIDE DEF t, digits
      <4> QED
        BY <3>1, <4>3, <4>6
    <3>6. CASE y # Dollar
      <4> DEFINE q == rest(k + 1)
                 r == f[k + 1]
      <4>1. j = k + 1
        BY <3>6 DEF j, NextSymbol
      <4>2. f[k] = Join(Literal(y.chars), r)
        BY <3>3, <3>6, <4>1 DEF ReplacementToken
      <4>3. CanWrite(y, ReplacementMarks)
        BY <1>2
      <4>4. "=" \notin ReplacementMarks /\ ">" \notin ReplacementMarks
        BY DEF ReplacementMarks
      <4>5. rest(k) = <<y>> \o q
        BY <1>1, FromPlace DEF L
      <4>6. ~(y = Plain(<<"=">>) /\ q # <<>> /\ q[1] = Plain(<<">">>))
        <5>1. SUFFICES ASSUME y = Plain(<<"=">>), q # <<>>, q[1] = Plain(<<">">>) PROVE FALSE
          OBVIOUS
        <5>2. k + 1 <= L
          <6>1. k = L => q = <<>>
            BY <1>1, WholeAndNothing DEF L
          <6> QED
            BY <1>1, <5>1, <6>1
        <5>3. k + 1 \in 1 .. L /\ q[1] = symbols[k + 1]
          <6>1. k + 1 \in 1 .. L
            BY <1>1, <5>2
          <6> QED
            BY <1>1, <6>1, FromPlace DEF L
        <5> QED
          BY <5>1, <5>2, <5>3, NoArrowAcross DEF L
      <4>7. Rewritten(y, ReplacementMarks) = y
        <5>1. ~y.escaped => ~Special(y.chars, ReplacementMarks)
          <6>1. SUFFICES ASSUME ~y.escaped, Special(y.chars, ReplacementMarks) PROVE FALSE
            OBVIOUS
          <6>2. y = Plain(y.chars)
            <7>1. y \in SymbolType
              BY <4>3 DEF CanWrite
            <7> HIDE DEF y
            <7> QED
              BY <6>1, <7>1 DEF SymbolType, Plain
          <6>3. y.chars = Arrow \/ y.chars = <<"#">> \/ y.chars = <<"!">>
            BY <6>1 DEF Special, ReplacementMarks
          <6>4. y \notin {Plain(<<"#">>), Plain(<<"!">>), Plain(Arrow)}
            BY DEF NoMarks, L
          <6> HIDE DEF y
          <6> QED
            BY <6>2, <6>3, <6>4
        <5>2. y.escaped => y = Escape(y.chars)
          <6>1. y \in SymbolType
            BY <4>3 DEF CanWrite
          <6> HIDE DEF y
          <6> QED
            BY <6>1 DEF SymbolType, Escape
        <5>3. y.escaped => Special(y.chars, ReplacementMarks)
          BY <4>3 DEF CanWrite
        <5> HIDE DEF y
        <5> QED
          BY <5>1, <5>2, <5>3 DEF Rewritten
      <4>8. Reading(WT(r), q) /\ r \in Flushed(c)
        BY <3>2, <3>4, <4>1
      <4> HIDE DEF y, q, r
      <4>9. Reading(WT(Join(Literal(y.chars), r)), <<Rewritten(y, ReplacementMarks)>> \o q)
        BY <4>3, <4>4, <4>6, <4>8, SymbolWritten DEF WT
      <4> QED
        BY <3>1, <4>2, <4>5, <4>7, <4>9
    <3> QED
      BY <3>5, <3>6
  <2> QED
    BY <2>1, <2>2
<1>10. 1 \in S
  <2> HIDE DEF S
  <2>1. 1 .. L + 1 \subseteq S
    BY <1>1, <1>8, <1>9, BackwardInduction
  <2> QED
    BY <1>1, <2>1
<1>11. rest(1) = symbols
  BY <1>1, WholeAndNothing DEF L
<1>12. WrittenReplacement(out) = WT(out)
  BY DEF WrittenReplacement, WT, ReplacementMarks
<1> QED
  BY <1>5, <1>7, <1>10, <1>11, <1>12

(* The scan of Pieces, with its type.                                      *)
LEMMA ScanIs ==
  ASSUME NEW T, NEW s \in Seq(T), NEW cuts, NEW scan, Scanned(T, s, cuts, scan)
  PROVE  /\ Len(s) \in Nat /\ scan[0].done = <<>> /\ scan[0].start = 1
         /\ \A i \in 0 .. Len(s) : scan[i].done \in Seq(Seq(T)) /\ scan[i].start \in 1 .. Len(s) + 1
         /\ \A i \in 1 .. Len(s) : IF i \in cuts
              THEN scan[i].done = Append(scan[i - 1].done, FromTo(s, scan[i - 1].start, i)) /\ scan[i].start = i + 1
              ELSE scan[i] = scan[i - 1]
         /\ Pieces(s, cuts) = Append(scan[Len(s)].done, FromTo(s, scan[Len(s)].start, Len(s) + 1))
<1>1. /\ scan \in [0 .. Len(s) -> [done : Seq(Seq(T)), start : 1 .. Len(s) + 1]]
      /\ scan[0] = [done |-> <<>>, start |-> 1]
      /\ \A i \in 1 .. Len(s) : scan[i] = Cut(s, cuts, i, scan[i - 1])
      /\ Pieces(s, cuts) = Append(scan[Len(s)].done, FromTo(s, scan[Len(s)].start, Len(s) + 1))
  BY DEF Scanned
<1>2. \A i \in 1 .. Len(s) : IF i \in cuts
        THEN scan[i].done = Append(scan[i - 1].done, FromTo(s, scan[i - 1].start, i)) /\ scan[i].start = i + 1
        ELSE scan[i] = scan[i - 1]
  <2> SUFFICES ASSUME NEW i \in 1 .. Len(s)
               PROVE  IF i \in cuts
                      THEN /\ scan[i].done = Append(scan[i - 1].done, FromTo(s, scan[i - 1].start, i))
                           /\ scan[i].start = i + 1
                      ELSE scan[i] = scan[i - 1]
    BY Zenon
  <2>1. scan[i] = Cut(s, cuts, i, scan[i - 1])
    BY <1>1
  <2> DEFINE longer == Append(scan[i - 1].done, FromTo(s, scan[i - 1].start, i))
  <2>2. Cut(s, cuts, i, scan[i - 1]) = IF i \in cuts THEN [done |-> longer, start |-> i + 1] ELSE scan[i - 1]
    BY DEF Cut
  <2> HIDE DEF longer
  <2>3. IF i \in cuts THEN scan[i].done = longer /\ scan[i].start = i + 1 ELSE scan[i] = scan[i - 1]
    BY <2>1, <2>2
  <2> QED
    BY <2>3 DEF longer
<1> QED
  BY <1>1, <1>2

(* A piece holds what stands between the cuts, and no cut.                 *)
NoCutIn(s, cuts, piece) == \A k \in 1 .. Len(piece) : \E i \in 1 .. Len(s) : i \notin cuts /\ piece[k] = s[i]

(* A part between two cuts has none.                                       *)
LEMMA PartHoldsNoCut ==
  ASSUME NEW T, NEW s \in Seq(T), NEW cuts, NEW a \in 1 .. Len(s) + 1, NEW b \in 1 .. Len(s) + 1, a <= b,
         \A i \in a .. b - 1 : i \notin cuts
  PROVE  NoCutIn(s, cuts, FromTo(s, a, b))
<1>1. Len(FromTo(s, a, b)) = b - a /\ \A k \in 1 .. b - a : FromTo(s, a, b)[k] = s[a + k - 1]
  <2>1. b \in a .. Len(s) + 1
    OBVIOUS
  <2> QED
    BY <2>1, FromToIs
<1>2. ASSUME NEW k \in 1 .. b - a PROVE a + k - 1 \in 1 .. Len(s) /\ a + k - 1 \notin cuts
  <2>1. a + k - 1 \in a .. b - 1 /\ a + k - 1 \in 1 .. Len(s)
    OBVIOUS
  <2> QED
    BY <2>1
<1> QED
  BY <1>1, <1>2 DEF NoCutIn

(* No piece has a cut in it.                                               *)
LEMMA PiecesHoldNoCut ==
  ASSUME NEW T, NEW s \in Seq(T), NEW cuts, NEW n \in 1 .. Len(Pieces(s, cuts))
  PROVE  NoCutIn(s, cuts, Pieces(s, cuts)[n])
<1> DEFINE N == Len(s)
<1>1. PICK scan : Scanned(T, s, cuts, scan)
  BY PiecesScanned
<1>2. /\ N \in Nat /\ scan[0].done = <<>> /\ scan[0].start = 1
      /\ \A i \in 0 .. N : scan[i].done \in Seq(Seq(T)) /\ scan[i].start \in 1 .. N + 1
      /\ \A i \in 1 .. N : IF i \in cuts
           THEN scan[i].done = Append(scan[i - 1].done, FromTo(s, scan[i - 1].start, i)) /\ scan[i].start = i + 1
           ELSE scan[i] = scan[i - 1]
      /\ Pieces(s, cuts) = Append(scan[N].done, FromTo(s, scan[N].start, N + 1))
  BY <1>1, ScanIs
<1> DEFINE S == {i \in 0 .. N : /\ scan[i].start <= i + 1
                                /\ \A j \in scan[i].start .. i : j \notin cuts
                                /\ \A m \in 1 .. Len(scan[i].done) : NoCutIn(s, cuts, scan[i].done[m])}
<1>3. 0 \in S
  BY <1>2
<1>4. ASSUME NEW i \in 0 .. N - 1, i \in S PROVE i + 1 \in S
  <2> DEFINE d == scan[i].done
             a == scan[i].start
             e == i + 1
  <2>1. e \in 1 .. N /\ e \in 0 .. N /\ e - 1 = i /\ i \in 0 .. N
    BY <1>2
  <2>2. /\ a <= e /\ a \in 1 .. N + 1 /\ d \in Seq(Seq(T)) /\ Len(d) \in Nat
        /\ \A j \in a .. i : j \notin cuts
        /\ \A m \in 1 .. Len(d) : NoCutIn(s, cuts, d[m])
    <3>1. /\ scan[i].start <= i + 1 /\ \A j \in scan[i].start .. i : j \notin cuts
          /\ \A m \in 1 .. Len(scan[i].done) : NoCutIn(s, cuts, scan[i].done[m])
      BY <1>4
    <3>2. scan[i].start \in 1 .. N + 1 /\ scan[i].done \in Seq(Seq(T))
      BY <1>2, <2>1
    <3>3. Len(scan[i].done) \in Nat
      BY <3>2, LenProperties
    <3> QED
      BY <3>1, <3>2, <3>3
  <2>3. CASE e \in cuts
    <3>1. scan[e].done = Append(d, FromTo(s, a, e)) /\ scan[e].start = e + 1
      BY <1>2, <2>1, <2>3
    <3>2. NoCutIn(s, cuts, FromTo(s, a, e)) /\ FromTo(s, a, e) \in Seq(T)
      <4> HIDE DEF a, e
      <4>1. e \in 1 .. Len(s) + 1 /\ a \in 1 .. Len(s) + 1 /\ e \in a .. Len(s) + 1 /\ \A j \in a .. e - 1 : j \notin cuts
        BY <1>2, <2>1, <2>2
      <4> QED
        BY <2>2, <4>1, PartHoldsNoCut, FromToIs
    <3>3. \A m \in 1 .. Len(scan[e].done) : NoCutIn(s, cuts, scan[e].done[m])
      <4> DEFINE piece == FromTo(s, a, e)
                 now == scan[e].done
      <4> HIDE DEF piece, d, e, now
      <4>1. now = Append(d, piece)
        BY <3>1 DEF piece, now
      <4>2. Len(now) = Len(d) + 1 /\ \A m \in 1 .. Len(d) + 1 : now[m] = IF m <= Len(d) THEN d[m] ELSE piece
        <5>1. piece \in Seq(T)
          BY <3>2 DEF piece
        <5>2. /\ Len(Append(d, piece)) = Len(d) + 1 /\ Append(d, piece)[Len(d) + 1] = piece
              /\ \A m \in 1 .. Len(d) : Append(d, piece)[m] = d[m]
          BY <2>2, <5>1, AppendProperties
        <5>3. \A m \in 1 .. Len(d) + 1 : IF m <= Len(d) THEN m \in 1 .. Len(d) ELSE m = Len(d) + 1
          <6> DEFINE w == Len(d)
          <6>1. w \in Nat
            BY <2>2
          <6> HIDE DEF w
          <6>2. \A m \in 1 .. w + 1 : IF m <= w THEN m \in 1 .. w ELSE m = w + 1
            BY <6>1
          <6> QED
            BY <6>2 DEF w
        <5> QED
          BY <4>1, <5>2, <5>3
      <4>3. \A m \in 1 .. Len(d) + 1 : m <= Len(d) => m \in 1 .. Len(d)
        BY <2>2
      <4> QED
        BY <2>2, <3>2, <4>2, <4>3 DEF piece, now
    <3>4. scan[e].start <= e + 1 /\ \A j \in scan[e].start .. e : j \notin cuts
      BY <2>1, <3>1
    <3> HIDE DEF e
    <3>5. e \in S
      BY <2>1, <3>3, <3>4
    <3> QED
      BY <3>5 DEF e
  <2>4. CASE e \notin cuts
    <3>1. scan[e] = scan[i]
      BY <1>2, <2>1, <2>4
    <3>2. \A j \in a .. e : j \notin cuts
      <4>1. \A j \in a .. e : j = e \/ j \in a .. i
        BY <2>1, <2>2
      <4> QED
        BY <2>2, <2>4, <4>1
    <3>3. a <= e + 1
      BY <2>1, <2>2
    <3> HIDE DEF e
    <3>4. e \in S
      BY <2>1, <2>2, <3>1, <3>2, <3>3
    <3> QED
      BY <3>4 DEF e
  <2> QED
    BY <2>3, <2>4
<1>5. N \in S
  <2> HIDE DEF S, N
  <2>1. 0 .. N \subseteq S
    BY <1>2, <1>3, <1>4, UpToInduction
  <2> QED
    BY <1>2, <2>1
<1> DEFINE piece == FromTo(s, scan[N].start, N + 1)
           done == scan[N].done
<1>6. NoCutIn(s, cuts, piece) /\ piece \in Seq(T)
  <2> DEFINE a == scan[N].start
             b == N + 1
  <2>1. a \in 1 .. Len(s) + 1 /\ b \in 1 .. Len(s) + 1 /\ a <= b /\ b \in a .. Len(s) + 1
        /\ \A j \in a .. b - 1 : j \notin cuts
    BY <1>2, <1>5
  <2> HIDE DEF a, b
  <2>2. NoCutIn(s, cuts, FromTo(s, a, b)) /\ FromTo(s, a, b) \in Seq(T)
    BY <2>1, PartHoldsNoCut, FromToIs
  <2> QED
    BY <2>2 DEF a, b
<1>7. done \in Seq(Seq(T)) /\ Len(done) \in Nat /\ \A m \in 1 .. Len(done) : NoCutIn(s, cuts, done[m])
  BY <1>2, <1>5
<1>8. Pieces(s, cuts) = Append(done, piece)
  BY <1>2
<1> DEFINE all == Pieces(s, cuts)
<1> HIDE DEF piece, done, all, N
<1>9. Len(all) = Len(done) + 1 /\ \A m \in 1 .. Len(done) + 1 : all[m] = IF m <= Len(done) THEN done[m] ELSE piece
  BY <1>6, <1>7, <1>8 DEF all
<1>10. n \in 1 .. Len(done) + 1 /\ (n <= Len(done) => n \in 1 .. Len(done))
  BY <1>7, <1>9 DEF all
<1>11. NoCutIn(s, cuts, all[n])
  BY <1>6, <1>7, <1>9, <1>10
<1> QED
  BY <1>11 DEF all

(* Without a cut between two places nothing is cut off.                    *)
LEMMA NothingCut ==
  ASSUME NEW T, NEW s \in Seq(T), NEW cuts, NEW scan, Scanned(T, s, cuts, scan),
         NEW a \in 0 .. Len(s), NEW b \in a .. Len(s), \A i \in a + 1 .. b : i \notin cuts
  PROVE  scan[b] = scan[a]
<1> DEFINE N == Len(s)
           d == b - a
           S == {e \in 0 .. d : scan[a + e] = scan[a]}
<1>1. N \in Nat /\ a \in 0 .. N /\ b \in a .. N /\ d \in Nat /\ a + d = b /\ a + 0 = a
  OBVIOUS
<1>2. \A i \in 1 .. N : i \notin cuts => scan[i] = scan[i - 1]
  BY ScanIs
<1> HIDE DEF N, d
<1>3. 0 \in S
  BY <1>1
<1>4. ASSUME NEW e \in 0 .. d - 1, e \in S PROVE e + 1 \in S
  <2> DEFINE i == a + (e + 1)
  <2>1. i \in a + 1 .. b /\ i \in 1 .. N /\ i - 1 = a + e /\ e + 1 \in 0 .. d
    BY <1>1 DEF d
  <2> HIDE DEF i
  <2>2. scan[i] = scan[a + e]
    BY <1>2, <2>1
  <2>3. scan[a + (e + 1)] = scan[a]
    BY <1>4, <2>2 DEF i
  <2> QED
    BY <2>1, <2>3
<1>5. d \in S
  <2> HIDE DEF S
  <2>1. 0 .. d \subseteq S
    BY <1>1, <1>3, <1>4, UpToInduction
  <2> QED
    BY <1>1, <2>1
<1> QED
  BY <1>1, <1>5

(* Without a cut there is one piece.                                       *)
LEMMA OnePiece ==
  ASSUME NEW T, NEW s \in Seq(T), NEW cuts, \A i \in 1 .. Len(s) : i \notin cuts
  PROVE  Len(Pieces(s, cuts)) = 1 /\ Pieces(s, cuts)[1] = s
<1>1. PICK scan : Scanned(T, s, cuts, scan)
  BY PiecesScanned
<1>2. Len(s) \in Nat /\ 0 \in 0 .. Len(s) /\ Len(s) \in 0 .. Len(s) /\ \A i \in 0 + 1 .. Len(s) : i \notin cuts
  OBVIOUS
<1>3. scan[Len(s)] = scan[0]
  BY <1>1, <1>2, NothingCut
<1>4. scan[0].done = <<>> /\ scan[0].start = 1
      /\ Pieces(s, cuts) = Append(scan[Len(s)].done, FromTo(s, scan[Len(s)].start, Len(s) + 1))
  BY <1>1, ScanIs
<1>5. FromTo(s, 1, Len(s) + 1) = s
  BY WholeAndNothing
<1>6. Pieces(s, cuts) = Append(<<>>, s)
  BY <1>3, <1>4, <1>5
<1>7. Len(Append(<<>>, s)) = 1 /\ Append(<<>>, s)[1] = s
  <2>1. <<>> \in Seq(Seq(T)) /\ Len(<<>>) = 0
    OBVIOUS
  <2> QED
    BY <2>1
<1> QED
  BY <1>6, <1>7

(* What stands where in two sequences with an element between them.        *)
Around(x, m, y) == x \o (<<m>> \o y)
Placed(x, m, y, s) ==
  /\ Len(s) = Len(x) + 1 + Len(y) /\ Len(x) \in Nat /\ Len(y) \in Nat
  /\ s[Len(x) + 1] = m
  /\ \A i \in 1 .. Len(x) : s[i] = x[i]
  /\ \A i \in 1 .. Len(y) : s[Len(x) + 1 + i] = y[i]
  /\ FromTo(s, 1, Len(x) + 1) = x /\ FromTo(s, Len(x) + 2, Len(s) + 1) = y
(* An element between two sequences is found behind the first of them.     *)
LEMMA Between ==
  ASSUME NEW T, NEW x \in Seq(T), NEW m \in T, NEW y \in Seq(T)
  PROVE  Around(x, m, y) \in Seq(T) /\ Placed(x, m, y, Around(x, m, y))
<1> DEFINE s == Around(x, m, y)
           p == Len(x)
           q == Len(y)
           one == <<m>>
           rest == one \o y
<1>1. p \in Nat /\ q \in Nat /\ one \in Seq(T) /\ Len(one) = 1 /\ one[1] = m
  BY OneOrTwo, OneLength
<1> HIDE DEF one
<1>2. rest \in Seq(T) /\ Len(rest) = 1 + q /\ \A i \in 1 .. 1 + q : rest[i] = IF i <= 1 THEN one[i] ELSE y[i - 1]
  <2>1. /\ one \o y \in Seq(T) /\ Len(one \o y) = Len(one) + Len(y)
        /\ \A i \in 1 .. Len(one) + Len(y) : (one \o y)[i] = IF i <= Len(one) THEN one[i] ELSE y[i - Len(one)]
    BY <1>1, ConcatProperties
  <2> QED
    BY <1>1, <2>1
<1> HIDE DEF rest
<1>3. s = x \o rest
  BY DEF Around, rest, one
<1> HIDE DEF s
<1>4. s \in Seq(T) /\ Len(s) = p + (1 + q) /\ \A i \in 1 .. p + (1 + q) : s[i] = IF i <= p THEN x[i] ELSE rest[i - p]
  <2>1. /\ x \o rest \in Seq(T) /\ Len(x \o rest) = Len(x) + Len(rest)
        /\ \A i \in 1 .. Len(x) + Len(rest) : (x \o rest)[i] = IF i <= Len(x) THEN x[i] ELSE rest[i - Len(x)]
    BY <1>2, ConcatProperties
  <2> QED
    BY <1>2, <1>3, <2>1
<1> HIDE DEF p, q
<1>5. \A i \in 1 .. p : s[i] = x[i]
  BY <1>1, <1>4
<1>6. s[p + 1] = m
  <2>1. p + 1 \in 1 .. p + (1 + q) /\ ~(p + 1 <= p) /\ (p + 1) - p = 1 /\ 1 \in 1 .. 1 + q
    BY <1>1
  <2> QED
    BY <1>1, <1>2, <1>4, <2>1
<1>7. \A i \in 1 .. q : s[p + 1 + i] = y[i]
  <2> TAKE i \in 1 .. q
  <2>1. /\ p + 1 + i \in 1 .. p + (1 + q) /\ ~(p + 1 + i <= p) /\ (p + 1 + i) - p = i + 1
        /\ i + 1 \in 1 .. 1 + q /\ ~(i + 1 <= 1) /\ (i + 1) - 1 = i
    BY <1>1
  <2>2. s[p + 1 + i] = rest[i + 1]
    BY <1>4, <2>1
  <2>3. rest[i + 1] = y[i]
    BY <1>2, <2>1
  <2> QED
    BY <2>2, <2>3
<1>8. FromTo(s, 1, p + 1) = x
  <2> DEFINE b == p + 1
  <2>1. b \in 1 .. Len(s) + 1 /\ 1 \in 1 .. Len(s) + 1 /\ b - 1 = p
    BY <1>1, <1>4
  <2> HIDE DEF b
  <2>2. FromTo(s, 1, b) \in Seq(T) /\ Len(FromTo(s, 1, b)) = b - 1 /\ \A k \in 1 .. b - 1 : FromTo(s, 1, b)[k] = s[1 + k - 1]
    <3>1. s \in Seq(T) /\ b \in 1 .. Len(s) + 1
      BY <1>4, <2>1
    <3> QED
      BY <2>1, <3>1, FromToIs
  <2>3. \A k \in 1 .. p : FromTo(s, 1, b)[k] = x[k]
    <3> TAKE k \in 1 .. p
    <3>1. k \in 1 .. b - 1 /\ 1 + k - 1 = k
      BY <1>1, <2>1
    <3> QED
      BY <1>5, <2>2, <3>1
  <2>4. FromTo(s, 1, b) = x
    BY <1>1, <2>1, <2>2, <2>3, SeqEqual DEF p
  <2> QED
    BY <2>4 DEF b
<1>9. FromTo(s, p + 2, Len(s) + 1) = y
  <2> DEFINE a == p + 2
             b == Len(s) + 1
  <2>1. a \in 1 .. Len(s) + 1 /\ b \in a .. Len(s) + 1 /\ b - a = q
    BY <1>1, <1>4
  <2>0. \A k \in 1 .. q : a + k - 1 = p + 1 + k
    BY <1>1
  <2> HIDE DEF a, b
  <2>2. FromTo(s, a, b) \in Seq(T) /\ Len(FromTo(s, a, b)) = b - a /\ \A k \in 1 .. b - a : FromTo(s, a, b)[k] = s[a + k - 1]
    BY <1>4, <2>1, FromToIs
  <2>3. \A k \in 1 .. q : FromTo(s, a, b)[k] = y[k]
    BY <1>7, <2>0, <2>1, <2>2
  <2>4. FromTo(s, a, b) = y
    BY <2>1, <2>2, <2>3, SeqEqual DEF q
  <2> QED
    BY <2>4 DEF a, b
<1>10. Len(s) = p + 1 + q
  BY <1>1, <1>4
<1> QED
  BY <1>1, <1>4, <1>5, <1>6, <1>7, <1>8, <1>9, <1>10 DEF Placed, p, q, s

(* Two elements, one after the other.                                      *)
LEMMA Appended ==
  ASSUME NEW T, NEW a \in T, NEW b \in T
  PROVE  LET two == Append(Append(<<>>, a), b) IN Len(two) = 2 /\ two[1] = a /\ two[2] = b
<1>1. <<>> \in Seq(T) /\ Len(<<>>) = 0
  OBVIOUS
<1> DEFINE one == Append(<<>>, a)
<1>2. one \in Seq(T) /\ Len(one) = 1 /\ one[1] = a
  BY <1>1
<1> HIDE DEF one
<1>3. Len(Append(one, b)) = 2 /\ Append(one, b)[1] = a /\ Append(one, b)[2] = b
  <2>1. /\ Len(Append(one, b)) = Len(one) + 1 /\ Append(one, b)[Len(one) + 1] = b
        /\ \A i \in 1 .. Len(one) : Append(one, b)[i] = one[i]
    BY <1>2, AppendProperties
  <2>2. 1 \in 1 .. Len(one) /\ Len(one) + 1 = 2
    BY <1>2
  <2>3. Append(one, b)[1] = one[1]
    BY <2>1, <2>2
  <2> QED
    BY <1>2, <2>1, <2>2, <2>3
<1> QED
  BY <1>3 DEF one

(* One cut makes two pieces.                                               *)
LEMMA TwoPieces ==
  ASSUME NEW T, NEW s \in Seq(T), NEW p \in 1 .. Len(s), NEW cuts, p \in cuts,
         \A i \in 1 .. Len(s) : i \in cuts => i = p
  PROVE  /\ Len(Pieces(s, cuts)) = 2
         /\ Pieces(s, cuts)[1] = FromTo(s, 1, p) /\ Pieces(s, cuts)[2] = FromTo(s, p + 1, Len(s) + 1)
<1> DEFINE N == Len(s)
           x == FromTo(s, 1, p)
           y == FromTo(s, p + 1, N + 1)
<1>1. /\ N \in Nat /\ p \in 1 .. N /\ 0 \in 0 .. N /\ p - 1 \in 0 .. N /\ p \in 0 .. N /\ N \in p .. N
      /\ p \in 1 .. N + 1 /\ p + 1 \in 1 .. N + 1
  OBVIOUS
<1>2. PICK scan : Scanned(T, s, cuts, scan)
  BY PiecesScanned
<1>3. /\ scan[0].done = <<>> /\ scan[0].start = 1
      /\ \A i \in 1 .. N : IF i \in cuts
           THEN scan[i].done = Append(scan[i - 1].done, FromTo(s, scan[i - 1].start, i)) /\ scan[i].start = i + 1
           ELSE scan[i] = scan[i - 1]
      /\ Pieces(s, cuts) = Append(scan[N].done, FromTo(s, scan[N].start, N + 1))
  BY <1>2, ScanIs
<1>4. x \in Seq(T) /\ y \in Seq(T)
  <2>1. x \in Seq(T)
    <3>1. 1 \in 1 .. Len(s) + 1 /\ p \in 1 .. Len(s) + 1
      BY <1>1
    <3> QED
      BY <3>1, FromToIs
  <2>2. y \in Seq(T)
    <3> DEFINE a == p + 1
               b == N + 1
    <3>1. a \in 1 .. Len(s) + 1 /\ b \in a .. Len(s) + 1
      BY <1>1
    <3> HIDE DEF a, b
    <3>2. FromTo(s, a, b) \in Seq(T)
      BY <3>1, FromToIs
    <3> QED
      BY <3>2 DEF a, b
  <2> QED
    BY <2>1, <2>2
<1>5. scan[p - 1] = scan[0]
  <2> DEFINE a == 0
             b == p - 1
  <2>1. a \in 0 .. Len(s) /\ b \in a .. Len(s) /\ \A i \in a + 1 .. b : i \notin cuts
    BY <1>1
  <2> HIDE DEF a, b
  <2>2. scan[b] = scan[a]
    BY <1>2, <2>1, NothingCut
  <2> QED
    BY <2>2 DEF a, b
<1>6. scan[N] = scan[p]
  <2> DEFINE b == N
  <2>1. p \in 0 .. Len(s) /\ b \in p .. Len(s) /\ \A i \in p + 1 .. b : i \notin cuts
    BY <1>1
  <2> HIDE DEF b
  <2>2. scan[b] = scan[p]
    BY <1>2, <2>1, NothingCut
  <2> QED
    BY <2>2 DEF b
<1>7. scan[p].done = Append(<<>>, x) /\ scan[p].start = p + 1
  BY <1>1, <1>3, <1>5
<1>8. Pieces(s, cuts) = Append(Append(<<>>, x), y)
  BY <1>3, <1>6, <1>7
<1> HIDE DEF x, y
<1> QED
  BY <1>4, <1>8, Appended DEF x, y

(* What does not need to be escaped in a field of an entry, and what may   *)
(* stand in an entry at all.                                               *)
Clean(symbols) ==
  \A k \in 1 .. Len(symbols) : symbols[k] \notin {Plain(<<";">>), Plain(<<"!">>), Plain(<<"#">>)}
Allowed(symbols) == \A k \in 1 .. Len(symbols) : symbols[k].chars \notin {<<c>> : c \in Forbidden}

(* Fields and the mark between them.                                       *)
LEMMA TwoFields ==
  ASSUME NEW x \in Seq(SymbolType), Clean(x), NEW y \in Seq(SymbolType), Clean(y)
  PROVE  LET s == Around(x, Plain(<<"#">>), y)
             fields == Pieces(s, Marks(s, "#"))
         IN Len(fields) = 2 /\ fields[1] = x /\ fields[2] = y
<1> DEFINE mark == Plain(<<"#">>)
           s == Around(x, mark, y)
           p == Len(x) + 1
<1>1. mark \in SymbolType
  <2>1. "#" \in STRING
    BY MarksAssumption
  <2> QED
    BY <2>1, OneOrTwo DEF Plain, SymbolType
<1> HIDE DEF mark
<1>3. /\ s \in Seq(SymbolType) /\ Len(s) = Len(x) + 1 + Len(y) /\ Len(x) \in Nat /\ Len(y) \in Nat
      /\ s[Len(x) + 1] = mark
      /\ \A i \in 1 .. Len(x) : s[i] = x[i]
      /\ \A i \in 1 .. Len(y) : s[Len(x) + 1 + i] = y[i]
      /\ FromTo(s, 1, Len(x) + 1) = x /\ FromTo(s, Len(x) + 2, Len(s) + 1) = y
  <2>1. s \in Seq(SymbolType) /\ Placed(x, mark, y, s)
    BY <1>1, Between
  <2> HIDE DEF s
  <2> QED
    BY <2>1 DEF Placed
<1> HIDE DEF s
<1>4. DOMAIN s = 1 .. Len(s)
  BY <1>3
<1>5. ASSUME NEW i \in 1 .. Len(s) PROVE s[i] = mark <=> i = Len(x) + 1
  <2>1. CASE i < Len(x) + 1
    <3>1. i \in 1 .. Len(x)
      BY <1>3, <2>1
    <3>2. s[i] # mark
      BY <1>3, <3>1 DEF Clean, mark
    <3> QED
      BY <1>3, <2>1, <3>2
  <2>2. CASE i = Len(x) + 1
    BY <1>3, <2>2
  <2>3. CASE i > Len(x) + 1
    <3> DEFINE k == i - (Len(x) + 1)
    <3>1. k \in 1 .. Len(y) /\ i = Len(x) + 1 + k
      BY <1>3, <2>3
    <3> HIDE DEF k
    <3>2. y[k] # mark
      BY <3>1 DEF Clean, mark
    <3>3. s[i] = y[k]
      BY <1>3, <3>1
    <3>4. i # Len(x) + 1
      BY <1>3, <2>3
    <3> QED
      BY <3>2, <3>3, <3>4
  <2>4. i < Len(x) + 1 \/ i = Len(x) + 1 \/ i > Len(x) + 1
    BY <1>3
  <2> QED
    BY <2>1, <2>2, <2>3, <2>4
<1> DEFINE cuts == Marks(s, "#")
<1>6. \A i \in 1 .. Len(s) : i \in cuts <=> i = p
  BY <1>4, <1>5 DEF Marks, mark
<1>7. p \in 1 .. Len(s) /\ p + 1 = Len(x) + 2
  BY <1>3
<1>8. FromTo(s, 1, p) = x /\ FromTo(s, p + 1, Len(s) + 1) = y
  BY <1>3, <1>7
<1> HIDE DEF cuts, p
<1>9. /\ Len(Pieces(s, cuts)) = 2
      /\ Pieces(s, cuts)[1] = FromTo(s, 1, p) /\ Pieces(s, cuts)[2] = FromTo(s, p + 1, Len(s) + 1)
  <2>1. p \in cuts /\ (\A i \in 1 .. Len(s) : i \in cuts => i = p) /\ s \in Seq(SymbolType)
    BY <1>3, <1>6, <1>7
  <2> QED
    BY <1>7, <2>1, TwoPieces
<1> QED
  BY <1>8, <1>9 DEF cuts, s, mark

(* One field.                                                              *)
LEMMA OneField ==
  ASSUME NEW s \in Seq(SymbolType), NEW c, Clean(s), c \in {";", "!", "#"}
  PROVE  Marks(s, c) = {} /\ Len(Pieces(s, Marks(s, c))) = 1 /\ Pieces(s, Marks(s, c))[1] = s
<1>1. DOMAIN s = 1 .. Len(s)
  BY LenProperties
<1>2. Marks(s, c) = {}
  BY <1>1 DEF Marks, Clean
<1> DEFINE cuts == Marks(s, c)
<1>3. \A i \in 1 .. Len(s) : i \notin cuts
  BY <1>2
<1> HIDE DEF cuts
<1>4. Len(Pieces(s, cuts)) = 1 /\ Pieces(s, cuts)[1] = s
  BY <1>3, OnePiece
<1> QED
  BY <1>2, <1>4 DEF cuts

(* A pattern that is written again is the same pattern, and nothing in it  *)
(* can be taken for a mark or an arrow.                                    *)
LEMMA PatternKept ==
  ASSUME NEW s, NEW symbols, NEW at, Reads(s, symbols, at), NEW key \in Pattern(symbols)
  PROVE  LET again == PatternRewritten(symbols)
         IN /\ again \in Seq(SymbolType) /\ Len(again) = Len(symbols)
            /\ Pattern(again) = {key} /\ Clean(again) /\ (Allowed(symbols) => Allowed(again))
            /\ \A k \in 1 .. Len(again) : again[k] # Plain(Arrow) /\ again[k] # Escape(<<>>)
<1> DEFINE again == PatternRewritten(symbols)
           L == Len(symbols)
           tokens == [k \in DOMAIN symbols |-> PatternToken(symbols[k])]
           others == [k \in DOMAIN again |-> PatternToken(again[k])]
<1>1. /\ symbols \in Seq(SymbolType) /\ L \in Nat /\ DOMAIN symbols = 1 .. L
  BY DEF Reads, ReadsFrom
<1>2. /\ key = Joined(tokens, {}) /\ again \in Seq(SymbolType) /\ Len(again) = L
      /\ \A k \in 1 .. L : ~BadInPattern(symbols[k]) /\ symbols[k].chars # <<>> /\ symbols[k] \in SymbolType
  BY <1>1, PatternSymbols
<1>3. \A k \in 1 .. L : again[k] = IF symbols[k] = Plain(<<"*">>) THEN symbols[k]
                                   ELSE Rewritten(symbols[k], PatternMarks)
  BY <1>1 DEF PatternRewritten
<1>4. DOMAIN again = 1 .. L
  BY <1>2
<1> HIDE DEF L, tokens, again
<1>5. ASSUME NEW k \in 1 .. L
      PROVE  /\ ~BadInPattern(again[k]) /\ PatternToken(again[k]) = PatternToken(symbols[k])
             /\ again[k].chars = symbols[k].chars
             /\ again[k] \notin {Plain(<<";">>), Plain(<<"!">>), Plain(<<"#">>), Plain(Arrow), Escape(<<>>)}
  <2> DEFINE y == symbols[k]
             z == again[k]
  <2>1. ~BadInPattern(y) /\ y.chars # <<>> /\ y \in SymbolType /\ z = IF y = Plain(<<"*">>) THEN y ELSE Rewritten(y, PatternMarks)
    BY <1>2, <1>3
  <2> HIDE DEF y, z
  <2>2. \A a, b : Plain(a) # Escape(b) /\ (Plain(a) = Plain(b) => a = b)
    BY DEF Plain, Escape
  <2>3. \A a : Plain(a).chars = a /\ Escape(a).chars = a /\ Escape(a).escaped /\ ~Plain(a).escaped
    BY DEF Plain, Escape
  <2>4. CASE y = Plain(<<"*">>)
    <3>1. z = y
      BY <2>1, <2>4
    <3>2. \A c \in {";", "!", "#"} : <<"*">> # <<c>>
      OBVIOUS
    <3>3. <<"*">> # Arrow
      BY DEF Arrow
    <3>4. z \notin {Plain(<<";">>), Plain(<<"!">>), Plain(<<"#">>), Plain(Arrow), Escape(<<>>)}
      BY <2>2, <2>4, <3>1, <3>2, <3>3, Zenon
    <3> QED
      BY <2>1, <3>1, <3>4 DEF y, z
  <2>5. CASE y # Plain(<<"*">>) /\ Special(y.chars, PatternMarks)
    <3>1. z = Escape(y.chars)
      BY <2>1, <2>5 DEF Rewritten
    <3>2. y.chars \in PatternEscapes
      BY <2>5 DEF Special, PatternMarks, PatternEscapes
    <3>3. ~BadInPattern(z)
      BY <2>3, <3>1, <3>2 DEF BadInPattern
    <3>4. PatternToken(z) = Literal(y.chars) /\ PatternToken(y) = Literal(y.chars)
      BY <2>2, <2>3, <2>5, <3>1 DEF PatternToken
    <3>5. \A a : z # Plain(a)
      BY <2>2, <3>1
    <3>6. z # Escape(<<>>) /\ z.chars = y.chars
      BY <2>1, <2>3, <3>1
    <3> QED
      BY <3>3, <3>4, <3>5, <3>6 DEF y, z
  <2>6. CASE y # Plain(<<"*">>) /\ ~Special(y.chars, PatternMarks)
    <3>1. z = y
      BY <2>1, <2>6 DEF Rewritten
    <3>2. \A c \in {";", "!", "#"} : y.chars # <<c>>
      BY <2>6 DEF Special, PatternMarks
    <3>3. y.chars # Arrow
      BY <2>6 DEF Special
    <3>4. z \notin {Plain(<<";">>), Plain(<<"!">>), Plain(<<"#">>), Plain(Arrow), Escape(<<>>)}
      BY <2>1, <2>3, <3>1, <3>2, <3>3
    <3> QED
      BY <2>1, <3>1, <3>4 DEF y, z
  <2> QED
    BY <2>4, <2>5, <2>6
<1>6. others = tokens
  BY <1>1, <1>4, <1>5 DEF tokens, L
<1>7. Pattern(again) = {key}
  <2>1. Pattern(again) = IF \E k \in DOMAIN again : BadInPattern(again[k]) THEN {} ELSE {Joined(others, {})}
    BY DEF Pattern, BadInPattern, PatternEscapes, PatternToken
  <2>2. ~\E k \in DOMAIN again : BadInPattern(again[k])
    BY <1>4, <1>5
  <2> HIDE DEF others
  <2> QED
    BY <1>2, <1>6, <2>1, <2>2
<1>8. Clean(again) /\ (Allowed(symbols) => Allowed(again))
  BY <1>2, <1>5 DEF Clean, Allowed, L
<1>9. \A k \in 1 .. Len(again) : again[k] # Plain(Arrow) /\ again[k] # Escape(<<>>)
  BY <1>2, <1>5
<1> QED
  BY <1>2, <1>7, <1>8, <1>9 DEF again, L

(* A key without wildcards is one literal.                                 *)
LEMMA ExactKey ==
  ASSUME NEW s, NEW symbols, NEW at, Reads(s, symbols, at), symbols # <<>>, NEW key \in Pattern(symbols)
  PROVE  /\ key \in Flushed(1) /\ key # <<>>
         /\ Captures(key) \in Nat /\ (Captures(key) = 0 => key = <<Literal(key[1].literal)>>)
<1>1. s \in Seq(STRING) /\ s # <<>>
  <2>1. Reading(s, symbols)
    BY DEF Reading
  <2> QED
    BY <2>1, EmptyReads
<1>2. key \in parseFind(s)
  BY PatternsAgree
<1>3. key \in Flushed(1) /\ key # <<>>
  <2>1. Len(s) > 0
    BY <1>1
  <2> QED
    BY <1>1, <1>2, <2>1, PatternIsRead, TokensAreFlushed DEF parseFind
<1>4. key \in Seq(TokensUpTo(1)) /\ Len(key) \in Nat \ {0}
  BY <1>3 DEF Flushed
<1>5. ASSUME Captures(key) = 0 PROVE key = <<Literal(key[1].literal)>>
  <2>1. \A k \in 1 .. Len(key) : key[k].capture = 0
    BY <1>4, <1>5, CapturesCounted
  <2>2. Len(key) = 1
    <3> SUFFICES ASSUME Len(key) # 1 PROVE FALSE
      OBVIOUS
    <3> DEFINE n == Len(key)
    <3>1. n \in Nat \ {0} /\ n # 1
      BY <1>4
    <3> HIDE DEF n
    <3>2. 2 \in 2 .. n /\ 2 \in 1 .. n /\ 1 \in 1 .. n /\ 2 - 1 = 1
      BY <3>1
    <3>3. key[2].capture # 0 \/ key[2 - 1].capture # 0
      BY <1>3, <3>2 DEF Flushed, n
    <3> QED
      BY <2>1, <3>2, <3>3 DEF n
  <2>3. key[1] \in TokensUpTo(1) /\ key[1].capture = 0
    BY <1>4, <2>1
  <2>4. key[1] = Literal(key[1].literal)
    BY <2>3 DEF TokensUpTo, Literal
  <2>5. key = <<key[1]>>
    BY <1>4, <2>2
  <2> QED
    BY <2>4, <2>5
<1>6. Captures(key) \in Nat
  BY <1>4, CapturesCounted
<1> QED
  BY <1>3, <1>5, <1>6

(* What a key of a rule becomes.                                           *)
ScopeOf(key) ==
  IF Captures(key) > 0 THEN [exact |-> {}, pattern |-> key]
  ELSE [exact |-> {callerScope(key[1].literal)}, pattern |-> <<>>]

(* A scope is written as its key was read.                                 *)
LEMMA ScopeWritten ==
  ASSUME NEW s, NEW symbols, NEW at, Reads(s, symbols, at), NEW scope \in Scope(symbols)
  PROVE  /\ symbols # <<>>
         /\ \E key \in Pattern(symbols) : /\ WrittenScope(scope) = Append(WrittenPattern(key), "#")
                                          /\ Scope(PatternRewritten(symbols)) = {scope}
<1> DEFINE again == PatternRewritten(symbols)
<1>1. symbols # <<>> /\ \E key \in Pattern(symbols) : scope = ScopeOf(key)
  BY DEF Scope, ScopeOf
<1>2. PICK key \in Pattern(symbols) : scope = ScopeOf(key)
  BY <1>1
<1>3. /\ key \in Flushed(1) /\ key # <<>>
      /\ Captures(key) \in Nat /\ (Captures(key) = 0 => key = <<Literal(key[1].literal)>>)
  BY <1>1, ExactKey
<1>4. Scope(again) = {scope}
  <2>1. symbols \in Seq(SymbolType)
    BY DEF Reads, ReadsFrom
  <2>2. again \in Seq(SymbolType) /\ Len(again) = Len(symbols) /\ Pattern(again) = {key}
    BY PatternKept
  <2> HIDE DEF again
  <2>3. again # <<>>
    BY <1>1, <2>1, <2>2
  <2> QED
    BY <1>2, <2>2, <2>3 DEF Scope, ScopeOf
<1>5. CASE Captures(key) > 0
  <2>1. scope.pattern = key /\ scope # Unscoped
    BY <1>2, <1>3, <1>5 DEF ScopeOf, Unscoped
  <2>2. WrittenScope(scope) = Append(WrittenPattern(key), "#")
    BY <1>3, <2>1 DEF WrittenScope
  <2> QED
    BY <1>1, <1>4, <2>2
<1>6. CASE ~(Captures(key) > 0)
  <2> DEFINE digest == callerScope(key[1].literal)
             chosen == CHOOSE d \in scope.exact : TRUE
  <2>1. scope = [exact |-> {digest}, pattern |-> <<>>]
    BY <1>2, <1>6 DEF ScopeOf
  <2>2. digest.sha256 = key[1].literal
    BY DEF callerScope
  <2> HIDE DEF digest
  <2>3. scope # Unscoped /\ scope.pattern = <<>> /\ scope.exact = {digest}
    BY <2>1 DEF Unscoped
  <2>4. chosen = digest
    <3>1. \E d : d \in scope.exact
      BY <2>3
    <3>2. chosen \in scope.exact
      BY <3>1, Zenon
    <3> QED
      BY <2>3, <3>2
  <2>5. WrittenScope(scope) = Append(WrittenPattern(<<Literal(chosen.sha256)>>), "#")
    BY <2>3, Zenon DEF WrittenScope
  <2>6. key = <<Literal(chosen.sha256)>>
    <3>1. Captures(key) = 0
      BY <1>3, <1>6
    <3> QED
      BY <1>3, <2>2, <2>4, <3>1
  <2> QED
    BY <1>1, <1>4, <2>5, <2>6
<1> QED
  BY <1>5, <1>6

(* A body with one arrow maps what stands before it to what stands after.  *)
LEMMA BodyIs ==
  ASSUME NEW q \in Seq(SymbolType), NEW k, Arrows(q) = {k}
  PROVE  LET find == FromTo(q, 1, k)
             replace == FromTo(q, k + 1, Len(q) + 1)
         IN /\ k \in 1 .. Len(q) /\ q[k] = Plain(Arrow)
            /\ Body(q) = IF find = <<>> \/ replace = <<>> THEN {} ELSE ReadMapping(find, replace)
<1> DEFINE M == Len(q)
           find == FromTo(q, 1, k)
           replace == FromTo(q, k + 1, M + 1)
           chosen == CHOOSE j \in Arrows(q) : TRUE
           after(j) == SubSeq(q, j + 1, M)
           Mapped(j) == IF FromTo(q, 1, j) = <<>> \/ after(j) = <<>> THEN {}
                        ELSE ReadMapping(FromTo(q, 1, j), after(j))
<1>1. M \in Nat /\ DOMAIN q = 1 .. M
  OBVIOUS
<1>2. k \in 1 .. M /\ q[k] = Plain(Arrow)
  BY <1>1 DEF Arrows
<1>3. ASSUME NEW x PROVE q # <<Escape(x)>>
  <2> SUFFICES ASSUME q = <<Escape(x)>> PROVE FALSE
    OBVIOUS
  <2>1. Len(q) = 1 /\ q[1] = Escape(x)
    BY OneLength
  <2>2. k = 1
    BY <1>2, <2>1
  <2> QED
    BY <1>2, <2>1, <2>2 DEF Plain, Escape
<1>4. Cardinality(Arrows(q)) = 1
  BY FS_Singleton
<1>5. chosen = k
  OBVIOUS
<1>6. Body(q) = IF q = <<Escape(<<"a">>)>> THEN {CaseOperation("lower")}
                ELSE IF q = <<Escape(<<"A">>)>> THEN {CaseOperation("upper")}
                ELSE IF Cardinality(Arrows(q)) # 1 THEN {} ELSE Mapped(chosen)
  BY DEF Body, ReadMapping
<1>7. after(k) = replace
  <2>1. (M + 1) - 1 = M
    BY <1>1
  <2> QED
    BY <2>1 DEF FromTo
<1> HIDE DEF after, chosen
<1>8. Mapped(chosen) = IF find = <<>> \/ replace = <<>> THEN {} ELSE ReadMapping(find, replace)
  BY <1>5, <1>7
<1> HIDE DEF Mapped, find, replace
<1>9. Body(q) = Mapped(chosen)
  BY <1>3, <1>4, <1>6
<1> QED
  BY <1>2, <1>8, <1>9 DEF find, replace

(* A body is one of the two operations on the case, or has one arrow.      *)
LEMMA BodyCases ==
  ASSUME NEW q \in Seq(SymbolType), NEW body \in Body(q)
  PROVE  \/ q = <<Escape(<<"a">>)>> /\ body = CaseOperation("lower")
         \/ q = <<Escape(<<"A">>)>> /\ body = CaseOperation("upper")
         \/ \E k : Arrows(q) = {k}
<1>1. CASE q = <<Escape(<<"a">>)>>
  BY <1>1 DEF Body
<1>2. CASE q # <<Escape(<<"a">>)>> /\ q = <<Escape(<<"A">>)>>
  BY <1>2 DEF Body
<1>3. CASE q # <<Escape(<<"a">>)>> /\ q # <<Escape(<<"A">>)>>
  <2>1. Cardinality(Arrows(q)) = 1
    <3>1. Cardinality(Arrows(q)) # 1 => Body(q) = {}
      BY <1>3, Zenon DEF Body
    <3> QED
      BY <3>1
  <2>2. IsFiniteSet(Arrows(q))
    <3>1. Arrows(q) \subseteq 1 .. Len(q) /\ Len(q) \in Nat
      BY DEF Arrows
    <3>2. IsFiniteSet(1 .. Len(q))
      BY <3>1, FS_Interval
    <3> QED
      BY <3>1, <3>2, FS_Subset
  <2> QED
    BY <2>1, <2>2, OneElement
<1> QED
  BY <1>1, <1>2, <1>3

(* Every element comes from one of the two sequences or stands between.    *)
LEMMA ElementOf ==
  ASSUME NEW x, NEW m, NEW y, NEW s, Placed(x, m, y, s), NEW i \in 1 .. Len(s)
  PROVE  \/ i = Len(x) + 1 /\ s[i] = m
         \/ i # Len(x) + 1 /\ ((\E j \in 1 .. Len(x) : s[i] = x[j]) \/ \E j \in 1 .. Len(y) : s[i] = y[j])
<1>1. /\ Len(s) = Len(x) + 1 + Len(y) /\ Len(x) \in Nat /\ Len(y) \in Nat
      /\ s[Len(x) + 1] = m
      /\ \A j \in 1 .. Len(x) : s[j] = x[j]
      /\ \A j \in 1 .. Len(y) : s[Len(x) + 1 + j] = y[j]
  BY DEF Placed
<1> DEFINE p == Len(x)
           q == Len(y)
           n == Len(s)
           k == i - (p + 1)
<1>2. p \in Nat /\ q \in Nat /\ n = p + 1 + q /\ i \in 1 .. n
  BY <1>1
<1> HIDE DEF p, q, n
<1>3. CASE i <= p
  <2>1. i \in 1 .. p /\ i # p + 1
    BY <1>2, <1>3
  <2> QED
    BY <1>1, <2>1 DEF p
<1>4. CASE i = p + 1
  BY <1>1, <1>4 DEF p
<1>5. CASE i > p + 1
  <2>1. k \in 1 .. q /\ p + 1 + k = i /\ i # p + 1
    BY <1>2, <1>5
  <2> HIDE DEF k
  <2>2. s[i] = y[k]
    BY <1>1, <2>1 DEF p, q
  <2> QED
    BY <2>1, <2>2 DEF p, q
<1>6. i <= p \/ i = p + 1 \/ i > p + 1
  BY <1>2
<1> QED
  BY <1>3, <1>4, <1>5, <1>6

(* Two fields are as clean together as apart.                              *)
LEMMA CleanTogether ==
  ASSUME NEW x, NEW m, NEW y, NEW s, Placed(x, m, y, s)
  PROVE  /\ Clean(x) /\ Clean(y) /\ m \notin {Plain(<<";">>), Plain(<<"!">>), Plain(<<"#">>)} => Clean(s)
         /\ Allowed(x) /\ Allowed(y) /\ m.chars \notin {<<c>> : c \in Forbidden} => Allowed(s)
<1>1. ASSUME NEW i \in 1 .. Len(s)
      PROVE  s[i] = m \/ (\E j \in 1 .. Len(x) : s[i] = x[j]) \/ \E j \in 1 .. Len(y) : s[i] = y[j]
  BY ElementOf
<1>2. ASSUME Clean(x), Clean(y), m \notin {Plain(<<";">>), Plain(<<"!">>), Plain(<<"#">>)} PROVE Clean(s)
  <2> DEFINE marks == {Plain(<<";">>), Plain(<<"!">>), Plain(<<"#">>)}
  <2>1. (\A j \in 1 .. Len(x) : x[j] \notin marks) /\ (\A j \in 1 .. Len(y) : y[j] \notin marks) /\ m \notin marks
    BY <1>2, Zenon DEF Clean
  <2> HIDE DEF marks
  <2>2. \A i \in 1 .. Len(s) : s[i] \notin marks
    BY <1>1, <2>1
  <2> QED
    BY <2>2, Zenon DEF Clean, marks
<1>3. ASSUME Allowed(x), Allowed(y), m.chars \notin {<<c>> : c \in Forbidden} PROVE Allowed(s)
  <2> DEFINE bad == {<<c>> : c \in Forbidden}
  <2>1. (\A j \in 1 .. Len(x) : x[j].chars \notin bad) /\ (\A j \in 1 .. Len(y) : y[j].chars \notin bad) /\ m.chars \notin bad
    BY <1>3, Zenon DEF Allowed
  <2> HIDE DEF bad
  <2>2. \A i \in 1 .. Len(s) : s[i].chars \notin bad
    BY <1>1, <2>1
  <2> QED
    BY <2>2, Zenon DEF Allowed, bad
<1> QED
  BY <1>2, <1>3

(* A part of a field is as clean as the field.                             *)
LEMMA CleanInPart ==
  ASSUME NEW q \in Seq(SymbolType), Clean(q), Allowed(q),
         NEW a \in 1 .. Len(q) + 1, NEW b \in a .. Len(q) + 1
  PROVE  Clean(FromTo(q, a, b)) /\ Allowed(FromTo(q, a, b))
<1> DEFINE p == FromTo(q, a, b)
<1>1. Len(p) = b - a /\ \A k \in 1 .. b - a : p[k] = q[a + k - 1]
  BY FromToIs
<1>2. \A k \in 1 .. b - a : a + k - 1 \in 1 .. Len(q)
  OBVIOUS
<1> HIDE DEF p
<1>3. \A k \in 1 .. Len(p) : \E i \in 1 .. Len(q) : p[k] = q[i]
  BY <1>1, <1>2
<1>4. Clean(p)
  BY <1>3 DEF Clean
<1>5. Allowed(p)
  BY <1>3 DEF Allowed
<1> QED
  BY <1>4, <1>5 DEF p

(* What a written part of a rule is read as.                               *)
WrittenAs(text, again) ==
  /\ Reading(text, again) /\ again # <<>> /\ Clean(again) /\ Allowed(again)

(* A mapping is written with an arrow between its two parts.               *)
LEMMA MappingWritten ==
  ASSUME NEW s, NEW q, NEW at, Reads(s, q, at), Clean(q), Allowed(q), NEW k, Arrows(q) = {k},
         NEW body \in Body(q)
  PROVE  \E again : WrittenAs(WrittenBody(body), again) /\ Body(again) = {body}
<1> DEFINE M == Len(q)
           find == FromTo(q, 1, k)
           replace == FromTo(q, k + 1, M + 1)
           made == PatternRewritten(find)
           arrow == Plain(Arrow)
           again == Around(made, arrow, replace)
<1>1. /\ q \in Seq(SymbolType) /\ M \in Nat /\ s \in Seq(STRING)
  BY DEF Reads, ReadsFrom
<1>2. /\ k \in 1 .. M /\ q[k] = arrow
      /\ Body(q) = IF find = <<>> \/ replace = <<>> THEN {} ELSE ReadMapping(find, replace)
  BY <1>1, BodyIs
<1>3. find # <<>> /\ replace # <<>> /\ body \in ReadMapping(find, replace)
  <2> HIDE DEF find, replace
  <2> QED
    BY <1>2
<1>4. PICK f \in Pattern(find) : \E r \in Replacement(replace, Captures(f)) :
        body = [case |-> "none", pattern |-> f, replacement |-> r]
  BY <1>3 DEF ReadMapping
<1>5. PICK r \in Replacement(replace, Captures(f)) :
        body = [case |-> "none", pattern |-> f, replacement |-> r]
  BY <1>4
<1>6. PICK fat : Reads(FromTo(s, at[1], at[k]), find, fat)
  <2>1. 1 \in 1 .. Len(q) + 1 /\ k \in 1 .. Len(q) + 1
    BY <1>1, <1>2
  <2> QED
    BY <2>1, PartReads
<1>7. PICK rat : Reads(FromTo(s, at[k + 1], at[M + 1]), replace, rat)
  <2> DEFINE a == k + 1
             b == M + 1
  <2>1. a \in 1 .. Len(q) + 1 /\ b \in a .. Len(q) + 1
    BY <1>1, <1>2
  <2>2. replace = FromTo(q, a, b)
    OBVIOUS
  <2> HIDE DEF a, b
  <2>3. \E part : Reads(FromTo(s, at[a], at[b]), FromTo(q, a, b), part)
    BY <2>1, PartReads
  <2> HIDE DEF replace
  <2> QED
    BY <2>2, <2>3 DEF a, b
<1>8. Clean(find) /\ Allowed(find) /\ Clean(replace) /\ Allowed(replace)
  <2>1. Clean(find) /\ Allowed(find)
    <3>1. 1 \in 1 .. Len(q) + 1 /\ k \in 1 .. Len(q) + 1
      BY <1>1, <1>2
    <3> QED
      BY <1>1, <3>1, CleanInPart
  <2>2. Clean(replace) /\ Allowed(replace)
    <3> DEFINE a == k + 1
               b == M + 1
    <3>1. a \in 1 .. Len(q) + 1 /\ b \in a .. Len(q) + 1
      BY <1>1, <1>2
    <3> HIDE DEF a, b
    <3>2. Clean(FromTo(q, a, b)) /\ Allowed(FromTo(q, a, b))
      BY <1>1, <3>1, CleanInPart
    <3> QED
      BY <3>2 DEF a, b
  <2> QED
    BY <2>1, <2>2
<1>9. \A i \in 1 .. Len(replace) : replace[i] # arrow
  <2> DEFINE a == k + 1
             b == M + 1
  <2>1. a \in 1 .. Len(q) + 1 /\ b \in a .. Len(q) + 1 /\ replace = FromTo(q, a, b)
    BY <1>1, <1>2
  <2>2. \A i \in 1 .. b - a : a + i - 1 \in 1 .. M /\ a + i - 1 # k
    BY <1>1, <1>2
  <2> HIDE DEF a, b, replace
  <2>3. Len(replace) = b - a /\ \A i \in 1 .. b - a : replace[i] = q[a + i - 1]
    BY <1>1, <2>1, FromToIs
  <2>4. \A j \in 1 .. M : q[j] = arrow => j = k
    BY <1>1 DEF Arrows
  <2> QED
    BY <2>2, <2>3, <2>4
<1> HIDE DEF find, replace, M
<1>10. NoMarks(replace)
  BY <1>8, <1>9 DEF Clean, NoMarks
<1>11. /\ made \in Seq(SymbolType) /\ Len(made) = Len(find) /\ Pattern(made) = {f} /\ Clean(made) /\ Allowed(made)
       /\ \A j \in 1 .. Len(made) : made[j] # arrow /\ made[j] # Escape(<<>>)
  BY <1>6, <1>8, PatternKept
<1>12. find \in Seq(SymbolType) /\ replace \in Seq(SymbolType)
  BY <1>6, <1>7 DEF Reads, ReadsFrom
<1>13. Reading(WrittenPattern(f), made)
  BY <1>6, PatternWritten
<1>14. Captures(f) \in Nat
  BY <1>3, <1>6, ExactKey
<1>15. Reading(WrittenReplacement(r), replace)
  BY <1>7, <1>10, <1>14, ReplacementWritten
<1>16. Replacement(replace, Captures(f)) = {r}
  <2> DEFINE c == Captures(f)
             x == Joined(ReplacementTokens(replace), Skipped(replace))
  <2>1. Replacement(replace, c) = {} \/ Replacement(replace, c) = {x}
    BY <1>12, ReplacementIs
  <2> HIDE DEF x
  <2> QED
    BY <1>5, <2>1
<1>17. arrow \in SymbolType /\ arrow # Escape(<<>>) /\ arrow.chars = Arrow
       /\ arrow \notin {Plain(<<";">>), Plain(<<"!">>), Plain(<<"#">>)}
  <2>1. Arrow \in Seq(STRING)
    BY ArrowsRead
  <2>2. \A x : Arrow # <<x>>
    BY DEF Arrow
  <2>3. \A a, b : Plain(a) # Escape(b) /\ (Plain(a) = Plain(b) => a = b) /\ Plain(a).chars = a
    BY DEF Plain, Escape
  <2> QED
    BY <2>1, <2>2, <2>3 DEF Plain, SymbolType
<1> HIDE DEF made, arrow
<1>18. again \in Seq(SymbolType) /\ Placed(made, arrow, replace, again)
  BY <1>11, <1>12, <1>17, Between
<1>19. Reading(WrittenPattern(f) \o Arrow \o WrittenReplacement(r), again)
  <2> DEFINE a == WrittenPattern(f)
             b == WrittenReplacement(r)
             tail == <<arrow>> \o replace
  <2>1. a \in Seq(STRING) /\ b \in Seq(STRING) /\ Arrow \in Seq(STRING) /\ Reading(Arrow, <<arrow>>)
    <3>1. a \in Seq(STRING)
      BY <1>13, EmptyReads
    <3>2. b \in Seq(STRING)
      BY <1>15, EmptyReads
    <3> QED
      BY <3>1, <3>2, ArrowsRead DEF arrow
  <2>2. Reading(Arrow \o b, tail)
    <3>1. Arrow[Len(Arrow)] # "="
      BY ArrowLength
    <3> HIDE DEF b
    <3> QED
      BY <1>15, <1>17, <2>1, <3>1, SymbolThen DEF b
  <2>3. (Arrow \o b)[1] # ">"
    <3>1. Len(Arrow) = 2 /\ 1 \in 1 .. Len(Arrow) /\ Arrow[1] = "="
      BY ArrowLength
    <3>2. (Arrow \o b)[1] = Arrow[1]
      <4> HIDE DEF b
      <4>1. Len(b) \in Nat
        BY <2>1
      <4>2. 1 \in 1 .. Len(Arrow) + Len(b) /\ 1 <= Len(Arrow)
        BY <3>1, <4>1
      <4> QED
        BY <2>1, <3>1, <4>2, ConcatProperties
    <3> QED
      BY <3>1, <3>2
  <2>4. made # <<>> => made[Len(made)] # Escape(<<>>)
    <3>1. made # <<>> => Len(made) \in 1 .. Len(made)
      BY <1>11
    <3> QED
      BY <1>11, <3>1
  <2> DEFINE second == Arrow \o b
  <2>5. Reading(second, tail) /\ second[1] # ">"
    BY <2>2, <2>3
  <2> HIDE DEF a, tail, second
  <2>6. Reading(a, made)
    BY <1>13 DEF a
  <2>7. Reading(a \o second, made \o tail)
    BY <2>4, <2>5, <2>6, ReadingJoined
  <2>8. (a \o Arrow) \o b = a \o second
    <3> HIDE DEF b
    <3> QED
      BY <2>1, ConcatAssociative DEF second
  <2>9. made \o tail = again
    BY DEF tail, Around
  <2> QED
    BY <2>7, <2>8, <2>9 DEF a
<1>20. WrittenBody(body) = WrittenPattern(f) \o Arrow \o WrittenReplacement(r)
  <2>1. body.case = "none" /\ body.pattern = f /\ body.replacement = r
    BY <1>5
  <2>2. body.case # "lower" /\ body.case # "upper"
    BY <2>1
  <2> QED
    BY <2>1, <2>2 DEF WrittenBody
<1> HIDE DEF again
<1>21. Arrows(again) = {Len(made) + 1}
  <2>1. /\ Len(again) = Len(made) + 1 + Len(replace) /\ Len(made) \in Nat /\ Len(replace) \in Nat
        /\ again[Len(made) + 1] = arrow
    BY <1>18 DEF Placed
  <2>2. DOMAIN again = 1 .. Len(again)
    BY <1>18
  <2>3. ASSUME NEW i \in 1 .. Len(again) PROVE again[i] = arrow <=> i = Len(made) + 1
    <3>1. \/ i = Len(made) + 1 /\ again[i] = arrow
          \/ i # Len(made) + 1 /\ ((\E j \in 1 .. Len(made) : again[i] = made[j])
                                     \/ \E j \in 1 .. Len(replace) : again[i] = replace[j])
      BY <1>18, ElementOf
    <3> QED
      BY <1>9, <1>11, <3>1
  <2>4. Len(made) + 1 \in 1 .. Len(again)
    BY <2>1
  <2> QED
    BY <2>2, <2>3, <2>4 DEF Arrows, arrow
<1>22. Body(again) = ReadMapping(made, replace)
  <2> DEFINE p == Len(made) + 1
  <2>1. /\ FromTo(again, 1, p) = made /\ FromTo(again, p + 1, Len(again) + 1) = replace
    <3>1. Len(made) \in Nat /\ FromTo(again, 1, Len(made) + 1) = made
          /\ FromTo(again, Len(made) + 2, Len(again) + 1) = replace
      BY <1>18 DEF Placed
    <3>2. p + 1 = Len(made) + 2
      BY <3>1
    <3> QED
      BY <3>1, <3>2
  <2>2. made # <<>>
    BY <1>3, <1>11, <1>12
  <2>3. Arrows(again) = {p}
    BY <1>21
  <2> HIDE DEF p
  <2>4. Body(again) = IF FromTo(again, 1, p) = <<>> \/ FromTo(again, p + 1, Len(again) + 1) = <<>> THEN {}
          ELSE ReadMapping(FromTo(again, 1, p), FromTo(again, p + 1, Len(again) + 1))
    BY <1>18, <2>3, BodyIs
  <2> QED
    BY <1>3, <2>1, <2>2, <2>4
<1>23. ReadMapping(made, replace) = {body}
  BY <1>5, <1>11, <1>16 DEF ReadMapping
<1>24. again # <<>>
  BY <1>18 DEF Placed
<1>25. Clean(again) /\ Allowed(again)
  <2>1. arrow.chars \notin {<<c>> : c \in Forbidden}
    <3>1. \A x : Arrow # <<x>>
      BY DEF Arrow
    <3> QED
      BY <1>17, <3>1
  <2> QED
    BY <1>8, <1>11, <1>17, <1>18, <2>1, CleanTogether
<1> QED
  BY <1>19, <1>20, <1>22, <1>23, <1>24, <1>25 DEF WrittenAs

(* A body is written as it was read.                                       *)
LEMMA BodyWritten ==
  ASSUME NEW s, NEW q, NEW at, Reads(s, q, at), Clean(q), Allowed(q), NEW body \in Body(q)
  PROVE  \E again : WrittenAs(WrittenBody(body), again) /\ Body(again) = {body}
<1>1. q \in Seq(SymbolType) /\ Reading(s, q)
  BY DEF Reads, ReadsFrom, Reading
<1>2. ASSUME NEW x, q = <<Escape(<<x>>)>>, WrittenBody(body) = <<"\\", x>>, Body(q) = {body}
      PROVE  WrittenAs(WrittenBody(body), q) /\ Body(q) = {body}
  <2>1. s = <<"\\", x>>
    BY <1>2, OneEscape
  <2>2. q # <<>>
    BY <1>2
  <2> QED
    BY <1>1, <1>2, <2>1, <2>2 DEF WrittenAs
<1>3. CASE q = <<Escape(<<"a">>)>> /\ body = CaseOperation("lower")
  <2>1. WrittenBody(body) = <<"\\", "a">>
    BY <1>3 DEF WrittenBody, CaseOperation
  <2>2. Body(q) = {body}
    BY <1>3 DEF Body
  <2> QED
    BY <1>2, <1>3, <2>1, <2>2
<1>4. CASE q = <<Escape(<<"A">>)>> /\ body = CaseOperation("upper")
  <2>1. WrittenBody(body) = <<"\\", "A">>
    <3>1. body.case = "upper"
      BY <1>4 DEF CaseOperation
    <3>2. body.case # "lower"
      BY <3>1
    <3> QED
      BY <3>1, <3>2 DEF WrittenBody
  <2>2. q # <<Escape(<<"a">>)>>
    <3>1. Escape(<<"A">>) # Escape(<<"a">>)
      BY DEF Escape
    <3> QED
      BY <1>4, <3>1, SameElement
  <2>3. Body(q) = {body}
    BY <1>4, <2>2 DEF Body
  <2> QED
    BY <1>2, <1>4, <2>1, <2>3
<1>5. CASE \E k : Arrows(q) = {k}
  BY <1>5, MappingWritten
<1> QED
  BY <1>1, <1>3, <1>4, <1>5, BodyCases

(* What is left of a sequence after its first element.                     *)
LEMMA AfterFirst ==
  ASSUME NEW T, NEW x \in T, NEW rest \in Seq(T)
  PROVE  Tail(<<x>> \o rest) = rest
<1> DEFINE s == <<x>> \o rest
<1>1. /\ s \in Seq(T) /\ Len(s) = Len(rest) + 1 /\ s # <<>>
      /\ \A k \in 1 .. Len(rest) : s[k + 1] = rest[k]
  BY FirstThen
<1> HIDE DEF s
<1>2. Tail(s) \in Seq(T) /\ Len(Tail(s)) = Len(s) - 1 /\ \A k \in 1 .. Len(Tail(s)) : Tail(s)[k] = s[k + 1]
  BY <1>1, HeadTailProperties
<1>3. Len(Tail(s)) = Len(rest) /\ Len(rest) \in Nat
  BY <1>1, <1>2
<1>4. \A k \in 1 .. Len(rest) : Tail(s)[k] = rest[k]
  BY <1>1, <1>2, <1>3
<1>5. Tail(s) = rest
  BY <1>2, <1>3, <1>4, SeqEqual
<1> QED
  BY <1>5 DEF s

(* The mark between two fields, and of an exclusion.                       *)
Mark == Plain(<<"#">>)

(* What is left of an entry after the mark of an exclusion.                *)
Excludes(q) == q # <<>> /\ q[1] = Mark
Fields(q) == Pieces(IF Excludes(q) THEN Tail(q) ELSE q, Marks(IF Excludes(q) THEN Tail(q) ELSE q, "#"))

(* An entry is read by its fields, when all that stands in it may.         *)
LEMMA EntryIs ==
  ASSUME NEW q \in Seq(SymbolType)
  PROVE  Entry(q) = IF Allowed(q) THEN ReadFields(Excludes(q), Fields(q)) ELSE {}
<1>1. DOMAIN q = 1 .. Len(q)
  BY LenProperties
<1>2. (\E k \in DOMAIN q : q[k].chars \in {<<c>> : c \in Forbidden}) <=> ~Allowed(q)
  BY <1>1 DEF Allowed
<1> DEFINE bad == \E k \in DOMAIN q : q[k].chars \in {<<c>> : c \in Forbidden}
           excludes == q # <<>> /\ q[1] = Plain(<<"#">>)
           rest == IF excludes THEN Tail(q) ELSE q
           fields == Pieces(rest, Marks(rest, "#"))
<1>3. Entry(q) = IF bad THEN {} ELSE ReadFields(excludes, fields)
  BY DEF Entry, ReadFields, RuleSet
<1>4. excludes = Excludes(q)
  BY DEF Excludes, Mark
<1> HIDE DEF excludes
<1>5. fields = Fields(q)
  BY <1>4 DEF Fields
<1> HIDE DEF fields, bad
<1>6. ReadFields(excludes, fields) = ReadFields(Excludes(q), Fields(q))
  BY <1>4, <1>5
<1> QED
  BY <1>2, <1>3, <1>6 DEF bad

(* Neither the end of an entry nor a comment.                              *)
OneEntry(q) == Marks(q, ";") = {} /\ Marks(q, "!") = {}

(* No mark stands in a field.                                              *)
LEMMA FieldsAreClean ==
  ASSUME NEW s, NEW q, NEW at, Reads(s, q, at), OneEntry(q), Allowed(q),
         NEW n \in 1 .. Len(Fields(q))
  PROVE  /\ Clean(Fields(q)[n]) /\ Allowed(Fields(q)[n])
         /\ \E text, places : Reads(text, Fields(q)[n], places)
<1> DEFINE rest == IF Excludes(q) THEN Tail(q) ELSE q
           cuts == Marks(rest, "#")
           fields == Pieces(rest, cuts)
           p == fields[n]
<1>1. q \in Seq(SymbolType) /\ s \in Seq(STRING) /\ Reading(s, q) /\ DOMAIN q = 1 .. Len(q)
  <2>1. q \in Seq(SymbolType) /\ s \in Seq(STRING)
    BY DEF Reads, ReadsFrom
  <2>2. Reading(s, q)
    BY DEF Reading
  <2> QED
    BY <2>1, <2>2, LenProperties
<1>2. Fields(q) = fields
  BY DEF Fields
<1>3. \E t : Reading(t, rest)
  <2>1. CASE Excludes(q)
    <3>1. s # <<>>
      <4>1. q # <<>>
        BY <2>1 DEF Excludes
      <4>2. s = <<>> <=> q = <<>>
        BY <1>1, EmptyReads
      <4> QED
        BY <4>1, <4>2
    <3>2. s[1] = "#"
      BY <2>1, <3>1, ExclusionRead DEF Excludes, Mark
    <3>3. Reading(Tail(s), Tail(q))
      BY <3>1, <3>2, ExclusionRead
    <3> QED
      BY <2>1, <3>3
  <2>2. CASE ~Excludes(q)
    BY <1>1, <2>2
  <2> QED
    BY <2>1, <2>2
<1>4. rest \in Seq(SymbolType) /\ \A k \in 1 .. Len(rest) : \E i \in 1 .. Len(q) : rest[k] = q[i]
  <2>1. CASE Excludes(q)
    <3>1. q # <<>> /\ rest = Tail(q)
      BY <2>1 DEF Excludes
    <3> HIDE DEF rest
    <3>2. rest \in Seq(SymbolType) /\ Len(rest) = Len(q) - 1 /\ \A k \in 1 .. Len(rest) : rest[k] = q[k + 1]
      BY <1>1, <3>1, HeadTailProperties
    <3>3. \A k \in 1 .. Len(rest) : k + 1 \in 1 .. Len(q)
      <4> DEFINE m == Len(q)
      <4>1. m \in Nat /\ Len(rest) = m - 1
        BY <1>1, <3>2, LenProperties
      <4> HIDE DEF m
      <4>2. \A k \in 1 .. m - 1 : k + 1 \in 1 .. m
        <5>1. m \in Nat
          BY <4>1
        <5> QED
          BY <5>1
      <4> QED
        BY <4>1, <4>2 DEF m
    <3>4. \A k \in 1 .. Len(rest) : \E i \in 1 .. Len(q) : rest[k] = q[i]
      BY <3>2, <3>3
    <3> QED
      BY <3>2, <3>4
  <2>2. CASE ~Excludes(q)
    <3>1. rest = q
      BY <2>2
    <3> HIDE DEF rest
    <3> QED
      BY <1>1, <3>1
  <2> QED
    BY <2>1, <2>2
<1> HIDE DEF rest
<1>5. PICK t : Reading(t, rest)
  BY <1>3
<1>6. PICK ra : Reads(t, rest, ra)
  BY <1>5 DEF Reading
<1>7. \E text, places : Reads(text, p, places)
  <2> DEFINE parts == Pieces(t, Places(ra, cuts))
  <2>1. "#" \notin {"\\", "=", ">"}
    OBVIOUS
  <2>2. Paired(parts, fields)
    BY <1>6, <2>1, SplitsAgree
  <2> HIDE DEF parts, fields
  <2>3. n \in 1 .. Len(parts)
    BY <1>2, <2>2 DEF Paired
  <2>4. Reading(parts[n], p)
    BY <2>2, <2>3 DEF Paired
  <2> QED
    BY <2>4 DEF Reading
<1>8. \A k \in 1 .. Len(p) : \E i \in 1 .. Len(rest) : i \notin cuts /\ p[k] = rest[i]
  <2>1. n \in 1 .. Len(fields)
    BY <1>2
  <2> HIDE DEF cuts
  <2>2. NoCutIn(rest, cuts, Pieces(rest, cuts)[n])
    BY <1>4, <2>1, PiecesHoldNoCut
  <2> QED
    BY <2>2 DEF NoCutIn
<1>9. \A i \in 1 .. Len(rest) : i \notin cuts => rest[i] # Mark
  <2>1. DOMAIN rest = 1 .. Len(rest)
    BY <1>4, LenProperties
  <2> QED
    BY <2>1 DEF Marks, Mark
<1> HIDE DEF p, cuts
<1>10. \A k \in 1 .. Len(p) : p[k] # Mark /\ \E i \in 1 .. Len(q) : p[k] = q[i]
  BY <1>4, <1>8, <1>9
<1>11. \A i \in 1 .. Len(q) : q[i] # Plain(<<";">>) /\ q[i] # Plain(<<"!">>)
  BY <1>1 DEF Marks, OneEntry
<1>12. Clean(p)
  BY <1>10, <1>11 DEF Clean, Mark
<1>13. Allowed(p)
  BY <1>10 DEF Allowed
<1> HIDE DEF fields
<1> QED
  BY <1>2, <1>7, <1>12, <1>13 DEF p

(* What a written rule is read as.                                         *)
RuleAs(rule, again) ==
  /\ Reading(WrittenRule(rule), again) /\ again # <<>> /\ OneEntry(again) /\ Entry(again) = {rule}

(* The rule of a scope and a body.                                         *)
RuleOf(exclude, scope, body) == [exclude |-> exclude, scope |-> scope, body |-> body]

(* One scope and one body are one rule.                                    *)
LEMMA OneRule ==
  ASSUME NEW exclude, NEW scope, NEW body
  PROVE  RuleSet(exclude, {scope}, {body}) = {RuleOf(exclude, scope, body)}
BY DEF RuleSet, RuleOf

(* A clean field is one entry without an exclusion.                        *)
LEMMA CleanField ==
  ASSUME NEW q \in Seq(SymbolType), q # <<>>, Clean(q)
  PROVE  q[1] # Mark /\ ~Excludes(q) /\ OneEntry(q)
<1>1. 1 \in 1 .. Len(q) /\ DOMAIN q = 1 .. Len(q)
  OBVIOUS
<1>2. q[1] # Mark
  BY <1>1 DEF Clean, Mark
<1>3. OneEntry(q)
  BY <1>1 DEF OneEntry, Marks, Clean
<1> QED
  BY <1>2, <1>3 DEF Excludes

(* A rule without a scope is written as its body.                          *)
LEMMA UnscopedWritten ==
  ASSUME NEW body, NEW again, WrittenAs(WrittenBody(body), again), Body(again) = {body}
  PROVE  RuleAs(RuleOf(FALSE, Unscoped, body), again)
<1> DEFINE rule == RuleOf(FALSE, Unscoped, body)
           wb == WrittenBody(body)
<1>1. /\ wb \in Seq(STRING) /\ again \in Seq(SymbolType) /\ again # <<>>
      /\ Reading(wb, again) /\ Clean(again) /\ Allowed(again)
  <2>1. Reading(wb, again) /\ Clean(again) /\ Allowed(again) /\ again # <<>>
    BY DEF WrittenAs
  <2> HIDE DEF wb
  <2>2. wb \in Seq(STRING) /\ again \in Seq(SymbolType)
    BY <2>1, EmptyReads
  <2> QED
    BY <2>1, <2>2
<1>2. WrittenRule(rule) = wb
  <2>1. WrittenRule(rule) = (<<>> \o WrittenScope(Unscoped)) \o wb
    BY DEF WrittenRule, RuleOf
  <2>2. WrittenScope(Unscoped) = <<>>
    BY DEF WrittenScope
  <2> HIDE DEF wb
  <2>3. <<>> \o <<>> = <<>>
    OBVIOUS
  <2>4. <<>> \o wb = wb
    BY <1>1, ConcatEmptySeq
  <2> QED
    BY <2>1, <2>2, <2>3, <2>4
<1>3. ~Excludes(again) /\ OneEntry(again)
  BY <1>1, CleanField
<1>4. Len(Fields(again)) = 1 /\ Fields(again)[1] = again
  <2>1. Fields(again) = Pieces(again, Marks(again, "#"))
    BY <1>3 DEF Fields
  <2>2. \A c \in {";", "!", "#"} : Len(Pieces(again, Marks(again, c))) = 1 /\ Pieces(again, Marks(again, c))[1] = again
    BY <1>1, OneField
  <2> QED
    BY <2>1, <2>2, Zenon
<1>5. Entry(again) = {rule}
  <2>1. Entry(again) = ReadFields(Excludes(again), Fields(again))
    BY <1>1, EntryIs
  <2>2. ReadFields(Excludes(again), Fields(again)) = RuleSet(FALSE, {Unscoped}, {body})
    <3>1. ReadFields(Excludes(again), Fields(again)) = RuleSet(Excludes(again), {Unscoped}, Body(again))
      BY <1>3, <1>4 DEF ReadFields
    <3>2. Excludes(again) = FALSE
      BY <1>3 DEF Excludes
    <3> QED
      BY <3>1, <3>2
  <2> QED
    BY <2>1, <2>2, OneRule
<1> QED
  BY <1>1, <1>2, <1>3, <1>5 DEF RuleAs

(* A scope, the mark after it and a body, and what they are read as.       *)
LEMMA FieldsJoined ==
  ASSUME NEW word, NEW x, WrittenAs(word, x), x[Len(x)] # Escape(<<>>),
         NEW wb, NEW y, WrittenAs(wb, y)
  PROVE  LET rest == Around(x, Mark, y)
         IN /\ Reading(Append(word, "#") \o wb, rest) /\ rest \in Seq(SymbolType)
            /\ rest # <<>> /\ rest[1] # Mark /\ Allowed(rest) /\ OneEntry(rest)
            /\ Len(Pieces(rest, Marks(rest, "#"))) = 2
            /\ Pieces(rest, Marks(rest, "#"))[1] = x /\ Pieces(rest, Marks(rest, "#"))[2] = y
<1> DEFINE rest == Around(x, Mark, y)
           hash == <<"#">>
           second == hash \o wb
           tail == <<Mark>> \o y
<1>1. /\ Reading(word, x) /\ x # <<>> /\ Clean(x) /\ Allowed(x)
      /\ Reading(wb, y) /\ y # <<>> /\ Clean(y) /\ Allowed(y)
  BY DEF WrittenAs
<1>2. word \in Seq(STRING) /\ x \in Seq(SymbolType)
  BY <1>1, EmptyReads
<1>3. wb \in Seq(STRING) /\ y \in Seq(SymbolType)
  BY <1>1, EmptyReads
<1>4. /\ hash \in Seq(STRING) /\ Len(hash) = 1 /\ hash[1] = "#" /\ Reading(hash, <<Mark>>)
      /\ Mark \in SymbolType /\ Mark # Escape(<<>>)
  <2>1. "#" \in STRING /\ "#" # "\\"
    BY MarksAssumption
  <2>2. hash \in Seq(STRING) /\ Reading(hash, <<Mark>>)
    BY <2>1, PlainRead DEF Mark
  <2>3. Mark \in SymbolType /\ Mark # Escape(<<>>)
    BY <2>2 DEF Mark, Plain, Escape, SymbolType
  <2> QED
    BY <2>2, <2>3, OneLength
<1>5. Reading(second, tail) /\ second[1] # ">" /\ second \in Seq(STRING)
  <2>1. hash[Len(hash)] # "="
    BY <1>4
  <2>2. hash # <<>>
    BY <1>4
  <2> HIDE DEF hash
  <2>3. Reading(hash \o wb, <<Mark>> \o y)
    BY <1>1, <1>4, <2>1, SymbolThen
  <2>4. (hash \o wb)[1] = hash[1] /\ hash \o wb \in Seq(STRING)
    BY <1>3, <1>4, <2>2, FirstOfConcat
  <2> QED
    BY <1>4, <2>3, <2>4
<1>6. Append(word, "#") \o wb = word \o second
  <2>1. Append(word, "#") = word \o hash
    BY <1>2, <1>4, AppendIsConcat
  <2> HIDE DEF hash
  <2>2. (word \o hash) \o wb = word \o (hash \o wb)
    BY <1>2, <1>3, <1>4, ConcatAssociative
  <2> QED
    BY <2>1, <2>2
<1> HIDE DEF second, tail
<1>7. Reading(word \o second, x \o tail)
  BY <1>1, <1>5, ReadingJoined
<1>8. x \o tail = rest
  BY DEF tail, Around
<1>9. rest \in Seq(SymbolType) /\ Placed(x, Mark, y, rest)
  BY <1>2, <1>3, <1>4, Between
<1>10. /\ Len(Pieces(rest, Marks(rest, "#"))) = 2
       /\ Pieces(rest, Marks(rest, "#"))[1] = x /\ Pieces(rest, Marks(rest, "#"))[2] = y
  BY <1>1, <1>2, <1>3, TwoFields DEF Mark
<1> HIDE DEF rest
<1>11. \A i \in 1 .. Len(rest) : rest[i] # Plain(<<";">>) /\ rest[i] # Plain(<<"!">>)
  <2>1. Mark # Plain(<<";">>) /\ Mark # Plain(<<"!">>)
    <3>1. <<"#">> # <<";">> /\ <<"#">> # <<"!">>
      BY SameElement
    <3> QED
      BY <3>1 DEF Mark, Plain
  <2> TAKE i \in 1 .. Len(rest)
  <2>2. rest[i] = Mark \/ (\E j \in 1 .. Len(x) : rest[i] = x[j]) \/ \E j \in 1 .. Len(y) : rest[i] = y[j]
    BY <1>9, ElementOf
  <2> QED
    BY <1>1, <2>1, <2>2 DEF Clean
<1>12. OneEntry(rest)
  <2>1. DOMAIN rest = 1 .. Len(rest)
    BY <1>9, LenProperties
  <2> QED
    BY <1>11, <2>1 DEF OneEntry, Marks
<1>13. Allowed(rest)
  <2>1. Mark.chars \notin {<<c>> : c \in Forbidden}
    BY DEF Mark, Plain, Forbidden
  <2> QED
    BY <1>1, <1>9, <2>1, CleanTogether
<1>14. rest # <<>> /\ rest[1] # Mark
  <2>1. 1 \in 1 .. Len(x) /\ Len(x) \in Nat
    BY <1>1, <1>2
  <2>2. rest[1] = x[1]
    BY <1>9, <2>1 DEF Placed
  <2>3. x[1] # Mark
    BY <1>1, <2>1 DEF Clean, Mark
  <2>4. Len(rest) # 0
    BY <1>9, <2>1 DEF Placed
  <2> QED
    BY <2>2, <2>3, <2>4
<1> QED
  BY <1>6, <1>7, <1>8, <1>9, <1>10, <1>12, <1>13, <1>14 DEF rest

(* A rule with a scope is written as an exclusion or not, the scope, and   *)
(* the body.                                                               *)
LEMMA ScopedWritten ==
  ASSUME NEW exclude \in BOOLEAN, NEW scope, NEW word, WrittenScope(scope) = Append(word, "#"),
         NEW x, WrittenAs(word, x), x[Len(x)] # Escape(<<>>), Scope(x) = {scope},
         NEW body, NEW y, WrittenAs(WrittenBody(body), y), Body(y) = {body}
  PROVE  \E again : RuleAs(RuleOf(exclude, scope, body), again)
<1> DEFINE rule == RuleOf(exclude, scope, body)
           wb == WrittenBody(body)
           ws == WrittenScope(scope)
           rest == Around(x, Mark, y)
           hash == <<"#">>
           text == ws \o wb
<1>1. /\ Reading(Append(word, "#") \o wb, rest) /\ rest \in Seq(SymbolType)
      /\ rest # <<>> /\ rest[1] # Mark /\ Allowed(rest) /\ OneEntry(rest)
      /\ Len(Pieces(rest, Marks(rest, "#"))) = 2
      /\ Pieces(rest, Marks(rest, "#"))[1] = x /\ Pieces(rest, Marks(rest, "#"))[2] = y
  BY FieldsJoined
<1>2. Reading(text, rest) /\ text \in Seq(STRING)
  <2>1. Reading(text, rest)
    BY <1>1
  <2> HIDE DEF text, rest
  <2> QED
    BY <2>1, EmptyReads
<1>3. ws \in Seq(STRING) /\ wb \in Seq(STRING)
  <2>1. Reading(word, x) /\ Reading(wb, y)
    BY DEF WrittenAs
  <2> HIDE DEF wb
  <2>2. word \in Seq(STRING) /\ wb \in Seq(STRING)
    BY <2>1, EmptyReads
  <2>3. "#" \in STRING
    BY MarksAssumption
  <2>4. Append(word, "#") \in Seq(STRING)
    BY <2>2, <2>3, AppendProperties
  <2> QED
    BY <2>2, <2>4
<1> HIDE DEF text, rest
<1>4. WrittenRule(rule) = IF exclude THEN (hash \o ws) \o wb ELSE (<<>> \o ws) \o wb
  BY DEF WrittenRule, RuleOf
<1>5. ASSUME NEW q \in Seq(SymbolType), Allowed(q), Excludes(q) <=> exclude, Fields(q) = Pieces(rest, Marks(rest, "#"))
      PROVE  Entry(q) = {rule}
  <2> DEFINE fields == Pieces(rest, Marks(rest, "#"))
  <2>1. Entry(q) = ReadFields(Excludes(q), fields)
    BY <1>5, EntryIs
  <2>2. Excludes(q) = exclude
    BY <1>5 DEF Excludes
  <2>3. Len(fields) = 2 /\ fields[1] = x /\ fields[2] = y
    BY <1>1
  <2> HIDE DEF fields
  <2>4. ReadFields(exclude, fields) = RuleSet(exclude, {scope}, {body})
    <3>1. Len(fields) = 2 /\ Len(fields) # 1
      BY <2>3
    <3>2. ReadFields(exclude, fields) = RuleSet(exclude, Scope(fields[1]), Body(fields[2]))
      BY <3>1, Zenon DEF ReadFields
    <3> QED
      BY <2>3, <3>2
  <2> QED
    BY <2>1, <2>2, <2>4, OneRule
<1>6. CASE ~exclude
  <2>1. WrittenRule(rule) = text
    <3>1. <<>> \o ws = ws
      BY <1>3, ConcatEmptySeq
    <3> HIDE DEF ws, wb, rule
    <3> QED
      BY <1>4, <1>6, <3>1 DEF text
  <2>2. ~Excludes(rest) /\ Fields(rest) = Pieces(rest, Marks(rest, "#"))
    BY <1>1 DEF Excludes, Fields
  <2>3. Entry(rest) = {rule}
    BY <1>1, <1>5, <1>6, <2>2
  <2> QED
    BY <1>1, <1>2, <2>1, <2>3 DEF RuleAs
<1>7. CASE exclude
  <2> DEFINE q == <<Mark>> \o rest
  <2>1. /\ hash \in Seq(STRING) /\ Len(hash) = 1 /\ hash[1] = "#" /\ Reading(hash, <<Mark>>)
        /\ Mark \in SymbolType /\ Mark # Escape(<<>>)
    <3>1. "#" \in STRING /\ "#" # "\\"
      BY MarksAssumption
    <3>2. hash \in Seq(STRING) /\ Reading(hash, <<Mark>>)
      BY <3>1, PlainRead DEF Mark
    <3>3. Mark \in SymbolType /\ Mark # Escape(<<>>)
      BY <3>2 DEF Mark, Plain, Escape, SymbolType
    <3> QED
      BY <3>2, <3>3, OneLength
  <2>2. WrittenRule(rule) = hash \o text
    <3>1. WrittenRule(rule) = (hash \o ws) \o wb
      BY <1>4, <1>7
    <3> HIDE DEF hash, ws, wb
    <3>2. (hash \o ws) \o wb = hash \o (ws \o wb)
      BY <1>3, <2>1, ConcatAssociative
    <3> QED
      BY <3>1, <3>2 DEF text
  <2>3. Reading(hash \o text, q)
    <3>1. hash[Len(hash)] # "="
      BY <2>1
    <3> HIDE DEF hash
    <3> QED
      BY <1>2, <2>1, <3>1, SymbolThen
  <2>4. /\ q \in Seq(SymbolType) /\ q # <<>> /\ q[1] = Mark /\ Len(q) = Len(rest) + 1
        /\ \A k \in 1 .. Len(rest) : q[k + 1] = rest[k]
    BY <1>1, <2>1, FirstThen
  <2>5. Tail(q) = rest
    BY <1>1, <2>1, AfterFirst
  <2> HIDE DEF q
  <2>6. Excludes(q) /\ Fields(q) = Pieces(rest, Marks(rest, "#"))
    BY <2>4, <2>5 DEF Excludes, Fields
  <2>7. \A k \in 1 .. Len(q) : q[k] = Mark \/ \E i \in 1 .. Len(rest) : q[k] = rest[i]
    <3> TAKE k \in 1 .. Len(q)
    <3>1. k = 1 \/ (k - 1 \in 1 .. Len(rest) /\ (k - 1) + 1 = k)
      <4> DEFINE n == Len(rest)
      <4>1. n \in Nat
        BY <1>1, LenProperties
      <4>2. k \in 1 .. n + 1
        BY <2>4
      <4> HIDE DEF n
      <4>3. k = 1 \/ (k - 1 \in 1 .. n /\ (k - 1) + 1 = k)
        BY <4>1, <4>2
      <4> QED
        BY <4>3 DEF n
    <3> QED
      BY <2>4, <3>1
  <2>8. Allowed(q)
    <3>1. Mark.chars \notin {<<c>> : c \in Forbidden}
      BY DEF Mark, Plain, Forbidden
    <3> QED
      BY <1>1, <2>7, <3>1 DEF Allowed
  <2>9. OneEntry(q)
    <3>1. Mark # Plain(<<";">>) /\ Mark # Plain(<<"!">>)
      <4>1. <<"#">> # <<";">> /\ <<"#">> # <<"!">>
        BY SameElement
      <4> QED
        BY <4>1 DEF Mark, Plain
    <3>2. DOMAIN q = 1 .. Len(q) /\ DOMAIN rest = 1 .. Len(rest)
      BY <1>1, <2>4, LenProperties
    <3>3. \A i \in 1 .. Len(rest) : rest[i] # Plain(<<";">>) /\ rest[i] # Plain(<<"!">>)
      BY <1>1, <3>2 DEF OneEntry, Marks
    <3> QED
      BY <2>7, <3>1, <3>2, <3>3 DEF OneEntry, Marks
  <2>10. Entry(q) = {rule}
    BY <1>5, <1>7, <2>4, <2>6, <2>8
  <2> QED
    BY <2>2, <2>3, <2>4, <2>9, <2>10 DEF RuleAs
<1> QED
  BY <1>6, <1>7

(* A rule of an entry is written as an entry of that rule.                 *)
LEMMA EntryWritten ==
  ASSUME NEW s, NEW q, NEW at, Reads(s, q, at), OneEntry(q), NEW rule \in Entry(q)
  PROVE  \E again : RuleAs(rule, again)
<1> DEFINE exclude == Excludes(q)
           fields == Fields(q)
<1>1. q \in Seq(SymbolType)
  BY DEF Reads, ReadsFrom
<1>2. Allowed(q) /\ rule \in ReadFields(exclude, fields) /\ exclude \in BOOLEAN
  <2>1. Allowed(q) /\ rule \in ReadFields(exclude, fields)
    BY <1>1, EntryIs
  <2> QED
    BY <2>1 DEF Excludes
<1> HIDE DEF exclude
<1>3. ASSUME NEW n \in 1 .. Len(fields)
      PROVE  /\ Clean(fields[n]) /\ Allowed(fields[n])
             /\ \E text, places : Reads(text, fields[n], places)
  BY <1>2, FieldsAreClean
<1> HIDE DEF fields
<1>4. CASE Len(fields) = 1 /\ ~exclude
  <2>1. rule \in RuleSet(exclude, {Unscoped}, Body(fields[1]))
    BY <1>2, <1>4 DEF ReadFields
  <2>2. exclude = FALSE
    BY <1>2, <1>4
  <2>3. \E body \in Body(fields[1]) : rule = RuleOf(FALSE, Unscoped, body)
    BY <2>1, <2>2 DEF RuleSet, RuleOf
  <2>4. PICK body \in Body(fields[1]) : rule = RuleOf(FALSE, Unscoped, body)
    BY <2>3
  <2>5. 1 \in 1 .. Len(fields)
    BY <1>4
  <2>6. PICK text : \E places : Reads(text, fields[1], places)
    BY <1>3, <2>5
  <2>7. PICK places : Reads(text, fields[1], places)
    BY <2>6
  <2>8. Clean(fields[1]) /\ Allowed(fields[1])
    BY <1>3, <2>5
  <2>9. PICK again : WrittenAs(WrittenBody(body), again) /\ Body(again) = {body}
    BY <2>7, <2>8, BodyWritten
  <2>10. RuleAs(RuleOf(FALSE, Unscoped, body), again)
    BY <2>9, UnscopedWritten
  <2> QED
    BY <2>4, <2>10
<1>5. CASE ~(Len(fields) = 1 /\ ~exclude) /\ Len(fields) = 2
  <2> DEFINE x == fields[1]
             y == fields[2]
  <2>1. rule \in RuleSet(exclude, Scope(x), Body(y))
    BY <1>2, <1>5 DEF ReadFields
  <2>2. 1 \in 1 .. Len(fields) /\ 2 \in 1 .. Len(fields)
    BY <1>5
  <2>3. Clean(x) /\ Allowed(x) /\ Clean(y) /\ Allowed(y)
    BY <1>3, <2>2
  <2>4. PICK xt : \E places : Reads(xt, x, places)
    BY <1>3, <2>2
  <2>5. PICK xa : Reads(xt, x, xa)
    BY <2>4
  <2>6. PICK yt : \E places : Reads(yt, y, places)
    BY <1>3, <2>2
  <2>7. PICK ya : Reads(yt, y, ya)
    BY <2>6
  <2> HIDE DEF x, y
  <2>8. \E scope \in Scope(x), body \in Body(y) : rule = RuleOf(exclude, scope, body)
    BY <2>1 DEF RuleSet, RuleOf
  <2>9. PICK scope \in Scope(x) : \E body \in Body(y) : rule = RuleOf(exclude, scope, body)
    BY <2>8
  <2>10. PICK body \in Body(y) : rule = RuleOf(exclude, scope, body)
    BY <2>9
  <2> DEFINE made == PatternRewritten(x)
  <2>11. /\ x # <<>>
         /\ \E key \in Pattern(x) : WrittenScope(scope) = Append(WrittenPattern(key), "#") /\ Scope(made) = {scope}
    BY <2>5, ScopeWritten
  <2>12. PICK key \in Pattern(x) : WrittenScope(scope) = Append(WrittenPattern(key), "#") /\ Scope(made) = {scope}
    BY <2>11
  <2>13. /\ made \in Seq(SymbolType) /\ Len(made) = Len(x) /\ Clean(made) /\ Allowed(made)
         /\ \A k \in 1 .. Len(made) : made[k] # Escape(<<>>)
    BY <2>3, <2>5, PatternKept
  <2>14. Reading(WrittenPattern(key), made)
    BY <2>5, PatternWritten
  <2> HIDE DEF made
  <2>15. made # <<>> /\ Len(made) \in 1 .. Len(made)
    <3>1. x \in Seq(SymbolType)
      BY <2>5 DEF Reads, ReadsFrom
    <3> QED
      BY <2>11, <2>13, <3>1
  <2>16. WrittenAs(WrittenPattern(key), made) /\ made[Len(made)] # Escape(<<>>)
    BY <2>13, <2>14, <2>15 DEF WrittenAs
  <2>17. PICK again : WrittenAs(WrittenBody(body), again) /\ Body(again) = {body}
    BY <2>3, <2>7, BodyWritten
  <2>18. \E whole : RuleAs(RuleOf(exclude, scope, body), whole)
    BY <1>2, <2>12, <2>16, <2>17, ScopedWritten
  <2> QED
    BY <2>10, <2>18
<1> QED
  BY <1>2, <1>4, <1>5 DEF ReadFields

(* A text of one entry is one rule.                                        *)
LEMMA OneEntryParsed ==
  ASSUME NEW text, NEW rule, NEW again, Reading(text, again), again # <<>>, OneEntry(again), Entry(again) = {rule}
  PROVE  parseRules(text) = {<<rule>>}
<1> DEFINE entries == splitRuleEntries(text)
           N == Len(entries)
           next(n, f) == IF n = 0 THEN {<<>>}
                         ELSE IF hasUnescapedCommentMarker(entries[n]) THEN f[n - 1]
                         ELSE Extended(f[n - 1], parseEntry(entries[n]))
           Equation(f) == f = [n \in 0 .. N |-> next(n, f)]
           rules == CHOOSE f : Equation(f)
<1>1. text \in Seq(STRING) /\ text # <<>>
  BY EmptyReads
<1>2. PICK at : Reads(text, again, at)
  BY DEF Reading
<1>3. parseEntry(text) = {rule} /\ ~hasUnescapedCommentMarker(text)
  BY <1>2, EntriesAgree, EntryMarksAgree DEF OneEntry
<1>4. N = 1 /\ entries[1] = text
  <2> DEFINE cuts == Places(at, Marks(again, ";"))
  <2>1. entries = Pieces(text, cuts)
    BY <1>2, EntryMarksAgree
  <2>2. cuts = {}
    BY DEF Places, OneEntry
  <2> HIDE DEF cuts
  <2>3. Len(Pieces(text, cuts)) = 1 /\ Pieces(text, cuts)[1] = text
    BY <1>1, <2>2, OnePiece
  <2> QED
    BY <2>1, <2>3
<1>5. parseRules(text) = IF text = <<>> THEN {} ELSE rules[N]
  BY DEF parseRules, Extended
<1> HIDE DEF entries
<1> DEFINE one == Extended({<<>>}, {rule})
           known == [n \in 0 .. 1 |-> IF n = 0 THEN {<<>>} ELSE one]
<1>6. \A f : next(0, f) = {<<>>} /\ next(1, f) = Extended(f[0], {rule})
  <2>1. parseEntry(entries[1]) = {rule}
    BY <1>3, <1>4, Zenon
  <2>2. ~hasUnescapedCommentMarker(entries[1])
    BY <1>3, <1>4, Zenon
  <2>3. 1 # 0 /\ 1 - 1 = 0
    OBVIOUS
  <2> TAKE f
  <2>4. next(0, f) = {<<>>}
    BY Zenon
  <2>5. next(1, f) = Extended(f[1 - 1], parseEntry(entries[1]))
    BY <2>2, <2>3, Zenon
  <2> QED
    BY <2>1, <2>3, <2>4, <2>5, Zenon
<1>7. \A n \in 0 .. N : n = 0 \/ n = 1
  BY <1>4
<1>8. 0 \in 0 .. N /\ 1 \in 0 .. N /\ 0 .. N = 0 .. 1
  BY <1>4
<1> HIDE DEF next, one, N
<1>9. Equation(known)
  <2>1. known[0] = {<<>>} /\ known[1] = one
    OBVIOUS
  <2>2. known = [n \in 0 .. N |-> known[n]]
    BY <1>8
  <2> HIDE DEF known
  <2>3. \A n \in 0 .. N : known[n] = next(n, known)
    BY <1>6, <1>7, <2>1 DEF one
  <2> QED
    BY <2>2, <2>3
<1>10. Equation(rules)
  <2> HIDE DEF Equation, known
  <2> QED
    BY <1>9
<1> HIDE DEF rules
<1>11. rules[1] = one
  <2>1. rules[0] = {<<>>}
    BY <1>6, <1>8, <1>10
  <2>2. rules[1] = Extended(rules[0], {rule})
    BY <1>6, <1>8, <1>10
  <2> QED
    BY <2>1, <2>2 DEF one
<1>12. one = {<<rule>>}
  <2>1. one = {Append(<<>>, rule)}
    BY DEF one, Extended
  <2>2. Append(<<>>, rule) = <<rule>>
    OBVIOUS
  <2> QED
    BY <2>1, <2>2
<1> QED
  BY <1>1, <1>4, <1>5, <1>11, <1>12

(* Every rule that is read of a text can be written, as an entry of itself.*)
LEMMA RuleWritten ==
  ASSUME NEW text \in Seq(STRING), NEW rules \in parseRules(text), NEW k \in DOMAIN rules
  PROVE  \E again : RuleAs(rules[k], again)
<1> DEFINE symbols == Symbols(text)
           entries == splitRuleEntries(text)
           cuts == Marks(symbols, ";")
           described == Pieces(symbols, cuts)
<1>1. PICK at : Reads(text, symbols, at)
  BY SymbolsRead
<1>2. Paired(entries, described)
  <2>1. ";" \notin {"\\", "=", ">"}
    OBVIOUS
  <2>2. Paired(Pieces(text, Places(at, Marks(symbols, ";"))), described)
    BY <1>1, <2>1, SplitsAgree
  <2> QED
    BY <1>1, <2>2, EntryMarksAgree
<1>3. entries \in Seq(Seq(STRING)) /\ rules \in Seq(Parsed(entries))
  BY RulesAreParsed
<1>4. symbols \in Seq(SymbolType) /\ DOMAIN symbols = 1 .. Len(symbols)
  <2>1. symbols \in Seq(SymbolType)
    BY <1>1 DEF Reads, ReadsFrom
  <2> HIDE DEF symbols
  <2> QED
    BY <2>1, LenProperties
<1> HIDE DEF entries, symbols
<1>5. rules[k] \in Parsed(entries)
  BY <1>3
<1>6. PICK n \in 1 .. Len(entries) : rules[k] \in parseEntry(entries[n]) /\ ~hasUnescapedCommentMarker(entries[n])
  BY <1>3, <1>5 DEF Parsed
<1> DEFINE q == described[n]
<1>7. Reading(entries[n], q) /\ n \in 1 .. Len(described)
  BY <1>2, <1>6 DEF Paired
<1>8. PICK qa : Reads(entries[n], q, qa)
  BY <1>7 DEF Reading
<1>9. OneEntry(q)
  <2>1. Marks(q, "!") = {}
    BY <1>6, <1>8, EntryMarksAgree
  <2>2. \A j \in 1 .. Len(q) : q[j] # Plain(<<";">>)
    <3>1. \A j \in 1 .. Len(q) : \E i \in 1 .. Len(symbols) : i \notin cuts /\ q[j] = symbols[i]
      <4> HIDE DEF cuts
      <4>1. NoCutIn(symbols, cuts, Pieces(symbols, cuts)[n])
        BY <1>4, <1>7, PiecesHoldNoCut
      <4> QED
        BY <4>1 DEF NoCutIn
    <3>2. \A i \in 1 .. Len(symbols) : i \notin cuts => symbols[i] # Plain(<<";">>)
      BY <1>4 DEF Marks
    <3> HIDE DEF q, cuts
    <3> QED
      BY <3>1, <3>2
  <2>3. DOMAIN q = 1 .. Len(q)
    <3>1. q \in Seq(SymbolType)
      BY <1>8 DEF Reads, ReadsFrom
    <3> HIDE DEF q
    <3> QED
      BY <3>1, LenProperties
  <2> HIDE DEF q
  <2> QED
    BY <2>1, <2>2, <2>3 DEF OneEntry, Marks
<1>10. rules[k] \in Entry(q)
  <2> HIDE DEF q
  <2>1. parseEntry(entries[n]) = Entry(q)
    BY <1>7, EntriesAgree
  <2> QED
    BY <1>6, <2>1
<1> HIDE DEF q
<1> QED
  BY <1>8, <1>9, <1>10, EntryWritten

(***************************************************************************)
(* What parseRules understands can be written again with the documented    *)
(* escapes, and is understood the same.                                    *)
(***************************************************************************)
THEOREM RulesAreWritten == Spec => []RulesCanBeWritten
<1>1. TextTypeOK => RulesCanBeWritten
  <2> SUFFICES ASSUME TextTypeOK, NEW rules \in parseRules(raw), NEW k \in DOMAIN rules
               PROVE  parseRules(WrittenRule(rules[k])) = {<<rules[k]>>}
    BY DEF RulesCanBeWritten
  <2>1. PICK again : RuleAs(rules[k], again)
    BY RuleWritten DEF TextTypeOK
  <2> QED
    BY <2>1, OneEntryParsed DEF RuleAs
<1> QED
  BY <1>1, TextIsTyped, PTL
=============================================================================
