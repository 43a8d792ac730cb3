------------------------ MODULE TokenMatcherProperties ------------------------
(***************************************************************************)
(* What a match means, as README.md puts it: a pattern applies to the      *)
(* complete name, and each capture stops at the first occurrence of the    *)
(* next literal.  And what buildReplacement makes of the captures.         *)
(***************************************************************************)
EXTENDS TokenMatcher, FiniteSets

(* A cutting of the name: where each token begins, and where the last ends.*)
Cutting(name, pattern) == [1 .. Len(pattern) + 1 -> 0 .. Len(name)]

NextLiteralAt(pattern, k, m) ==
  /\ m \in k + 1 .. Len(pattern) /\ pattern[m] # Wildcard
  /\ \A q \in k + 1 .. m - 1 : pattern[q] = Wildcard

(* Token k takes the characters of the name between the two positions.     *)
Takes(name, pattern, k, from, to) ==
  IF pattern[k] # Wildcard
  THEN OccursAt(name, pattern[k], from) /\ to = from + Len(pattern[k])
  ELSE /\ \A m \in 1 .. Len(pattern) :
             NextLiteralAt(pattern, k, m) => FirstFrom(name, pattern[m], from, to)
       /\ (\A m \in 1 .. Len(pattern) : ~NextLiteralAt(pattern, k, m)) => to = Len(name)

Documented(name, pattern, c) ==
  /\ c[1] = 0
  /\ \A k \in 1 .. Len(pattern) : Takes(name, pattern, k, c[k], c[k + 1])
  /\ c[Len(pattern) + 1] = Len(name)

(* The loop accepts exactly the names that can be cut up as documented,    *)
(* and cuts them so.                                                       *)
AcceptsAsDocumented ==
  /\ result = "matched" => cuts \in Cutting(s, tokens) /\ Documented(s, tokens, cuts)
  /\ result = "failed" => \A c \in Cutting(s, tokens) : ~Documented(s, tokens, c)

Wildcards(pattern, n) == {k \in 1 .. n : pattern[k] = Wildcard}

(* A match has one capture for every wildcard, empty ones included, so     *)
(* captures[tok.capture-1] of buildReplacement exists for every reference  *)
(* that parseReplace admits.                                               *)
CapturesEveryWildcard ==
  result = "matched" => Len(captures) = Cardinality(Wildcards(tokens, Len(tokens)))
=============================================================================
