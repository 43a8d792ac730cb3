--------------------------- MODULE TokenReplacement ---------------------------
(***************************************************************************)
(* buildReplacement (rules.go), applied to the captures of TokenMatcher.   *)
(* A replacement token is a literal with capture 0, or the number of a     *)
(* capture with the empty literal.                                         *)
(***************************************************************************)
EXTENDS TokenMatcherProperties, SequencesExt

Text(capture) == SubSeq(s, capture[1] + 1, capture[2])

buildReplacement(replacement) ==
  FlattenSeq([k \in DOMAIN replacement |->
                IF replacement[k].capture = 0 THEN replacement[k].literal
                ELSE Text(captures[replacement[k].capture])])

(* The replacement that spells the pattern: its literals, and $1, $2, ...  *)
(* for its wildcards.                                                      *)
SamePattern ==
  [k \in DOMAIN tokens |->
     [literal |-> tokens[k],
      capture |-> IF tokens[k] = Wildcard THEN Cardinality(Wildcards(tokens, k)) ELSE 0]]

(* The captures and the literals together are the complete name: the rule  *)
(* that maps a pattern to itself changes no name, loses and doubles no     *)
(* character.                                                              *)
RebuildsTheName == result = "matched" => buildReplacement(SamePattern) = s
=============================================================================
