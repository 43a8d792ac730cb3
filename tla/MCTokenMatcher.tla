---------------------------- MODULE MCTokenMatcher ----------------------------
EXTENDS TokenReplacement

CONSTANTS MaxName, MaxTokens, MaxLiteral   \* lengths of this instance

UpTo(S, n) == UNION {[1 .. m -> S] : m \in 0 .. n}

MCNames == UpTo(Character, MaxName)

(* parseFind joins the literal characters between two wildcards, and       *)
(* parseRules refuses an empty pattern.                                    *)
MCPatterns ==
  {t \in UpTo(UpTo(Character, MaxLiteral), MaxTokens) :
     t # <<>> /\ \A k \in 1 .. Len(t) - 1 : t[k] = Wildcard \/ t[k + 1] = Wildcard}
=============================================================================
