------------------------- MODULE MCCallerPatternCache -------------------------
EXTENDS CallerPatternCache, TLC

CONSTANTS s1, s2, p1, p2

MCScopes == {s1, s2}
MCPatterns == {p1, p2}
(* One pattern accepts both principals, the other only the second: neither *)
(* the scope nor the pattern alone decides.                                *)
MCMatch == {<<s1, p1>>, <<s2, p1>>, <<s2, p2>>}

Symmetry == Permutations(Callers)
=============================================================================
