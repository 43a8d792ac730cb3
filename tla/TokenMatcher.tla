----------------------------- MODULE TokenMatcher -----------------------------
(***************************************************************************)
(* matchTokens (rules.go): the loop that compares a model name, or a       *)
(* caller's key, with the tokens parseFind made of a pattern.  Names and   *)
(* literals are sequences of characters; a token is its literal, and the   *)
(* wildcard has the empty one.                                             *)
(***************************************************************************)
EXTENDS Naturals, Sequences

CONSTANTS
  Character,
  Names,       \* the names that may be asked for
  Patterns     \* what parseFind may return

ASSUME NamesAssumption == Names \subseteq Seq(Character)
ASSUME PatternsAssumption == Patterns \subseteq Seq(Seq(Character))

VARIABLES
  s, tokens,    \* the parameters
  i,            \* the token of the loop
  j,            \* the token the inner loop looks at
  pos,          \* characters of s consumed
  captures,     \* one <<pos, end>> for each wildcard passed
  result,       \* "loop", "ahead" (in the inner loop), "matched", "failed"
  cuts          \* history: pos at the beginning of every round, and now

vars == <<s, tokens, i, j, pos, captures, result, cuts>>

Wildcard == <<>>

TypeOK ==
  /\ s \in Names /\ tokens \in Patterns
  /\ i \in 1 .. Len(tokens) + 1
  /\ j \in 1 .. Len(tokens) + 1
  /\ pos \in 0 .. Len(s)
  /\ captures \in Seq((0 .. Len(s)) \X (0 .. Len(s)))
  /\ result \in {"loop", "ahead", "matched", "failed"}
  /\ cuts \in Seq(0 .. Len(s))

Init ==
  /\ s \in Names /\ tokens \in Patterns
  /\ i = 1 /\ j = 1 /\ pos = 0
  /\ captures = <<>>
  /\ result = "loop"
  /\ cuts = <<0>>

(* strings.HasPrefix(name[p:], literal).                                   *)
OccursAt(name, literal, p) ==
  /\ p + Len(literal) <= Len(name)
  /\ \A k \in 1 .. Len(literal) : name[p + k] = literal[k]

(* strings.Index(name[from:], literal) finds it at p.                      *)
FirstFrom(name, literal, from, p) ==
  /\ p >= from /\ OccursAt(name, literal, p)
  /\ \A q \in from .. p - 1 : ~OccursAt(name, literal, q)

Advance(p) ==
  /\ pos' = p
  /\ cuts' = Append(cuts, p)
  /\ i' = i + 1

Literal ==
  /\ result = "loop" /\ i <= Len(tokens) /\ tokens[i] # Wildcard
  /\ IF OccursAt(s, tokens[i], pos)
     THEN Advance(pos + Len(tokens[i])) /\ UNCHANGED result
     ELSE result' = "failed" /\ UNCHANGED <<pos, cuts, i>>
  /\ UNCHANGED <<s, tokens, j, captures>>

BeginWildcard ==
  /\ result = "loop" /\ i <= Len(tokens) /\ tokens[i] = Wildcard
  /\ result' = "ahead"
  /\ j' = i + 1
  /\ UNCHANGED <<s, tokens, i, pos, captures, cuts>>

(* The inner loop passes over the wildcards that follow.                   *)
LookAhead ==
  /\ result = "ahead" /\ j <= Len(tokens) /\ tokens[j] = Wildcard
  /\ j' = j + 1
  /\ UNCHANGED <<s, tokens, i, pos, captures, result, cuts>>

(* Mistake: a capture that took nothing is not kept.                       *)
CaptureSome(end) ==
  /\ captures' = IF end = pos THEN captures ELSE Append(captures, <<pos, end>>)
  /\ Advance(end)
  /\ result' = "loop"

Capture(end) ==
  /\ captures' = Append(captures, <<pos, end>>)
  /\ Advance(end)
  /\ result' = "loop"

(* Mistake: the last occurrence of the literal ends the capture.           *)
CaptureToLiteralGreedy ==
  /\ result = "ahead" /\ j <= Len(tokens) /\ tokens[j] # Wildcard
  /\ \/ \E end \in pos .. Len(s) :
          /\ OccursAt(s, tokens[j], end)
          /\ \A q \in end + 1 .. Len(s) : ~OccursAt(s, tokens[j], q)
          /\ Capture(end)
     \/ /\ \A end \in pos .. Len(s) : ~OccursAt(s, tokens[j], end)
        /\ result' = "failed"
        /\ UNCHANGED <<i, pos, captures, cuts>>
  /\ UNCHANGED <<s, tokens, j>>

CaptureToLiteral ==
  /\ result = "ahead" /\ j <= Len(tokens) /\ tokens[j] # Wildcard
  /\ \/ \E end \in pos .. Len(s) : FirstFrom(s, tokens[j], pos, end) /\ Capture(end)
     \/ /\ \A end \in pos .. Len(s) : ~OccursAt(s, tokens[j], end)
        /\ result' = "failed"
        /\ UNCHANGED <<i, pos, captures, cuts>>
  /\ UNCHANGED <<s, tokens, j>>

CaptureRest ==
  /\ result = "ahead" /\ j > Len(tokens)
  /\ Capture(Len(s))
  /\ UNCHANGED <<s, tokens, j>>

(* Mistake: what follows the last token is ignored.                        *)
ReturnPrefix ==
  /\ result = "loop" /\ i > Len(tokens)
  /\ result' = "matched"
  /\ UNCHANGED <<s, tokens, i, j, pos, captures, cuts>>

Return ==
  /\ result = "loop" /\ i > Len(tokens)
  /\ result' = IF pos = Len(s) THEN "matched" ELSE "failed"
  /\ UNCHANGED <<s, tokens, i, j, pos, captures, cuts>>

Next ==
  \/ Literal \/ BeginWildcard \/ LookAhead
  \/ CaptureToLiteral \/ CaptureRest \/ Return

Spec == Init /\ [][Next]_vars
=============================================================================
