-------------------------------- MODULE RuleText --------------------------------
(***************************************************************************)
(* parseRules (rules.go): five scanners read the text of a rules field,    *)
(* each with its own account of what a backslash escapes.  A result that   *)
(* may be an error is the set of the value, or {} for the error.  The key   *)
(* text that the cache uses (callerPatternText) is left out.               *)
(***************************************************************************)
EXTENDS Naturals, SequencesExt

Digits == <<"0", "1", "2", "3", "4", "5", "6", "7", "8", "9">>
Digit == [d \in Range(Digits) |-> (CHOOSE n \in 1 .. 10 : Digits[n] = d) - 1]

(* unicode.IsSpace, and the quotes.                                        *)
Forbidden == {" ", "'", "\""}

FromTo(s, i, j) == SubSeq(s, i, j - 1)

(* What is left of s between the places in cuts.                           *)
Pieces(s, cuts) ==
  LET scan[i \in 0 .. Len(s)] ==   \* the pieces cut off so far, and where the next begins
        IF i = 0 THEN [done |-> <<>>, start |-> 1]
        ELSE IF i \in cuts
        THEN [done |-> Append(scan[i - 1].done, FromTo(s, scan[i - 1].start, i)), start |-> i + 1]
        ELSE scan[i - 1]
      last == scan[Len(s)]
  IN Append(last.done, FromTo(s, last.start, Len(s) + 1))

-----------------------------------------------------------------------------
(* Scanners that count the backslashes just before a character.            *)
Backslashes(s, i) == Cardinality({j \in 1 .. i - 1 : \A k \in j .. i - 1 : s[k] = "\\"})

splitRuleEntries(raw) ==
  Pieces(raw, {i \in DOMAIN raw : raw[i] = ";" /\ Backslashes(raw, i) % 2 = 0})

(* Mistake: any backslash before the mark escapes it.                      *)
hasUnescapedCommentMarkerAfterAny(entry) ==
  \E i \in DOMAIN entry : entry[i] = "!" /\ Backslashes(entry, i) = 0

hasUnescapedCommentMarker(entry) ==
  \E i \in DOMAIN entry : entry[i] = "!" /\ Backslashes(entry, i) % 2 = 0

(* Scanners that remember whether the last character escapes this one;     *)
(* Len(s) + 1 tells whether an escape is left dangling.                    *)
Escaped(s) ==
  LET escaped[i \in 1 .. Len(s) + 1] == i > 1 /\ s[i - 1] = "\\" /\ ~escaped[i - 1]
  IN escaped

(* The place of the one "=>".                                              *)
findRuleSeparator(s) ==
  LET found == {i \in 1 .. Len(s) - 1 : s[i] = "=" /\ s[i + 1] = ">" /\ ~Escaped(s)[i]}
  IN IF Cardinality(found) = 1 THEN found ELSE {}

splitEscaped(s, sep) ==
  LET parts == Pieces(s, {i \in DOMAIN s : s[i] = sep /\ ~Escaped(s)[i]})
  IN IF Escaped(s)[Len(s) + 1] \/ \E k \in DOMAIN parts : parts[k] = <<>> THEN {} ELSE {parts}

-----------------------------------------------------------------------------
(* Scanners that skip what they have looked ahead to.  A token is a        *)
(* literal with capture 0, or a capture with an empty literal.             *)
Literal(chars) == [literal |-> chars, capture |-> 0]
Capture(n) == [literal |-> <<>>, capture |-> n]

IsArrow(s, i) == i + 1 <= Len(s) /\ s[i] = "=" /\ s[i + 1] = ">"

(* flush: neighbouring literals are one.                                   *)
Join(token, rest) ==
  IF rest # <<>> /\ token.capture = 0 /\ rest[1].capture = 0
  THEN [rest EXCEPT ![1].literal = token.literal \o @]
  ELSE <<token>> \o rest

(* The tokens of a text of some length, given what stands at each place: a *)
(* token and the place after it, or nothing that is valid.                 *)
Read(token, next) == {[token |-> token, next |-> next]}

Tokens(length, at) ==
  LET tokens[i \in 1 .. length + 1] ==
        IF i > length THEN {<<>>}
        ELSE UNION {{Join(read.token, rest) : rest \in tokens[read.next]} : read \in at[i]}
  IN tokens[1]

(* In a pattern, where all wildcards are captures; matchTokens numbers     *)
(* them as it meets them.                                                  *)
FindToken(s, i) ==
  IF s[i] = "*" THEN Read(Capture(1), i + 1)
  ELSE IF s[i] # "\\" THEN Read(Literal(<<s[i]>>), i + 1)
  ELSE IF IsArrow(s, i + 1) THEN Read(Literal(<<"=", ">">>), i + 3)
  ELSE IF i < Len(s) /\ s[i + 1] \in {"*", ";", "$", "#", "!", "\\"}
  THEN Read(Literal(<<s[i + 1]>>), i + 2)
  ELSE {}

parseFind(s) == Tokens(Len(s), [i \in DOMAIN s |-> FindToken(s, i)])

Captures(tokens) == Cardinality({k \in DOMAIN tokens : tokens[k].capture # 0})

(* The number that begins at i, and the place after it.                    *)
AfterNumber(s, i) ==
  CHOOSE j \in i .. Len(s) + 1 :
    /\ \A k \in i .. j - 1 : s[k] \in DOMAIN Digit
    /\ j <= Len(s) => s[j] \notin DOMAIN Digit

Number(s, i) ==
  LET number[n \in 0 .. AfterNumber(s, i) - i] ==
        IF n = 0 THEN 0 ELSE 10 * number[n - 1] + Digit[s[i + n - 1]]
  IN number[AfterNumber(s, i) - i]

BeginsNumber(s, i) == i <= Len(s) /\ s[i] \in DOMAIN Digit \ {"0"}

(* Mistake: the number may be larger than that of the last capture.        *)
ReplaceTokenAnyNumber(s, i, captures) ==
  IF s[i] = "$"
  THEN IF BeginsNumber(s, i + 1) THEN Read(Capture(Number(s, i + 1)), AfterNumber(s, i + 1)) ELSE {}
  ELSE IF s[i] # "\\" THEN Read(Literal(<<s[i]>>), i + 1)
  ELSE IF IsArrow(s, i + 1) THEN Read(Literal(<<"=", ">">>), i + 3)
  ELSE IF i < Len(s) /\ s[i + 1] \in {"#", "!"} THEN Read(Literal(<<s[i + 1]>>), i + 2)
  ELSE {}

(* Mistake: an escaped character keeps its backslash.                      *)
ReplaceTokenKeepsBackslash(s, i, captures) ==
  IF s[i] = "$"
  THEN IF BeginsNumber(s, i + 1) /\ Number(s, i + 1) <= captures
       THEN Read(Capture(Number(s, i + 1)), AfterNumber(s, i + 1)) ELSE {}
  ELSE IF s[i] # "\\" THEN Read(Literal(<<s[i]>>), i + 1)
  ELSE IF IsArrow(s, i + 1) THEN Read(Literal(<<"\\", "=", ">">>), i + 3)
  ELSE IF i < Len(s) /\ s[i + 1] \in {"#", "!"} THEN Read(Literal(<<"\\", s[i + 1]>>), i + 2)
  ELSE {}

(* In a replacement for a pattern with so many captures.                   *)
ReplaceToken(s, i, captures) ==
  IF s[i] = "$"
  THEN IF BeginsNumber(s, i + 1) /\ Number(s, i + 1) <= captures
       THEN Read(Capture(Number(s, i + 1)), AfterNumber(s, i + 1)) ELSE {}
  ELSE IF s[i] # "\\" THEN Read(Literal(<<s[i]>>), i + 1)
  ELSE IF IsArrow(s, i + 1) THEN Read(Literal(<<"=", ">">>), i + 3)
  ELSE IF i < Len(s) /\ s[i + 1] \in {"#", "!"} THEN Read(Literal(<<s[i + 1]>>), i + 2)
  ELSE {}

parseReplace(s, captures) ==
  Tokens(Len(s), [i \in DOMAIN s |-> ReplaceToken(s, i, captures)])

-----------------------------------------------------------------------------
(* The digest an exact key is compared by.                                 *)
callerScope(key) == [sha256 |-> key]

(* exact and pattern of a rule: a digest or none, and the tokens.          *)
Unscoped == [exact |-> {}, pattern |-> <<>>]

parseScope(text) ==
  {IF Captures(key) = 0 THEN [Unscoped EXCEPT !.exact = {callerScope(key[1].literal)}]
   ELSE [Unscoped EXCEPT !.pattern = key] : key \in parseFind(text) \ {<<>>}}

CaseOperation(op) == [case |-> op, pattern |-> <<>>, replacement |-> <<>>]
Mapping(find, replace) ==
  UNION {{[case |-> "none", pattern |-> f, replacement |-> r] : r \in parseReplace(replace, Captures(f))} :
           f \in parseFind(find)}

parseBody(body) ==
  IF body = <<"\\", "a">> THEN {CaseOperation("lower")}
  ELSE IF body = <<"\\", "A">> THEN {CaseOperation("upper")}
  ELSE UNION {LET find == FromTo(body, 1, sep)
                  replace == SubSeq(body, sep + 2, Len(body))
              IN IF find = <<>> \/ replace = <<>> THEN {} ELSE Mapping(find, replace) :
                sep \in findRuleSeparator(body)}

parseEntry(part) ==
  LET exclude == part # <<>> /\ part[1] = "#"
      split == splitEscaped(IF exclude THEN Tail(part) ELSE part, "#")
  IN IF part = <<>> \/ \E i \in DOMAIN part : part[i] \in Forbidden THEN {}
     ELSE UNION {{[exclude |-> exclude, scope |-> scope, body |-> body] :
                    scope \in IF Len(parts) = 1 THEN {Unscoped} ELSE parseScope(parts[1]),
                    body \in parseBody(Last(parts))} :
                   parts \in {p \in split : Len(p) \in IF exclude THEN {2} ELSE {1, 2}}}

parseRules(raw) ==
  LET entries == splitRuleEntries(raw)
      rules[n \in 0 .. Len(entries)] ==
        IF n = 0 THEN {<<>>}
        ELSE IF hasUnescapedCommentMarker(entries[n]) THEN rules[n - 1]
        ELSE {Append(out, rule) : out \in rules[n - 1], rule \in parseEntry(entries[n])}
  IN IF raw = <<>> THEN {} ELSE rules[Len(entries)]
=============================================================================
