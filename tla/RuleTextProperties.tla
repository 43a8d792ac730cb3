--------------------------- MODULE RuleTextProperties ---------------------------
(***************************************************************************)
(* The text of a rules field, written piece by piece, and what README.md   *)
(* ("Rule syntax") makes of it.                                            *)
(***************************************************************************)
EXTENDS RuleText

CONSTANT Writers   \* how a text may be written: [pieces, at most so many]

ASSUME WritersAssumption ==
  \A w \in Writers : w.pieces \subseteq Seq(STRING) /\ w.most \in Nat

VARIABLES raw, writer, left

vars == <<raw, writer, left>>

Init ==
  /\ raw = <<>>
  /\ writer \in Writers
  /\ left = writer.most

Write ==
  /\ left > 0
  /\ \E piece \in writer.pieces : raw' = raw \o piece
  /\ left' = left - 1
  /\ UNCHANGED writer

Spec == Init /\ [][Write]_vars

-----------------------------------------------------------------------------
(* One reading of the whole text: a backslash and what it escapes are one  *)
(* symbol, and so are the two characters of an arrow.                      *)
Plain(chars) == [escaped |-> FALSE, chars |-> chars]
Escape(chars) == [escaped |-> TRUE, chars |-> chars]
Arrow == <<"=", ">">>

Symbol(text, i) ==
  IF IsArrow(text, i) THEN Plain(Arrow)
  ELSE IF text[i] # "\\" THEN Plain(<<text[i]>>)
  ELSE IF IsArrow(text, i + 1) THEN Escape(Arrow)
  ELSE IF i = Len(text) THEN Escape(<<>>)
  ELSE Escape(<<text[i + 1]>>)

Width(symbol) == Len(symbol.chars) + IF symbol.escaped THEN 1 ELSE 0

Symbols(text) ==
  LET from[i \in 1 .. Len(text) + 1] ==
        IF i > Len(text) THEN <<>>
        ELSE <<Symbol(text, i)>> \o from[i + Width(Symbol(text, i))]
  IN from[1]

Marks(symbols, char) == {k \in DOMAIN symbols : symbols[k] = Plain(<<char>>)}
Arrows(symbols) == {k \in DOMAIN symbols : symbols[k] = Plain(Arrow)}

(* The tokens of symbols, but for those at some places, from the last one. *)
Joined(tokens, but) ==
  LET joined[k \in 1 .. Len(tokens) + 1] ==
        IF k > Len(tokens) THEN <<>>
        ELSE IF k \in but THEN joined[k + 1]
        ELSE Join(tokens[k], joined[k + 1])
  IN joined[1]

(* Keys and models to find: every special character may be escaped.        *)
Pattern(symbols) ==
  IF \E k \in DOMAIN symbols :
       symbols[k].escaped /\ symbols[k].chars \notin
         {Arrow, <<"*">>, <<";">>, <<"$">>, <<"\\">>, <<"#">>, <<"!">>}
  THEN {}
  ELSE {Joined([k \in DOMAIN symbols |->
                  IF symbols[k] = Plain(<<"*">>) THEN Capture(1) ELSE Literal(symbols[k].chars)], {})}

(* Replacements: numbers after a dollar, and what else could be taken for  *)
(* the end of the rule, escaped.  A number is known by the characters that *)
(* its symbols begin with.                                                 *)
Heads(symbols) ==
  [k \in DOMAIN symbols |-> IF symbols[k].escaped THEN "\\" ELSE symbols[k].chars[1]]
InNumber(symbols, k) ==
  \E d \in Marks(symbols, "$") : d < k /\ \A m \in d + 1 .. k : Heads(symbols)[m] \in DOMAIN Digit
Replacement(symbols, captures) ==
  LET named(k) == Number(Heads(symbols), k + 1)
      read == [k \in DOMAIN symbols |->
                 IF k \in Marks(symbols, "$") THEN Capture(named(k)) ELSE Literal(symbols[k].chars)]
  IN IF \/ \E k \in DOMAIN symbols :
             symbols[k].escaped /\ symbols[k].chars \notin {Arrow, <<"#">>, <<"!">>}
        \/ \E k \in Marks(symbols, "$") :
             \/ k = Len(symbols) \/ Heads(symbols)[k + 1] \notin DOMAIN Digit \ {"0"}
             \/ named(k) \notin 1 .. captures
     THEN {} ELSE {Joined(read, {k \in DOMAIN symbols : InNumber(symbols, k)})}

Body(symbols) ==
  IF symbols = <<Escape(<<"a">>)>> THEN {CaseOperation("lower")}
  ELSE IF symbols = <<Escape(<<"A">>)>> THEN {CaseOperation("upper")}
  ELSE IF Cardinality(Arrows(symbols)) # 1 THEN {}
  ELSE LET k == CHOOSE k \in Arrows(symbols) : TRUE
           find == FromTo(symbols, 1, k)
           replace == SubSeq(symbols, k + 1, Len(symbols))
       IN IF find = <<>> \/ replace = <<>> THEN {}
          ELSE UNION {{[case |-> "none", pattern |-> f, replacement |-> r] :
                         r \in Replacement(replace, Captures(f))} : f \in Pattern(find)}

Scope(symbols) ==
  {IF Captures(key) > 0 THEN [exact |-> {}, pattern |-> key]
   ELSE [exact |-> {callerScope(key[1].literal)}, pattern |-> <<>>] :
   key \in IF symbols = <<>> THEN {} ELSE Pattern(symbols)}

(* entry := body | api-key-pattern#body | #api-key-pattern#body            *)
Entry(symbols) ==
  LET exclude == symbols # <<>> /\ symbols[1] = Plain(<<"#">>)
      rest == IF exclude THEN Tail(symbols) ELSE symbols
      fields == Pieces(rest, Marks(rest, "#"))
      rules(scopes, bodies) ==
        {[exclude |-> exclude, scope |-> s, body |-> b] : s \in scopes, b \in bodies}
  IN IF \E k \in DOMAIN symbols : symbols[k].chars \in {<<c>> : c \in Forbidden} THEN {}
     ELSE IF Len(fields) = 1 /\ ~exclude THEN rules({Unscoped}, Body(fields[1]))
     ELSE IF Len(fields) = 2 THEN rules(Scope(fields[1]), Body(fields[2]))
     ELSE {}

Documented(text) ==
  LET entries == Pieces(Symbols(text), Marks(Symbols(text), ";"))
      rules[n \in 0 .. Len(entries)] ==
        IF n = 0 THEN {<<>>}
        ELSE IF Marks(entries[n], "!") # {} THEN rules[n - 1]
        ELSE {Append(out, rule) : out \in rules[n - 1], rule \in Entry(entries[n])}
  IN IF text = <<>> THEN {} ELSE rules[Len(entries)]

(* The five scanners agree on what is escaped: together they read every    *)
(* text as one reading of its symbols does, and refuse the same texts.     *)
ScannersAgree == parseRules(raw) = Documented(raw)

-----------------------------------------------------------------------------
(* The marks are characters: of a string literal the provers know only     *)
(* that it differs from others.                                            *)
ASSUME MarksAssumption == {"\\", "#", "*", "$", "=", ">"} \cup Range(Digits) \subseteq STRING

(* Every literal with its special characters escaped,                      *)
Written(chars, special) ==
  FlattenSeq([i \in DOMAIN chars |->
    IF chars[i] \in special \/ IsArrow(chars, i) THEN <<"\\", chars[i]>> ELSE <<chars[i]>>])

(* and every number digit by digit.                                        *)
Decimal(n) ==
  LET digits[m \in 0 .. n] ==
        IF m < 10 THEN <<Digits[m + 1]>> ELSE Append(digits[m \div 10], Digits[(m % 10) + 1])
  IN digits[n]

WrittenTokens(tokens, special, numbered) ==
  FlattenSeq([k \in DOMAIN tokens |->
    IF tokens[k].capture = 0 THEN Written(tokens[k].literal, special)
    ELSE IF numbered THEN <<"$">> \o Decimal(tokens[k].capture)
    ELSE <<"*">>])

WrittenPattern(tokens) == WrittenTokens(tokens, {"*", ";", "$", "\\", "#", "!"}, FALSE)
WrittenReplacement(tokens) == WrittenTokens(tokens, {"#", "!"}, TRUE)

WrittenScope(scope) ==
  IF scope = Unscoped THEN <<>>
  ELSE IF scope.pattern # <<>> THEN Append(WrittenPattern(scope.pattern), "#")
  ELSE LET digest == CHOOSE d \in scope.exact : TRUE
       IN Append(WrittenPattern(<<Literal(digest.sha256)>>), "#")

WrittenBody(body) ==
  CASE body.case = "lower" -> <<"\\", "a">>
    [] body.case = "upper" -> <<"\\", "A">>
    [] OTHER -> WrittenPattern(body.pattern) \o Arrow \o WrittenReplacement(body.replacement)

WrittenRule(rule) ==
  (IF rule.exclude THEN <<"#">> ELSE <<>>) \o WrittenScope(rule.scope) \o WrittenBody(rule.body)

(* What was understood can be written again with the documented escapes,   *)
(* and is understood the same: no character is lost, doubled or taken for  *)
(* another on the way into a rule.                                         *)
RulesCanBeWritten ==
  \A rules \in parseRules(raw) :
    \A k \in DOMAIN rules : parseRules(WrittenRule(rules[k])) = {<<rules[k]>>}

(* Whatever is accepted is safe to apply: a replacement is not empty and   *)
(* names captures of its own pattern only, the token loops can tell        *)
(* literals from captures and never meet two literals in a row, a scope    *)
(* has an exact key or a wildcard, and an entry for all callers but some   *)
(* says which.                                                             *)
WellFormed(tokens) ==
  /\ tokens # <<>>
  /\ \A k \in DOMAIN tokens :
       /\ tokens[k].literal = <<>> <=> tokens[k].capture # 0
       /\ k > 1 => tokens[k].capture # 0 \/ tokens[k - 1].capture # 0
SafeToApply(rule) ==
  /\ rule.body.case = "none" =>
       /\ WellFormed(rule.body.pattern) /\ WellFormed(rule.body.replacement)
       /\ \A t \in DOMAIN rule.body.replacement :
            rule.body.replacement[t].capture <= Captures(rule.body.pattern)
  /\ rule.exclude => rule.scope # Unscoped
  /\ rule.scope.pattern # <<>> =>
       WellFormed(rule.scope.pattern) /\ Captures(rule.scope.pattern) > 0
  /\ \A digest \in rule.scope.exact : digest.sha256 # <<>>
AcceptedRulesAreSafe ==
  \A rules \in parseRules(raw) : \A k \in DOMAIN rules : SafeToApply(rules[k])
=============================================================================
