------------------------------- MODULE StreamText -------------------------------
(***************************************************************************)
(* The bytes of a stream, and what the two rewriters read off them: JSON   *)
(* values as encoding/json's decoder takes them, the lines of server-sent  *)
(* events, and the tests that tell one from the other.  A text is a        *)
(* sequence of symbols: punctuation, line breaks, digits, pieces of        *)
(* words.  Offsets count from 0.                                           *)
(***************************************************************************)
EXTENDS SseDelimiter, SequencesExt

Digit == {"1", "2"}
Blank == {"sp", "lf", "cr"}

(* What the names are spelled with: they may be cut in two.                *)
DATA == <<"da", "ta", ":">>
EVENT == <<"ev", "ent", ":">>
Fields == {DATA, EVENT, <<"id", ":">>, <<"retry", ":">>, <<":">>}

Part(p, from, to) == SubSeq(p, from + 1, to)
Drop(p, n) == SubSeq(p, n + 1, Len(p))
Holds(p, symbol) == \E i \in DOMAIN p : p[i] = symbol

(* The first offset from at on whose symbol is not in S.                   *)
Skip(p, at, S) ==
  CHOOSE j \in at .. Len(p) :
    (j = Len(p) \/ ByteAt(p, j) \notin S) /\ \A k \in at .. j - 1 : ByteAt(p, k) \in S

TrimLeft(p, S) == Drop(p, Skip(p, 0, S))

RECURSIVE TrimRight(_)
TrimRight(p) == IF p # <<>> /\ Last(p) \in Blank THEN TrimRight(Front(p)) ELSE p

AllBlank(p) == Skip(p, 0, Blank) = Len(p)

FirstIn(p, S) == LET at == Skip(p, 0, Blank) IN at < Len(p) /\ ByteAt(p, at) \in S

-----------------------------------------------------------------------------
(* JSON.  A value ends, or the text ends before it, or it is none.         *)
Ok(at) == [kind |-> "value", at |-> at]
Short == [kind |-> "short", at |-> 0]
Bad == [kind |-> "bad", at |-> 0]

(* After the quote that opens it.                                          *)
RECURSIVE StringEnd(_, _)
StringEnd(p, at) ==
  IF at = Len(p) THEN Short
  ELSE CASE ByteAt(p, at) = "q" -> Ok(at + 1)
         [] ByteAt(p, at) \in {"lf", "cr"} -> Bad
         [] ByteAt(p, at) = "bs" ->
              IF at + 1 = Len(p) THEN Short
              ELSE IF ByteAt(p, at + 1) \in {"q", "bs"} THEN StringEnd(p, at + 2) ELSE Bad
         [] OTHER -> StringEnd(p, at + 1)

(* Where the value of a member begins: after its name and a colon.         *)
AfterName(p, name, colon) ==
  IF name.kind # "value" THEN name
  ELSE IF colon = Len(p) THEN Short
  ELSE IF ByteAt(p, colon) = ":" THEN Ok(colon + 1) ELSE Bad

MemberName(p, key) ==
  IF key = Len(p) THEN Short
  ELSE IF ByteAt(p, key) = "q" THEN StringEnd(p, key + 1) ELSE Bad

MemberValue(p, name) == AfterName(p, name, Skip(p, name.at, Blank))

(* The items of an object or an array up to what closes it.                *)
RECURSIVE ValueEnd(_, _), ItemsEnd(_, _, _)

AfterItem(p, value, next, closer) ==
  IF value.kind # "value" THEN value
  ELSE IF next = Len(p) THEN Short
  ELSE CASE ByteAt(p, next) = closer -> Ok(next + 1)
         [] ByteAt(p, next) = "," -> ItemsEnd(p, next + 1, closer)
         [] OTHER -> Bad

ItemEnd(p, value, closer) == AfterItem(p, value, Skip(p, value.at, Blank), closer)

ItemsEnd(p, from, closer) ==
  LET start == IF closer = "}" THEN MemberValue(p, MemberName(p, Skip(p, from, Blank))) ELSE Ok(from)
  IN ItemEnd(p, IF start.kind = "value" THEN ValueEnd(p, start.at) ELSE start, closer)

ValueAt(p, at, inside) ==
  LET first == ByteAt(p, at)
      closer == IF first = "{" THEN "}" ELSE "]"
  IN IF at = Len(p) THEN Short
     ELSE CASE first = "q" -> StringEnd(p, at + 1)
            [] first \in Digit -> Ok(Skip(p, at, Digit))
            [] first = "n" -> IF at + 1 = Len(p) THEN Short
                              ELSE IF ByteAt(p, at + 1) = "ull" THEN Ok(at + 2) ELSE Bad
            [] first \in {"{", "["} ->
                 IF inside < Len(p) /\ ByteAt(p, inside) = closer THEN Ok(inside + 1)
                 ELSE ItemsEnd(p, at + 1, closer)
            [] OTHER -> Bad

Inside(p, at) == ValueAt(p, at, Skip(p, at + 1, Blank))
ValueEnd(p, from) == Inside(p, Skip(p, from, Blank))

(* Decoder.Decode from an offset on.                                       *)
Decode(p, from) ==
  IF Skip(p, from, Blank) = Len(p) THEN [kind |-> "eof", at |-> 0] ELSE ValueEnd(p, from)

Valid(p) == \E d \in {Decode(p, 0)} : d.kind = "value" /\ AllBlank(Drop(p, d.at))

(* Whether the symbol at place i of a value is inside a string.            *)
InString(p, i) ==
  Cardinality({j \in 1 .. i - 1 : p[j] = "q" /\ (j = 1 \/ p[j - 1] # "bs")}) % 2 = 1

Compact(p) ==
  LET kept == SelectSeq([i \in DOMAIN p |-> i], LAMBDA i : InString(p, i) \/ p[i] \notin Blank)
  IN [i \in DOMAIN kept |-> p[kept[i]]]

-----------------------------------------------------------------------------
(* Names.  The upstream calls the model "u", the client called it "o";     *)
(* which members hold it is in JsonModel, here it is the one that is       *)
(* called "model".                                                         *)
mightContainResponseModelField(p) == \E i \in DOMAIN p : p[i] = "model"

(* The place i is the string value of the member called name.              *)
ValueOf(p, i, name) ==
  \E j \in 4 .. i - 2 :
    /\ SubSeq(p, j - 3, j) = <<"q", name, "q", ":">>
    /\ p[i - 1] = "q" /\ \A k \in j + 1 .. i - 2 : p[k] \in Blank

(* The string that is the value of the member called name, if there is one. *)
Member(p, name) ==
  LET places == {i \in 2 .. Len(p) - 1 : ValueOf(p, i, name) /\ p[i + 1] = "q"}
  IN IF places = {} THEN <<>> ELSE <<p[Least(places)]>>

Named(p) == [i \in DOMAIN p |-> IF p[i] = "u" /\ ValueOf(p, i, "model") THEN "o" ELSE p[i]]

restoreResponseModel(p) == IF mightContainResponseModelField(p) /\ Valid(p) THEN Named(p) ELSE p

-----------------------------------------------------------------------------
(* The lines of a text, each with the break that ends it.                  *)
RECURSIVE Lines(_)
Lines(p) ==
  LET end == sseLineEnding(p, 0, TRUE)
      next == end.position + end.length
  IN IF p = <<>> THEN <<>>
     ELSE IF end.length = 0 THEN <<[line |-> p, break |-> <<>>]>>
     ELSE <<[line |-> Part(p, 0, end.position), break |-> Part(p, end.position, next)]>>
             \o Lines(Drop(p, next))

couldStartJSONValue(p) == FirstIn(p, {"{", "[", "q", "n"} \union Digit)

NamesField(line) ==
  Holds(line, ":") \/ \E field \in Fields : Len(field) > 1 /\ line = Front(field)

hasSSEFieldPrefix(p) ==
  LET trimmed == TrimLeft(p, Blank) IN trimmed # <<>> /\ NamesField(Lines(trimmed)[1].line)

HasEvent(p) == findSSEEventDelimiter(p, 0, TRUE).delimLen > 0

isSSEChunk(p) ==
  \/ \E l \in ToSet(Lines(p)) : ~couldStartJSONValue(l.line) /\ hasSSEFieldPrefix(l.line)
  \/ HasEvent(p)
  \/ LET trimmed == TrimLeft(p, Blank)
     IN trimmed # <<>> /\ ~couldStartJSONValue(trimmed) /\ (Holds(trimmed, "lf") \/ Holds(trimmed, "cr"))

isIncompleteSSEPrefix(p) ==
  LET trimmed == TrimLeft(p, Blank)
  IN trimmed # <<>> /\ \E field \in Fields : IsStrictPrefix(trimmed, field)

isColonlessSSEChunk(p) ==
  LET d == findSSEEventDelimiter(p, 0, TRUE)
  IN /\ ~AllBlank(p) /\ ~FirstIn(p, {"{", "["})
     /\ d.delimLen > 0 /\ ~Holds(Part(p, 0, d.eventLen), ":")

(* The whole text is complete events.                                      *)
RECURSIVE completeSSEEvents(_)
completeSSEEvents(p) ==
  LET d == findSSEEventDelimiter(p, 0, TRUE)
      rest == Drop(p, d.eventLen + d.delimLen)
  IN d.delimLen > 0 /\ (rest = <<>> \/ completeSSEEvents(rest))
=============================================================================
