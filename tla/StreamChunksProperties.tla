------------------------ MODULE StreamChunksProperties ------------------------
(***************************************************************************)
(* What a client gets of a stream that is made of known pieces: values,    *)
(* events and what stands between them.                                    *)
(***************************************************************************)
EXTENDS StreamChunks

Pieces == stream.pieces

(* Where piece k ends, and how many pieces have been written whole.        *)
End(k) == Len(FlattenSeq([j \in 1 .. k |-> Pieces[j].text]))
Whole == CHOOSE k \in 0 .. Len(Pieces) :
           End(k) <= pos /\ (k = Len(Pieces) \/ pos < End(k + 1))
Partial == Part(text, End(Whole), pos)
PartialKind == IF Partial = <<>> THEN "none" ELSE Pieces[Whole + 1].kind

(* An event whose fields come as chunks without breaks.                    *)
JoinedFields(fields) ==
  FlattenSeq([k \in DOMAIN fields |-> (IF k = 1 THEN <<>> ELSE <<"lf">>) \o fields[k]])

(* What is emitted of a piece.                                             *)
Emitted(piece) ==
  LET d == findSSEEventDelimiter(piece.text, 0, TRUE)
      end == IF d.delimLen = 0 THEN Len(piece.text) ELSE d.eventLen
      delimiter == IF d.delimLen = 0 THEN <<"lf", "lf">> ELSE Drop(piece.text, d.eventLen)
  IN CASE piece.kind = "event" -> rewriteEvent(Part(piece.text, 0, end)) \o delimiter
       [] piece.kind = "value" /\ frameRawJSONAsSSE -> frameRawJSON(restoreResponseModel(piece.text))
       [] piece.kind = "value" /\ ~frameRawJSONAsSSE -> restoreResponseModel(piece.text)
       [] piece.kind = "fields" -> rewriteEvent(JoinedFields(piece.fields)) \o <<"lf", "lf">>
       [] piece.kind = "bom" -> <<>>
       [] piece.kind = "space" -> IF frameRawJSONAsSSE THEN <<>> ELSE piece.text

Unended(k) == k > 0 /\ Pieces[k].kind = "event" /\ ~HasEvent(Pieces[k].text)

EmittedUpTo(k) == FlattenSeq([j \in 1 .. k |-> Emitted(Pieces[j])])

Unbroken(p) == SelectSeq(p, LAMBDA symbol : symbol # "lf")

(* However the stream was cut into chunks, its client has got every piece  *)
(* that came, once, in order and restored; of a piece that the end cut off *)
(* an event passes as it is, and a value only where it is not framed.      *)
DeliveredWhateverTheCut ==
  pc = "closed" /\ "overflow" \notin err /\ ~(PartialKind = "event" /\ couldStartJSONValue(Partial)) =>
    LET whole == EmittedUpTo(Whole)
        rest == Drop(out, Len(whole))
        tail == IF PartialKind = "event"
                THEN IF Unended(Whole) /\ IsStrictPrefix(Partial, EVENT) THEN <<>> ELSE rewriteEvent(Partial)
                ELSE IF PartialKind \in {"fields", "bom"} THEN Partial
                ELSE IF PartialKind = "none" \/ (frameRawJSONAsSSE /\ ~Valid(Partial)) THEN <<>>
                ELSE Emitted([kind |-> PartialKind, text |-> Partial])
    IN /\ IsPrefix(whole, out)
       /\ (IF PartialKind = "fields" THEN Unbroken(rest) ELSE rest) = tail
       /\ "incomplete" \in err <=> PartialKind = "value" /\ frameRawJSONAsSSE /\ ~Valid(Partial)

(* What a client reads: the blank lines end its events, of which it takes  *)
(* the type and the data lines, joined; the rest is for other readers.     *)
RECURSIVE EventLines(_, _)
EventLines(lines, event) ==
  LET ended == IF event = <<>> THEN <<>> ELSE <<event>>
  IN IF lines = <<>> THEN ended
     ELSE IF Head(lines).line = <<>> THEN ended \o EventLines(Tail(lines), <<>>)
     ELSE EventLines(Tail(lines), Append(event, Head(lines)))

Read(lines) ==
  LET types == SelectSeq(lines, LAMBDA l : IsPrefix(EVENT, l.line))
      data == SelectSeq(lines, IsData)
      other == SelectSeq(lines, LAMBDA l : ~IsPrefix(EVENT, l.line) /\ ~IsData(l))
      joined == FlattenSeq([k \in DOMAIN data |-> <<"lf">> \o sseFieldValue(data[k])])
  IN [type |-> IF types = <<>> THEN <<>> ELSE TrimLeft(Drop(Last(types).line, Len(EVENT)), {"sp"}),
      data |-> IF data = <<>> THEN <<>> ELSE Compact(Tail(joined)),
      other |-> [k \in DOMAIN other |-> other[k].line]]

Reads(p) == LET events == EventLines(Lines(p), <<>>) IN [k \in DOMAIN events |-> Read(events[k])]

Restored(data) == IF Valid(data) THEN Named(data) ELSE data

(* The events a client is to read of a piece, under the model it called.   *)
Sent(piece) ==
  LET type == IF format \in {"claude", "openai-response"} THEN Member(piece.text, "type") ELSE <<>>
      RestoredReads(p) == LET read == Reads(p) IN [k \in DOMAIN read |-> [read[k] EXCEPT !.data = Restored(@)]]
  IN CASE piece.kind \in {"space", "bom"} -> <<>>
       [] piece.kind = "value" -> <<[type |-> type, data |-> Compact(Restored(piece.text)), other |-> <<>>]>>
       [] piece.kind = "event" -> RestoredReads(piece.text)
       [] piece.kind = "fields" -> RestoredReads(JoinedFields(piece.fields))

AllSent == FlattenSeq([k \in DOMAIN Pieces |-> Sent(Pieces[k])])
AllCame == pc = "closed" /\ err = {} /\ pos = Len(text)

(* A client of a framed stream reads one event for every value, with its   *)
(* type for Claude and for OpenAI responses, and every event the upstream  *)
(* sent with all its lines; the data of each is the JSON that was sent,    *)
(* under the model it called.                                              *)
ClientReadsEveryPiece == frameRawJSONAsSSE /\ AllCame => Reads(out) = AllSent

(* The values among them.                                                  *)
DataValues(events) ==
  SelectSeq([k \in DOMAIN events |-> events[k].data], LAMBDA data : data # <<>>)

(* The design of the native fields (docs/superpowers/specs/                *)
(* 2026-10-22-native-sse-field-boundaries-design.md:42, R3): "deliver each *)
(* real non-empty data value exactly once".  In the format openai-response *)
(* whatever fields stand between the values, sent one by one, the client   *)
(* reads these values and no others.                                       *)
EveryDataValueOnce == AllCame => DataValues(Reads(out)) = DataValues(AllSent)

(* A piece whose end shows by itself: an object or array, or an event with *)
(* its blank line, unless that ends in a CR to which an LF may yet come.   *)
EndShows(k) ==
  LET t == Pieces[k].text
  IN CASE Pieces[k].kind = "value" -> Head(t) \in {"{", "["}
       [] Pieces[k].kind = "event" -> HasEvent(t) /\ (Last(t) = "cr" => pos > End(k))
       [] Pieces[k].kind = "fields" -> \E f \in ToSet(Pieces[k].fields) : IsPrefix(EVENT, f)
       [] OTHER -> FALSE

Scalar(k) == Pieces[k].kind = "value" /\ Head(Pieces[k].text) \notin {"{", "["}

(* Between two chunks everything has been emitted up to the last piece     *)
(* whose end shows; only where a number, a string or a literal came first, *)
(* which may be the name of a field, a framed stream waits.                *)
EmittedAtOnce ==
  pc = "open" /\ err = {} =>
    \A k \in 1 .. Whole :
      EndShows(k) /\ (frameRawJSONAsSSE => \A j \in 1 .. k : ~Scalar(j)) =>
        IsPrefix(EmittedUpTo(k), out) \/ EmittedUpTo(k) = Append(out, "lf")

(* A framed stream emits nothing but whole pieces, also when it fails.  Of *)
(* an event that ends in CRLF the last LF may be missing for a while.      *)
NothingEmittedInPart ==
  frameRawJSONAsSSE /\ (pc = "open" \/ err # {}) =>
    \/ \E k \in 0 .. Whole : out = EmittedUpTo(k)
    \/ \E k \in 1 .. Len(Pieces) :
         /\ k <= Whole \/ (HasEvent(Partial) /\ k = Whole + 1)
         /\ Append(out, "lf") = EmittedUpTo(k)

(* With the space before it.                                               *)
SpacedPartial ==
  LET units == {k \in 1 .. Whole : Pieces[k].kind # "space"}
  IN Part(text, IF units = {} THEN 0 ELSE End(CHOOSE k \in units : \A j \in units : j <= k), pos)

(* The limit is on what is not complete, however much was before it and    *)
(* however it was cut: the stream fails when more than MaxPending bytes of *)
(* a piece have come and its end has not, and only then; the space before  *)
(* the piece may count.  An event may wait for the LF after its last CR.   *)
LimitIsOnTheUnfinished ==
  pc = "open" =>
    /\ "overflow" \in err => Len(SpacedPartial) > MaxPending
    /\ Len(Partial) > MaxPending /\ PartialKind # "fields" => "overflow" \in err \/ HasEvent(Partial)
=============================================================================
