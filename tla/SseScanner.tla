------------------------------- MODULE SseScanner -------------------------------
(***************************************************************************)
(* Events that no blank line ends (sse_rewriter.go).  In the formats       *)
(* "interactions" and "openai-response" an event may end where its JSON    *)
(* value ends: a scanner, resumed with every chunk, looks for that end.    *)
(* In the format "openai-response" a chunk may also be one field without   *)
(* a line break; such fields are joined to an event with the breaks they   *)
(* lack.                                                                   *)
(***************************************************************************)
EXTENDS SseEvents

(* The scanner: where it is in the event and what it has found so far.     *)
(* The code holds the phase in flags.                                      *)
FreshScanner ==
  [phase |-> "field", disabled |-> FALSE, headerStart |-> 0, headerScan |-> 0, type |-> <<>>,
   nativeHeader |-> FALSE, emptyEventHeader |-> FALSE, dataStart |-> 0,
   jsonScan |-> 0, depth |-> 0, inString |-> FALSE, escaped |-> FALSE,
   completeEnd |-> 0, metadataEnd |-> 0, candidateEnd |-> 0, fieldSeparators |-> <<>>]

(* The buffer, and where the fields begin that came as chunks.             *)
Fresh ==
  [buf |-> <<>>, scanFrom |-> 0, started |-> FALSE, rawJSONPrefix |-> 0,
   scanner |-> FreshScanner, nativeFields |-> FALSE, nativeBoundaries |-> <<>>]

LogicalTypes == {<<"created">>, <<"delta">>, <<"done">>}
Response == {"response.created", "response.completed", "response.done"}

IsResponse(type) == type # <<>> /\ Head(type) \in Response
Terminal(type) == type \in {<<"error">>, <<"keepalive">>}

isResponsesNativeEventType(type) ==
  (IsResponse(type) \/ Terminal(type)) /\ ToSet(type) \intersect Blank = {}

Known(type, format) ==
  IF format = "interactions" THEN type \in LogicalTypes ELSE IsResponse(type) \/ Terminal(type)

-----------------------------------------------------------------------------
(* Fields.                                                                 *)
HasBreak(p) == Holds(p, "lf") \/ Holds(p, "cr")

isResponsesMetadataField(p) == \E field \in {<<"id", ":">>, <<"retry", ":">>, <<":">>} : IsPrefix(field, p)

isResponsesEmptyField(p) ==
  p \in {Front(DATA), Front(EVENT), EVENT, Append(EVENT, "sp"), DATA, SpacedData}

BareField(p) == p \in {<<"id">>, <<"retry">>}

isResponsesExtensionField(p) ==
  \E i \in 2 .. Len(p) :
    /\ p[i] = ":" /\ \A k \in 1 .. i - 1 : p[k] \notin Blank \union {":", "{", "}", "[", "]", "q"}
    /\ SubSeq(p, 1, i - 1) \notin {Front(DATA), Front(EVENT)}

isResponsesNativeField(p) ==
  \/ IsPrefix(EVENT, p) \/ IsPrefix(DATA, p)
  \/ BareField(p) \/ isResponsesEmptyField(p)
  \/ isResponsesMetadataField(p) \/ isResponsesExtensionField(p)

Trimmed(p) == TrimRight(TrimLeft(p, Blank))
TypeIn(p) == Trimmed(Drop(p, Len(EVENT)))

(* A chunk ended the field at boundary, and another one begins there.      *)
EndsField(r, start, boundary) ==
  LET part == Part(r.buf, start, boundary)
      rest == Drop(r.buf, boundary)
  IN /\ Holds(part, ":") \/ ~IsPrefix(<<":">>, rest)
     /\ isResponsesNativeField(part) /\ (IsPrefix(DATA, part) => isResponsesEmptyField(part))
     /\ isResponsesNativeField(rest)

(* Where the field ends: at a chunk's end that comes before its break, or  *)
(* at its break.                                                           *)
FieldEnd(r, start, found) ==
  LET ends == {b \in ToSet(r.nativeBoundaries) :
                 /\ b > start /\ (found.length > 0 => b <= found.position)
                 /\ EndsField(r, start, b)}
  IN IF ends # {} THEN [at |-> Least(ends), length |-> 0, missing |-> TRUE]
     ELSE [at |-> found.position, length |-> found.length, missing |-> FALSE]

(* An event's name that can only be a field of this event.                 *)
HeaderAgain(r, part) ==
  \/ part = Front(EVENT)
  \/ /\ IsPrefix(EVENT, part) /\ (r.nativeFields \/ r.scanner.phase = "data")
     /\ TypeIn(part) = <<>> \/ isResponsesNativeEventType(TypeIn(part))

NotMetadata(r, start, field, end) ==
  LET event == IsPrefix(EVENT, field)
  IN [metadata |-> FALSE, end |-> start, scanner |-> r.scanner,
      waiting |->
        \/ isResponsesEmptyField(field)
        \/ IsPrefix(field, <<"id">>) \/ IsPrefix(field, <<"retry">>)
        \/ /\ r.nativeFields /\ end.length = 0 /\ ~IsPrefix(DATA, field)
           /\ event => isResponsesNativeEventType(TypeIn(field))]

(* The field part, which ends as end says.                                 *)
MetadataEnd(r, start, part, end, otherwise) ==
  LET again == HeaderAgain(r, part)
      type == IF IsPrefix(EVENT, part) THEN TypeIn(part) ELSE <<>>
      s == r.scanner
      named == IF again THEN [s EXCEPT !.type = type, !.emptyEventHeader = type = <<>>,
                                       !.nativeHeader = @ \/ (type # <<>> /\ end.missing)]
               ELSE s
      separated == IF end.missing THEN [named EXCEPT !.fieldSeparators = Append(@, end.at)] ELSE named
  IN IF /\ end.missing \/ end.length > 0
        /\ \/ again \/ BareField(part) \/ isResponsesEmptyField(part)
           \/ isResponsesMetadataField(part) \/ isResponsesExtensionField(part)
     THEN [metadata |-> TRUE, end |-> end.at + end.length, scanner |-> separated, waiting |-> FALSE]
     ELSE otherwise

AtField(r, start, found, end) ==
  MetadataEnd(r, start, Part(r.buf, start, end.at), end,
              NotMetadata(r, start, Drop(r.buf, start), end))

AtLine(r, start, found) ==
  IF isResponsesMetadataField(Drop(r.buf, start)) /\ found.length > 0
  THEN [metadata |-> TRUE, end |-> found.position + found.length, scanner |-> r.scanner,
        waiting |-> FALSE]
  ELSE AtField(r, start, found, FieldEnd(r, start, found))

(* The field at start, if it is one that may stand around event and data.  *)
responsesMetadataEnd(r, start, eof) == AtLine(r, start, sseLineEnding(r.buf, start, eof))

-----------------------------------------------------------------------------
Off(s) == [s EXCEPT !.disabled = TRUE]

(* The value is the one the header announces.                              *)
Announced(s, format, value, type) ==
  CASE format = "interactions" ->
         IF s.type = <<"done">> THEN value = <<"[", "DONE", "]">>
         ELSE Valid(value) /\ Member(value, "etype") = s.type
    [] format = "openai-response" ->
         /\ Valid(value)
         /\ \/ s.type # <<>> /\ type = s.type
            \/ s.type = <<"response.done">> /\ type = <<"response.completed">>
            \/ /\ s.type = <<>>
               /\ \/ IsResponse(type)
                  \/ Terminal(type) /\ (s.dataStart = s.headerStart \/ s.emptyEventHeader)

(* The name of the first field.                                            *)
FieldStep(s, left, format) ==
  LET data == format = "openai-response" /\ IsPrefix(<<Head(DATA)>>, left)
      field == IF data THEN DATA ELSE EVENT
      at == s.headerScan
  IN IF IsStrictPrefix(left, field) THEN [s EXCEPT !.headerStart = at]
     ELSE IF ~IsPrefix(field, left) THEN [Off(s) EXCEPT !.headerStart = at]
     ELSE [s EXCEPT !.headerStart = at, !.headerScan = at + Len(field),
                    !.phase = IF data THEN "data" ELSE "header",
                    !.dataStart = IF data THEN at ELSE 0]

(* The line of the header, once it is known where it ends.                 *)
HeaderStep(s, buf, format, breaks) ==
  LET p == Least(breaks)
      type == TypeIn(Part(buf, s.headerStart, p))
      length == EndingLength(buf, p, FALSE)
  IN IF breaks = {} THEN [s EXCEPT !.headerScan = Len(buf)]
     ELSE IF length = 0 THEN [s EXCEPT !.headerScan = p]
     ELSE [s EXCEPT !.disabled = ~Known(type, format), !.phase = IF Known(type, format) THEN "data" ELSE @,
                    !.headerScan = p, !.dataStart = p + length, !.type = type]

DataStep(s, left) ==
  IF Len(left) < Len(DATA) THEN s
  ELSE IF ~IsPrefix(DATA, left) THEN Off(s)
  ELSE [s EXCEPT !.phase = "space", !.jsonScan = s.dataStart + Len(DATA)]

(* One symbol of the value.                                                *)
JsonStep(s, buf, format) ==
  LET b == ByteAt(buf, s.jsonScan)
      next == [s EXCEPT !.jsonScan = @ + 1]
      value == TrimLeft(Part(buf, s.dataStart + Len(DATA), next.jsonScan), Blank)
      closed == [next EXCEPT !.depth = 0, !.phase = "end", !.completeEnd = next.jsonScan]
  IN IF s.inString
     THEN CASE s.escaped -> [next EXCEPT !.escaped = FALSE]
            [] ~s.escaped /\ b = "bs" -> [next EXCEPT !.escaped = TRUE]
            [] ~s.escaped /\ b = "q" -> [next EXCEPT !.inString = FALSE]
            [] OTHER -> next
     ELSE CASE b = "q" -> [next EXCEPT !.inString = TRUE]
            [] b \in {"{", "["} -> [next EXCEPT !.depth = @ + 1]
            [] b \in {"}", "]"} /\ s.depth > 1 -> [next EXCEPT !.depth = @ - 1]
            [] b \in {"}", "]"} /\ s.depth = 1 ->
                 IF Announced(s, format, value, Member(value, "type")) THEN closed
                 ELSE [Off(next) EXCEPT !.depth = 0]
            [] OTHER -> next

(* The value's first symbol.                                               *)
ValueStep(s, buf, at) ==
  LET opens == ByteAt(buf, at) = "{" \/ (s.type = <<"done">> /\ ByteAt(buf, at) = "[")
  IN IF at = Len(buf) THEN [s EXCEPT !.jsonScan = at]
     ELSE IF ~opens THEN [Off(s) EXCEPT !.jsonScan = at]
     ELSE [s EXCEPT !.phase = "json", !.jsonScan = at + 1, !.depth = 1]

(* The scanner after the next thing it can tell.                           *)
ScanStep(s, buf, format) ==
  CASE s.phase = "field" -> FieldStep(s, Drop(buf, s.headerScan), format)
    [] s.phase = "header" -> HeaderStep(s, buf, format, Breaks(buf, s.headerScan))
    [] s.phase = "data" -> DataStep(s, Drop(buf, s.dataStart))
    [] s.phase = "space" /\ s.jsonScan < Len(buf) ->
         [s EXCEPT !.phase = "value", !.jsonScan = IF ByteAt(buf, @) = "sp" THEN @ + 1 ELSE @]
    [] s.phase = "value" -> ValueStep(s, buf, Skip(buf, s.jsonScan, Blank))
    [] s.phase = "json" /\ s.jsonScan < Len(buf) -> JsonStep(s, buf, format)
    [] OTHER -> s

(* Before the event's and before the data line there may be others.        *)
PastMetadata(s, buf, format, found) ==
  IF found.waiting THEN s
  ELSE IF ~found.metadata THEN ScanStep(s, buf, format)
  ELSE IF s.phase = "field" THEN [found.scanner EXCEPT !.headerScan = found.end]
  ELSE [found.scanner EXCEPT !.dataStart = found.end]

FullStep(r, format, eof) ==
  LET s == r.scanner
  IN IF s.disabled THEN s
     ELSE IF format = "openai-response" /\ s.phase \in {"field", "data"}
     THEN PastMetadata(s, r.buf, format,
            responsesMetadataEnd(r, IF s.phase = "field" THEN s.headerScan ELSE s.dataStart, eof))
     ELSE ScanStep(s, r.buf, format)

(* The scanner after all that is buffered.                                 *)
RECURSIVE Scan(_, _, _)
ScanOn(r, next, format, eof) ==
  IF next = r.scanner THEN next ELSE Scan([r EXCEPT !.scanner = next], format, eof)
Scan(r, format, eof) == ScanOn(r, FullStep(r, format, eof), format, eof)

(* Fields that came since are for the next event.                          *)
HeldBack(s, buf) ==
  Len(buf) > s.completeEnd /\ Len(buf) \in {s.candidateEnd, s.metadataEnd}

missingHeaderLF(s) == s.dataStart > 0 /\ s.dataStart = s.headerScan

(* Where the event ends that the scanner follows, if that is known.        *)
LogicalEnd(s, buf, eof) ==
  LET suffix == Drop(buf, s.completeEnd)
  IN CASE s.disabled \/ s.phase # "end" -> [scanner |-> s, logical |-> FALSE]
       [] ~s.disabled /\ s.phase = "end" ->
            IF suffix = <<>> THEN [scanner |-> s, logical |-> eof \/ s.nativeHeader \/ missingHeaderLF(s)]
            ELSE IF HeldBack(s, buf) THEN [scanner |-> s, logical |-> eof]
            ELSE IF IsPrefix(EVENT, suffix) THEN [scanner |-> s, logical |-> TRUE]
            ELSE IF IsPrefix(suffix, EVENT) THEN [scanner |-> s, logical |-> eof]
            ELSE [scanner |-> Off(s), logical |-> FALSE]

findDelimiterlessResponsesEventEnd(r, format, eof) == LogicalEnd(Scan(r, format, eof), r.buf, eof)
=============================================================================
