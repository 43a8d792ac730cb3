------------------------------- MODULE SseStream -------------------------------
(***************************************************************************)
(* The buffer of sseRewriter as the operation its caller sees: what Write  *)
(* and Flush do to the buffer and what they return.                        *)
(***************************************************************************)
EXTENDS SseScanner

CONSTANT MaxPending   \* maxPendingStreamBytes

(* The buffer without the n symbols of an event, ready for the next one.   *)
After(sse, n) ==
  [Fresh EXCEPT !.buf = Drop(sse.buf, n), !.started = sse.started,
                !.nativeFields = sse.nativeFields /\ n < Len(sse.buf),
                !.nativeBoundaries = LET kept == SelectSeq(sse.nativeBoundaries, LAMBDA b : b > n)
                                     IN [k \in DOMAIN kept |-> kept[k] - n]]

(* A break after each of the first fields.                                 *)
RECURSIVE appendSSEFieldSeparators(_, _, _)
appendSSEFieldSeparators(p, start, boundaries) ==
  IF boundaries = <<>> THEN Drop(p, start)
  ELSE Part(p, start, Head(boundaries)) \o <<"lf">>
         \o appendSSEFieldSeparators(p, Head(boundaries), Tail(boundaries))

Joined(p, boundaries, finalLF) ==
  appendSSEFieldSeparators(p, 0, boundaries) \o (IF finalLF THEN <<"lf">> ELSE <<>>)

(* Once the value is known to be complete, the fields before it get the    *)
(* breaks they lack.                                                       *)
rewritePendingEvent(s, event) ==
  IF s.completeEnd = 0 \/ (~missingHeaderLF(s) /\ s.fieldSeparators = <<>>) THEN rewriteEvent(event)
  ELSE Joined(Part(event, 0, s.dataStart), s.fieldSeparators, missingHeaderLF(s))
         \o rewriteEvent(Drop(event, s.dataStart))

-----------------------------------------------------------------------------
RECURSIVE drain(_, _, _)

(* An event and its delimiter, and the events that may follow it.          *)
Deliver(rewritten, delimiter, drained) == [drained EXCEPT !.out = rewritten \o delimiter \o @]

(* What is left after an event that ended without a blank line; at the end *)
(* of the stream the beginning of a header is dropped.                     *)
LeftAfter(sse, end, eof) ==
  IF eof /\ ~After(sse, end).nativeFields /\ IsStrictPrefix(Drop(sse.buf, end), EVENT)
  THEN After(sse, Len(sse.buf)) ELSE After(sse, end)

DrainFound(sse, format, eof, found, d) ==
  LET end == found.scanner.completeEnd
      logical == found.logical /\ (d.delimLen = 0 \/ end < d.eventLen)
      eventLen == IF logical THEN end ELSE d.eventLen
      delimEnd == eventLen + d.delimLen
      delimiter == IF logical THEN <<"lf", "lf">> ELSE Part(sse.buf, eventLen, delimEnd)
      left == IF logical THEN LeftAfter(sse, end, eof) ELSE After(sse, delimEnd)
      last == [sse |-> After(sse, Len(sse.buf)), out |-> <<>>]
      Rewritten(event) == rewritePendingEvent(found.scanner, event)
  IN CASE logical \/ d.delimLen > 0 ->
            Deliver(Rewritten(Part(sse.buf, 0, eventLen)), delimiter, drain(left, format, eof))
       [] ~logical /\ d.delimLen = 0 /\ eof -> Deliver(Rewritten(sse.buf), <<>>, last)
       [] OTHER ->
            [sse |-> [sse EXCEPT !.scanFrom = d.next, !.scanner = found.scanner], out |-> <<>>]

(* Deliver the events that are complete; at the end of the stream also     *)
(* what is left.                                                           *)
drain(sse, format, eof) ==
  IF sse.buf = <<>> THEN [sse |-> After(sse, 0), out |-> <<>>]
  ELSE DrainFound(sse, format, eof,
         IF format \in {"interactions", "openai-response"}
         THEN findDelimiterlessResponsesEventEnd(sse, format, eof)
         ELSE [scanner |-> sse.scanner, logical |-> FALSE],
         findSSEEventDelimiter(sse.buf, sse.scanFrom, eof))

-----------------------------------------------------------------------------
(* A chunk p of the format "openai-response" that may be a field.          *)
Candidate(s, p) ==
  LET extension == isResponsesExtensionField(p) /\ ~isResponsesMetadataField(p)
  IN IF s.phase \in {"json", "end"}
     THEN /\ isResponsesEmptyField(p) \/ BareField(p) \/ extension
          /\ p = Front(EVENT) => s.dataStart = s.headerStart
     ELSE \/ isResponsesEmptyField(p) \/ extension
          \/ /\ ~couldStartJSONValue(p) /\ ~HasBreak(p)
             /\ ~IsPrefix(EVENT, p) /\ ~IsPrefix(DATA, p) /\ ~isResponsesMetadataField(p)

(* The buffer ends with the event, or with fields that came after it.      *)
AtEventEnd(r) ==
  r.scanner.phase = "end"
    /\ Len(r.buf) \in {r.scanner.completeEnd, r.scanner.candidateEnd, r.scanner.metadataEnd}

(* Remember where a field begins, except inside a value.                   *)
MarkField(r, p, candidate) ==
  LET native == r.nativeFields \/ candidate
      begins == /\ native /\ r.buf # <<>> /\ isResponsesNativeField(p)
                /\ IsPrefix(<<":">>, p) => Len(p) > 1 /\ ~HasBreak(p)
  IN IF r.scanner.phase = "json" THEN r
     ELSE [r EXCEPT !.nativeFields = native,
                    !.nativeBoundaries = IF begins THEN Append(@, Len(r.buf)) ELSE @,
                    !.scanner.candidateEnd = IF candidate /\ AtEventEnd(r) THEN Len(r.buf) + Len(p) ELSE @]

(* Everything after the header's name may be its type.                     *)
OpenHeader(r) ==
  ~r.scanner.disabled /\ r.scanner.phase = "header" /\ r.scanner.headerScan = Len(r.buf)

HeaderType(r) == TypeIn(Drop(r.buf, r.scanner.headerStart))

(* The field p ends the header before it.                                  *)
EndHeader(r, p, candidate) ==
  LET at == r.scanner.headerScan
  IN IF /\ (candidate /\ isResponsesNativeField(p)) \/ IsPrefix(EVENT, p)
        /\ OpenHeader(r) /\ isResponsesNativeEventType(HeaderType(r))
     THEN [r EXCEPT !.scanner.type = HeaderType(r), !.scanner.dataStart = at,
                    !.scanner.phase = "data", !.scanner.nativeHeader = TRUE,
                    !.scanner.fieldSeparators = Append(@, at),
                    !.nativeFields = @ \/ IsPrefix(EVENT, p)]
     ELSE r

NoteField(r, p) ==
  IF p = <<>> THEN r
  ELSE EndHeader(MarkField(r, p, Candidate(r.scanner, p)), p, Candidate(r.scanner, p))

(* An id, a retry or a comment without a break gets one.                   *)
TakesMetadata(r, p) ==
  LET s == r.scanner
      n == Len(r.buf)
  IN /\ isResponsesMetadataField(p) /\ ~HasBreak(p) /\ ~s.disabled
     /\ \/ n = 0 \/ s.metadataEnd = n \/ OpenHeader(r)
        \/ s.phase \notin {"field", "header"} /\ n \in {s.dataStart, s.completeEnd}

AppendMetadata(r, p) ==
  LET ended == IF OpenHeader(r) THEN Append(r.buf, "lf") ELSE r.buf
      buf == ended \o p \o <<"lf">>
  IN [r EXCEPT !.buf = buf, !.scanner.nativeHeader = @ \/ OpenHeader(r),
               !.scanner.metadataEnd = Len(buf)]

(* The chunk p shows that the event, which had no header, was complete.    *)
EndsEvent(r, p) ==
  LET s == r.scanner
  IN /\ ~s.disabled /\ AtEventEnd(r) /\ ~s.nativeHeader /\ s.dataStart # s.headerScan
     /\ ~isResponsesEmptyField(p)
     /\ \/ IsPrefix(DATA, p) \/ IsPrefix(EVENT, p)
        \/ isResponsesMetadataField(p) /\ completeSSEEvents(p)

(* The fields that came after it belong to the next one, or to p, which is *)
(* complete.                                                               *)
NextEvent(r, p, ended) ==
  LET s == r.scanner
      next == After(r, s.completeEnd)
      complete == s.candidateEnd = Len(r.buf) /\ isResponsesMetadataField(p) /\ next.buf # <<>>
      fields == IF complete THEN Joined(next.buf, next.nativeBoundaries, TRUE) ELSE next.buf
  IN [out |-> ended.out, rest |-> p,
      sse |-> [ended.sse EXCEPT !.buf = fields,
                                !.nativeBoundaries = IF complete THEN <<>> ELSE next.nativeBoundaries,
                                !.nativeFields = next.nativeFields,
                                !.scanner.metadataEnd = Len(fields)]]

EndEvent(r, p) ==
  NextEvent(r, p, drain([r EXCEPT !.buf = Part(@, 0, r.scanner.completeEnd), !.nativeBoundaries = <<>>],
                        "openai-response", TRUE))

(* A data field ends the header before it.                                 *)
DataEndsHeader(r, p) ==
  LET type == HeaderType(r)
  IN IF IsPrefix(DATA, p) /\ OpenHeader(r) /\ Known(type, "openai-response")
     THEN [r EXCEPT !.scanner.type = IF isResponsesNativeEventType(type) THEN type ELSE <<>>,
                    !.scanner.dataStart = r.scanner.headerScan, !.scanner.phase = "data"]
     ELSE r

(* What a chunk means where fields come as chunks: the events that it      *)
(* shows to be complete, and the buffer it is to be appended to.           *)
Beginning(r, p) ==
  IF TakesMetadata(r, p) THEN [sse |-> AppendMetadata(r, p), out |-> <<>>, rest |-> <<>>]
  ELSE IF EndsEvent(r, p) THEN EndEvent(r, p)
  ELSE [sse |-> DataEndsHeader(r, p), out |-> <<>>, rest |-> p]

-----------------------------------------------------------------------------
(* What is buffered beyond the values that are known to be complete, and   *)
(* beyond the fields that have got their breaks.                           *)
Unfinished(sse) ==
  LET counted == {sse.scanner.completeEnd, sse.scanner.metadataEnd, sse.rawJSONPrefix}
  IN Len(sse.buf) - CHOOSE n \in counted : \A m \in counted : m <= n

(* The limit, on what is held after the complete events are delivered.     *)
Limited(drained) ==
  LET held == drained.sse
      overflows == Unfinished(held) > MaxPending
                     /\ findSSEEventDelimiter(held.buf, held.scanFrom, TRUE).delimLen = 0
  IN [sse |-> IF overflows THEN After(held, Len(held.buf)) ELSE held,
      out |-> drained.out,
      err |-> IF overflows THEN {"overflow"} ELSE {}]

WriteAfter(begun, format) ==
  Limited(Deliver(begun.out, <<>>,
                  drain([begun.sse EXCEPT !.buf = @ \o begun.rest, !.started = TRUE], format, FALSE)))

sseWrite(sse, format, p) ==
  WriteAfter(IF format = "openai-response" THEN Beginning(NoteField(sse, p), p)
             ELSE [sse |-> sse, out |-> <<>>, rest |-> p], format)

sseFlush(sse, format) == drain(sse, format, TRUE)
=============================================================================
