------------------------------ MODULE StreamChunks ------------------------------
(***************************************************************************)
(* streamChunkRewriter (stream_rewriter.go): the chunks of one stream,     *)
(* which may be raw JSON values, the elements of a Gemini array, or        *)
(* server-sent events, possibly after raw values.  Every operation returns *)
(* the state it leaves, what is emitted and the errors.  The chunks that   *)
(* one call returns are joined.                                            *)
(***************************************************************************)
EXTENDS SseStream

(* The streams of this instance: the format, whether raw JSON is framed as *)
(* events, the pieces the upstream sends, and, where it sends every field  *)
(* by itself, the offsets at which the fields end.                         *)
CONSTANT Streams

VARIABLES
  stream, text, \* what is sent, and all of its bytes
  pos,          \* how much of the text has been written
  st,           \* the rewriter
  out, err,     \* everything emitted, and the errors
  pc

vars == <<stream, text, pos, st, out, err, pc>>

format == stream.format
frameRawJSONAsSSE == stream.framed

NoScan == [active |-> FALSE, scanFrom |-> 0, depth |-> 0, inString |-> FALSE, escaped |-> FALSE,
           lineFrom |-> 0, lineScan |-> 0]

BOM == <<"bom1", "bom2", "bom3">>

newStreamChunkRewriter ==
  [bomPrefix |-> <<>>, bomDone |-> FALSE, sse |-> Fresh, pending |-> <<>>, pendingWhitespace |-> FALSE,
   rawJSONArray |-> FALSE, rawJSONBoundary |-> FALSE, rawScan |-> NoScan]

Result(s, emitted, errors) == [st |-> s, out |-> emitted, err |-> errors, rest |-> <<>>]
Done(s) == Result(s, <<>>, {})
Before(emitted, result) == [result EXCEPT !.out = emitted \o @]

-----------------------------------------------------------------------------
(* The scan of a value that is not complete.  A line that can only be a    *)
(* field of an event shows that the value is none, if it is no JSON.       *)
RECURSIVE rejectsRawJSON(_, _, _)

FieldLine(line) ==
  /\ line # <<>> /\ Head(line) \notin {",", ":", "}", "]"}
  /\ ~couldStartJSONValue(line) /\ hasSSEFieldPrefix(line)

(* The line that ends as found says.                                       *)
RejectedBy(scan, p, eof, found) ==
  LET end == IF found.length = 0 THEN Len(p) ELSE found.position
      next == end + found.length
      moved == [scan EXCEPT !.lineFrom = next, !.lineScan = next]
  IN IF found.length = 0 /\ ~eof
     THEN [rejects |-> FALSE, scan |-> [scan EXCEPT !.lineScan = found.next]]
     ELSE IF FieldLine(TrimLeft(Part(p, scan.lineFrom, end), {"sp"}))
     THEN [rejects |-> Decode(p, 0).kind = "bad", scan |-> moved]
     ELSE IF found.length = 0 \/ next = Len(p) THEN [rejects |-> FALSE, scan |-> moved]
     ELSE rejectsRawJSON(moved, p, eof)

rejectsRawJSON(scan, p, eof) == RejectedBy(scan, p, eof, sseLineEnding(p, scan.lineScan, eof))

(* Mistake: the depth is compared as if the closing symbol were counted.   *)
ClosesLate(scan, b) ==
  \/ scan.inString /\ ~scan.escaped /\ b = "q" /\ scan.depth = 0
  \/ ~scan.inString /\ b \in {"}", "]"} /\ scan.depth = 0

Closes(scan, b) ==
  \/ scan.inString /\ ~scan.escaped /\ b = "q" /\ scan.depth = 0
  \/ ~scan.inString /\ b \in {"}", "]"} /\ scan.depth = 1

(* Whether the value closes; the scan then stops at what closes it.        *)
RECURSIVE advance(_, _)
advance(scan, p) ==
  LET b == ByteAt(p, scan.scanFrom)
      next == CASE scan.inString -> [scan EXCEPT !.escaped = ~@ /\ b = "bs",
                                                 !.inString = scan.escaped \/ b # "q"]
                [] ~scan.inString /\ b = "q" -> [scan EXCEPT !.inString = TRUE]
                [] ~scan.inString /\ b \in {"{", "["} -> [scan EXCEPT !.depth = @ + 1]
                [] ~scan.inString /\ b \in {"}", "]"} -> [scan EXCEPT !.depth = @ - 1]
                [] OTHER -> scan
  IN IF scan.scanFrom = Len(p) THEN [done |-> FALSE, scan |-> scan]
     ELSE IF Closes(scan, b) THEN [done |-> TRUE, scan |-> scan]
     ELSE advance([next EXCEPT !.scanFrom = @ + 1], p)

(* skipTopLevelModelJSONValue: where the value at start ends, valid or not. *)
ValueSkipped(p, start) ==
  LET scanned == advance([NoScan EXCEPT !.scanFrom = start], p)
  IN IF ByteAt(p, start) \notin {"{", "[", "q"}
     THEN CHOOSE j \in start .. Len(p) :
            /\ j = Len(p) \/ ByteAt(p, j) \in Blank \union {",", "}", "]"}
            /\ \A k \in start .. j - 1 : ByteAt(p, k) \notin Blank \union {",", "}", "]"}
     ELSE IF scanned.done THEN scanned.scan.scanFrom + 1 ELSE Len(p)

-----------------------------------------------------------------------------
(* The values at the beginning of a text, as the decoder reads them one    *)
(* after the other: what came before the place where raw JSON stops.       *)
Values(list, consumed, ok, incomplete) ==
  [values |-> list, consumed |-> consumed, ok |-> ok, incomplete |-> incomplete]

(* A field of an unknown name may look like scalars.                       *)
splitBeforeSSESuffix(s, start) ==
  IF start = 0 /\ s.scalarStart < Len(s.values)
  THEN Values(SubSeq(s.values, 1, s.scalarStart), s.scalarOffset, s.scalarStart > 0, FALSE)
  ELSE Values(s.values, s.consumed, s.values # <<>>, FALSE)

RECURSIVE SplitFrom(_, _, _, _)

(* Where no value follows: the rest is an event, or waits to become one.   *)
SplitBad(s, p, eof, suffix, field, rejects) ==
  LET start == Skip(suffix, 0, Blank)
      more == s.values # <<>> /\ start < Len(suffix)
  IN IF more /\ FirstIn(suffix, {"{", "[", "q"}) /\ (rejects \/ ~eof)
     THEN Values(s.values, s.consumed, TRUE, ~rejects)
     ELSE IF more /\ ~FirstIn(suffix, {"{", "["}) /\ field THEN splitBeforeSSESuffix(s, start)
     ELSE Values(<<>>, 0, FALSE, FALSE)

(* One more value, which the decoder found in the suffix as d.             *)
SplitAt(s, p, framed, eof, suffix, d, field) ==
  LET start == Skip(suffix, 0, Blank)
      more == s.values # <<>> /\ start < Len(suffix)
      opens == FirstIn(suffix, {"{", "["})
      stops == more /\ ~opens /\ (framed \/ ~couldStartJSONValue(suffix))
      from == s.consumed + start
      taken == [s EXCEPT !.values = Append(@, [from |-> from, to |-> d.at]), !.consumed = d.at]
      next == CASE opens -> [taken EXCEPT !.scalarStart = Len(taken.values), !.scalarOffset = d.at]
                [] ~opens /\ start > 0 -> [taken EXCEPT !.scalarStart = Len(s.values),
                                                        !.scalarOffset = s.consumed]
                [] OTHER -> taken
  IN CASE stops /\ field -> splitBeforeSSESuffix(s, start)
       [] stops /\ ~field /\ ~eof -> Values(s.values, s.consumed, TRUE, TRUE)
       [] OTHER ->
          CASE d.kind = "eof" -> Values(s.values, Len(p), s.values # <<>>, FALSE)
            [] d.kind = "short" -> Values(s.values, s.consumed, s.values # <<>>, TRUE)
            [] d.kind = "value" ->
                 IF ~eof /\ d.at = Len(p) /\ FirstIn(suffix, Digit)
                 THEN Values(s.values, s.consumed, s.values # <<>>, TRUE)
                 ELSE SplitFrom(next, p, framed, eof)
            [] d.kind = "bad" ->
                 SplitBad(s, p, eof, suffix, field, rejectsRawJSON(NoScan, suffix, TRUE).rejects)

SplitSuffix(s, p, framed, eof, suffix) ==
  SplitAt(s, p, framed, eof, suffix, Decode(p, s.consumed),
          isSSEChunk(suffix) \/ isIncompleteSSEPrefix(suffix))

SplitFrom(s, p, framed, eof) == SplitSuffix(s, p, framed, eof, Drop(p, s.consumed))

splitJSONValues(p, framed, eof) ==
  IF AllBlank(p) THEN Values(<<>>, Len(p), TRUE, FALSE)
  ELSE SplitFrom([values |-> <<>>, consumed |-> 0, scalarStart |-> 0, scalarOffset |-> 0],
                 p, framed, eof)

frameRawJSON(p) ==
  frameSSEEvent(IF format = "openai-response" THEN Compact(p) ELSE p,
                IF format \in {"openai-response", "claude"} THEN Member(p, "type") ELSE <<>>)

EmittedValue(v) ==
  IF frameRawJSONAsSSE THEN frameRawJSON(restoreResponseModel(v)) ELSE restoreResponseModel(v)

Try(emitted, consumed, ok, incomplete) ==
  [out |-> emitted, consumed |-> consumed, ok |-> ok, incomplete |-> incomplete]

(* Several values, or one that may not be the last.                        *)
ValueChunks(p, s) ==
  LET gap(k) == IF frameRawJSONAsSSE THEN <<>>
                ELSE Part(p, IF k = 1 THEN 0 ELSE s.values[k - 1].to, s.values[k].from)
      tail == IF frameRawJSONAsSSE THEN <<>> ELSE Part(p, Last(s.values).to, s.consumed)
  IN IF ~s.ok THEN Try(<<>>, 0, FALSE, s.incomplete)
     ELSE IF s.values = <<>> THEN Try(<<>>, s.consumed, TRUE, s.incomplete)
     ELSE Try(FlattenSeq([k \in DOMAIN s.values |->
                            gap(k) \o EmittedValue(Part(p, s.values[k].from, s.values[k].to))]) \o tail,
              s.consumed, TRUE, s.incomplete)

(* The values that p begins with, restored, and framed or with the space   *)
(* around them.                                                            *)
tryRawJSONChunks(p, eof) ==
  LET start == Skip(p, 0, Blank)
      value == TrimRight(Drop(p, start))
      end == start + Len(value)
      first == IF value = <<>> THEN "none" ELSE Head(value)
      closer == CASE first = "{" -> "}" [] first = "[" -> "]" [] first = "q" -> "q" [] OTHER -> "none"
      single == value # <<>> /\ (closer = "none" \/ Last(value) = closer) /\ Valid(value)
  IN CASE first \in {"{", "["} /\ ~Holds(value, closer) -> Try(<<>>, 0, FALSE, TRUE)
       [] single /\ ~eof /\ end = Len(p) /\ first \in Digit -> Try(<<>>, 0, FALSE, TRUE)
       [] single /\ (eof \/ end < Len(p) \/ first \notin Digit) ->
            Try(IF frameRawJSONAsSSE THEN EmittedValue(value)
                ELSE Part(p, 0, start) \o EmittedValue(value) \o Drop(p, end), Len(p), TRUE, FALSE)
       [] OTHER -> ValueChunks(p, splitJSONValues(p, frameRawJSONAsSSE, eof))

(* The next bytes follow a framed value: leading space is not part of them. *)
Framed(s, emitted) == [s EXCEPT !.rawJSONBoundary = @ \/ (frameRawJSONAsSSE /\ emitted # <<>>)]
-----------------------------------------------------------------------------
(* Mistake: whatever is held counts.                                       *)
UncountedNone(p) == 0

(* Values that are complete and wait for what follows them do not count.   *)
Complete(split) == IF split.ok THEN split.consumed ELSE 0
Uncounted(p) ==
  IF frameRawJSONAsSSE /\ couldStartJSONValue(p) THEN Complete(splitJSONValues(p, FALSE, FALSE)) ELSE 0

(* Keep what is not complete.                                              *)
retainPending(s, p) ==
  LET overflows == Len(p) > MaxPending /\ Len(p) - Uncounted(p) > MaxPending
      scanned == advance([NoScan EXCEPT !.active = TRUE, !.scanFrom = Skip(p, 0, Blank)], p)
      idle == [s EXCEPT !.rawScan = NoScan, !.pendingWhitespace = FALSE]
  IN IF overflows THEN Result([idle EXCEPT !.pending = <<>>], <<>>, {"overflow"})
     ELSE Done([idle EXCEPT
            !.pending = p,
            !.pendingWhitespace = ~s.sse.started /\ AllBlank(p),
            !.rawScan = IF FirstIn(p, {"{", "[", "q"}) /\ ~scanned.done THEN scanned.scan ELSE NoScan])

(* What the event rewriter returned.                                       *)
Buffered(s, written) == Result([s EXCEPT !.sse = written.sse], written.out, written.err)

WriteSSE(s, p) == Buffered(s, sseWrite(s.sse, format, p))

writeSSESuffix(s, p) ==
  WriteSSE([s EXCEPT !.rawJSONBoundary = FALSE],
           IF frameRawJSONAsSSE /\ s.rawJSONBoundary THEN TrimLeft(p, Blank) ELSE p)

(* All of it, as the last that comes.                                      *)
LastValues(s, p, tried) ==
  LET after == Framed(s, tried.out)
  IN CASE ~tried.ok /\ ~tried.incomplete -> Result(s, p, {})
       [] tried.incomplete /\ frameRawJSONAsSSE -> Result(after, tried.out, {"incomplete"})
       [] tried.incomplete /\ ~frameRawJSONAsSSE -> Result(s, p, {})
       [] OTHER -> IF tried.consumed < Len(p)
                   THEN Before(tried.out, writeSSESuffix(after, Drop(p, tried.consumed)))
                   ELSE Result(after, tried.out, {})

rawJSONChunks(s, p) == LastValues(s, p, tryRawJSONChunks(p, TRUE))

-----------------------------------------------------------------------------
(* What is neither a JSON value nor waits to become one.                   *)
WriteOther(s, p) ==
  LET event == isSSEChunk(p)
  IN CASE ~event /\ (isIncompleteSSEPrefix(p) \/ AllBlank(p)) -> retainPending(s, p)
       [] event \/ (~isIncompleteSSEPrefix(p) /\ ~AllBlank(p) /\ (frameRawJSONAsSSE \/ format # "")) ->
            WriteSSE(s, p)
       [] OTHER -> rawJSONChunks(s, p)

(* What is kept after the values; when that is too much, what the end of   *)
(* the stream would make of everything is emitted with the error.          *)
KeptAfter(emitted, whole, kept) ==
  Before(IF kept.err # {} /\ whole.ok THEN whole.out ELSE emitted, kept)

WriteTried(s, p, tried) ==
  LET rest == Drop(p, tried.consumed)
      after == Framed(s, tried.out)
  IN CASE tried.ok /\ tried.incomplete ->
            KeptAfter(tried.out, tryRawJSONChunks(p, TRUE), retainPending(after, rest))
       [] tried.ok /\ ~tried.incomplete ->
            IF rest = <<>> THEN Result(after, tried.out, {})
            ELSE Before(tried.out, writeSSESuffix(after, rest))
       [] ~tried.ok /\ tried.incomplete ->
            IF rejectsRawJSON(NoScan, p, FALSE).rejects THEN WriteSSE(s, p) ELSE retainPending(s, p)
       [] OTHER -> WriteOther(s, p)

(* A number, a string or a literal comes first: perhaps the name of a      *)
(* field.                                                                  *)
StartsWithScalar(p) == couldStartJSONValue(p) /\ ~FirstIn(p, {"{", "["})

IsField(s, p, split) ==
  \/ s.sse.started
  \/ /\ isSSEChunk(p)
     /\ frameRawJSONAsSSE \/ (~split.incomplete /\ (~split.ok \/ split.consumed < Len(p)))

WriteField(s, p, split) ==
  WriteSSE(IF frameRawJSONAsSSE /\ Len(p) > MaxPending
           THEN [s EXCEPT !.sse.rawJSONPrefix = split.consumed] ELSE s, p)

(* Mistake: a scalar is a value as soon as it is complete.                 *)
WaitsNever(p) == FALSE

(* A scalar that would be framed waits for what follows it.                *)
Waits(p) == frameRawJSONAsSSE /\ StartsWithScalar(p)

WriteScalar(s, p, kept) ==
  LET emitted == tryRawJSONChunks(p, TRUE).out
  IN IF kept.err = {} THEN kept ELSE [Before(emitted, kept) EXCEPT !.st = Framed(@, emitted)]

(* The elements of an array from the offset cursor on, each as soon as it  *)
(* is complete.                                                            *)
RECURSIVE WriteArray(_, _, _)
WriteArray(s, p, cursor) ==
  LET start == Skip(p, cursor, Blank)
      first == ByteAt(p, start)
      end == ValueSkipped(p, start)
      next == Skip(p, end, Blank)
      value == Part(p, start, end)
      complete == next < Len(p) \/ (first \in {"{", "[", "q"} /\ Valid(value))
      element == Valid(value) /\ (next = Len(p) \/ ByteAt(p, next) \in {",", "]"})
      restored == IF first = "{" THEN restoreResponseModel(value) ELSE value
      closed == [s EXCEPT !.rawJSONArray = FALSE]
  IN IF start = Len(p) THEN Result(s, Drop(p, cursor), {})
     ELSE CASE first = "," -> Before(Part(p, cursor, start + 1), WriteArray(s, p, start + 1))
            [] first = "]" ->
                 [Result(closed, Part(p, cursor, start + 1), {}) EXCEPT !.rest = Drop(p, start + 1)]
            [] OTHER ->
                 IF ~complete THEN retainPending(s, Drop(p, cursor))
                 ELSE IF ~element THEN Result(closed, Drop(p, cursor), {})
                 ELSE Before(Part(p, cursor, start) \o restored \o Part(p, end, next),
                             WriteArray(s, p, next))

(* Events that are complete and hold no model pass as they are.            *)
PassesAtOnce(p) ==
  /\ frameRawJSONAsSSE /\ ~couldStartJSONValue(p) /\ completeSSEEvents(p)
  /\ ~mightContainResponseModelField(p)
  /\ format \in {"interactions", "openai-response"} => \A i \in DOMAIN p : ~IsPrefix(EVENT, Drop(p, i - 1))

(* Nothing is held any more: what does the text begin with?                *)
Classify(s, p, split) ==
  LET opens == ~s.rawJSONArray /\ ~frameRawJSONAsSSE /\ FirstIn(p, {"["})
      opening == IF opens THEN Skip(p, 0, Blank) + 1 ELSE 0
  IN CASE s.rawJSONArray \/ opens ->
            Before(Part(p, 0, opening), WriteArray([s EXCEPT !.rawJSONArray = TRUE], p, opening))
       [] ~s.rawJSONArray /\ ~s.sse.started /\ AllBlank(p) -> retainPending(s, p)
       [] OTHER ->
            IF PassesAtOnce(p) THEN Result([s EXCEPT !.sse.started = TRUE], p, {})
            ELSE IF \/ frameRawJSONAsSSE /\ isColonlessSSEChunk(p)
                    \/ format = "openai-response" /\ isResponsesExtensionField(p)
            THEN WriteSSE(s, p)
            ELSE IF StartsWithScalar(p) /\ IsField(s, p, split) THEN WriteField(s, p, split)
            ELSE IF Waits(p) THEN WriteScalar(s, p, retainPending(s, p))
            ELSE WriteTried(s, p, IF couldStartJSONValue(p) THEN tryRawJSONChunks(p, FALSE)
                                  ELSE Try(<<>>, 0, FALSE, FALSE))

WriteText(s, p) ==
  LET begun == IF s.rawJSONBoundary THEN TrimLeft(p, Blank) ELSE p
  IN IF s.sse.buf # <<>> THEN WriteSSE(s, p)
     ELSE IF s.rawJSONBoundary /\ begun = <<>> THEN Done(s)
     ELSE Classify([s EXCEPT !.rawJSONBoundary = FALSE], begun, splitJSONValues(begun, FALSE, FALSE))

(* More bytes of a value that is being scanned, or of none.                *)
ContinueValue(s, p, line) ==
  LET scanned == advance(line.scan, p)
      idle == [s EXCEPT !.pending = <<>>, !.pendingWhitespace = FALSE, !.rawScan = NoScan]
  IN IF line.rejects THEN writeSSESuffix(idle, p)
     ELSE IF ~s.rawScan.active \/ scanned.done THEN WriteText(idle, p)
     ELSE IF Len(p) > MaxPending THEN Result(idle, <<>>, {"overflow"})
     ELSE Done([s EXCEPT !.pending = p, !.rawScan = scanned.scan])

WritePending(s, p) ==
  IF s.pendingWhitespace /\ AllBlank(p)
  THEN IF Len(p) > MaxPending
       THEN Result([s EXCEPT !.pending = <<>>, !.pendingWhitespace = FALSE], <<>>, {"overflow"})
       ELSE Done([s EXCEPT !.pending = p])
  ELSE ContinueValue(s, p, IF s.rawScan.active /\ ~s.rawJSONArray
                           THEN rejectsRawJSON(s.rawScan, p, FALSE)
                           ELSE [rejects |-> FALSE, scan |-> s.rawScan])

RECURSIVE Write(_, _)

(* What follows an array is another chunk.                                 *)
AfterArray(written) ==
  IF written.rest = <<>> THEN written
  ELSE Before(written.out, Write(written.st, written.rest))

(* Mistake: symbols that turn out to be no byte order mark are forgotten.  *)
consumeLeadingBOMForgets(s, p) ==
  LET whole == s.bomPrefix \o p
  IN IF s.bomDone THEN [st |-> s, rest |-> p, waits |-> FALSE]
     ELSE IF IsStrictPrefix(whole, BOM)
     THEN [st |-> [s EXCEPT !.bomPrefix = whole], rest |-> <<>>, waits |-> TRUE]
     ELSE [st |-> [s EXCEPT !.bomPrefix = <<>>, !.bomDone = TRUE], waits |-> FALSE,
           rest |-> IF IsPrefix(BOM, whole) THEN Drop(whole, Len(BOM)) ELSE p]

(* What is left of the stream's first symbols without a byte order mark,   *)
(* once it is known whether they are one.                                  *)
consumeLeadingBOM(s, p) ==
  LET whole == s.bomPrefix \o p
  IN IF s.bomDone THEN [st |-> s, rest |-> p, waits |-> FALSE]
     ELSE IF IsStrictPrefix(whole, BOM)
     THEN [st |-> [s EXCEPT !.bomPrefix = whole], rest |-> <<>>, waits |-> TRUE]
     ELSE [st |-> [s EXCEPT !.bomPrefix = <<>>, !.bomDone = TRUE], waits |-> FALSE,
           rest |-> IF IsPrefix(BOM, whole) THEN Drop(whole, Len(BOM)) ELSE whole]

WriteBegun(begun) ==
  IF begun.waits THEN Done(begun.st)
  ELSE AfterArray(WritePending(begun.st, begun.st.pending \o begun.rest))

Write(s, p) == WriteBegun(consumeLeadingBOM(s, p))

Flushed(written, drained) ==
  Result([written.st EXCEPT !.sse = drained.sse], written.out \o drained.out, written.err)

(* At the end what may have become a byte order mark is none.              *)
flushLeadingBOM(s) ==
  [s EXCEPT !.sse.buf = s.bomPrefix \o @, !.bomPrefix = <<>>, !.bomDone = @ \/ s.bomPrefix # <<>>]

FlushBuffer(written) == Flushed(written, sseFlush(written.st.sse, format))

FlushEvents(written) == FlushBuffer([written EXCEPT !.st = flushLeadingBOM(@)])

Flush(s) ==
  LET p == s.pending
      field == /\ s.rawScan.active /\ ~s.rawJSONArray
               /\ rejectsRawJSON(s.rawScan, p, TRUE).rejects
      idle == [s EXCEPT !.pending = <<>>, !.pendingWhitespace = FALSE, !.rawScan = NoScan,
                        !.rawJSONArray = FALSE]
      raw == couldStartJSONValue(p) /\ (FirstIn(p, {"{", "["}) \/ ~isSSEChunk(p))
  IN FlushEvents(CASE s.rawJSONArray \/ p = <<>> -> Result(idle, p, {})
                   [] field -> writeSSESuffix(idle, p)
                   [] OTHER -> IF raw THEN rawJSONChunks(idle, p) ELSE WriteSSE(idle, p))

-----------------------------------------------------------------------------
Init ==
  /\ stream \in Streams
  /\ text = FlattenSeq([k \in DOMAIN stream.pieces |-> stream.pieces[k].text])
  /\ pos = 0
  /\ st = newStreamChunkRewriter
  /\ out = <<>> /\ err = {}
  /\ pc = "open"

Give(result) ==
  /\ st' = result.st
  /\ out' = out \o result.out
  /\ err' = err \union result.err

(* Where the upstream's next read may end.                                 *)
ReadEnds ==
  IF stream.fields = {} THEN pos + 1 .. Len(text)
  ELSE {to \in stream.fields : to > pos /\ \A n \in stream.fields : n > pos => to <= n}

(* The upstream's next read; after an error there is none.                 *)
Chunk ==
  /\ pc = "open" /\ err = {}
  /\ \E to \in ReadEnds :
        /\ pos' = to
        /\ Give(Write(st, Part(text, pos, to)))
  /\ UNCHANGED <<stream, text, pc>>

(* The stream ends here, whole or not.                                     *)
Finish ==
  /\ pc = "open"
  /\ Give(Flush(st))
  /\ pc' = "closed"
  /\ UNCHANGED <<stream, text, pos>>

Next == Chunk \/ Finish

Spec == Init /\ [][Next]_vars
=============================================================================
