------------------------------- MODULE SseEvents -------------------------------
(***************************************************************************)
(* Single server-sent events (sse_rewriter.go): how the model is restored  *)
(* in one, and how a JSON value becomes one.                               *)
(***************************************************************************)
EXTENDS StreamText

SpacedData == Append(DATA, "sp")
IsData(l) == IsPrefix(DATA, l.line)
Text(l) == l.line \o l.break

sseFieldValue(l) ==
  LET value == Drop(l.line, Len(DATA))
  IN IF IsPrefix(<<"sp">>, value) THEN Tail(value) ELSE value

Unchanged(lines) == FlattenSeq([k \in DOMAIN lines |-> Text(lines[k])])

(* One data line: only its value is replaced.                              *)
DataLine(l, restored) ==
  IF restored = sseFieldValue(l) THEN Text(l) ELSE SpacedData \o restored \o l.break

RewriteDataLine(l) == DataLine(l, restoreResponseModel(sseFieldValue(l)))

(* Several data lines are one value.  If it changes, it takes the place of *)
(* the first of them, on one line, and the line that is now the last one   *)
(* loses its break.                                                        *)
MultiDataLines(lines, joined, restored) ==
  LET first == Least({k \in DOMAIN lines : IsData(lines[k])})
      kept == SelectSeq([k \in DOMAIN lines |-> k], LAMBDA k : k = first \/ ~IsData(lines[k]))
      Line(k) == IF k = first THEN SpacedData \o Compact(restored) ELSE lines[k].line
      Break(k) == IF k = Last(kept) THEN <<>> ELSE lines[k].break
  IN IF restored = joined THEN Unchanged(lines)
     ELSE FlattenSeq([n \in DOMAIN kept |-> Line(kept[n]) \o Break(kept[n])])

JoinedData(data) == Tail(FlattenSeq([k \in DOMAIN data |-> <<"lf">> \o sseFieldValue(data[k])]))

rewriteMultiDataEvent(lines) ==
  LET joined == JoinedData(SelectSeq(lines, IsData))
  IN MultiDataLines(lines, joined, restoreResponseModel(joined))

RewriteLines(lines) ==
  IF Len(SelectSeq(lines, IsData)) > 1 THEN rewriteMultiDataEvent(lines)
  ELSE FlattenSeq([k \in DOMAIN lines |->
         IF IsData(lines[k]) THEN RewriteDataLine(lines[k]) ELSE Text(lines[k])])

rewriteEvent(event) == RewriteLines(Lines(event))

(* Mistake: the lines of the value stay together.                          *)
frameSSEEventUnsplit(p, eventType) ==
  LET name == IF eventType = <<>> THEN <<>> ELSE EVENT \o <<"sp">> \o eventType \o <<"lf">>
  IN name \o SpacedData \o p \o <<"lf", "lf">>

(* An empty data line for what follows a break at the end.                 *)
OpenedLines(lines) ==
  IF lines = <<>> \/ Last(lines).break # <<>> THEN Append(lines, [line |-> <<>>, break |-> <<>>]) ELSE lines

DataLines(lines) == FlattenSeq([k \in DOMAIN lines |-> SpacedData \o lines[k].line \o <<"lf">>])

(* A value as the data of an event: one data line for each of its lines.   *)
frameSSEEvent(p, eventType) ==
  LET name == IF eventType = <<>> THEN <<>> ELSE EVENT \o <<"sp">> \o eventType \o <<"lf">>
  IN name \o DataLines(OpenedLines(Lines(p))) \o <<"lf">>
=============================================================================
