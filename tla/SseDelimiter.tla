----------------------------- MODULE SseDelimiter -----------------------------
(***************************************************************************)
(* Lines and blank lines of a server-sent event stream (sse_rewriter.go).  *)
(* Offsets count bytes from 0, as the code does.  A CR at the end of the   *)
(* bytes held so far may be half of a CRLF, so it ends no line before the  *)
(* next byte or the end of the stream is known.                            *)
(***************************************************************************)
EXTENDS Naturals, Sequences

Byte == {"cr", "lf", "other"}

ByteAt(buf, p) == buf[p + 1]

Least(S) == CHOOSE p \in S : \A q \in S : p <= q

(* The offsets from start on that hold a CR or LF.                         *)
Breaks(buf, start) == {p \in start .. Len(buf) - 1 : ByteAt(buf, p) \in {"cr", "lf"}}

(* How many bytes end the line at the break p; 0 when that is not known.   *)
EndingLength(buf, p, eof) ==
  IF ByteAt(buf, p) = "lf" THEN 1
  ELSE IF p + 1 < Len(buf) THEN IF ByteAt(buf, p + 1) = "lf" THEN 2 ELSE 1
  ELSE IF eof THEN 1 ELSE 0

(* The first line ending at or after start, or where to look again.        *)
sseLineEnding(buf, start, eof) ==
  LET breaks == Breaks(buf, start)
      p == Least(breaks)
  IN IF breaks = {} THEN [position |-> 0, length |-> 0, next |-> Len(buf)]
     ELSE IF EndingLength(buf, p, eof) = 0 THEN [position |-> 0, length |-> 0, next |-> p]
     ELSE [position |-> p, length |-> EndingLength(buf, p, eof), next |-> 0]

(* The line endings a scan from start meets: an LF after a CR it has seen  *)
(* belongs to that CR.                                                     *)
LineEndings(buf, start, eof) ==
  {p \in Breaks(buf, start) :
     /\ EndingLength(buf, p, eof) > 0
     /\ ByteAt(buf, p) = "lf" /\ p > start => ByteAt(buf, p - 1) # "cr"}

LineStart(buf, p, eof) == p + EndingLength(buf, p, eof)

(* A blank line: two line endings, one right after the other.              *)
BlankLines(buf, start, eof) ==
  {p \in LineEndings(buf, start, eof) : LineStart(buf, p, eof) \in LineEndings(buf, start, eof)}

(* Where a scan that met no blank line has to resume when more bytes come: *)
(* at the ending that may be the first half of a blank line, else at a CR  *)
(* that is still undecided, else at the end.                               *)
Resume(buf, start, eof) ==
  LET undecided == {p \in Breaks(buf, start) : EndingLength(buf, p, eof) = 0}
      stop == IF undecided = {} THEN Len(buf) ELSE Least(undecided)
      half == {p \in LineEndings(buf, start, eof) : LineStart(buf, p, eof) = stop}
  IN IF half = {} THEN stop ELSE Least(half)

(* The first blank line at or after start, with its length.                *)
findSSEEventDelimiter(buf, start, eof) ==
  LET p == Least(BlankLines(buf, start, eof))
      second == LineStart(buf, p, eof)
  IN IF BlankLines(buf, start, eof) = {}
     THEN [eventLen |-> 0, delimLen |-> 0, next |-> Resume(buf, start, eof)]
     ELSE [eventLen |-> p, delimLen |-> LineStart(buf, second, eof) - p, next |-> 0]
=============================================================================
