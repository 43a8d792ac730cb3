----------------------------- MODULE MCStreamChunks -----------------------------
(***************************************************************************)
(* Instance of StreamChunksProperties: short streams of every form, cut    *)
(* everywhere.                                                             *)
(***************************************************************************)
EXTENDS StreamChunksProperties

V(t) == [kind |-> "value", text |-> t]
S(t) == [kind |-> "space", text |-> t]
E(t) == [kind |-> "event", text |-> t]

Object == <<"{", "q", "model", "q", ":", "q", "u", "q", "}">>
Pretty == <<"{", "lf", "q", "model", "q", ":", "lf", "q", "u", "q", "lf", "}">>
Typed == <<"{", "q", "type", "q", ":", "q", "ping", "q", "}">>
Escaped == <<"{", "q", "x", "q", ":", "q", "bs", "q", "}", "q", "}">>
Number == <<"1", "2">>
Null == <<"n", "ull">>
Word == <<"q", "bs", "q", "x", "q">>

DataEvent == DATA \o <<"sp">> \o Object \o <<"lf", "lf">>
SplitEvent == <<"id", ":", "1", "lf">> \o DATA \o <<"{", "lf">> \o DATA
                \o <<"q", "model", "q", ":", "q", "u", "q", "}", "lf", "lf">>

EmptyEvent == DATA \o <<"lf", "lf">>
Comment == <<":", "x", "lf", "lf">>
Colonless == <<"da", "ta", "cr", "cr">>
Ping == EVENT \o <<"ping", "cr", "lf">> \o DATA \o <<"1", "cr", "lf", "cr", "lf">>
NumberField == <<"1", ":", "2", "lf">> \o DATA \o Object \o <<"lf", "lf">>
NumberLine == <<"1", "2", "lf", ":", "x", "lf", "lf">>
BraceField == <<"{", ":", "1", "lf">> \o DATA \o Object \o <<"lf", "lf">>

(* An event of the interactions format that no blank line ends.            *)
Logical(type, value) ==
  E(EVENT \o <<"sp", type, "lf">> \o DATA \o <<"sp">> \o value)
Delta == <<"{", "q", "etype", "q", ":", "q", "delta", "q", "}">>
Created == <<"{", "q", "etype", "q", ":", "q", "created", "q", ",", "q", "model", "q", ":", "q", "u", "q", "}">>
LogicalEvent == {Logical("delta", Delta), Logical("created", Created), Logical("done", <<"[", "DONE", "]">>)}

(* An array sent to a Gemini client, whose elements are told apart.        *)
ArrayOf(v, w) == <<S(<<"[", "lf">>), v, S(<<"sp", ",", "lf">>), w, S(<<"]">>)>>

Long == [k \in 1 .. 22 |-> "sp"]
LongObject == <<"{", "q", "model", "q", ":">> \o Long \o <<"q", "u", "q", "}">>
LongEvent == {E(DATA \o Long \o Object \o d) : d \in {<<"lf", "lf">>, <<"cr", "cr">>, <<"cr", "lf", "cr", "lf">>}}

Mark == [kind |-> "bom", text |-> BOM]
NoMark == {E(<<"bom1", "bom2", ":", "x", "lf", "lf">>),
           E(<<"bom1", "bom2", "bom1", "bom2", "bom3", ":", "lf", "lf">>)}

(* Comments with every sequence of line breaks between and after them.     *)
RECURSIVE EventsOf(_)
EventsOf(t) ==
  LET d == findSSEEventDelimiter(t, 0, TRUE)
      end == d.eventLen + d.delimLen
  IN IF t = <<>> THEN <<>> ELSE <<E(Part(t, 0, end))>> \o EventsOf(Drop(t, end))
Commented == {<<":">> \o t : t \in UNION {[1 .. n -> {":", "lf", "cr"}] : n \in 1 .. 6}}
Comments == {EventsOf(t) : t \in {t \in Commented : completeSSEEvents(t)}}

-----------------------------------------------------------------------------
(* Events of the format openai-response of which every field is a chunk.   *)
N(fields) == [kind |-> "fields", text |-> FlattenSeq(fields), fields |-> fields]

ResponseCreated == <<"{", "q", "type", "q", ":", "q", "response.created", "q", ",",
                     "q", "model", "q", ":", "q", "u", "q", "}">>
ResponseError == <<"{", "q", "type", "q", ":", "q", "error", "q", "}">>
Header(type) == EVENT \o <<"sp", type>>
Data(value) == DATA \o <<"sp">> \o value
ResponseText(type, value) == Header(type) \o <<"lf">> \o Data(value)

Id == <<"id", ":", "1">>
Other == <<"x", ":", "1">>
Leading == {<<>>, <<Id>>, <<Other>>, <<<<":", "x">>>>, <<<<"id">>>>, <<Id, Other>>, <<<<":", "x">>, <<"id">>>>}
DataField == {N(f \o <<Data(v)>>) : f \in Leading, v \in {ResponseCreated, ResponseError}}
FieldEvent ==
  DataField \union {N(f \o <<Header("response.created")>> \o g \o <<Data(ResponseCreated)>>) :
                     f \in Leading, g \in Leading \union {<<Other, Id>>}}

(* Whole events between them.                                              *)
ResponseChunk ==
  {E(t) : t \in {Comment, DataEvent, ResponseText("response.created", ResponseCreated),
                 ResponseText("error", ResponseError) \o <<"cr", "lf", "cr", "lf">>}}

-----------------------------------------------------------------------------
In(name, pieces) ==
  [format |-> name, framed |-> name \notin {"gemini", "openai", ""}, pieces |-> pieces, fields |-> {}]

InFields(pieces) ==
  LET chunks == FlattenSeq([k \in DOMAIN pieces |->
                  IF pieces[k].kind = "fields" THEN pieces[k].fields ELSE <<pieces[k].text>>])
  IN [In("openai-response", pieces) EXCEPT
        !.fields = {Len(FlattenSeq(SubSeq(chunks, 1, k))) : k \in DOMAIN chunks}]

Space == {S(<<"lf">>), S(<<"sp", "cr", "lf">>)}
ObjectValue == {V(t) : t \in {Object, Pretty, Typed, Escaped}}
Value == ObjectValue \union {V(t) : t \in {Number, Null, Word}}
Event == {E(t) : t \in {DataEvent, SplitEvent, EmptyEvent, Comment, Colonless, Ping, NumberField, NumberLine, BraceField}}

(* In the format openai-response these are not cut inside ids and comments. *)
EventIn(f) ==
  IF f # "openai-response" THEN Event
  ELSE {E(t) : t \in {DataEvent, EmptyEvent, Colonless, Ping, NumberField, BraceField,
                      ResponseText("response.created", ResponseError) \o <<"lf", "lf">>}}

FramedFormat == {"claude", "openai-response"}
AnyFormat == FramedFormat \union {"gemini", ""}

ValueStreams ==
  {In(f, <<v, s, w>>) : f \in AnyFormat, v \in Value, w \in Value, s \in Space}
  \union {In(f, <<v, w>>) : f \in AnyFormat, v \in ObjectValue, w \in Value}
  \union {In(f, <<v, w>>) : f \in AnyFormat, v \in Value, w \in ObjectValue}
  \union {In("gemini", ArrayOf(v, w)) : v \in Value, w \in Value}
  \union {In("gemini", ArrayOf(v, V(Number)) \o <<S(<<"lf">>), w>>) : v \in ObjectValue, w \in ObjectValue}

EventStreams ==
  UNION {{In(f, <<v, w>>) : v \in EventIn(f), w \in EventIn(f)} : f \in {"claude", "gemini", "openai-response", "interactions"}}
  \union {In("interactions", <<v, w>>) : v \in LogicalEvent, w \in LogicalEvent \union {E(Ping)}}
  \union {In("interactions", <<v, w, e>>) : v \in LogicalEvent, w \in LogicalEvent, e \in LogicalEvent}
  \union {In("claude", events) : events \in {events \in Comments : \A k \in DOMAIN events : Head(events[k].text) = ":"}}

MixedStreams ==
  UNION {{In(f, <<v, s, w>>) : v \in ObjectValue, w \in EventIn(f), s \in Space} : f \in {"claude", "gemini", "openai-response"}}
  \union UNION {{In(f, <<v, w>>) : v \in ObjectValue, w \in EventIn(f)} : f \in {"claude", "gemini", "openai-response"}}
  \union {In("claude", <<v, w, e>>) : v \in ObjectValue, w \in ObjectValue, e \in {E(DataEvent), E(Ping)}}

LongStreams ==
  {In(f, <<v, S(<<"lf">>), w>>) : f \in {"claude", "gemini"}, v \in ObjectValue, w \in {V(LongObject)} \union LongEvent}
  \union {In(f, <<V(Number), S(<<"lf">>), V(LongObject)>>) : f \in {"claude", "gemini"}}
  \union {In("gemini", ArrayOf(v, V(LongObject))) : v \in Value}

MarkedStreams ==
  UNION {{In(f, <<Mark, v>>) : v \in Value \union EventIn(f)} : f \in {"claude", "gemini", "openai-response"}}
  \union {In("", <<Mark, v>>) : v \in Value}
  \union {In("gemini", <<Mark>> \o ArrayOf(v, v)) : v \in ObjectValue}
  \union {In(f, <<v, w>>) : f \in {"claude", "gemini", "interactions"}, v \in NoMark, w \in {E(DataEvent), E(Ping)}}
  \union {In("claude", <<Mark, E(BOM \o Comment)>>)}

FieldStreams ==
  {InFields(<<v, w>>) : v \in FieldEvent, w \in FieldEvent}
  \union {InFields(<<v, e, w>>) : v \in DataField, e \in ResponseChunk, w \in DataField}
  \union {InFields(<<u, v, w>>) : u \in ResponseChunk, v \in ResponseChunk, w \in ResponseChunk}

MCStreams ==
  ValueStreams \union EventStreams \union MixedStreams \union LongStreams \union MarkedStreams \union FieldStreams

(* Fields after an event without a header that take a break and fields     *)
(* that get one only with the event, in the order that joins two events.   *)
MixedFieldStreams ==
  {InFields(<<N(<<Data(v)>>), N(<<f, Id, Data(w)>>)>>) :
     f \in {Other, <<"id">>}, v \in {ResponseCreated, ResponseError}, w \in {ResponseCreated, ResponseError}}
=============================================================================
