--------------------------- MODULE JsonModelProperties ---------------------------
(***************************************************************************)
(* What a reader of the rewritten bodies must find (README.md, "Rewrite    *)
(* boundaries"), in terms of the values the texts stand for.               *)
(***************************************************************************)
EXTENDS JsonModel

Kind(tree) == tree[1]
Content(tree) == tree[2]

Models(tree) == {k \in DOMAIN Content(tree) : Content(tree)[k][1] = "model"}

(* The object with one member called model, where the first of them was.   *)
WithModel(tree) ==
  LET item(k) == IF k \notin Models(tree) THEN <<Content(tree)[k]>>
                 ELSE IF \A j \in Models(tree) : k <= j THEN <<<<"model", String(Model)>>>> ELSE <<>>
  IN <<"object", FlattenSeq([k \in DOMAIN Content(tree) |-> item(k)])>>

(* The decoders of upstreams take the last of several members; it names a  *)
(* model when it is a string.                                              *)
NamesModel(tree) ==
  /\ Kind(tree) = "object" /\ Models(tree) # {}
  /\ LET last == CHOOSE k \in Models(tree) : \A m \in Models(tree) : m <= k
     IN Kind(Content(tree)[last][2]) = "string"

(* An object that names a model goes upstream with the mapped one, once:   *)
(* a reader that takes the first member and one that takes the last find   *)
(* the same, and every other member is as it was.  Anything else goes as   *)
(* it came.                                                                *)
RequestNamesOneModel ==
  pc = "request" =>
    IF \E tree \in Decoded(body) : NamesModel(tree)
    THEN Decoded(out) = {WithModel(tree) : tree \in Decoded(body)}
    ELSE out = body

(* The fields the README lists, in an object or in the objects of an array.*)
OuterFields == {"model", "modelVersion"}
Holders == {"response", "message", "interaction"}
InnerFields(holder) == IF holder = "response" THEN {"model", "modelVersion"} ELSE {"model"}

RestoredMember(member, fields) ==
  IF member[1] \in fields /\ Kind(member[2]) = "string" THEN <<member[1], String(Model)>> ELSE member

Restored(tree, fields) ==
  IF Kind(tree) # "object" THEN tree
  ELSE <<"object", [k \in DOMAIN Content(tree) |-> RestoredMember(Content(tree)[k], fields)]>>

RestoredField(member) ==
  IF member[1] \in Holders THEN <<member[1], Restored(member[2], InnerFields(member[1]))>>
  ELSE RestoredMember(member, OuterFields)

RestoredObject(tree) ==
  IF Kind(tree) # "object" THEN tree
  ELSE <<"object", [k \in DOMAIN Content(tree) |-> RestoredField(Content(tree)[k])]>>

RestoredBody(tree) ==
  IF Kind(tree) = "array"
  THEN <<"array", [k \in DOMAIN Content(tree) |-> RestoredObject(Content(tree)[k])]>>
  ELSE RestoredObject(tree)

(* The client finds its own model in every field that is restored, however *)
(* the keys are spelled, and nothing else is different.                    *)
ResponseNamesTheClientsModel ==
  pc = "response" =>
    IF Valid(body) THEN Decoded(out) = {RestoredBody(tree) : tree \in Decoded(body)}
    ELSE out = body

(* Headers that describe the bytes are dropped exactly when the rewriting  *)
(* says it changed them: it never says so of the same text, never changes  *)
(* a text silently, and what was restored needs no second restoration.     *)
ChangesAreReported ==
  /\ changed <=> out # body
  /\ pc = "response" => rewriteResponseModelFields(out) = Unchanged(out)
=============================================================================
