------------------------------- MODULE JsonModel -------------------------------
(***************************************************************************)
(* The model fields of JSON bodies (json_model.go): the rewriting of a     *)
(* request, which scans the text by itself, and the restoration of a       *)
(* response, which walks it with a decoder.  Both replace pieces of the    *)
(* text and leave the rest as it is.                                       *)
(***************************************************************************)
EXTENDS JsonText, SequencesExt

CONSTANTS
  Bodies,   \* the texts that may have to be rewritten
  Model     \* the model they are rewritten to

ASSUME BodiesAssumption ==
  \A doc \in Bodies :
    /\ doc \in Seq({doc[i] : i \in DOMAIN doc})
    /\ \A i \in DOMAIN doc : IsString(doc[i]) => doc[i] \in {String(Text(doc[i])), Spelled(Text(doc[i]))}

VARIABLES body, out, changed, pc

vars == <<body, out, changed, pc>>

Unchanged(doc) == [text |-> doc, changed |-> FALSE]
Edit(start, end, replacement) == [start |-> start, end |-> end, replacement |-> replacement]

(* Edits that do not overlap; the end is the place after the last atom     *)
(* replaced.                                                               *)
applyJSONByteEdits(doc, edits) ==
  LET Of(i) == {e \in edits : i \in e.start .. e.end - 1}
      edit(i) == CHOOSE e \in Of(i) : TRUE
      piece(i) == IF Of(i) = {} THEN <<doc[i]>>
                  ELSE IF edit(i).start = i THEN edit(i).replacement ELSE <<>>
  IN FlattenSeq([i \in DOMAIN doc |-> piece(i)])

-----------------------------------------------------------------------------
(* skipTopLevelModelJSONValue, which looks for the end of an object or     *)
(* array by counting.                                                      *)
Nesting(doc, i, j) ==
  Cardinality({k \in i .. j : doc[k] \in {ObjectStart, ArrayStart}})
    - Cardinality({k \in i .. j : doc[k] \in {ObjectEnd, ArrayEnd}})

SkipValue(doc) ==
  [i \in 1 .. Len(doc) |->
     IF doc[i] \notin {ObjectStart, ArrayStart} THEN i + 1
     ELSE CHOOSE end \in i + 1 .. Len(doc) + 1 :
            /\ end = Len(doc) + 1 \/ Nesting(doc, i, end - 1) = 0
            /\ \A j \in i .. end - 2 : Nesting(doc, i, j) # 0]

(* Where the decoder ends with the value at i.                             *)
DecodedEnd(doc) ==
  [i \in 1 .. Len(doc) |->
     LET values == Reading(doc)[<<AValue, i>>]
     IN IF values = {} THEN Len(doc) + 1 ELSE (CHOOSE v \in values : TRUE).next]

(* The places of the members of the object that opens at i, and of what    *)
(* separates each from the one before.  End says where each value ends.    *)
Walk(doc, i, End) ==
  LET from[before \in 1 .. Len(doc)] ==
        LET key == SkipSpace(doc, before + 1)
            colon == SkipSpace(doc, key + 1)
            value == SkipSpace(doc, colon + 1)
            next == SkipSpace(doc, End[value])
        IN IF ~IsString(At(doc, key)) \/ At(doc, colon) # Colon \/ value > Len(doc) THEN {}
           ELSE {[before |-> before, key |-> key, value |-> value, end |-> End[value]]}
                  \union IF At(doc, next) = Comma THEN from[next] ELSE {}
  IN from[i]

ModelsOf(doc, members) == {m \in members : Text(doc[m.key]) = "model"}

FirstOf(members) == CHOOSE m \in members : \A n \in members : m.before <= n.before
LastOf(members) == CHOOSE m \in members : \A n \in members : m.before >= n.before

(* Mistake: the later members are left where they are.                     *)
rewriteTopLevelModelCanonicalFirst(doc, models) ==
  LET first == FirstOf(models)
  IN IF ~IsString(doc[LastOf(models).value]) THEN Unchanged(doc)
     ELSE [text |-> applyJSONByteEdits(doc, {Edit(first.value, first.end, <<String(Model)>>)}),
           changed |-> TRUE]

(* The first of several members called model is replaced, the later ones   *)
(* are deleted with the comma before them.                                 *)
rewriteTopLevelModelCanonical(doc, models) ==
  LET first == FirstOf(models)
      edits == {Edit(first.value, first.end, <<String(Model)>>)}
                 \union {Edit(m.before, m.end, <<>>) : m \in models \ {first}}
  IN IF ~IsString(doc[LastOf(models).value]) THEN Unchanged(doc)
     ELSE [text |-> applyJSONByteEdits(doc, edits), changed |-> TRUE]

rewriteTopLevelModel(doc) ==
  LET object == SkipSpace(doc, 1)
      models == ModelsOf(doc, Walk(doc, object, SkipValue(doc)))
      place == FirstOf(models).value
  IN IF ~Valid(doc) \/ doc[object] # ObjectStart \/ models = {} THEN Unchanged(doc)
     ELSE IF models # {FirstOf(models)}
     THEN rewriteTopLevelModelCanonical(doc, ModelsOf(doc, Walk(doc, object, DecodedEnd(doc))))
     ELSE IF ~IsString(doc[place]) \/ Text(doc[place]) = Model THEN Unchanged(doc)
     ELSE [text |-> [doc EXCEPT ![place] = String(Model)], changed |-> TRUE]

-----------------------------------------------------------------------------
ResponseModelKeys == {"model", "modelVersion"}

(* Mistake: only keys that are spelled plainly are looked for.             *)
mightContainResponseModelFieldPlain(doc) ==
  \E i \in DOMAIN doc : doc[i] \in {String(key) : key \in ResponseModelKeys}

(* Either word in quotes anywhere, or spelled with escapes before a colon. *)
mightContainResponseModelField(doc) ==
  \E i \in DOMAIN doc :
    \/ doc[i] \in {String(key) : key \in ResponseModelKeys}
    \/ /\ doc[i] \in {Spelled(key) : key \in ResponseModelKeys}
       /\ At(doc, SkipSpace(doc, i + 1)) = Colon

(* The place of a field: the key of the member that holds the object.      *)
Outermost == ""

Restorable(key, parent) ==
  \/ key = "model"
  \/ key = "modelVersion" /\ parent \in {Outermost, "response"}

(* Mistake: values that already are the model are replaced as well.        *)
ModelEditAlways(doc, member, parent) ==
  IF Restorable(Text(doc[member.key]), parent) /\ IsString(doc[member.value])
  THEN {Edit(member.value, member.end, <<String(Model)>>)} ELSE {}

ModelEdit(doc, member, parent) ==
  LET value == doc[member.value]
  IN IF Restorable(Text(doc[member.key]), parent) /\ IsString(value) /\ Text(value) # Model
     THEN {Edit(member.value, member.end, <<String(Model)>>)} ELSE {}

(* Of the value at i, if it is an object, which is the member called       *)
(* parent of the outermost one.                                            *)
InnerEdits(doc, i, parent) ==
  IF doc[i] # ObjectStart THEN {}
  ELSE UNION {ModelEdit(doc, m, parent) : m \in Walk(doc, i, DecodedEnd(doc))}

collectResponseModelEdits(doc, i) ==
  LET edits(m) == IF Text(doc[m.key]) \in {"response", "message", "interaction"}
                  THEN InnerEdits(doc, m.value, Text(doc[m.key]))
                  ELSE ModelEdit(doc, m, Outermost)
  IN IF doc[i] # ObjectStart THEN {} ELSE UNION {edits(m) : m \in Walk(doc, i, DecodedEnd(doc))}

(* The places of the elements of the array that opens at i.                *)
ElementPlaces(doc, i) ==
  LET from[before \in 1 .. Len(doc)] ==
        LET value == SkipSpace(doc, before + 1)
            next == SkipSpace(doc, DecodedEnd(doc)[value])
        IN IF value > Len(doc) \/ At(doc, value) = ArrayEnd THEN {}
           ELSE {value} \union IF At(doc, next) = Comma THEN from[next] ELSE {}
  IN from[i]

rewriteResponseModelFields(doc) ==
  LET start == SkipSpace(doc, 1)
      places == IF doc[start] = ArrayStart THEN ElementPlaces(doc, start) ELSE {start}
      edits == UNION {collectResponseModelEdits(doc, place) : place \in places}
  IN IF ~mightContainResponseModelField(doc) \/ ~Valid(doc) THEN Unchanged(doc)
     ELSE [text |-> applyJSONByteEdits(doc, edits), changed |-> edits # {}]

-----------------------------------------------------------------------------
Init ==
  /\ body \in Bodies
  /\ out = body /\ changed = FALSE
  /\ pc = "body"

Give(result, label) ==
  /\ pc = "body" /\ pc' = label
  /\ out' = result.text /\ changed' = result.changed
  /\ UNCHANGED body

rewriteRequestModel == Give(rewriteTopLevelModel(body), "request")

restoreResponseModel == Give(rewriteResponseModelFields(body), "response")

Next == rewriteRequestModel \/ restoreResponseModel

Spec == Init /\ [][Next]_vars
=============================================================================
