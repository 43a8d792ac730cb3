-------------------------------- MODULE JsonText --------------------------------
(***************************************************************************)
(* JSON texts as encoding/json reads them.  A text is a sequence of        *)
(* spaces, punctuation, numbers and strings; a string is its text, with a  *)
(* third element when it is spelled with escapes.  Reading may fail: the   *)
(* result is a set, empty for the error.                                   *)
(***************************************************************************)
EXTENDS Integers, Sequences

Space == <<" ">>
ObjectStart == <<"{">>
ObjectEnd == <<"}">>
ArrayStart == <<"[">>
ArrayEnd == <<"]">>
Comma == <<",">>
Colon == <<":">>
Number == <<"number">>
String(text) == <<"string", text>>
Spelled(text) == <<"string", text, "escaped">>

AValue == <<"value">>

At(doc, i) == IF i <= Len(doc) THEN doc[i] ELSE <<"end">>
IsString(atom) == atom[1] = "string"
Text(atom) == atom[2]

SkipSpace(doc, i) ==
  CHOOSE j \in i .. Len(doc) + 1 :
    At(doc, j) # Space /\ \A k \in i .. j - 1 : doc[k] = Space

(* The items from i on of the array or object that closes with the mark    *)
(* close; read tells what is read from later places.                       *)
Items(doc, read, close, i) ==
  LET key == SkipSpace(doc, i)
      colon == SkipSpace(doc, key + 1)
      from == IF close = ObjectEnd THEN colon + 1 ELSE i
      item(tree) == IF close = ObjectEnd THEN <<Text(doc[key]), tree>> ELSE tree
  IN IF close = ObjectEnd /\ (~IsString(At(doc, key)) \/ At(doc, colon) # Colon) THEN {}
     ELSE UNION {{[list |-> <<item(v.tree)>> \o rest.list, next |-> rest.next] :
                    rest \in read[<<close, v.next>>]} : v \in read[<<AValue, from>>]}

(* What follows an item, up to and with the mark close.                    *)
Rest(doc, read, close, i) ==
  LET at == SkipSpace(doc, i)
  IN CASE At(doc, at) = close -> {[list |-> <<>>, next |-> at + 1]}
       [] At(doc, at) = Comma -> Items(doc, read, close, at + 1)
       [] OTHER -> {}

Value(doc, read, i) ==
  LET at == SkipSpace(doc, i)
      atom == At(doc, at)
      inside == SkipSpace(doc, at + 1)
      all(close) == IF At(doc, inside) = close THEN {[list |-> <<>>, next |-> inside + 1]}
                    ELSE Items(doc, read, close, at + 1)
  IN CASE IsString(atom) -> {[tree |-> String(Text(atom)), next |-> at + 1]}
       [] atom = Number -> {[tree |-> Number, next |-> at + 1]}
       [] atom = ObjectStart -> {[tree |-> <<"object", m.list>>, next |-> m.next] : m \in all(ObjectEnd)}
       [] atom = ArrayStart -> {[tree |-> <<"array", e.list>>, next |-> e.next] : e \in all(ArrayEnd)}
       [] OTHER -> {}

(* The value that begins at a place, or the rest of what a mark closes,    *)
(* and the place after it.                                                 *)
Reading(doc) ==
  LET read[at \in {AValue, ObjectEnd, ArrayEnd} \X (1 .. Len(doc) + 1)] ==
        IF at[1] = AValue THEN Value(doc, read, at[2]) ELSE Rest(doc, read, at[1], at[2])
  IN read

(* The value of a text that holds one value and nothing else.              *)
Decoded(doc) ==
  {v.tree : v \in {v \in Reading(doc)[<<AValue, 1>>] : SkipSpace(doc, v.next) > Len(doc)}}

Valid(doc) == Decoded(doc) # {}
=============================================================================
