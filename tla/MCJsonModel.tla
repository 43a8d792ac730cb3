------------------------------ MODULE MCJsonModel ------------------------------
EXTENDS JsonModelProperties

UpTo(S, n) == UNION {[1 .. m -> S] : m \in 0 .. n}

(* Texts are made of members, with or without spaces between all atoms.    *)
Joint(parts) ==
  FlattenSeq([k \in DOMAIN parts |-> IF k = 1 THEN parts[k] ELSE <<Comma>> \o parts[k]])
Object(members) == <<ObjectStart>> \o Joint(members) \o <<ObjectEnd>>
Array(elements) == <<ArrayStart>> \o Joint(elements) \o <<ArrayEnd>>
Member(key, value) == <<key, Colon>> \o value
Spaced(doc) == FlattenSeq([k \in DOMAIN doc |-> <<Space, doc[k]>>]) \o <<Space>>

Scalars == {<<String("up")>>, <<String("model")>>, <<String("orig")>>, <<Spelled("orig")>>, <<Number>>}
Nested == {Object(<<Member(String(key), value)>>) :
             key \in {"model", "modelVersion", "response"}, value \in {<<String("up")>>, <<Number>>}}
          \union {Object(<<Member(Spelled("model"), <<String("up")>>)>>), Object(<<>>), Array(<<>>),
                  Array(<<Object(<<Member(String("model"), <<String("up")>>)>>)>>)}
Keys == {String("model"), Spelled("model"), String("modelVersion"), Spelled("modelVersion"),
         String("response"), String("message"), String("other"), String("")}
AnyMember == {Member(key, value) : key \in Keys, value \in Scalars \union Nested}
FewMembers == {Member(key, value) : key \in {String("model"), Spelled("model"), String("other")},
                                    value \in {<<String("up")>>, <<String("orig")>>, <<Number>>}}

Objects == {Object(m) : m \in UpTo(AnyMember, 2)} \union {Object(m) : m \in [1 .. 3 -> FewMembers]}
Arrays == {Array(<<Object(<<m>>), v>>) : m \in AnyMember, v \in {<<Number>>, Object(<<>>)}}
Whole == Objects \union Arrays \union Scalars

(* ... and the same without their last atom.                               *)
MCBodies == Whole \union {Spaced(doc) : doc \in Whole} \union {Front(doc) : doc \in Objects \union Arrays}
=============================================================================
