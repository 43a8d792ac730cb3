------------------------------ MODULE MCRuleText ------------------------------
EXTENDS RuleTextProperties

Arrowed == <<"a", "=", ">", "a">>

(* Texts of the marks that separate; of the characters of an arrow; of     *)
(* patterns and replacements after the beginning of a rule; of entries; of *)
(* patterns with so many captures that their numbers have two digits.      *)
Tens == [i \in 1 .. 10 |-> "*"]

MCWriters ==
  {[pieces |-> {<<"a">>, <<"\\">>, <<"#">>, <<"!">>, <<";">>, Arrow}, most |-> 7],
   [pieces |-> {<<"a">>, <<"\\">>, <<"=">>, <<">">>}, most |-> 9],
   [pieces |-> {<<"*">>, <<"\\">>, <<"$">>, <<"1">>, <<"0">>, <<"2">>, <<"=", ">", "a">>, <<"*", "=", ">">>}, most |-> 6],
   [pieces |-> {Arrowed, <<"\\">>, <<";">>, <<"!">>, <<" ">>, <<"#">>, <<"*", "#">>, <<"\\", "A">>}, most |-> 5],
   [pieces |-> {Tens, Arrow, <<"$">>, <<"1">>, <<"0">>, <<"a">>}, most |-> 6]}
=============================================================================
