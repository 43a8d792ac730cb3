---------------------------- MODULE MCModelRouting ----------------------------
EXTENDS ModelRoutingProperties

MCModel == {"a", "b", "c", ""}

UpTo(S, n) == UNION {[1 .. m -> S] : m \in 0 .. n}

Maps(from, to) == [m \in MCModel |-> IF m = from THEN to ELSE NoMatch]
ForAll(map) == [exact |-> NoScope, hasPattern |-> FALSE, pattern |-> {}, exclude |-> FALSE, map |-> map]
ForKey(scope, map) == [ForAll(map) EXCEPT !.exact = scope]
ForPattern(scopes, map) == [ForAll(map) EXCEPT !.hasPattern = TRUE, !.pattern = scopes]
ButFor(rule) == [rule EXCEPT !.exclude = TRUE]

(* A case operation matches every name and leaves some as they are.        *)
Lower == ForAll([m \in MCModel |-> IF m = "b" THEN "a" ELSE m])

MCRules == {ForAll(Maps("a", "b")), ForAll(Maps("b", "")), Lower,
            ForKey("s1", Maps("a", "c")), ButFor(ForPattern({"s1"}, Maps("b", "c")))}

Cfg(global, claude, codex, openai, mode) ==
  [globalRules |-> global, claudeMessagesRules |-> claude, codexResponsesRules |-> codex,
   openAICompletionsRules |-> openai, RulesStackMode |-> mode]

Asks(formats, natives) ==
  [format : formats, model : {"a", "b"}, scope : {"s1", "s2", NoScope},
   presented : BOOLEAN, native : natives]

(* Every pair of rulesets of up to two entries.             *)
RulesConfigs ==
  {Cfg(g, c, <<>>, <<>>, mode) : g \in UpTo(MCRules, 2), c \in UpTo(MCRules, 2), mode \in StackMode}
RulesQuestions == Asks({"claude", "gemini"}, {FALSE})

(* A few configurations that follow each other.                            *)
ab == ForAll(Maps("a", "b"))
bE == ForAll(Maps("b", ""))
patterned == ForPattern({"s1"}, Maps("a", "c"))
Submit(mode, rules) == [decoded |-> TRUE, mode |-> mode, rules |-> rules]
MCCandidates ==
  {Submit("off", <<<<ab>>, <<>>, <<>>, <<>>>>),
   Submit("specific_first", <<<<bE>>, <<ab>>, <<patterned>>, <<Lower>>>>),
   Submit("global_first", <<<<patterned, ab>>, <<patterned>>, <<Lower>>, <<ab>>>>),
   Submit("off", <<<<ab>>, <<bE>>, <<patterned, ab>>, Bad>>),
   Submit("other", <<<<ab>>, <<>>, <<>>, <<>>>>),
   [Submit("off", <<<<>>, <<>>, <<>>, <<>>>>) EXCEPT !.decoded = FALSE]}
Default == {Cfg(<<>>, <<>>, <<>>, <<>>, "off")}
RaceQuestions == Asks({"claude", "openai-response", "openai", "interactions", "unknown"}, BOOLEAN)

MCQuestions == RulesQuestions \union RaceQuestions
MCConfigs == RulesConfigs \union Default

(* Either the configuration changes while a request of any format is made, *)
(* or nothing interferes and the configuration is any of the many.         *)
MCInit ==
  /\ \/ /\ published \in Default
        /\ asked \in [Requests -> RaceQuestions]
        /\ call = [l \in Lifecycles |-> "ready"]
        /\ candidate \in [Lifecycles -> Candidates]
     \/ /\ published \in RulesConfigs
        /\ asked \in [Requests -> RulesQuestions]
        /\ call = [l \in Lifecycles |-> "refused"]
        /\ candidate = [l \in Lifecycles |-> CHOOSE c \in Candidates : TRUE]
  /\ Init

MCSpec == MCInit /\ [][Next]_vars
=============================================================================
