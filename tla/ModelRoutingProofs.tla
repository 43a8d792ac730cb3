--------------------------- MODULE ModelRoutingProofs ---------------------------
(***************************************************************************)
(* Routing, for any number of requests and lifecycle calls, any rules and  *)
(* any configurations: no RPC ever sees a part of a configuration; a       *)
(* request is not declined after it was claimed unless the configuration   *)
(* or the credential changed in between; and an RPC decides what the       *)
(* README says of one configuration that was in force while it ran.  The   *)
(* last needs what the loops over the rulesets compute, which is shown by  *)
(* induction on their entries (see Induction).                             *)
(***************************************************************************)
EXTENDS ModelRoutingProperties, Induction

Pcs == {"arrived", "native", "route", "routed", "execute",
        "upstream", "unhandled", "failed", "answered"}

Types ==
  /\ call \in [Lifecycles -> {"ready", "compile", "published", "refused"}]
  /\ candidate \in [Lifecycles -> Candidates]
  /\ compiled \in [Lifecycles -> 0 .. 4]
  /\ published \in WholeConfigs
  /\ cfg \in [Requests -> WholeConfigs]
  /\ pc \in [Requests -> Pcs]
  /\ presented \in [Requests -> BOOLEAN]
  /\ changed \in [Requests -> BOOLEAN]

(* A call that compiles has a candidate whose fields are valid so far.     *)
CompiledSoFar ==
  \A l \in Lifecycles :
     /\ call[l] = "compile" => candidate[l].decoded /\ candidate[l].mode \in StackMode
     /\ \A f \in 1 .. 4 : f <= compiled[l] => candidate[l].rules[f] # Bad

(* What the route RPC decides, as the executor RPC would decide it again.  *)
Claims(config, q, credential) ==
  LET decided == routeModel(config, q.format, q.model, q.scope,
                            KeyFor(config, q.format, q.scope, credential))
  IN decided.handled \/ decided.err

(* As long as nothing changed, the snapshot is the one in force, and a     *)
(* request that was claimed would be claimed again.                        *)
ClaimStands ==
  \A r \in Requests : ~changed[r] =>
     /\ pc[r] \in {"route", "routed"} => cfg[r] = published
     /\ pc[r] \in {"routed", "execute"} => Claims(cfg[r], asked[r], presented[r])
     /\ pc[r] # "unhandled"

IInv == Types /\ CompiledSoFar /\ ClaimStands

-----------------------------------------------------------------------------
(* Before any RPC or lifecycle call.                                       *)
LEMMA InitIInv == ASSUME Init PROVE IInv
<1>1. Types
  BY QuestionsAssumption DEF Init, Types, WholeConfigs, Pcs, Question
<1> QED
  BY <1>1 DEF Init, IInv, CompiledSoFar, ClaimStands

(* A lifecycle call publishes a configuration only when all its fields are *)
(* compiled.                                                               *)
LEMMA LifecycleKeepsIInv ==
  ASSUME IInv, NEW l \in Lifecycles, Decode(l) \/ CompileField(l) \/ publishLoadedConfig(l)
  PROVE  IInv'
<1> USE DEF IInv
<1>1. CASE Decode(l)
  <2>1. PICK next \in {"compile", "refused"} :
          /\ call' = [call EXCEPT ![l] = next]
          /\ next = "compile" => candidate[l].decoded /\ candidate[l].mode \in StackMode
    BY <1>1 DEF Decode
  <2>2. Types'
    BY <1>1, <2>1 DEF Decode, Types, rpcVars
  <2>4. CompiledSoFar'
    BY <1>1, <2>1 DEF Decode, Types, CompiledSoFar
  <2>5. ClaimStands'
    BY <1>1 DEF Decode, ClaimStands, rpcVars
  <2> QED
    BY <2>2, <2>4, <2>5
<1>2. CASE CompileField(l)
  <2>1. Types'
    BY <1>2 DEF CompileField, Types, rpcVars
  <2>2. CompiledSoFar'
    BY <1>2 DEF CompileField, Types, CompiledSoFar
  <2>3. ClaimStands'
    BY <1>2 DEF CompileField, ClaimStands, rpcVars
  <2> QED
    BY <2>1, <2>2, <2>3
<1>3. CASE publishLoadedConfig(l)
  <2> DEFINE new == Compiled(candidate[l])
  <2>1. new \in WholeConfigs
    BY <1>3 DEF publishLoadedConfig, Types, CompiledSoFar, WholeConfigs, Valid
  <2>2. /\ published' = new /\ UNCHANGED <<candidate, compiled, rpcVars>>
        /\ changed' = [r \in Requests |-> changed[r] \/ new # published]
        /\ call' = [call EXCEPT ![l] = "published"]
    BY <1>3 DEF publishLoadedConfig, Publish
  <2>3. changed' \in [Requests -> BOOLEAN]
    BY <2>2 DEF Types
  <2>4. Types'
    BY <2>1, <2>2, <2>3 DEF Types, rpcVars
  <2>5. CompiledSoFar'
    BY <2>2 DEF Types, CompiledSoFar
  <2>6. \A r \in Requests : ~changed'[r] => ~changed[r] /\ published' = published
    BY <2>2 DEF Types
  <2>7. ClaimStands'
    BY <2>2, <2>6 DEF ClaimStands, rpcVars
  <2> QED
    BY <2>4, <2>5, <2>7
<1> QED
  BY <1>1, <1>2, <1>3

(* A request takes the published configuration as a whole, and its route   *)
(* RPC claims it by the decision its executor RPC will repeat.             *)
LEMMA RequestKeepsIInv ==
  ASSUME IInv, NEW r \in Requests,
         \/ RouteLoad(r) \/ RouteNative(r) \/ RouteDecide(r) \/ Intercept(r)
         \/ ExecuteLoad(r) \/ ExecuteDecide(r) \/ Answer(r)
  PROVE  IInv'
<1> USE DEF IInv, Pcs
<1>0. CompiledSoFar'
  BY DEF RouteLoad, RouteNative, RouteDecide, Intercept, ExecuteLoad, ExecuteDecide, Answer,
         CompiledSoFar, lifecycleVars
<1>1. CASE RouteLoad(r)
  BY <1>0, <1>1 DEF RouteLoad, Types, ClaimStands, lifecycleVars
<1>2. CASE RouteNative(r) \/ Answer(r)
  BY <1>0, <1>2 DEF RouteNative, Answer, Types, ClaimStands, lifecycleVars
<1>3. CASE RouteDecide(r)
  <2>1. Map(r).handled \/ Map(r).err <=> Claims(cfg[r], asked[r], presented[r])
    BY DEF Map, Claims
  <2> QED
    BY <1>0, <1>3, <2>1 DEF RouteDecide, Types, ClaimStands, lifecycleVars
<1>4. CASE Intercept(r)
  BY <1>0, <1>4 DEF Intercept, Types, ClaimStands, lifecycleVars
<1>5. CASE ExecuteLoad(r)
  BY <1>0, <1>5 DEF ExecuteLoad, Types, ClaimStands, lifecycleVars
<1>6. CASE ExecuteDecide(r)
  <2>1. Map(r).handled \/ Map(r).err <=> Claims(cfg[r], asked[r], presented[r])
    BY DEF Map, Claims
  <2> QED
    BY <1>0, <1>6, <2>1 DEF ExecuteDecide, Types, ClaimStands, lifecycleVars
<1> QED
  BY <1>1, <1>2, <1>3, <1>4, <1>5, <1>6

(* Every step keeps the invariant.                                         *)
LEMMA NextKeepsIInv == ASSUME IInv, [Next]_vars PROVE IInv'
<1>1. CASE UNCHANGED vars
  BY <1>1 DEF vars, lifecycleVars, rpcVars, IInv, Types, CompiledSoFar, ClaimStands
<1> QED
  BY <1>1, LifecycleKeepsIInv, RequestKeepsIInv DEF Next

-----------------------------------------------------------------------------
(* The invariant holds throughout.                                         *)
THEOREM RoutingInvariant == Spec => []IInv
BY InitIInv, NextKeepsIInv, PTL DEF Spec

(* No RPC sees a configuration that is not the whole of one candidate.     *)
THEOREM ConfigurationsAreWhole == Spec => []PublishedIsWhole
<1>1. IInv => PublishedIsWhole
  BY DEF IInv, Types, PublishedIsWhole
<1> QED
  BY <1>1, RoutingInvariant, PTL

(* A request that was claimed is declined only after a change.             *)
THEOREM ClaimsAreKept == Spec => []DeclinesOnlyAfterChange
<1>1. IInv => DeclinesOnlyAfterChange
  BY DEF IInv, Types, ClaimStands, DeclinesOnlyAfterChange
<1> QED
  BY <1>1, RoutingInvariant, PTL

-----------------------------------------------------------------------------
(* The result of applyRules after some entries.                            *)
Mapped == [model : Model, matched : BOOLEAN, err : BOOLEAN]
Start(model) == [model |-> model, matched |-> FALSE, err |-> FALSE]

EntrySteps(scope, credential, rules) ==
  [n \in 1 .. Len(rules) |-> [c \in Mapped |-> applyRule(c, rules[n], scope, credential)]]

(* An entry makes a result of a result.                                    *)
LEMMA ApplyRuleType ==
  ASSUME NEW c \in Mapped, NEW rule \in Rule, NEW scope, NEW credential
  PROVE  applyRule(c, rule, scope, credential) \in Mapped
<1>1. CASE Applies(rule, c.model, scope, credential)
  <2>1. rule.map[c.model] \in Model
    BY <1>1 DEF Applies, Rule, Mapped
  <2> QED
    BY <2>1 DEF applyRule, Mapped
<1> QED
  BY <1>1 DEF applyRule

(* The loop of applyRules has a result after each of its rounds.           *)
LEMMA ApplyRulesUnrolled ==
  ASSUME NEW model \in Model, NEW scope, NEW credential, NEW rules \in Seq(Rule)
  PROVE  \E f : /\ Unrolled(Len(rules), Mapped, Start(model), EntrySteps(scope, credential, rules), f)
                /\ applyRules(model, scope, credential, rules) = f[Len(rules)]
<1> DEFINE N == Len(rules)
           step == EntrySteps(scope, credential, rules)
           Equation(f) == f = [n \in 0 .. N |-> IF n = 0 THEN Start(model)
                                  ELSE applyRule(f[n - 1], rules[n], scope, credential)]
           after == CHOOSE f : Equation(f)
<1>1. \A n \in 1 .. N : rules[n] \in Rule
  OBVIOUS
<1>2. Loop(N, Mapped, Start(model), step)
  BY <1>1, ApplyRuleType DEF Loop, Mapped, Start, EntrySteps
<1>3. \E f : Equation(f)
  <2>1. PICK f : Unrolled(N, Mapped, Start(model), step, f)
    <3> HIDE DEF step
    <3> QED
      BY <1>2, LoopSolved
  <2>2. Equation(f)
    BY <1>1, <2>1 DEF Unrolled, EntrySteps
  <2> QED
    BY <2>2
<1>4. Equation(after)
  <2> HIDE DEF Equation
  <2> QED
    BY <1>3
<1>5. Unrolled(N, Mapped, Start(model), step, after)
  <2> HIDE DEF after
  <2>1. after[0] = Start(model)
    BY <1>4
  <2>2. \A n \in 1 .. N : after[n] = applyRule(after[n - 1], rules[n], scope, credential)
    BY <1>4
  <2>3. \A n \in 1 .. N : after[n - 1] \in Mapped => after[n] = step[n][after[n - 1]]
    BY <2>2 DEF EntrySteps
  <2>4. after = [n \in 0 .. N |-> after[n]]
    BY <1>4
  <2> HIDE DEF step, Equation
  <2> QED
    BY <1>2, <2>1, <2>3, <2>4, LoopUnique
<1>6. applyRules(model, scope, credential, rules) = after[N]
  BY DEF applyRules, Start
<1> HIDE DEF after
<1> QED
  BY <1>5, <1>6

(* The names of a pass after some entries.                                 *)
Names == {names \in Seq(Model) : Len(names) > 0}

NameSteps(scope, credential, entries) ==
  [n \in 1 .. Len(entries) |-> [names \in Names |-> NextNames(names, entries[n], scope, credential)]]

(* A rule adds at most one model to the names.                             *)
LEMMA NextNamesType ==
  ASSUME NEW names \in Names, NEW rule \in Rule, NEW scope, NEW credential
  PROVE  NextNames(names, rule, scope, credential) \in Names
<1>1. Last(names) \in Model
  BY DEF Last, Names
<1>2. CASE ~PassedBy(names, rule, scope, credential)
  <2>1. rule.map[Last(names)] \in Model
    BY <1>1, <1>2 DEF PassedBy, Rule
  <2> QED
    BY <1>2, <2>1 DEF NextNames, Names
<1> QED
  BY <1>2 DEF NextNames

(* So one pass over the entries is a loop,                                 *)
LEMMA PassIsLoop ==
  ASSUME NEW model \in Model, NEW scope, NEW credential, NEW entries \in Seq(Rule)
  PROVE  Loop(Len(entries), Names, <<model>>, NameSteps(scope, credential, entries))
<1>1. \A n \in 1 .. Len(entries) : entries[n] \in Rule
  OBVIOUS
<1>2. <<model>> \in Names
  BY DEF Names
<1> QED
  BY <1>1, <1>2, NextNamesType DEF Loop, NameSteps

(* and OnePass is what the loop has made of the names after each entry.    *)
LEMMA OnePassUnrolled ==
  ASSUME NEW model \in Model, NEW scope, NEW credential, NEW entries \in Seq(Rule)
  PROVE  \E f : /\ Unrolled(Len(entries), Names, <<model>>, NameSteps(scope, credential, entries), f)
                /\ OnePass(model, scope, credential, entries) = f[Len(entries)]
<1> DEFINE N == Len(entries)
           step == NameSteps(scope, credential, entries)
           Equation(f) == f = [n \in 0 .. N |-> IF n = 0 THEN <<model>>
                                  ELSE NextNames(f[n - 1], entries[n], scope, credential)]
           names == CHOOSE f : Equation(f)
<1>2. Loop(N, Names, <<model>>, step)
  BY PassIsLoop
<1>3. \E f : Equation(f)
  <2>1. PICK f : Unrolled(N, Names, <<model>>, step, f)
    <3> HIDE DEF step
    <3> QED
      BY <1>2, LoopSolved
  <2>2. f \in [0 .. N -> Names] /\ f[0] = <<model>>
    BY <2>1 DEF Unrolled
  <2>3. \A n \in 1 .. N : f[n] = NextNames(f[n - 1], entries[n], scope, credential)
    <3>1. \A n \in 1 .. N : f[n - 1] \in Names
      BY <2>2
    <3>2. \A n \in 1 .. N : f[n] = step[n][f[n - 1]]
      BY <2>1 DEF Unrolled
    <3> QED
      BY <3>1, <3>2 DEF NameSteps
  <2>4. Equation(f)
    <3>1. f = [n \in 0 .. N |-> f[n]]
      BY <2>2
    <3>2. \A n \in 0 .. N : n = 0 \/ n \in 1 .. N
      OBVIOUS
    <3> QED
      BY <2>2, <2>3, <3>1, <3>2, Zenon
  <2> QED
    BY <2>4
<1>4. Equation(names)
  <2> HIDE DEF Equation
  <2> QED
    BY <1>3
<1>5. Unrolled(N, Names, <<model>>, step, names)
  <2> HIDE DEF names
  <2>1. names[0] = <<model>>
    BY <1>4
  <2>2. \A n \in 1 .. N : names[n] = NextNames(names[n - 1], entries[n], scope, credential)
    BY <1>4
  <2>3. \A n \in 1 .. N : names[n - 1] \in Names => names[n] = step[n][names[n - 1]]
    BY <2>2 DEF NameSteps
  <2>4. names = [n \in 0 .. N |-> names[n]]
    BY <1>4
  <2> HIDE DEF step, Equation
  <2> QED
    BY <1>2, <2>1, <2>3, <2>4, LoopUnique
<1>6. OnePass(model, scope, credential, entries) = names[N]
  BY DEF OnePass
<1> HIDE DEF names
<1> QED
  BY <1>5, <1>6

-----------------------------------------------------------------------------
(* A result of applyRules says what the names of a pass say.               *)
Agrees(c, names, model) ==
  c.model = Last(names) /\ (c.err <=> Ended(names)) /\ (~c.matched => c.model = model)

(* One entry, applied by the code or by the pass, leaves both with the     *)
(* same names, if the key the code looks at answers as the credential      *)
(* would.                                                                  *)
LEMMA EntryAgrees ==
  ASSUME NEW c \in Mapped, NEW names \in Names, NEW rule \in Rule, NEW model, NEW scope,
         NEW key, NEW credential, Agrees(c, names, model),
         callerMatchesRule(rule, scope, key) <=> Meant(rule, scope, credential)
  PROVE  Agrees(applyRule(c, rule, scope, key), NextNames(names, rule, scope, credential), model)
<1>1. CASE PassedBy(names, rule, scope, credential)
  BY <1>1 DEF Agrees, PassedBy, NextNames, applyRule, Applies, Mapped
<1>2. CASE ~PassedBy(names, rule, scope, credential)
  <2> DEFINE to == rule.map[c.model]
             names2 == Append(names, to)
  <2>1. to \in Model /\ to = rule.map[Last(names)]
    BY <1>2 DEF Agrees, PassedBy, Rule, Mapped
  <2>2. names2 \in Seq(Model) /\ Len(names2) > 1 /\ Last(names2) = to
    BY <2>1 DEF Names, Last
  <2>3. applyRule(c, rule, scope, key) = [model |-> to, matched |-> TRUE, err |-> to = EmptyModel]
    BY <1>2, <2>1 DEF Agrees, PassedBy, applyRule, Applies
  <2>4. NextNames(names, rule, scope, credential) = names2
    BY <1>2, <2>1 DEF NextNames
  <2> DEFINE d == applyRule(c, rule, scope, key)
  <2> HIDE DEF to, names2
  <2>5. d.model = to /\ d.matched = TRUE /\ d.err = (to = EmptyModel)
    BY <2>3
  <2> HIDE DEF d
  <2>6. Ended(names2) <=> to = EmptyModel
    BY <2>2 DEF Ended
  <2>7. Agrees(d, names2, model)
    BY <2>2, <2>5, <2>6 DEF Agrees
  <2> QED
    BY <2>4, <2>7 DEF d
<1> QED
  BY <1>1, <1>2

(* So do the results of a ruleset and the pass over its entries.           *)
Follows(g, scope, credential, rules) ==
  /\ g \in [0 .. Len(rules) -> Names]
  /\ \A n \in 1 .. Len(rules) : g[n] = NextNames(g[n - 1], rules[n], scope, credential)

(* So do all the entries of a rule set.                                    *)
LEMMA RulesetAgrees ==
  ASSUME NEW model \in Model, NEW scope, NEW key, NEW credential, NEW rules \in Seq(Rule),
         NEW g, Follows(g, scope, credential, rules), Last(g[0]) = model, ~Ended(g[0]),
         \A n \in 1 .. Len(rules) :
            callerMatchesRule(rules[n], scope, key) <=> Meant(rules[n], scope, credential)
  PROVE  /\ Agrees(applyRules(model, scope, key, rules), g[Len(rules)], model)
         /\ applyRules(model, scope, key, rules) \in Mapped
<1> DEFINE N == Len(rules)
<1>1. PICK f : /\ Unrolled(N, Mapped, Start(model), EntrySteps(scope, key, rules), f)
               /\ applyRules(model, scope, key, rules) = f[N]
  BY ApplyRulesUnrolled
<1>2. f \in [0 .. N -> Mapped] /\ f[0] = Start(model)
  BY <1>1 DEF Unrolled
<1>3. \A n \in 1 .. N : f[n] = applyRule(f[n - 1], rules[n], scope, key)
  <2>1. \A n \in 1 .. N : f[n - 1] \in Mapped
    BY <1>2
  <2>2. \A n \in 1 .. N : f[n] = EntrySteps(scope, key, rules)[n][f[n - 1]]
    BY <1>1 DEF Unrolled
  <2> QED
    BY <2>1, <2>2 DEF EntrySteps
<1> DEFINE S == {n \in 0 .. N : Agrees(f[n], g[n], model)}
<1>4. 0 \in S
  BY <1>2 DEF Agrees, Start
<1>5. ASSUME NEW n \in 0 .. N - 1, n \in S PROVE n + 1 \in S
  <2>1. n + 1 \in 1 .. N /\ (n + 1) - 1 = n /\ rules[n + 1] \in Rule
    OBVIOUS
  <2>2. f[n] \in Mapped /\ g[n] \in Names /\ Agrees(f[n], g[n], model)
    BY <1>2, <1>5 DEF Follows
  <2>3. /\ f[n + 1] = applyRule(f[n], rules[n + 1], scope, key)
        /\ g[n + 1] = NextNames(g[n], rules[n + 1], scope, credential)
    BY <1>3, <2>1 DEF Follows
  <2>4. Agrees(f[n + 1], g[n + 1], model)
    BY <2>1, <2>2, <2>3, EntryAgrees
  <2> QED
    BY <2>1, <2>4
<1>6. 0 .. N \subseteq S
  <2>1. N \in Nat
    OBVIOUS
  <2> HIDE DEF S, N
  <2> QED
    BY <2>1, <1>4, <1>5, UpToInduction
<1> QED
  BY <1>1, <1>2, <1>6

(* An error is the end.                                                    *)
LEMMA EndedStays ==
  ASSUME NEW scope, NEW credential, NEW rules \in Seq(Rule), NEW g,
         Follows(g, scope, credential, rules), Ended(g[0])
  PROVE  Ended(g[Len(rules)])
<1> DEFINE S == {n \in 0 .. Len(rules) : Ended(g[n])}
<1>1. 0 \in S
  OBVIOUS
<1>2. ASSUME NEW n \in 0 .. Len(rules) - 1, n \in S PROVE n + 1 \in S
  <2>1. n + 1 \in 1 .. Len(rules) /\ (n + 1) - 1 = n
    OBVIOUS
  <2>2. g[n + 1] = NextNames(g[n], rules[n + 1], scope, credential)
    BY <2>1 DEF Follows
  <2> QED
    BY <1>2, <2>1, <2>2 DEF NextNames, PassedBy
<1>3. 0 .. Len(rules) \subseteq S
  <2> HIDE DEF S
  <2> QED
    BY <1>1, <1>2, UpToInduction
<1> QED
  BY <1>3

KnownFormats == {"claude", "openai-response", "openai", "gemini", "interactions", "unknown"}

(* selectRules cuts the entries of a format in two, and the second part is *)
(* used only with the first.                                               *)
LEMMA SelectionIsEntries ==
  ASSUME NEW config \in Config, NEW format \in KnownFormats
  PROVE  LET selection == selectRules(config, format)
         IN /\ selection.first \in Seq(Rule) /\ selection.second \in Seq(Rule)
            /\ selection.first \o selection.second = Entries(config, format)
            /\ selection.first = <<>> => selection.second = <<>>
<1> DEFINE selection == selectRules(config, format)
           specific == Specific(config, format)
<1>1. /\ config.globalRules \in Seq(Rule) /\ config.claudeMessagesRules \in Seq(Rule)
      /\ config.codexResponsesRules \in Seq(Rule) /\ config.openAICompletionsRules \in Seq(Rule)
      /\ config.RulesStackMode \in StackMode
  BY DEF Config
<1>2. \A s \in Seq(Rule) : s \o <<>> = s /\ <<>> \o s = s
  OBVIOUS
<1>3. CASE format \in {"gemini", "interactions"}
  <2>1. selection = Only(config.globalRules) /\ Entries(config, format) = config.globalRules
    BY <1>3 DEF selectRules, Entries, Dedicated
  <2> QED
    BY <1>1, <1>2, <2>1 DEF Only
<1>4. CASE format = "unknown"
  <2>1. selection = Only(<<>>) /\ Entries(config, format) = <<>>
    BY <1>4 DEF selectRules, Entries, Dedicated
  <2> QED
    BY <1>1, <1>2, <2>1 DEF Only
<1>5. CASE format \in {"claude", "openai-response", "openai"}
  <2>0. specific = Dedicated(config, format) /\ specific \in Seq(Rule)
    BY <1>1, <1>5 DEF Specific, Dedicated
  <2> HIDE DEF specific
  <2>1. CASE specific = <<>>
    <3>1. selection = Only(config.globalRules) /\ Entries(config, format) = config.globalRules
      BY <1>5, <2>0, <2>1 DEF selectRules, Entries, specific
    <3> QED
      BY <1>1, <1>2, <3>1 DEF Only
  <2>2. CASE specific # <<>> /\ config.RulesStackMode = "off"
    <3>1. selection = Only(specific) /\ Entries(config, format) = specific
      BY <1>5, <2>0, <2>2 DEF selectRules, Entries, specific
    <3> QED
      BY <1>1, <1>2, <2>0, <3>1 DEF Only
  <2>3. CASE specific # <<>> /\ config.RulesStackMode = "specific_first"
    <3>1. /\ selection = [first |-> specific, second |-> config.globalRules]
          /\ Entries(config, format) = specific \o config.globalRules
      BY <1>5, <2>0, <2>3 DEF selectRules, Entries, specific
    <3> QED
      BY <1>1, <2>0, <2>3, <3>1
  <2>4. CASE specific # <<>> /\ config.RulesStackMode = "global_first"
    <3>1. /\ selection = IF config.globalRules = <<>> THEN Only(specific)
                         ELSE [first |-> config.globalRules, second |-> specific]
          /\ Entries(config, format) = config.globalRules \o specific
      BY <1>5, <2>0, <2>4 DEF selectRules, Entries, specific
    <3>2. CASE config.globalRules = <<>>
      BY <1>2, <2>0, <3>1, <3>2 DEF Only
    <3>3. CASE config.globalRules # <<>>
      BY <1>1, <2>0, <3>1, <3>3
    <3> QED
      BY <3>2, <3>3
  <2> QED
    BY <1>1, <2>1, <2>2, <2>3, <2>4 DEF StackMode
<1> QED
  BY <1>3, <1>4, <1>5 DEF KnownFormats

(* Matching against the key that was looked up answers as matching against *)
(* the credential does: where the key was not looked up, no entry needs    *)
(* it.                                                                     *)
LEMMA KeyIsEnough ==
  ASSUME NEW config \in Config, NEW q \in Question, NEW credential \in BOOLEAN,
         NEW n \in DOMAIN Entries(config, q.format)
  PROVE  LET rule == Entries(config, q.format)[n]
             key == KeyFor(config, q.format, q.scope, credential)
         IN callerMatchesRule(rule, q.scope, key) <=> Meant(rule, q.scope, credential)
<1> DEFINE selection == selectRules(config, q.format)
           entries == Entries(config, q.format)
           rule == entries[n]
           key == KeyFor(config, q.format, q.scope, credential)
<1>1. entries \in Seq(Rule) /\ entries = selection.first \o selection.second
  <2>1. q.format \in KnownFormats
    BY DEF Question, KnownFormats
  <2> HIDE DEF KnownFormats
  <2>2. /\ selection.first \in Seq(Rule) /\ selection.second \in Seq(Rule)
        /\ selection.first \o selection.second = entries
    BY <2>1, SelectionIsEntries
  <2>3. \A s, t \in Seq(Rule) : s \o t \in Seq(Rule)
    OBVIOUS
  <2> HIDE DEF selection, entries
  <2> QED
    BY <2>2, <2>3
<1> HIDE DEF selection
<1>2. rule \in Rule
  <2>1. n \in DOMAIN entries
    OBVIOUS
  <2>2. \A s \in Seq(Rule) : \A m \in DOMAIN s : s[m] \in Rule
    OBVIOUS
  <2> QED
    BY <1>1, <2>1, <2>2, Zenon
<1>3. key <=> q.scope # NoScope /\ credential /\ \E m \in DOMAIN entries : entries[m].hasPattern
  BY <1>1 DEF KeyFor, selection
<1>4. q.scope # NoScope /\ rule.hasPattern => (key <=> credential)
  BY <1>3
<1> HIDE DEF rule, key, entries
<1>5. rule.exclude \in BOOLEAN
  BY <1>2 DEF Rule
<1> DEFINE set == IF rule.hasPattern THEN rule.pattern ELSE {rule.exact}
           for == IF rule.exclude THEN q.scope \notin set ELSE q.scope \in set
<1>6. Meant(rule, q.scope, credential) <=>
        Unscoped(rule) \/ (q.scope # NoScope /\ (rule.hasPattern => credential) /\ for)
  BY DEF Meant
<1>7. for <=> ((IF rule.hasPattern THEN q.scope \in rule.pattern ELSE rule.exact = q.scope)
                <=> ~rule.exclude)
  BY <1>5
<1>8. callerMatchesRule(rule, q.scope, key) <=>
        Unscoped(rule) \/ (q.scope # NoScope /\ (rule.hasPattern => key) /\ for)
  <2> HIDE DEF for
  <2> QED
    BY <1>7 DEF callerMatchesRule
<1> HIDE DEF for
<1>9. callerMatchesRule(rule, q.scope, key) <=> Meant(rule, q.scope, credential)
  BY <1>4, <1>6, <1>8
<1> QED
  BY <1>9 DEF rule, key, entries

(* What routeModel makes of a request under one configuration.             *)
MappedUnder(config, q, credential) ==
  routeModel(config, q.format, q.model, q.scope, KeyFor(config, q.format, q.scope, credential))

(* The two rulesets of routeModel, each with its own error and its own     *)
(* flag of a match, make of a request what one pass over the documented    *)
(* entries makes of it.                                                    *)
LEMMA RoutesInOnePass ==
  ASSUME NEW config \in Config, NEW q \in Question, NEW credential \in BOOLEAN
  PROVE  MappedUnder(config, q, credential) = Verdict(q, credential, Entries(config, q.format))
<1> DEFINE selection == selectRules(config, q.format)
           first == selection.first
           second == selection.second
           entries == Entries(config, q.format)
           N1 == Len(first)
           N2 == Len(second)
           key == KeyFor(config, q.format, q.scope, credential)
           one == applyRules(q.model, q.scope, key, first)
           two == applyRules(one.model, q.scope, key, second)
           names == OnePass(q.model, q.scope, credential, entries)
<1>1. /\ first \in Seq(Rule) /\ second \in Seq(Rule) /\ entries = first \o second
      /\ first = <<>> => second = <<>>
  BY SelectionIsEntries DEF Question, KnownFormats
<1>2. \A n \in DOMAIN entries :
         callerMatchesRule(entries[n], q.scope, key) <=> Meant(entries[n], q.scope, credential)
  BY KeyIsEnough
<1>3. q.model \in Model
  BY DEF Question
<1>4. MappedUnder(config, q, credential) =
        IF first = <<>> THEN Unhandled
        ELSE IF one.err \/ two.err THEN MappingError
        ELSE IF ~(one.matched \/ two.matched) \/ two.model = q.model THEN Unhandled
        ELSE MappedTo(two.model)
  BY DEF MappedUnder, routeModel
<1> HIDE DEF entries, first, second, key
<1>5. /\ entries \in Seq(Rule) /\ Len(entries) = N1 + N2 /\ N1 \in Nat /\ N2 \in Nat
      /\ \A n \in 1 .. N1 : n \in DOMAIN entries /\ entries[n] = first[n]
      /\ \A n \in 1 .. N2 : N1 + n \in DOMAIN entries /\ entries[N1 + n] = second[n]
  BY <1>1
<1>6. PICK g : /\ Unrolled(N1 + N2, Names, <<q.model>>, NameSteps(q.scope, credential, entries), g)
               /\ names = g[N1 + N2]
  BY <1>3, <1>5, OnePassUnrolled
<1>7. g \in [0 .. N1 + N2 -> Names] /\ g[0] = <<q.model>>
  BY <1>6 DEF Unrolled
<1>8. \A n \in 1 .. N1 + N2 : g[n] = NextNames(g[n - 1], entries[n], q.scope, credential)
  <2>1. \A n \in 1 .. N1 + N2 : g[n - 1] \in Names
    <3>1. \A n \in 1 .. N1 + N2 : n - 1 \in 0 .. N1 + N2
      BY <1>5
    <3> QED
      BY <1>7, <3>1
  <2>2. \A n \in 1 .. N1 + N2 : g[n] = NameSteps(q.scope, credential, entries)[n][g[n - 1]]
    BY <1>6 DEF Unrolled
  <2> QED
    BY <1>5, <2>1, <2>2 DEF NameSteps
<1> DEFINE g1 == [n \in 0 .. N1 |-> g[n]]
           g2 == [n \in 0 .. N2 |-> g[N1 + n]]
<1>9. Follows(g1, q.scope, credential, first)
  <2>1. g1 \in [0 .. N1 -> Names]
    <3>1. \A n \in 0 .. N1 : n \in 0 .. N1 + N2
      BY <1>5
    <3> QED
      BY <1>7, <3>1
  <2>2. ASSUME NEW n \in 1 .. N1
        PROVE  g1[n] = NextNames(g1[n - 1], first[n], q.scope, credential)
    <3>1. n \in 1 .. N1 + N2 /\ n \in 0 .. N1 /\ n - 1 \in 0 .. N1
      BY <1>5
    <3>2. g1[n] = g[n] /\ g1[n - 1] = g[n - 1] /\ entries[n] = first[n]
      BY <1>5, <3>1
    <3> QED
      BY <1>8, <3>1, <3>2
  <2> QED
    BY <2>1, <2>2 DEF Follows
<1>10. Follows(g2, q.scope, credential, second)
  <2>1. g2 \in [0 .. N2 -> Names]
    <3>1. \A n \in 0 .. N2 : N1 + n \in 0 .. N1 + N2
      BY <1>5
    <3> QED
      BY <1>7, <3>1
  <2>2. ASSUME NEW n \in 1 .. N2
        PROVE  g2[n] = NextNames(g2[n - 1], second[n], q.scope, credential)
    <3>1. N1 + n \in 1 .. N1 + N2 /\ n \in 0 .. N2 /\ n - 1 \in 0 .. N2
      BY <1>5
    <3>2. g2[n] = g[N1 + n] /\ g2[n - 1] = g[N1 + n - 1] /\ entries[N1 + n] = second[n]
      BY <1>5, <3>1
    <3> QED
      BY <1>8, <3>1, <3>2
  <2> QED
    BY <2>1, <2>2 DEF Follows
<1>11. g1[0] = g[0] /\ g1[N1] = g[N1] /\ g2[0] = g[N1] /\ g2[N2] = g[N1 + N2]
  BY <1>5
<1> HIDE DEF g1, g2
<1>12. Last(g1[0]) = q.model /\ ~Ended(g1[0])
  BY <1>7, <1>11 DEF Ended, Last
<1>13. Agrees(one, g[N1], q.model) /\ one \in Mapped
  <2>1. \A n \in 1 .. N1 :
          callerMatchesRule(first[n], q.scope, key) <=> Meant(first[n], q.scope, credential)
    BY <1>2, <1>5
  <2> QED
    BY <1>1, <1>3, <1>9, <1>11, <1>12, <2>1, RulesetAgrees
<1> HIDE DEF one
<1>14. one.err => Ended(names)
  <2>1. one.err => Ended(g2[0])
    BY <1>11, <1>13 DEF Agrees
  <2>2. one.err => Ended(g2[N2])
    BY <1>1, <1>10, <2>1, EndedStays
  <2> QED
    BY <1>6, <1>11, <2>2
<1>15. ~one.err => Agrees(two, names, one.model) /\ two \in Mapped
  <2> SUFFICES ASSUME ~one.err PROVE Agrees(two, names, one.model) /\ two \in Mapped
    OBVIOUS
  <2>1. \A n \in 1 .. N2 :
          callerMatchesRule(second[n], q.scope, key) <=> Meant(second[n], q.scope, credential)
    BY <1>2, <1>5
  <2>2. one.model \in Model /\ Last(g2[0]) = one.model /\ ~Ended(g2[0])
    BY <1>11, <1>13 DEF Agrees, Mapped
  <2> QED
    BY <1>1, <1>6, <1>10, <1>11, <2>1, <2>2, RulesetAgrees
<1> HIDE DEF two, names
<1>16. first = <<>> => names = <<q.model>>
  BY <1>1, <1>5, <1>6, <1>7
<1>17. CASE first = <<>>
  <2>1. ~Ended(names) /\ Last(names) = q.model
    <3>1. ~Ended(<<q.model>>) /\ Last(<<q.model>>) = q.model
      BY <1>3 DEF Ended, Last
    <3> QED
      BY <1>16, <1>17, <3>1
  <2> QED
    BY <1>4, <1>17, <2>1 DEF Verdict, names, entries
<1>18. CASE first # <<>> /\ one.err
  BY <1>4, <1>14, <1>18 DEF Verdict, names, entries
<1>19. CASE first # <<>> /\ ~one.err
  <2>1. two.model = Last(names) /\ (two.err <=> Ended(names))
    BY <1>15, <1>19 DEF Agrees
  <2>2. ~(one.matched \/ two.matched) => two.model = q.model
    BY <1>13, <1>15, <1>19 DEF Agrees
  <2> QED
    BY <1>4, <1>19, <2>1, <2>2 DEF Verdict, names, entries
<1> QED
  BY <1>17, <1>18, <1>19

(* An entry that cannot be checked is passed by, as one that matches no    *)
(* name is; another means the same with a credential as without.           *)
LEMMA UncheckableIsPassedBy ==
  ASSUME NEW rule \in Rule, NEW scope, NEW credential, NEW names \in Names
  PROVE  NextNames(names, rule, scope, credential)
           = NextNames(names, IF Checkable(rule, scope, credential) THEN rule ELSE NoRule, scope, TRUE)
<1>1. CASE Checkable(rule, scope, credential)
  <2>1. Meant(rule, scope, credential) <=> Meant(rule, scope, TRUE)
    BY <1>1 DEF Checkable, Meant
  <2> QED
    BY <1>1, <2>1 DEF NextNames, PassedBy
<1>2. CASE ~Checkable(rule, scope, credential)
  <2>1. ~Meant(rule, scope, credential)
    BY <1>2 DEF Checkable, Meant
  <2>2. NoRule.map[Last(names)] = NoMatch
    <3>1. Last(names) \in Model
      BY DEF Last, Names
    <3> QED
      BY <3>1 DEF NoRule
  <2> QED
    BY <1>2, <2>1, <2>2 DEF NextNames, PassedBy
<1> QED
  BY <1>1, <1>2

(* Without a credential, an entry that needs one passes every name by, as  *)
(* if it were not there.                                                   *)
LEMMA UncheckableDoNotCount ==
  ASSUME NEW q \in Question, NEW credential, NEW entries \in Seq(Rule)
  PROVE  Verdict(q, TRUE, WithoutUncheckable(entries, q.scope, credential))
           = Verdict(q, credential, entries)
<1> DEFINE N == Len(entries)
           others == WithoutUncheckable(entries, q.scope, credential)
           here == NameSteps(q.scope, credential, entries)
           there == NameSteps(q.scope, TRUE, others)
<1>1. q.model \in Model
  BY DEF Question
<1>2. NoRule \in Rule
  BY DEF NoRule, Rule
<1>3. others \in Seq(Rule) /\ Len(others) = N
  BY <1>2 DEF WithoutUncheckable
<1>4. \A n \in 1 .. N : /\ entries[n] \in Rule
                       /\ others[n] = IF Checkable(entries[n], q.scope, credential)
                                      THEN entries[n] ELSE NoRule
  BY DEF WithoutUncheckable
<1>5. here = there
  <2> HIDE DEF others
  <2>1. \A n \in 1 .. N : \A names \in Names :
           NextNames(names, entries[n], q.scope, credential)
             = NextNames(names, others[n], q.scope, TRUE)
    <3> SUFFICES ASSUME NEW n \in 1 .. N, NEW names \in Names
                 PROVE  NextNames(names, entries[n], q.scope, credential)
                          = NextNames(names, others[n], q.scope, TRUE)
      OBVIOUS
    <3>1. /\ entries[n] \in Rule
          /\ others[n] = IF Checkable(entries[n], q.scope, credential) THEN entries[n] ELSE NoRule
      BY <1>4
    <3>2. NextNames(names, entries[n], q.scope, credential)
            = NextNames(names, IF Checkable(entries[n], q.scope, credential)
                               THEN entries[n] ELSE NoRule, q.scope, TRUE)
      BY <3>1, UncheckableIsPassedBy
    <3> QED
      BY <3>1, <3>2
  <2> QED
    BY <1>3, <2>1 DEF NameSteps
<1> HIDE DEF others
<1>6. PICK f : /\ Unrolled(N, Names, <<q.model>>, here, f)
               /\ OnePass(q.model, q.scope, credential, entries) = f[N]
  BY <1>1, OnePassUnrolled
<1>7. PICK g : /\ Unrolled(N, Names, <<q.model>>, there, g)
               /\ OnePass(q.model, q.scope, TRUE, others) = g[N]
  BY <1>1, <1>3, OnePassUnrolled
<1>8. f[N] = g[N]
  <2>1. Loop(N, Names, <<q.model>>, here)
    BY <1>1, PassIsLoop
  <2> HIDE DEF here, there
  <2> QED
    BY <1>5, <1>6, <1>7, <2>1, LoopDetermined
<1> QED
  BY <1>6, <1>7, <1>8 DEF Verdict, others

-----------------------------------------------------------------------------
(* An RPC that is about to decide, or has decided, holds a configuration   *)
(* that was in force since it began, and one that has decided has gone     *)
(* where the decision under that configuration sends it.                   *)
DecidedUnder(r, config) ==
  LET d == MappedUnder(config, asked[r], presented[r])
  IN /\ decision[r] = d
     /\ pc[r] \in {"native", "unhandled"} => ~d.handled /\ ~d.err
     /\ pc[r] \in {"upstream", "answered"} => d.handled /\ ~d.err

UnderOne ==
  \A r \in Requests :
    /\ pc[r] \in {"route", "execute"} \/ Decided(r) => cfg[r] \in inForce[r]
    /\ Decided(r) => DecidedUnder(r, cfg[r])

HistoryTypes ==
  /\ inForce \in [Requests -> SUBSET WholeConfigs]
  /\ DOMAIN decision = Requests /\ asked \in [Requests -> Questions]

DecidedInv == Types /\ HistoryTypes /\ UnderOne

(* An RPC that has decided keeps its decision as long as nothing of it     *)
(* changes and no configuration leaves what was in force.                  *)
LEMMA DecisionStays ==
  ASSUME UnderOne, NEW r \in Requests,
         pc'[r] = pc[r], asked'[r] = asked[r], presented'[r] = presented[r],
         decision'[r] = decision[r], cfg'[r] = cfg[r], inForce[r] \subseteq inForce'[r]
  PROVE  /\ pc'[r] \in {"route", "execute"} \/ Decided(r)' => cfg'[r] \in inForce'[r]
         /\ Decided(r)' => DecidedUnder(r, cfg[r])'
<1>1. Decided(r)' <=> Decided(r)
  BY DEF Decided
<1>2. DecidedUnder(r, cfg[r])' <=> DecidedUnder(r, cfg[r])
  BY DEF DecidedUnder
<1> QED
  BY <1>1, <1>2 DEF UnderOne

(* A lifecycle call only adds to what was in force.                        *)
LEMMA LifecycleKeepsDecisions ==
  ASSUME IInv, DecidedInv, NEW l \in Lifecycles,
         Decode(l) \/ CompileField(l) \/ publishLoadedConfig(l), Types'
  PROVE  DecidedInv'
<1>1. UNCHANGED rpcVars
  BY DEF Decode, CompileField, publishLoadedConfig
<1>2. \A r \in Requests : inForce[r] \subseteq inForce'[r] /\ inForce'[r] \subseteq WholeConfigs
  <2>1. CASE UNCHANGED inForce
    BY <2>1 DEF DecidedInv, HistoryTypes
  <2>2. CASE publishLoadedConfig(l)
    BY <2>2 DEF publishLoadedConfig, Publish, DecidedInv, HistoryTypes, Types
  <2> QED
    BY <2>1, <2>2 DEF Decode, CompileField
<1>3. inForce' \in [Requests -> SUBSET WholeConfigs]
  BY <1>2 DEF Decode, CompileField, publishLoadedConfig, Publish, DecidedInv, HistoryTypes
<1>4. HistoryTypes'
  BY <1>1, <1>3 DEF DecidedInv, HistoryTypes, rpcVars
<1>5. UnderOne'
  BY <1>1, <1>2, DecisionStays DEF DecidedInv, UnderOne, rpcVars
<1> QED
  BY <1>4, <1>5 DEF DecidedInv

(* The step of an RPC concerns its own request.                            *)
LEMMA RequestKeepsDecisions ==
  ASSUME DecidedInv, NEW r \in Requests,
         \/ RouteLoad(r) \/ RouteNative(r) \/ RouteDecide(r) \/ Intercept(r)
         \/ ExecuteLoad(r) \/ ExecuteDecide(r) \/ Answer(r),
         Types'
  PROVE  DecidedInv'
<1> USE DEF DecidedInv
<1> DEFINE Holds(t) == /\ pc[t] \in {"route", "execute"} \/ Decided(t) => cfg[t] \in inForce[t]
                       /\ Decided(t) => DecidedUnder(t, cfg[t])
<1>1. HistoryTypes'
  BY DEF HistoryTypes, Types, RouteLoad, RouteNative, RouteDecide, Intercept, ExecuteLoad,
         ExecuteDecide, Answer
<1>2. ASSUME NEW t \in Requests, t # r PROVE Holds(t)'
  <2>1. /\ pc'[t] = pc[t] /\ asked'[t] = asked[t] /\ presented'[t] = presented[t]
        /\ decision'[t] = decision[t] /\ inForce'[t] = inForce[t] /\ cfg'[t] = cfg[t]
    BY <1>2 DEF HistoryTypes, Types, RouteLoad, RouteNative, RouteDecide, Intercept, ExecuteLoad,
                ExecuteDecide, Answer
  <2> QED
    BY <2>1, DecisionStays
<1>3. Holds(r)'
  <2>1. CASE RouteDecide(r) \/ ExecuteDecide(r)
    <3>1. cfg[r] \in inForce[r] /\ UNCHANGED <<asked, presented, cfg, inForce>>
      BY <2>1 DEF RouteDecide, ExecuteDecide, UnderOne
    <3>2. Map(r) = MappedUnder(cfg[r], asked[r], presented[r])
      BY DEF Map, MappedUnder
    <3>3. /\ decision'[r] = Map(r)
          /\ pc'[r] \in {"native", "unhandled"} => ~Map(r).handled /\ ~Map(r).err
          /\ pc'[r] \in {"upstream", "answered"} => Map(r).handled /\ ~Map(r).err
      BY <2>1 DEF RouteDecide, ExecuteDecide, HistoryTypes, Types
    <3>4. DecidedUnder(r, cfg[r])'
      BY <3>1, <3>2, <3>3 DEF DecidedUnder
    <3> QED
      BY <3>1, <3>4
  <2>2. CASE Answer(r)
    <3>1. /\ pc[r] = "upstream" /\ pc'[r] \in {"answered", "failed"}
          /\ UNCHANGED <<asked, cfg, presented, decision, inForce>>
      BY <2>2 DEF Answer, Types
    <3>2. cfg[r] \in inForce[r] /\ DecidedUnder(r, cfg[r])
      BY <3>1 DEF UnderOne, Decided
    <3>3. DecidedUnder(r, cfg[r])'
      BY <3>1, <3>2 DEF DecidedUnder
    <3> QED
      BY <3>1, <3>2, <3>3
  <2>3. CASE RouteLoad(r) \/ ExecuteLoad(r)
    <3>1. pc'[r] \in {"route", "execute"} /\ cfg'[r] \in inForce'[r]
      BY <2>3 DEF RouteLoad, ExecuteLoad, HistoryTypes, Types
    <3> QED
      BY <3>1 DEF Decided
  <2>4. CASE RouteNative(r)
    <3>1. pc'[r] = "native" /\ asked'[r].native
      BY <2>4 DEF RouteNative, Types
    <3> QED
      BY <3>1 DEF Decided
  <2>5. CASE Intercept(r)
    <3>1. pc'[r] = "routed"
      BY <2>5 DEF Intercept
    <3> QED
      BY <3>1 DEF Decided
  <2> QED
    BY <2>1, <2>2, <2>3, <2>4, <2>5
<1>4. UnderOne'
  BY <1>2, <1>3 DEF UnderOne
<1> QED
  BY <1>1, <1>4

(* Whatever lifecycle calls do meanwhile, an RPC goes where the            *)
(* configuration it holds, one that was in force while it ran, sends its   *)
(* request: upstream under the name routeModel gives it, to its own model  *)
(* only if routeModel leaves it alone.                                     *)
THEOREM DecidedUnderOne == Spec => []DecidedInv
<1>1. Init => DecidedInv
  BY InitIInv DEF Init, IInv, DecidedInv, HistoryTypes, UnderOne, Types, Decided
<1>2. ASSUME IInv, DecidedInv, IInv', [Next]_vars PROVE DecidedInv'
  <2>1. CASE UNCHANGED vars
    <3>1. UnderOne'
      BY <1>2, <2>1, DecisionStays DEF vars, rpcVars, DecidedInv, UnderOne
    <3> QED
      BY <1>2, <2>1, <3>1 DEF vars, rpcVars, lifecycleVars, DecidedInv, HistoryTypes, IInv
  <2> QED
    BY <1>2, <2>1, LifecycleKeepsDecisions, RequestKeepsDecisions DEF Next, IInv
<1> QED
  BY <1>1, <1>2, RoutingInvariant, PTL DEF Spec

-----------------------------------------------------------------------------
(* What is published is a configuration: a candidate's fields all compile. *)
LEMMA WholeIsConfig == WholeConfigs \subseteq Config
<1>1. ASSUME NEW c \in Candidates, Valid(c) PROVE Compiled(c) \in Config
  <2>1. c \in Candidate /\ c.mode \in StackMode
    BY <1>1, CandidatesAssumption DEF Valid
  <2>2. \A f \in 1 .. 4 : c.rules[f] \in Seq(Rule)
    BY <1>1, <2>1 DEF Candidate, Valid
  <2> QED
    BY <2>1, <2>2 DEF Compiled, Config
<1> QED
  BY <1>1, InitialAssumption DEF WholeConfigs

(* The decision of an RPC is the documented one of the configuration it    *)
(* holds.                                                                  *)
LEMMA DecidesAsDocumented ==
  ASSUME DecidedInv, NEW r \in Requests, Decided(r)
  PROVE  /\ cfg[r] \in inForce[r] /\ cfg[r] \in Config /\ asked[r] \in Question
         /\ presented[r] \in BOOLEAN /\ decision[r] = Documented(r, cfg[r])
<1>1. cfg[r] \in Config /\ asked[r] \in Question /\ presented[r] \in BOOLEAN
  BY WholeIsConfig, QuestionsAssumption DEF DecidedInv, Types, HistoryTypes
<1>2. cfg[r] \in inForce[r] /\ decision[r] = MappedUnder(cfg[r], asked[r], presented[r])
  BY DEF DecidedInv, UnderOne, DecidedUnder
<1> QED
  BY <1>1, <1>2, RoutesInOnePass DEF Documented

(* What an RPC decides is what the README says of one configuration that   *)
(* was published while it ran.                                             *)
THEOREM NoMixture == Spec => []DecidesUnderOneConfiguration
<1>1. DecidedInv => DecidesUnderOneConfiguration
  BY DecidesAsDocumented DEF DecidesUnderOneConfiguration
<1> QED
  BY <1>1, DecidedUnderOne, PTL

(* A request goes to the native path only when a configuration in force    *)
(* leaves its model as it is, under which no mapping fails.                *)
THEOREM NativeOnlyUnmapped == Spec => []NeverNativePastARule
<1>1. ASSUME DecidedInv, NEW r \in Requests, pc[r] = "native", ~asked[r].native
      PROVE  Documented(r, cfg[r]) = Unhandled /\ cfg[r] \in inForce[r]
  <2>1. Decided(r)
    BY <1>1 DEF Decided
  <2>2. ~decision[r].handled /\ ~decision[r].err
    BY <1>1, <2>1 DEF DecidedInv, UnderOne, DecidedUnder
  <2>3. decision[r] \in {Unhandled, MappingError}
    <3> DEFINE q == asked[r]
               entries == Entries(cfg[r], q.format)
               to == Last(OnePass(q.model, q.scope, presented[r], entries))
    <3>1. decision[r] = Verdict(q, presented[r], entries)
      BY <1>1, <2>1, DecidesAsDocumented DEF Documented
    <3>2. Verdict(q, presented[r], entries) \in {Unhandled, MappingError, MappedTo(to)}
      BY DEF Verdict
    <3>3. MappedTo(to).handled
      BY DEF MappedTo
    <3> QED
      BY <2>2, <3>1, <3>2, <3>3
  <2> QED
    BY <1>1, <2>1, <2>2, <2>3, DecidesAsDocumented DEF MappingError
<1>2. DecidedInv => NeverNativePastARule
  BY <1>1 DEF NeverNativePastARule
<1> QED
  BY <1>2, DecidedUnderOne, PTL

(* The entries whose caller cannot be checked might as well match nothing. *)
THEOREM UncheckableAreSkipped == Spec => []SkipsWhatItCannotCheck
<1>1. ASSUME DecidedInv, NEW r \in Requests, Decided(r)
      PROVE  decision[r] =
               Verdict(asked[r], TRUE,
                       WithoutUncheckable(Entries(cfg[r], asked[r].format),
                                          asked[r].scope, presented[r]))
  <2>1. asked[r] \in Question /\ decision[r] = Documented(r, cfg[r])
    BY <1>1, DecidesAsDocumented
  <2>2. Entries(cfg[r], asked[r].format) \in Seq(Rule)
    <3>1. asked[r].format \in KnownFormats /\ cfg[r] \in Config
      BY <1>1, <2>1, DecidesAsDocumented DEF Question, KnownFormats
    <3> DEFINE selection == selectRules(cfg[r], asked[r].format)
    <3>2. /\ selection.first \in Seq(Rule) /\ selection.second \in Seq(Rule)
          /\ selection.first \o selection.second = Entries(cfg[r], asked[r].format)
      BY <3>1, SelectionIsEntries
    <3>3. \A s, t \in Seq(Rule) : s \o t \in Seq(Rule)
      OBVIOUS
    <3> HIDE DEF selection
    <3> QED
      BY <3>2, <3>3
  <2> QED
    BY <2>1, <2>2, UncheckableDoNotCount DEF Documented
<1>2. DecidedInv => SkipsWhatItCannotCheck
  BY <1>1 DEF SkipsWhatItCannotCheck
<1> QED
  BY <1>2, DecidedUnderOne, PTL
=============================================================================
