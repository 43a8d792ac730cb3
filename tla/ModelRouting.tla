------------------------------ MODULE ModelRouting ------------------------------
(***************************************************************************)
(* A request is routed by one RPC (handleModelRoute) and, when the plugin  *)
(* claims it, executed by another (handleExecutorExecute,                  *)
(* prepareExecutorStream).  Each loads the configuration for itself, and   *)
(* maps the model anew: nothing of the first decision reaches the second.  *)
(* Between any two steps a lifecycle call may publish a configuration, and *)
(* between the RPCs the host may take the caller's credential away.        *)
(***************************************************************************)
EXTENDS RuleApplication

CONSTANTS
  Requests, Lifecycles,   \* requests, and plugin.register or plugin.reconfigure calls
  Questions,              \* what may be requested
  Candidates,             \* the configurations that may be submitted
  Bad,                    \* a rules field that parseRules refuses
  InitialConfigs          \* what is published at first

Fields == <<"globalRules", "claudeMessagesRules", "codexResponsesRules", "openAICompletionsRules">>

(* Decoded is false when the payload or its YAML does not decode.          *)
Candidate == [decoded : BOOLEAN, mode : StackMode \union {"other"},
              rules : [1 .. 4 -> Seq(Rule) \union {Bad}]]

(* Native: a count_tokens path, or Interactions with an agent.             *)
Question == [format : {"claude", "openai-response", "openai", "gemini", "interactions", "unknown"},
             model : Model, scope : Scope \union {NoScope}, presented : BOOLEAN,
             native : BOOLEAN]

ASSUME QuestionsAssumption == Questions \subseteq Question
ASSUME CandidatesAssumption == \A c \in Candidates : c \in Candidate
ASSUME InitialAssumption == InitialConfigs \subseteq Config

VARIABLES
  published,           \* loadedCfg
  call, candidate, compiled,   \* of each lifecycle call: pc, input, fields compiled
  pc, asked, cfg, presented, decision,   \* of each request and its RPC
  inForce,             \* history: what was published during the RPC, so far
  changed              \* history: published or the credential changed since the route RPC began

lifecycleVars == <<call, candidate, compiled>>
rpcVars == <<pc, asked, cfg, presented, decision>>
vars == <<published, lifecycleVars, rpcVars, inForce, changed>>

Init ==
  /\ published \in InitialConfigs
  /\ call \in [Lifecycles -> {"ready", "refused"}]   \* a refused one stands for none
  /\ candidate \in [Lifecycles -> Candidates]
  /\ compiled = [l \in Lifecycles |-> 0]
  /\ pc = [r \in Requests |-> "arrived"]
  /\ asked \in [Requests -> Questions]
  /\ cfg = [r \in Requests |-> published]
  /\ presented = [r \in Requests |-> asked[r].presented]
  /\ decision = [r \in Requests |-> Unhandled]
  /\ inForce = [r \in Requests |-> {published}]
  /\ changed = [r \in Requests |-> FALSE]

-----------------------------------------------------------------------------
(* applyLifecycleConfig: decode, check the mode (an absent one is "off"),  *)
(* compile field by field, publish.                                        *)
Decode(l) ==
  /\ call[l] = "ready"
  /\ call' = [call EXCEPT ![l] =
       IF candidate[l].decoded /\ candidate[l].mode \in StackMode THEN "compile" ELSE "refused"]
  /\ UNCHANGED <<published, candidate, compiled, rpcVars, inForce, changed>>

Publish(new) ==
  /\ published' = new
  /\ inForce' = [r \in Requests |-> inForce[r] \union {new}]
  /\ changed' = [r \in Requests |-> changed[r] \/ new # published]

(* Mistake: the fields are compiled into the published configuration.      *)
CompileFieldInPlace(l) ==
  LET field == compiled[l] + 1
  IN /\ call[l] = "compile" /\ field <= 4
     /\ IF candidate[l].rules[field] = Bad
        THEN call' = [call EXCEPT ![l] = "refused"] /\ UNCHANGED <<compiled, published, inForce, changed>>
        ELSE /\ compiled' = [compiled EXCEPT ![l] = field]
             /\ Publish([published EXCEPT ![Fields[field]] = candidate[l].rules[field],
                                          !.RulesStackMode = candidate[l].mode])
             /\ UNCHANGED call
     /\ UNCHANGED <<candidate, rpcVars>>

CompileField(l) ==
  LET field == compiled[l] + 1
  IN /\ call[l] = "compile" /\ field <= 4
     /\ IF candidate[l].rules[field] = Bad
        THEN call' = [call EXCEPT ![l] = "refused"] /\ UNCHANGED compiled
        ELSE compiled' = [compiled EXCEPT ![l] = field] /\ UNCHANGED call
     /\ UNCHANGED <<published, candidate, rpcVars, inForce, changed>>

Compiled(c) ==
  [globalRules |-> c.rules[1], claudeMessagesRules |-> c.rules[2],
   codexResponsesRules |-> c.rules[3], openAICompletionsRules |-> c.rules[4],
   RulesStackMode |-> c.mode]

publishLoadedConfig(l) ==
  /\ call[l] = "compile" /\ compiled[l] = 4
  /\ Publish(Compiled(candidate[l]))
  /\ call' = [call EXCEPT ![l] = "published"]
  /\ UNCHANGED <<candidate, compiled, rpcVars>>

-----------------------------------------------------------------------------
(* handleModelRoute, up to loadedConfig.                                   *)
RouteLoad(r) ==
  /\ pc[r] = "arrived" /\ ~asked[r].native
  /\ cfg' = [cfg EXCEPT ![r] = published]
  /\ inForce' = [inForce EXCEPT ![r] = {published}]
  /\ changed' = [changed EXCEPT ![r] = FALSE]
  /\ pc' = [pc EXCEPT ![r] = "route"]
  /\ UNCHANGED <<published, lifecycleVars, asked, presented, decision>>

RouteNative(r) ==
  /\ pc[r] = "arrived" /\ asked[r].native
  /\ pc' = [pc EXCEPT ![r] = "native"]
  /\ UNCHANGED <<published, lifecycleVars, asked, cfg, presented, decision, inForce, changed>>

(* Mistake: the key is looked for under one configuration, and the rules   *)
(* are those of another.                                                   *)
MapLoadsTwice(r) ==
  LET q == asked[r]
  IN routeModel(published, q.format, q.model, q.scope,
                KeyFor(cfg[r], q.format, q.scope, presented[r]))

(* routeModel with the key of callerAPIKeyForSelectedRules.                *)
Map(r) ==
  LET q == asked[r]
  IN routeModel(cfg[r], q.format, q.model, q.scope,
                KeyFor(cfg[r], q.format, q.scope, presented[r]))

(* Mistake: a mapping that fails is no mapping.                            *)
RouteDecideFallsBack(r) ==
  /\ pc[r] = "route"
  /\ decision' = [decision EXCEPT ![r] = Map(r)]
  /\ pc' = [pc EXCEPT ![r] = IF Map(r).handled THEN "routed" ELSE "native"]
  /\ UNCHANGED <<published, lifecycleVars, asked, cfg, presented, inForce, changed>>

(* The plugin claims a request whose mapping fails, so that its executor   *)
(* reports the error.                                                      *)
RouteDecide(r) ==
  /\ pc[r] = "route"
  /\ decision' = [decision EXCEPT ![r] = Map(r)]
  /\ pc' = [pc EXCEPT ![r] = IF Map(r).handled \/ Map(r).err THEN "routed" ELSE "native"]
  /\ UNCHANGED <<published, lifecycleVars, asked, cfg, presented, inForce, changed>>

(* The host's request interceptors, before it calls the executor.          *)
Intercept(r) ==
  /\ pc[r] = "routed" /\ presented[r]
  /\ presented' = [presented EXCEPT ![r] = FALSE]
  /\ changed' = [changed EXCEPT ![r] = TRUE]
  /\ UNCHANGED <<published, lifecycleVars, pc, asked, cfg, decision, inForce>>

(* Mistake: the headers are not canonicalized, so no credential is found.  *)
ExecuteLoadRaw(r) ==
  /\ pc[r] = "routed"
  /\ cfg' = [cfg EXCEPT ![r] = published]
  /\ presented' = [presented EXCEPT ![r] = FALSE]
  /\ inForce' = [inForce EXCEPT ![r] = {published}]
  /\ pc' = [pc EXCEPT ![r] = "execute"]
  /\ UNCHANGED <<published, lifecycleVars, asked, decision, changed>>

(* The executor RPC begins, for a stream or not.                           *)
ExecuteLoad(r) ==
  /\ pc[r] = "routed"
  /\ cfg' = [cfg EXCEPT ![r] = published]
  /\ inForce' = [inForce EXCEPT ![r] = {published}]
  /\ pc' = [pc EXCEPT ![r] = "execute"]
  /\ UNCHANGED <<published, lifecycleVars, asked, presented, decision, changed>>

(* The request goes upstream under the mapped model, unless its body       *)
(* cannot be rewritten.                                                    *)
ExecuteDecide(r) ==
  /\ pc[r] = "execute"
  /\ decision' = [decision EXCEPT ![r] = Map(r)]
  /\ \E next \in IF Map(r).err THEN {"failed"}
                 ELSE IF ~Map(r).handled THEN {"unhandled"}
                 ELSE {"upstream", "failed"} :
        pc' = [pc EXCEPT ![r] = next]
  /\ UNCHANGED <<published, lifecycleVars, asked, cfg, presented, inForce, changed>>

(* The host's answer, or an error of the host or of its response.          *)
Answer(r) ==
  /\ pc[r] = "upstream"
  /\ \E next \in {"answered", "failed"} : pc' = [pc EXCEPT ![r] = next]
  /\ UNCHANGED <<published, lifecycleVars, asked, cfg, presented, decision, inForce, changed>>

Next ==
  \/ \E l \in Lifecycles : Decode(l) \/ CompileField(l) \/ publishLoadedConfig(l)
  \/ \E r \in Requests :
       \/ RouteLoad(r) \/ RouteNative(r) \/ RouteDecide(r) \/ Intercept(r)
       \/ ExecuteLoad(r) \/ ExecuteDecide(r) \/ Answer(r)

Spec == Init /\ [][Next]_vars
=============================================================================
