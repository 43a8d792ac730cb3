---------------------------- MODULE RuleApplication ----------------------------
(***************************************************************************)
(* From a request and a compiled configuration to the upstream model:      *)
(* selectRules and routeModel (model_router.go), callerMatchesRule and     *)
(* applyRules (rules.go).  A rule is the map of names that its tokens or   *)
(* its case operation make (see TokenMatcher), with the caller scope it is *)
(* written for.  Callers are named by their scope; NoScope is the empty    *)
(* one of a caller that CPA did not authenticate.                          *)
(***************************************************************************)
EXTENDS Naturals, Sequences

CONSTANTS
  Model,       \* model names
  EmptyModel,  \* the empty one, which a replacement may produce
  Scope,       \* scopes of authenticated callers
  NoScope,     \* the scope of the others, and of a rule for no exact key
  NoMatch      \* what a rule makes of a name its pattern does not match

ASSUME ModelAssumption == EmptyModel \in Model /\ NoMatch \notin Model
ASSUME ScopeAssumption == NoScope \notin Scope

(* callerScope; the scopes of the keys callerPattern accepts, if there is  *)
(* a pattern; excludeCaller; and the tokens or the case operation.         *)
Rule == [exact : Scope \union {NoScope},
         hasPattern : BOOLEAN, pattern : SUBSET Scope,
         exclude : BOOLEAN,
         map : [Model -> Model \union {NoMatch}]]

StackMode == {"off", "specific_first", "global_first"}

Config == [globalRules : Seq(Rule), claudeMessagesRules : Seq(Rule),
           codexResponsesRules : Seq(Rule), openAICompletionsRules : Seq(Rule),
           RulesStackMode : StackMode]

(* A caller: its scope, and whether a credential of the request hashes to  *)
(* that scope (callerAPIKey).                                              *)
Unscoped(rule) == rule.exact = NoScope /\ ~rule.hasPattern

(* Mistake: what is not known not to match, is not excluded.               *)
callerMatchesRuleOpen(rule, scope, credential) ==
  \/ Unscoped(rule)
  \/ /\ scope # NoScope
     /\ (IF rule.hasPattern THEN credential /\ scope \in rule.pattern ELSE rule.exact = scope)
          <=> ~rule.exclude

callerMatchesRule(rule, scope, credential) ==
  \/ Unscoped(rule)
  \/ /\ scope # NoScope
     /\ rule.hasPattern => credential
     /\ (IF rule.hasPattern THEN scope \in rule.pattern ELSE rule.exact = scope)
          <=> ~rule.exclude

Applies(rule, model, scope, credential) ==
  callerMatchesRule(rule, scope, credential) /\ rule.map[model] # NoMatch

(* One pass over the entries; an empty result ends it with an error.       *)
applyRule(current, rule, scope, credential) ==
  IF ~current.err /\ Applies(rule, current.model, scope, credential)
  THEN [model |-> rule.map[current.model], matched |-> TRUE,
        err |-> rule.map[current.model] = EmptyModel]
  ELSE current

applyRules(model, scope, credential, rules) ==
  LET after[n \in 0 .. Len(rules)] ==
        IF n = 0 THEN [model |-> model, matched |-> FALSE, err |-> FALSE]
        ELSE applyRule(after[n - 1], rules[n], scope, credential)
  IN after[Len(rules)]

Specific(cfg, format) ==
  CASE format = "claude" -> cfg.claudeMessagesRules
    [] format = "openai-response" -> cfg.codexResponsesRules
    [] format = "openai" -> cfg.openAICompletionsRules

Only(rules) == [first |-> rules, second |-> <<>>]

selectRules(cfg, format) ==
  IF format \in {"gemini", "interactions"} THEN Only(cfg.globalRules)
  ELSE IF format \notin {"claude", "openai-response", "openai"} THEN Only(<<>>)
  ELSE LET specific == Specific(cfg, format)
       IN IF specific = <<>> THEN Only(cfg.globalRules)
          ELSE IF cfg.RulesStackMode = "off" THEN Only(specific)
          ELSE IF cfg.RulesStackMode = "specific_first"
          THEN [first |-> specific, second |-> cfg.globalRules]
          ELSE IF cfg.globalRules = <<>> THEN Only(specific)
          ELSE [first |-> cfg.globalRules, second |-> specific]

(* callerAPIKeyForSelectedRules: whether the key is available to the rules.*)
KeyFor(cfg, format, scope, presented) ==
  LET selection == selectRules(cfg, format)
      rules == selection.first \o selection.second
  IN scope # NoScope /\ presented /\ \E n \in DOMAIN rules : rules[n].hasPattern

Unhandled == [handled |-> FALSE, err |-> FALSE, upstream |-> EmptyModel]
MappingError == [handled |-> FALSE, err |-> TRUE, upstream |-> EmptyModel]
MappedTo(model) == [handled |-> TRUE, err |-> FALSE, upstream |-> model]
Decision == [handled : BOOLEAN, err : BOOLEAN, upstream : Model]

routeModel(cfg, format, model, scope, credential) ==
  LET selection == selectRules(cfg, format)
      one == applyRules(model, scope, credential, selection.first)
      two == applyRules(one.model, scope, credential, selection.second)
      matched == one.matched \/ two.matched
  IN IF selection.first = <<>> THEN Unhandled
     ELSE IF one.err \/ two.err THEN MappingError
     ELSE IF ~matched \/ two.model = model THEN Unhandled
     ELSE MappedTo(two.model)
=============================================================================
