------------------------- MODULE ModelRoutingProperties -------------------------
(***************************************************************************)
(* What README.md promises of routing: the table of rulesets, one pass     *)
(* over the entries, and scoped entries that are skipped when the caller   *)
(* cannot be checked.                                                      *)
(***************************************************************************)
EXTENDS ModelRouting, SequencesExt

Dedicated(config, format) ==
  CASE format = "claude" -> config.claudeMessagesRules
    [] format = "openai-response" -> config.codexResponsesRules
    [] format = "openai" -> config.openAICompletionsRules
    [] OTHER -> <<>>

(* The entries that run for a format, in their order.                      *)
Entries(config, format) ==
  IF format = "unknown" THEN <<>>
  ELSE IF Dedicated(config, format) = <<>> THEN config.globalRules
  ELSE CASE config.RulesStackMode = "off" -> Dedicated(config, format)
         [] config.RulesStackMode = "specific_first" ->
              Dedicated(config, format) \o config.globalRules
         [] config.RulesStackMode = "global_first" ->
              config.globalRules \o Dedicated(config, format)

(* A positive entry is for the callers its key text stands for, an inverse *)
(* one for the others; both are for callers that are known only.           *)
Meant(rule, scope, credential) ==
  \/ Unscoped(rule)
  \/ /\ scope # NoScope /\ (rule.hasPattern => credential)
     /\ LET named == IF rule.hasPattern THEN rule.pattern ELSE {rule.exact}
        IN IF rule.exclude THEN scope \notin named ELSE scope \in named

(* The names a request takes on from entry to entry; an empty one is the   *)
(* last.                                                                   *)
Ended(names) == Len(names) > 1 /\ Last(names) = EmptyModel

PassedBy(names, rule, scope, credential) ==
  Ended(names) \/ ~Meant(rule, scope, credential) \/ rule.map[Last(names)] = NoMatch

NextNames(names, rule, scope, credential) ==
  IF PassedBy(names, rule, scope, credential) THEN names
  ELSE Append(names, rule.map[Last(names)])

OnePass(model, scope, credential, entries) ==
  LET names[n \in 0 .. Len(entries)] ==
        IF n = 0 THEN <<model>>
        ELSE NextNames(names[n - 1], entries[n], scope, credential)
  IN names[Len(entries)]

Verdict(q, credential, entries) ==
  LET names == OnePass(q.model, q.scope, credential, entries)
  IN IF Ended(names) THEN MappingError
     ELSE IF Last(names) = q.model THEN Unhandled
     ELSE MappedTo(Last(names))

Documented(r, config) ==
  Verdict(asked[r], presented[r], Entries(config, asked[r].format))

Decided(r) ==
  \/ pc[r] \in {"upstream", "unhandled", "answered"}
  \/ pc[r] = "native" /\ ~asked[r].native

(* What an RPC decides is what the README says of one configuration that   *)
(* was published while it ran: no mixture, however lifecycle calls fall.   *)
DecidesUnderOneConfiguration ==
  \A r \in Requests :
    Decided(r) => \E config \in inForce[r] : decision[r] = Documented(r, config)

(* The candidates that decode, have a known mode and compile.              *)
Valid(c) == c.decoded /\ c.mode \in StackMode /\ \A f \in 1 .. 4 : c.rules[f] # Bad
WholeConfigs == {Compiled(c) : c \in {c \in Candidates : Valid(c)}} \union InitialConfigs

(* Every published configuration, and so every one an RPC sees, is the     *)
(* whole of one valid candidate: a refused one leaves no trace.            *)
PublishedIsWhole ==
  {published} \union {cfg[r] : r \in Requests} \subseteq WholeConfigs

(* A request the rules map, or fail to map, is not served by the native    *)
(* path under its own name: it goes there only when a configuration in     *)
(* force left the model as it is.                                          *)
NeverNativePastARule ==
  \A r \in Requests :
    pc[r] = "native" /\ ~asked[r].native =>
       \E config \in inForce[r] : Documented(r, config) = Unhandled

(* The plugin claims no request it then declines, unless the configuration *)
(* or the credential changed after the route RPC began.                    *)
DeclinesOnlyAfterChange ==
  \A r \in Requests : pc[r] = "unhandled" => changed[r]

(* Entries whose caller cannot be checked do not count: without a scope    *)
(* every scoped entry, without a credential every wildcard entry, inverse  *)
(* ones included.  The decision is the one that entries which match no     *)
(* name would lead to in their place.                                      *)
Checkable(rule, scope, credential) ==
  Unscoped(rule) \/ (scope # NoScope /\ (rule.hasPattern => credential))

NoRule == [exact |-> NoScope, hasPattern |-> FALSE, pattern |-> {}, exclude |-> FALSE,
           map |-> [model \in Model |-> NoMatch]]

WithoutUncheckable(entries, scope, credential) ==
  [n \in DOMAIN entries |->
     IF Checkable(entries[n], scope, credential) THEN entries[n] ELSE NoRule]

SkipsWhatItCannotCheck ==
  \A r \in Requests :
    Decided(r) =>
      LET entries == Entries(cfg[r], asked[r].format)
      IN decision[r] =
           Verdict(asked[r], TRUE, WithoutUncheckable(entries, asked[r].scope, presented[r]))
=============================================================================
