------------------------------ MODULE AgentRules ----------------------------
(***************************************************************************)
(* The rules the agents go by.  What they make of a failure: its class     *)
(* (FailureClassifier), the chain of agents for that class                 *)
(* (AgentRegistry) and whether a run may mend it (PatchProposalAgent).     *)
(* And the policy (PolicyEngine): whether an action may run by itself,     *)
(* needs a person's approval or is denied, by the environment, the         *)
(* confidence and what the caller says of the action.                      *)
(* A failure is the set of signals it shows; a confidence is in percent.   *)
(***************************************************************************)
EXTENDS Naturals, Sequences

\* One rule: the facts that make the class sure, the words that make it
\* likely, and the two confidences.
Rule(facts, words, category, sure, likely) ==
  [facts |-> facts, words |-> words, category |-> category, sure |-> sure, likely |-> likely]

\* Classes in the order the classifier asks; the first that matches wins.
AccessAndPlaceRules == <<
  Rule({"401"}, {"sign-in words"}, "auth-or-session", 97, 88),
  Rule({"403"}, {"denied words"}, "permissions-or-rbac", 97, 89),
  Rule({"modal missing"}, {"modal words"}, "ui-modal-not-opened", 94, 86),
  Rule({"wrong url"}, {"route words"}, "ui-route-or-navigation", 95, 84)>>
ApiRules == <<
  Rule({"5xx timed out"}, {"5xx timeout words"}, "api-timeout", 97, 90),
  Rule({"5xx typed"}, {}, "api-contract-drift", 97, 97),
  Rule({"5xx"}, {}, "api-server-error", 91, 91),
  Rule({"4xx"}, {}, "api-client-error", 90, 90)>>
PageRules == <<
  Rule({"empty"}, {"empty words"}, "ui-empty-state", 93, 81),
  Rule({"late"}, {"late words"}, "ui-delayed-data", 92, 83),
  Rule({"contract broken"}, {}, "ui-contract-or-render", 93, 93),
  Rule({"network"}, {}, "ui-loading-or-network", 89, 89),
  Rule({"stale locator"}, {}, "ui-missing-locator", 94, 94)>>
Rules == AccessAndPlaceRules \o ApiRules \o PageRules

Signal == UNION {Rules[i].facts \cup Rules[i].words : i \in DOMAIN Rules}
Unknown == [category |-> "unknown", confidence |-> 42]

Matching(signals) ==
  {i \in DOMAIN Rules : (Rules[i].facts \cup Rules[i].words) \cap signals # {}}

\* Mutant: the last rule that matches wins.
ClassifyLast(signals) ==
  IF Matching(signals) = {} THEN Unknown
  ELSE LET rule == Rules[CHOOSE i \in Matching(signals) : \A j \in Matching(signals) : j <= i]
       IN [category |-> rule.category,
           confidence |-> IF rule.facts \cap signals # {} THEN rule.sure ELSE rule.likely]

\* FailureClassifier.classify
Classify(signals) ==
  IF Matching(signals) = {} THEN Unknown
  ELSE LET rule == Rules[CHOOSE i \in Matching(signals) : \A j \in Matching(signals) : i <= j]
       IN [category |-> rule.category,
           confidence |-> IF rule.facts \cap signals # {} THEN rule.sure ELSE rule.likely]

\* AgentRegistry: API failures, signed-out and denied ones are only diagnosed,
\* page failures may be mended by the run itself.
Diagnosed == {"api-client-error", "api-contract-drift", "api-server-error", "api-timeout",
              "auth-or-session", "permissions-or-rbac", "unknown"}
Mendable == {"ui-contract-or-render", "ui-delayed-data", "ui-empty-state",
             "ui-loading-or-network", "ui-missing-locator", "ui-modal-not-opened",
             "ui-route-or-navigation"}
Category == Diagnosed \cup Mendable

\* The chains that check the page after a recovery.
Validated == Mendable \ {"ui-contract-or-render"}

\* PatchProposalAgent: qaAutoMitigationEligible, by class.
Eligible(category) ==
  CASE category = "ui-missing-locator" -> TRUE
    [] category \in {"ui-loading-or-network", "ui-delayed-data", "ui-empty-state"} -> TRUE
    [] category = "ui-modal-not-opened" -> TRUE
    [] category = "ui-route-or-navigation" -> TRUE
    [] category = "ui-contract-or-render" -> TRUE
    [] OTHER -> FALSE

\* The order the planner prefers the strategies in, by class.
PreferredOrder(category) ==
  CASE category = "ui-contract-or-render" -> <<"contract-recheck">>
    [] category \in {"ui-delayed-data", "ui-loading-or-network"} ->
         <<"extend-wait", "refresh-and-retry", "contract-recheck">>
    [] category = "ui-empty-state" ->
         <<"refresh-and-retry", "extend-wait", "contract-recheck">>
    [] category \in {"ui-missing-locator", "ui-modal-not-opened"} ->
         <<"locator-heal", "contract-recheck">>
    [] category = "ui-route-or-navigation" ->
         <<"locator-heal", "refresh-and-retry", "contract-recheck">>
    [] OTHER -> <<>>

-----------------------------------------------------------------------------
(* The policy.                                                             *)

Environment == {"qa", "staging", "production"}
Strategy == {"contract-recheck", "extend-wait", "locator-heal", "refresh-and-retry"}

Says(decision, minConfidence, needs) ==
  [decision |-> decision, minConfidence |-> minConfidence, needs |-> needs]

QaPolicy == [
  contractRecheck  |-> Says("allow", 40, {"reversible"}),
  crossService     |-> Says("deny", 95, {}),
  dataRepair       |-> Says("deny", 95, {}),
  rollback         |-> Says("deny", 90, {"reversible"}),
  extendWait       |-> Says("allow", 45, {"reversible"}),
  flagDisable      |-> Says("deny", 90, {"reversible"}),
  isolate          |-> Says("deny", 90, {"reversible"}),
  locatorHeal      |-> Says("allow", 70, {}),
  patchApply       |-> Says("allow", 85, {"reversible"}),
  refreshAndRetry  |-> Says("allow", 65, {}),
  restart          |-> Says("deny", 90, {"reversible"}),
  retryJob         |-> Says("deny", 85, {"idempotent"}),
  scale            |-> Says("deny", 90, {"reversible"}),
  schemaChange     |-> Says("deny", 98, {}),
  fixtureAdapt     |-> Says("allow", 75, {}),
  unreviewedDeploy |-> Says("deny", 99, {})]

Override(policy, changes) ==
  [action \in DOMAIN policy |->
     IF action \in DOMAIN changes THEN changes[action] ELSE policy[action]]

StagingPolicy == Override(QaPolicy, [
  rollback    |-> Says("allow", 90, {"reversible"}),
  flagDisable |-> Says("allow", 85, {"reversible"}),
  isolate     |-> Says("allow", 85, {"reversible"}),
  patchApply  |-> Says("approval-required", 88, {"reversible"}),
  restart     |-> Says("allow", 85, {"reversible"}),
  retryJob    |-> Says("allow", 80, {"idempotent"}),
  scale       |-> Says("allow", 85, {"reversible"})])

ProductionPolicy == Override(StagingPolicy, [
  locatorHeal     |-> Says("deny", 80, {}),
  patchApply      |-> Says("deny", 95, {}),
  refreshAndRetry |-> Says("deny", 75, {}),
  fixtureAdapt    |-> Says("deny", 95, {})])

PolicyMatrix ==
  [qa |-> QaPolicy, staging |-> StagingPolicy, production |-> ProductionPolicy]
Action == DOMAIN QaPolicy

\* A question: the action, the confidence, and what the caller says of it:
\* "reversible", "idempotent", "business data".
Question == [action : Action, confidence : 0..100,
             said : SUBSET {"reversible", "idempotent", "business data"}]

Softened(rule) == IF rule.decision = "deny" THEN "deny" ELSE "approval-required"

\* Mutant: the guard on business data knows staging only.
EvaluateStagingOnly(environment, question) ==
  LET rule == PolicyMatrix[environment][question.action] IN
  IF "business data" \in question.said /\ environment = "staging" THEN Softened(rule)
  ELSE IF ~ rule.needs \subseteq question.said THEN "deny"
  ELSE IF question.confidence < rule.minConfidence THEN Softened(rule)
  ELSE rule.decision

\* PolicyEngine.evaluate
Evaluate(environment, question) ==
  LET rule == PolicyMatrix[environment][question.action] IN
  IF "business data" \in question.said /\ environment # "qa" THEN Softened(rule)
  ELSE IF ~ rule.needs \subseteq question.said THEN "deny"
  ELSE IF question.confidence < rule.minConfidence THEN Softened(rule)
  ELSE rule.decision

\* What each recovery strategy is (strategySafetyProfile).
Profile(strategy) ==
  CASE strategy = "contract-recheck" -> [action |-> "contractRecheck", said |-> {"reversible", "idempotent"}]
    [] strategy = "extend-wait" -> [action |-> "extendWait", said |-> {"reversible", "idempotent"}]
    [] strategy = "locator-heal" -> [action |-> "locatorHeal", said |-> {}]
    [] OTHER -> [action |-> "refreshAndRetry", said |-> {}]

Allows(environment, strategy, confidence) ==
  Evaluate(environment, [action |-> Profile(strategy).action, said |-> Profile(strategy).said,
                         confidence |-> confidence]) = "allow"

\* resolveEnvironment: what the request says, or the process, or qa.
Resolve(requested, ofProcess) ==
  IF requested # "none" THEN requested
  ELSE IF ofProcess # "none" THEN ofProcess ELSE "qa"
=============================================================================
