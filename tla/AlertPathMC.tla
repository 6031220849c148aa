----------------------------- MODULE AlertPathMC -----------------------------
(***************************************************************************)
(* The way of an alert, from the data sources over conditions and rules to *)
(* the channels that tell of it.  A behaviour is one of the part that it   *)
(* begins with, and the others stand still.                                *)
(***************************************************************************)
EXTENDS DataSourcesMC, QueryConditionMC, EvalRuleMC, NotifiersMC

VARIABLE part

\* The state each part stands still in while another one runs.
ConditionStill ==
  /\ reducer = "avg" /\ evaluator = [type |-> "no_value", params |-> << >>]
  /\ seriesList = << >> /\ ConditionInit
RuleStill ==
  /\ operators = <<"and">> /\ noDataState = "ok"
  /\ executionErrorState = "alerting" /\ state = "ok" /\ RuleInit
NotifiersStill ==
  rows = (n1 :> Slack @@ n2 :> Email) /\ NotifiersInit /\ rules[a1].name = rules[a2].name

AlertPathInit ==
  /\ \/ part = "data sources" /\ ConditionStill /\ RuleStill /\ NotifiersStill
     \/ part = "condition" /\ ConditionInit /\ RuleStill /\ NotifiersStill
     \/ part = "rule" /\ ConditionStill /\ RuleInit /\ NotifiersStill
     \/ part = "notifiers" /\ ConditionStill /\ RuleStill /\ NotifiersInit /\ RulesTellApart
  /\ DataSourcesInit /\ (part = "data sources" \/ database = "other")

alertPathVars == <<part, dataSourcesVars, conditionVars, ruleVars, notifiersVars>>

AlertPathNext ==
  /\ UNCHANGED part
  /\ \/ /\ part = "data sources" /\ DataSourcesNext
        /\ UNCHANGED <<conditionVars, ruleVars, notifiersVars>>
     \/ /\ part = "condition" /\ ConditionNext
        /\ UNCHANGED <<dataSourcesVars, ruleVars, notifiersVars>>
     \/ /\ part = "rule" /\ RuleNext
        /\ UNCHANGED <<dataSourcesVars, conditionVars, notifiersVars>>
     \/ /\ part = "notifiers" /\ NotifiersNext
        /\ UNCHANGED <<dataSourcesVars, conditionVars, ruleVars>>

AlertPathSpec == AlertPathInit /\ [][AlertPathNext]_alertPathVars
=============================================================================
