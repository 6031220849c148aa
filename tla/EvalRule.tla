------------------------------ MODULE EvalRule ------------------------------
(***************************************************************************)
(* The evaluation of an alert rule: one pass over its conditions, each of  *)
(* which queries a data source, that combines what they say from left to   *)
(* right, and then the rule's new state.  Evaluations follow each other    *)
(* with the options of the rule unchanged; what a condition says each time *)
(* is up to the data (module QueryCondition).                              *)
(***************************************************************************)
EXTENDS Integers, Sequences

CONSTANT OperatorLists  \* the operators of the conditions of a rule, in order

Operators == {"and", "or"}
RuleStates == {"ok", "alerting", "no_data", "pending", "paused"}
NoDataOptions == {"ok", "no_data", "alerting", "keep_state"}
ErrorOptions == {"alerting", "keep_state"}

\* A rule without conditions is not built (NewRuleFromDBAlert).
ASSUME RuleAssumption ==
  \A o \in OperatorLists : o \in Seq(Operators) /\ o # << >>

VARIABLES
  operators, noDataState, executionErrorState,  \* the rule
  state,        \* Rule.State
  prev,         \* EvalContext.PrevAlertState
  results,      \* what the conditions evaluated so far said
  firing, noDataFound, error,
  progress            \* "loop", "conclude", "done" or "panicked"

rule == <<operators, noDataState, executionErrorState>>
ruleVars == <<rule, state, prev, results, firing, noDataFound, error, progress>>

ConditionResult == [firing : BOOLEAN, noData : BOOLEAN]

RuleInit ==
  /\ operators \in OperatorLists
  /\ noDataState \in NoDataOptions
  /\ executionErrorState \in ErrorOptions
  /\ state \in RuleStates
  /\ prev = state
  /\ results = << >>
  /\ firing = TRUE /\ noDataFound = TRUE /\ error = FALSE
  /\ progress = "loop"

\* Defect: the operator is the one of the condition before.
CombineLate(k, b, c) ==
  IF k > 1 /\ operators[k - 1] = "or" THEN b \/ c ELSE b /\ c

\* What the k-th condition, which says c, makes of b.
Combine(k, b, c) ==
  IF operators[k] = "or" THEN b \/ c ELSE b /\ c

\* The next condition is evaluated.
Condition(cr) ==
  /\ progress = "loop" /\ Len(results) < Len(operators)
  /\ results' = Append(results, cr)
  /\ firing' = Combine(Len(results) + 1, firing, cr.firing)
  /\ noDataFound' = Combine(Len(results) + 1, noDataFound, cr.noData)
  /\ UNCHANGED <<rule, state, prev, error, progress>>

\* Its query fails or times out: the rest is not evaluated.
ConditionFails ==
  /\ progress = "loop" /\ Len(results) < Len(operators)
  /\ error' = TRUE /\ progress' = "conclude"
  /\ UNCHANGED <<rule, state, prev, results, firing, noDataFound>>

\* It panics, which processJob recovers: the rule's state stays.
ConditionPanics ==
  /\ progress = "loop" /\ Len(results) < Len(operators)
  /\ progress' = "panicked"
  /\ UNCHANGED <<rule, state, prev, results, firing, noDataFound, error>>

\* The state an option asks for.
KeepOr(option) == IF option = "keep_state" THEN prev ELSE option

getNewState ==
  IF error THEN KeepOr(executionErrorState)
  ELSE IF firing THEN "alerting"
  ELSE IF noDataFound THEN KeepOr(noDataState)
  ELSE "ok"

Conclude ==
  /\ progress = "loop" => Len(results) = Len(operators)
  /\ progress \in {"loop", "conclude"}
  /\ state' = getNewState
  /\ progress' = "done"
  /\ UNCHANGED <<rule, prev, results, firing, noDataFound, error>>

Over == progress \in {"done", "panicked"}

\* The next evaluation of the rule.
NewEvalContext ==
  /\ Over /\ progress' = "loop"
  /\ prev' = state
  /\ results' = << >>
  /\ firing' = TRUE /\ noDataFound' = TRUE /\ error' = FALSE
  /\ UNCHANGED <<rule, state>>

RuleNext ==
  \/ \E cr \in ConditionResult : Condition(cr)
  \/ ConditionFails
  \/ ConditionPanics
  \/ Conclude
  \/ NewEvalContext

RuleSpec == RuleInit /\ [][RuleNext]_ruleVars

---------------------------------------------------------------------------
RuleTypeOK ==
  /\ operators \in OperatorLists
  /\ noDataState \in NoDataOptions /\ executionErrorState \in ErrorOptions
  /\ state \in RuleStates /\ prev \in RuleStates
  /\ results \in Seq(ConditionResult) /\ Len(results) <= Len(operators)
  /\ firing \in BOOLEAN /\ noDataFound \in BOOLEAN /\ error \in BOOLEAN
  /\ progress \in {"loop", "conclude", "done", "panicked"}

Evaluated == progress = "done" /\ ~error

\* ((c1 op2 c2) op3 c3) ...: some condition, the first one or one joined with
\* OR, says yes, and no condition joined with AND after it says no.
SaysYes(says) ==
  \E k \in DOMAIN says :
    /\ k = 1 \/ operators[k] = "or"
    /\ says[k]
    /\ \A m \in DOMAIN says : m > k => operators[m] = "or" \/ says[m]

Fired == [k \in 1..Len(results) |-> results[k].firing]
HadNoData == [k \in 1..Len(results) |-> results[k].noData]

\* A rule fires when its conditions, executed serially, say so.
FiresAsDocumented == Evaluated => firing = SaysYes(Fired)

\* A rule none of whose conditions fires or finds data takes the state its
\* no data option asks for, and one whose conditions all find data does not:
\* the operators that join the conditions make no difference.
NoDataHandled ==
  Evaluated =>
    /\ (\A k \in 1..Len(results) : HadNoData[k] /\ ~Fired[k])
         => state = KeepOr(noDataState)
    /\ (\A k \in 1..Len(results) : ~HadNoData[k])
         => state \in {"ok", "alerting"}

\* A rule leaves the state a user gave it with the first evaluation that
\* finds data, and no evaluation brings it back.
LeavesForGood ==
  [][state # state' => state' \notin {"pending", "paused"}]_ruleVars

\* A rule fires as its serial reading says, takes the state its no data option
\* asks for, and leaves pending and paused for good.
RuleRight == [][FiresAsDocumented' /\ NoDataHandled']_ruleVars /\ LeavesForGood
=============================================================================
