-------------------------- MODULE AlertPathProofs --------------------------
(***************************************************************************)
(* Theorems about EvalRule, for rules with any number of conditions and    *)
(* any number of evaluations, and about Notifiers, for any channels,       *)
(* alerts, edits and losses.                                               *)
(***************************************************************************)
EXTENDS EvalRule, Notifiers, TLAPS

\* The options of a rule lead to states.
LEMMA KeepOrState ==
  ASSUME prev \in RuleStates, NEW option \in NoDataOptions \cup ErrorOptions
  PROVE  KeepOr(option) \in RuleStates
BY DEF KeepOr, RuleStates, NoDataOptions, ErrorOptions

\* Every reachable state is well typed: a rule is never in a state the rest
\* of the engine does not know, whatever its options.
THEOREM TypeCorrect == RuleSpec => []RuleTypeOK
<1>0. /\ << >> \in Seq(ConditionResult) /\ Len(<< >>) = 0
      /\ \A o \in OperatorLists : Len(o) \in Nat
  BY RuleAssumption
<1>1. RuleInit => RuleTypeOK
  <2> SUFFICES ASSUME RuleInit PROVE RuleTypeOK
    OBVIOUS
  <2>1. results \in Seq(ConditionResult) /\ Len(results) <= Len(operators)
    BY <1>0 DEF RuleInit
  <2> QED BY <2>1 DEF RuleInit, RuleTypeOK
<1>2. RuleTypeOK /\ [RuleNext]_ruleVars => RuleTypeOK'
  <2> SUFFICES ASSUME RuleTypeOK, [RuleNext]_ruleVars PROVE RuleTypeOK'
    OBVIOUS
  <2> USE DEF RuleTypeOK
  <2>1. ASSUME NEW cr \in ConditionResult, Condition(cr) PROVE RuleTypeOK'
    <3>1. operators \in Seq(Operators)
      BY RuleAssumption
    <3>2. results' \in Seq(ConditionResult) /\ Len(results') <= Len(operators)
      BY <2>1, <3>1 DEF Condition
    <3>3. firing' \in BOOLEAN
      BY <2>1, Zenon DEF Condition, Combine, ConditionResult
    <3>4. noDataFound' \in BOOLEAN
      BY <2>1, Zenon DEF Condition, Combine, ConditionResult
    <3> QED BY <2>1, <3>2, <3>3, <3>4 DEF Condition, rule
  <2>2. CASE ConditionFails
    BY <2>2 DEF ConditionFails, rule
  <2>3. CASE ConditionPanics
    BY <2>3 DEF ConditionPanics, rule
  <2>4. CASE Conclude
    <3>1. getNewState \in RuleStates
      BY KeepOrState DEF getNewState, RuleStates
    <3> QED BY <2>4, <3>1 DEF Conclude, rule
  <2>5. CASE NewEvalContext
    <3>1. results' = << >> /\ operators' = operators
      BY <2>5 DEF NewEvalContext, rule
    <3>2. results' \in Seq(ConditionResult) /\ Len(results') <= Len(operators')
      BY <1>0, <3>1
    <3> QED BY <2>5, <3>2 DEF NewEvalContext, rule
  <2>6. CASE UNCHANGED ruleVars
    BY <2>6 DEF ruleVars, rule
  <2> QED BY <2>1, <2>2, <2>3, <2>4, <2>5, <2>6 DEF RuleNext
<1> QED BY <1>1, <1>2, PTL DEF RuleSpec

\* The editor joins the first condition with AND.
FirstIsAnd == \A o \in OperatorLists : o[1] = "and"

\* One more condition, which says c, makes of b what SaysYes makes of all.
LEMMA SaysYesStep ==
  ASSUME NEW n \in Nat, NEW f \in [1..n -> BOOLEAN], NEW c \in BOOLEAN,
         NEW g \in [1..(n + 1) -> BOOLEAN],
         \A k \in 1..n : g[k] = f[k], g[n + 1] = c,
         operators[1] = "and"
  PROVE  SaysYes(g) <=>
           IF operators[n + 1] = "or" THEN (n > 0 /\ SaysYes(f)) \/ c
           ELSE (n = 0 \/ SaysYes(f)) /\ c
<1>0. DOMAIN f = 1..n /\ DOMAIN g = 1..(n + 1)
  OBVIOUS
<1>1. CASE operators[n + 1] = "or"
  <2>1. ASSUME SaysYes(f) PROVE SaysYes(g)
    BY <1>0, <1>1, <2>1 DEF SaysYes
  <2>2. ASSUME c PROVE SaysYes(g)
    <3>1. g[n + 1] /\ n + 1 \in DOMAIN g
      BY <1>0, <2>2
    <3>2. \A m \in DOMAIN g : ~(m > n + 1)
      BY <1>0
    <3> QED BY <1>1, <3>1, <3>2 DEF SaysYes
  <2>3. ASSUME SaysYes(g), ~c PROVE n > 0 /\ SaysYes(f)
    <3>1. PICK k \in 1..(n + 1) :
            /\ k = 1 \/ operators[k] = "or"
            /\ g[k]
            /\ \A m \in 1..(n + 1) : m > k => operators[m] = "or" \/ g[m]
      BY <1>0, <2>3 DEF SaysYes
    <3>2. k \in 1..n
      BY <2>3, <3>1
    <3> QED BY <1>0, <3>1, <3>2 DEF SaysYes
  <2> QED BY <1>1, <2>1, <2>2, <2>3
<1>2. CASE operators[n + 1] # "or"
  <2>1. ASSUME SaysYes(f), c PROVE SaysYes(g)
    <3>1. PICK k \in 1..n :
            /\ k = 1 \/ operators[k] = "or"
            /\ f[k]
            /\ \A m \in 1..n : m > k => operators[m] = "or" \/ f[m]
      BY <1>0, <2>1 DEF SaysYes
    <3>2. ASSUME NEW m \in 1..(n + 1), m > k
          PROVE  operators[m] = "or" \/ g[m]
      <4>1. CASE m \in 1..n
        BY <3>1, <3>2, <4>1
      <4>2. CASE m = n + 1
        BY <2>1, <4>2
      <4> QED BY <4>1, <4>2
    <3>3. g[k] /\ k \in 1..(n + 1)
      BY <3>1
    <3> QED BY <1>0, <3>1, <3>2, <3>3 DEF SaysYes
  <2>2. ASSUME n = 0, c PROVE SaysYes(g)
    <3>1. n + 1 = 1
      BY <2>2
    <3>2. g[1]
      BY <2>2, <3>1
    <3>3. 1 \in DOMAIN g /\ \A m \in DOMAIN g : ~(m > 1)
      BY <1>0, <3>1
    <3> QED BY <3>2, <3>3 DEF SaysYes
  <2>3. ASSUME SaysYes(g) PROVE (n = 0 \/ SaysYes(f)) /\ c
    <3>1. PICK k \in 1..(n + 1) :
            /\ k = 1 \/ operators[k] = "or"
            /\ g[k]
            /\ \A m \in 1..(n + 1) : m > k => operators[m] = "or" \/ g[m]
      BY <1>0, <2>3 DEF SaysYes
    <3>2. CASE k = n + 1
      BY <1>2, <3>1, <3>2
    <3>3. CASE k \in 1..n
      <4>1. c
        BY <1>2, <3>1, <3>3
      <4>2. SaysYes(f)
        BY <1>0, <3>1, <3>3 DEF SaysYes
      <4> QED BY <4>1, <4>2
    <3> QED BY <3>2, <3>3
  <2> QED BY <1>2, <2>1, <2>2, <2>3
<1> QED BY <1>1, <1>2
\* What the evaluation has found is what the conditions evaluated so far
\* say.
FoundSoFar ==
  /\ results = << >> => firing /\ noDataFound
  /\ results # << >> => /\ firing <=> SaysYes(Fired)
                        /\ noDataFound <=> SaysYes(HadNoData)
  /\ Evaluated => Len(results) = Len(operators)
  /\ progress = "conclude" => error
  /\ progress = "done" => state = getNewState

\* For rules whose first condition is joined with AND that is an invariant.
LEMMA FoundSoFarInvariant ==
  ASSUME FirstIsAnd
  PROVE  RuleSpec => []FoundSoFar
<1>1. RuleInit => FoundSoFar
  BY DEF RuleInit, FoundSoFar, Evaluated
<1>2. RuleTypeOK /\ FoundSoFar /\ [RuleNext]_ruleVars => FoundSoFar'
  <2> SUFFICES ASSUME RuleTypeOK, FoundSoFar, [RuleNext]_ruleVars PROVE FoundSoFar'
    OBVIOUS
  <2>1. ASSUME NEW cr \in ConditionResult, Condition(cr) PROVE FoundSoFar'
    <3> DEFINE n == Len(results)
    <3>1. /\ results \in Seq(ConditionResult) /\ n \in Nat
          /\ results' = Append(results, cr)
          /\ operators[1] = "and" /\ operators' = operators
      BY <2>1 DEF Condition, RuleTypeOK, FirstIsAnd, rule
    <3>2. /\ Len(results') = n + 1 /\ results' # << >>
          /\ \A k \in 1..n : results'[k] = results[k]
          /\ results'[n + 1] = cr
      BY <3>1
    <3>3. (results = << >>) <=> (n = 0)
      BY <3>1
    <3>4. cr.firing \in BOOLEAN /\ cr.noData \in BOOLEAN
      BY DEF ConditionResult
    <3>5. /\ Fired \in [1..n -> BOOLEAN]
          /\ HadNoData \in [1..n -> BOOLEAN]
      <4>1. \A k \in 1..n : /\ results[k].firing \in BOOLEAN
                            /\ results[k].noData \in BOOLEAN
        <5>1. \A k \in 1..n : results[k] \in ConditionResult
          BY <3>1
        <5> QED BY <5>1 DEF ConditionResult
      <4> QED BY <4>1 DEF Fired, HadNoData
    <3>6. \A k \in 1..(n + 1) : results'[k] \in ConditionResult
      BY <3>1, <3>2
    <3>7. /\ Fired' \in [1..(n + 1) -> BOOLEAN]
          /\ HadNoData' \in [1..(n + 1) -> BOOLEAN]
      BY <3>2, <3>6 DEF Fired, HadNoData, ConditionResult
    <3>8. /\ \A k \in 1..n : Fired'[k] = Fired[k]
          /\ \A k \in 1..n : HadNoData'[k] = HadNoData[k]
          /\ Fired'[n + 1] = cr.firing /\ HadNoData'[n + 1] = cr.noData
      BY <3>1, <3>2 DEF Fired, HadNoData
    <3> HIDE DEF n
    <3>9. SaysYes(Fired') <=>
            IF operators[n + 1] = "or"
            THEN (n > 0 /\ SaysYes(Fired)) \/ cr.firing
            ELSE (n = 0 \/ SaysYes(Fired)) /\ cr.firing
      <4> DEFINE old == Fired
                 new == Fired'
                 c == cr.firing
      <4>1. /\ old \in [1..n -> BOOLEAN] /\ new \in [1..(n + 1) -> BOOLEAN]
            /\ \A k \in 1..n : new[k] = old[k]
            /\ new[n + 1] = c /\ c \in BOOLEAN
        BY <3>4, <3>5, <3>7, <3>8
      <4> HIDE DEF old, new, c
      <4>2. SaysYes(new) <=>
              IF operators[n + 1] = "or" THEN (n > 0 /\ SaysYes(old)) \/ c
              ELSE (n = 0 \/ SaysYes(old)) /\ c
        BY SMTT(30), <3>1, <4>1, SaysYesStep
      <4> QED BY <4>2 DEF old, new, c
    <3>10. SaysYes(HadNoData') <=>
            IF operators[n + 1] = "or"
            THEN (n > 0 /\ SaysYes(HadNoData)) \/ cr.noData
            ELSE (n = 0 \/ SaysYes(HadNoData)) /\ cr.noData
      <4> DEFINE old == HadNoData
                 new == HadNoData'
                 c == cr.noData
      <4>1. /\ old \in [1..n -> BOOLEAN] /\ new \in [1..(n + 1) -> BOOLEAN]
            /\ \A k \in 1..n : new[k] = old[k]
            /\ new[n + 1] = c /\ c \in BOOLEAN
        BY <3>4, <3>5, <3>7, <3>8
      <4> HIDE DEF old, new, c
      <4>2. SaysYes(new) <=>
              IF operators[n + 1] = "or" THEN (n > 0 /\ SaysYes(old)) \/ c
              ELSE (n = 0 \/ SaysYes(old)) /\ c
        BY SMTT(30), <3>1, <4>1, SaysYesStep
      <4> QED BY <4>2 DEF old, new, c
    <3>11. SaysYes(Fired)' <=> SaysYes(Fired')
      BY <3>1 DEF SaysYes
    <3>12. SaysYes(HadNoData)' <=> SaysYes(HadNoData')
      BY <3>1 DEF SaysYes
    <3>13. n = 0 => operators[n + 1] = "and"
      BY <3>1
    <3>14. firing' <=> SaysYes(Fired)'
      <4>1. firing' = Combine(n + 1, firing, cr.firing)
        BY <2>1 DEF Condition, n
      <4>2. /\ n = 0 => firing
            /\ n > 0 => (firing <=> SaysYes(Fired))
        BY <3>1, <3>3 DEF FoundSoFar
      <4>3. n = 0 \/ n > 0
        BY <3>1
      <4>4. CASE operators[n + 1] = "or"
        BY <3>9, <3>11, <3>13, <4>1, <4>2, <4>3, <4>4 DEF Combine
      <4>5. CASE operators[n + 1] # "or"
        BY <3>9, <3>11, <4>1, <4>2, <4>3, <4>5 DEF Combine
      <4> QED BY <4>4, <4>5
    <3>15. noDataFound' <=> SaysYes(HadNoData)'
      <4>1. noDataFound' = Combine(n + 1, noDataFound, cr.noData)
        BY <2>1 DEF Condition, n
      <4>2. /\ n = 0 => noDataFound
            /\ n > 0 => (noDataFound <=> SaysYes(HadNoData))
        BY <3>1, <3>3 DEF FoundSoFar
      <4>3. n = 0 \/ n > 0
        BY <3>1
      <4>4. CASE operators[n + 1] = "or"
        BY <3>10, <3>12, <3>13, <4>1, <4>2, <4>3, <4>4 DEF Combine
      <4>5. CASE operators[n + 1] # "or"
        BY <3>10, <3>12, <4>1, <4>2, <4>3, <4>5 DEF Combine
      <4> QED BY <4>4, <4>5
    <3> QED BY <2>1, <3>2, <3>14, <3>15 DEF FoundSoFar, Condition, Evaluated
  <2>2. CASE Conclude
    <3>1. getNewState' = getNewState
      BY <2>2 DEF Conclude, getNewState, KeepOr, rule
    <3> QED BY <2>2, <3>1
            DEF Conclude, FoundSoFar, Evaluated, SaysYes, Fired, HadNoData, rule
  <2>3. CASE ConditionFails
    BY <2>3 DEF ConditionFails, FoundSoFar, Evaluated, SaysYes, Fired,
                HadNoData, rule
  <2>4. CASE ConditionPanics
    BY <2>4 DEF ConditionPanics, FoundSoFar, Evaluated, SaysYes, Fired,
                HadNoData, rule
  <2>5. CASE NewEvalContext
    BY <2>5 DEF NewEvalContext, FoundSoFar, Evaluated
  <2>6. CASE UNCHANGED ruleVars
    <3>1. getNewState' = getNewState
      BY <2>6 DEF ruleVars, rule, getNewState, KeepOr
    <3> QED BY <2>6, <3>1
            DEF ruleVars, rule, FoundSoFar, Evaluated, SaysYes, Fired, HadNoData
  <2> QED BY <2>1, <2>2, <2>3, <2>4, <2>5, <2>6 DEF RuleNext
<1> QED BY <1>1, <1>2, TypeCorrect, PTL DEF RuleSpec

\* However many conditions a rule has, if the first is joined with AND the
\* rule fires when they, executed serially, say so.
THEOREM FiresSerially ==
  ASSUME FirstIsAnd
  PROVE  RuleSpec => []FiresAsDocumented
<1>1. RuleTypeOK /\ FoundSoFar => FiresAsDocumented
  <2> SUFFICES ASSUME RuleTypeOK, FoundSoFar, Evaluated
               PROVE  firing = SaysYes(Fired)
    BY DEF FiresAsDocumented
  <2>1. results # << >>
    BY RuleAssumption DEF RuleTypeOK, FoundSoFar
  <2>2. firing <=> SaysYes(Fired)
    BY <2>1 DEF FoundSoFar
  <2>3. firing \in BOOLEAN /\ SaysYes(Fired) \in BOOLEAN
    BY DEF RuleTypeOK, SaysYes
  <2> QED BY <2>2, <2>3
<1> QED BY <1>1, TypeCorrect, FoundSoFarInvariant, PTL

\* And whatever operators join them, the no data option decides when no
\* condition fires or finds data, and does not when all find data.
THEOREM NoDataOptionDecides ==
  ASSUME FirstIsAnd
  PROVE  RuleSpec => []NoDataHandled
<1>1. RuleTypeOK /\ FoundSoFar => NoDataHandled
  <2> SUFFICES ASSUME RuleTypeOK, FoundSoFar, Evaluated
               PROVE  /\ (\A k \in 1..Len(results) :
                              HadNoData[k] /\ ~Fired[k])
                           => state = KeepOr(noDataState)
                      /\ (\A k \in 1..Len(results) : ~HadNoData[k])
                           => state \in {"ok", "alerting"}
    BY DEF NoDataHandled
  <2>1. results # << >>
    BY RuleAssumption DEF RuleTypeOK, FoundSoFar
  <2>2. /\ firing <=> SaysYes(Fired)
        /\ noDataFound <=> SaysYes(HadNoData)
        /\ ~error /\ state = getNewState
    BY <2>1 DEF FoundSoFar, Evaluated
  <2>3. 1 \in 1..Len(results)
    BY <2>1 DEF RuleTypeOK
  <2>4. DOMAIN Fired = 1..Len(results) /\ DOMAIN HadNoData = 1..Len(results)
    BY DEF Fired, HadNoData
  <2>5. ASSUME \A k \in 1..Len(results) : HadNoData[k] /\ ~Fired[k]
        PROVE  state = KeepOr(noDataState)
    <3>1. ~SaysYes(Fired)
      BY <2>4, <2>5 DEF SaysYes
    <3>2. SaysYes(HadNoData)
      BY <2>3, <2>4, <2>5 DEF SaysYes
    <3> QED BY <2>2, <3>1, <3>2 DEF getNewState
  <2>6. ASSUME \A k \in 1..Len(results) : ~HadNoData[k]
        PROVE  state \in {"ok", "alerting"}
    <3>1. ~SaysYes(HadNoData)
      BY <2>4, <2>6 DEF SaysYes
    <3> QED BY <2>2, <3>1 DEF getNewState
  <2> QED BY <2>5, <2>6
<1> QED BY <1>1, TypeCorrect, FoundSoFarInvariant, PTL

\* While an evaluation has not come to its conclusion the rule keeps the
\* state it started from.
KeepsPrev == progress \in {"loop", "conclude"} => state = prev

\* No evaluation makes a rule pending or paused.
THEOREM NeverPendingAgain == RuleSpec => LeavesForGood
<1>1. RuleInit => KeepsPrev
  BY DEF RuleInit, KeepsPrev
<1>2. KeepsPrev /\ [RuleNext]_ruleVars => KeepsPrev'
  BY DEF KeepsPrev, RuleNext, Condition, ConditionFails, ConditionPanics, Conclude,
         NewEvalContext, ruleVars
<1>3. RuleTypeOK /\ KeepsPrev /\ [RuleNext]_ruleVars
        => [state # state' => state' \notin {"pending", "paused"}]_ruleVars
  <2> SUFFICES ASSUME RuleTypeOK, KeepsPrev, RuleNext, state # state'
               PROVE  state' \notin {"pending", "paused"}
    BY DEF ruleVars
  <2>1. Conclude
    BY DEF RuleNext, Condition, ConditionFails, ConditionPanics, NewEvalContext
  <2>2. state' = getNewState /\ state = prev
    BY <2>1 DEF Conclude, KeepsPrev
  <2>3. KeepOr(noDataState) \in {"ok", "no_data", "alerting", state}
    BY <2>2 DEF RuleTypeOK, KeepOr, NoDataOptions
  <2>4. KeepOr(executionErrorState) \in {"alerting", state}
    BY <2>2 DEF RuleTypeOK, KeepOr, ErrorOptions
  <2> QED BY <2>2, <2>3, <2>4 DEF getNewState
<1> QED BY <1>1, <1>2, <1>3, TypeCorrect, PTL DEF RuleSpec, LeavesForGood

\* The three together: an evaluation that ends leaves the rule in the state
\* that its conditions and options ask for, for rules of any length.
THEOREM RuleIsRight ==
  ASSUME FirstIsAnd
  PROVE  RuleSpec => RuleRight
BY FiresSerially, NoDataOptionDecides, NeverPendingAgain, PTL DEF RuleRight

-----------------------------------------------------------------------------
(* Notifiers *)

\* What the variables of an announcement hold while it is made.
RoundRight ==
  /\ DOMAIN rows = Ids /\ DOMAIN round = {"phase", "alert", "state", "image"}
  /\ round.phase \in {"idle", "send", "upload", "notify"}
  /\ round.phase \in {"send", "upload"} =>
       embedded = {} /\ tried = {} /\ disk = "" /\ round.image = ""
  /\ round.phase = "upload" => \A n \in DOMAIN steps : steps[n] = "notify"

\* A channel of Slack that leaves the path of the stock image behind.
Stocks(n) == rows[n].type = "slack" /\ rows[n].token
MayBeStock == round.image = "" /\ \E n \in DOMAIN steps : Stocks(n)

\* How far each goroutine has come.
StepRight(n) ==
  /\ steps[n] \in {"notify", "file", "done", "failed", "lost"}
  /\ steps[n] = "file" => n \in tried /\ Stocks(n)
  /\ steps[n] = "failed" /\ n \notin tried => Message(rows[n], round.state, round.alert).url
  /\ steps[n] = "lost" => rows[n].type = "opsgenie"

ImagesRight ==
  /\ disk # round.image => MayBeStock
  /\ \A i \in embedded : i # round.image => MayBeStock

NotifyRight == round.phase = "notify" => ImagesRight /\ \A n \in DOMAIN steps : StepRight(n)

\* A message does not change while it is sent.
LEMMA MessageKept ==
  ASSUME UNCHANGED <<rows, rules, round>>, NEW n
  PROVE  Message(rows[n], round.state, round.alert)' = Message(rows[n], round.state, round.alert)
BY DEF Message, dingding, email, hipchat, kafka, line, opsgenie, pagerduty, pushover,
       sensu, slack, teams, telegram, threema, victorops, webhook, WithUrl, Note, Nothing,
       NoKey, OfAlert

AnnounceInv == RoundRight /\ NotifyRight /\ TestTellsTruth

LEMMA AnnounceStart == NotifiersInit => AnnounceInv
<1> SUFFICES ASSUME NotifiersInit PROVE AnnounceInv
  OBVIOUS
<1>1. /\ DOMAIN rows = Ids /\ DOMAIN round = {"phase", "alert", "state", "image"}
      /\ round.phase = "idle" /\ answer.lost = {}
  BY ChannelsAssumption DEF NotifiersInit, Idle
<1> QED BY <1>1 DEF AnnounceInv, RoundRight, NotifyRight, TestTellsTruth

\* The edits come between two announcements.
LEMMA AnnounceEdit ==
  ASSUME AnnounceInv, ~ Busy, NEW n \in Ids, NEW c, Edit(n, c)
  PROVE  AnnounceInv'
<1>1. /\ UNCHANGED work /\ answer' = answer /\ DOMAIN rows' = Ids
      /\ round.phase = "idle"
  BY DEF Edit, Busy, AnnounceInv, RoundRight
<1> QED BY <1>1 DEF AnnounceInv, RoundRight, NotifyRight, TestTellsTruth, work

LEMMA AnnounceUpdate ==
  ASSUME AnnounceInv, ~ Busy, NEW a \in Alerts, Update(a)
  PROVE  AnnounceInv'
<1>1. UNCHANGED <<rows, work, answer>> /\ round.phase = "idle"
  BY DEF Update, Busy, AnnounceInv, RoundRight
<1> QED BY <1>1 DEF AnnounceInv, RoundRight, NotifyRight, TestTellsTruth, work

LEMMA AnnounceHandle ==
  ASSUME AnnounceInv, NEW a \in Alerts, handle(a)
  PROVE  AnnounceInv'
<1>1. PICK s \in States :
        round' = IF announced[a] = "pending" /\ s = "ok" THEN Idle
                 ELSE [phase |-> "send", alert |-> a, state |-> s, image |-> ""]
  BY DEF handle
<1>2. /\ UNCHANGED <<rows, answer>> /\ embedded' = {} /\ tried' = {} /\ disk' = ""
  BY DEF handle
<1>3. RoundRight' /\ round'.phase \in {"idle", "send"}
  BY <1>1, <1>2 DEF AnnounceInv, RoundRight, Idle
<1> QED BY <1>2, <1>3 DEF AnnounceInv, NotifyRight, TestTellsTruth

LEMMA AnnounceChoose ==
  ASSUME AnnounceInv, getNotifiers
  PROVE  AnnounceInv'
<1>1. /\ round.phase = "send" /\ UNCHANGED <<rows, answer, disk, embedded, tried>>
      /\ embedded = {} /\ tried = {} /\ disk = "" /\ round.image = ""
      /\ DOMAIN round = {"phase", "alert", "state", "image"}
  BY DEF getNotifiers, AnnounceInv, RoundRight
<1>2. CASE Finish
  BY <1>1, <1>2 DEF Finish, Idle, AnnounceInv, RoundRight, NotifyRight, TestTellsTruth
<1>3. CASE ~ Finish
  <2>1. PICK phase \in {"upload", "notify"} :
          /\ steps' = [n \in Due(round.alert) |-> "notify"]
          /\ round' = [round EXCEPT !.phase = phase]
    BY <1>3 DEF getNotifiers
  <2>2. /\ \A n \in DOMAIN steps' : steps'[n] = "notify"
        /\ round'.phase = phase /\ round'.image = ""
        /\ DOMAIN round' = {"phase", "alert", "state", "image"}
    BY <1>1, <2>1
  <2>3. RoundRight'
    BY <1>1, <2>2 DEF AnnounceInv, RoundRight
  <2>4. NotifyRight'
    BY <1>1, <2>2 DEF NotifyRight, ImagesRight, StepRight
  <2> QED BY <1>1, <2>3, <2>4 DEF AnnounceInv, TestTellsTruth
<1> QED BY <1>2, <1>3

LEMMA AnnounceUpload ==
  ASSUME AnnounceInv, uploadImage
  PROVE  AnnounceInv'
<1>1. /\ round.phase = "upload" /\ UNCHANGED <<rows, answer, steps, embedded, tried>>
      /\ round' = [round EXCEPT !.phase = "notify", !.image = disk']
      /\ embedded = {} /\ DOMAIN round = {"phase", "alert", "state", "image"}
      /\ \A n \in DOMAIN steps : steps[n] = "notify"
  BY DEF uploadImage, AnnounceInv, RoundRight
<1>2. /\ round'.phase = "notify" /\ round'.image = disk'
      /\ DOMAIN round' = {"phase", "alert", "state", "image"}
  BY <1>1
<1>3. RoundRight'
  BY <1>1, <1>2 DEF AnnounceInv, RoundRight
<1>4. NotifyRight'
  BY <1>1, <1>2 DEF NotifyRight, ImagesRight, StepRight
<1> QED BY <1>1, <1>3, <1>4 DEF AnnounceInv, TestTellsTruth

\* What a goroutine leaves behind when it has sent its message.
LEMMA NotifyStep ==
  ASSUME AnnounceInv, NEW n \in Ids, Notify(n)
  PROVE  /\ round.phase = "notify" /\ n \in DOMAIN steps
         /\ DOMAIN steps' = DOMAIN steps /\ \A o \in DOMAIN steps \ {n} : steps'[o] = steps[o]
         /\ tried \subseteq tried' /\ StepRight(n)'
         /\ \A i \in embedded' : i \in embedded \/ i = disk
<1> DEFINE c == rows[n]
           m == Message(c, round.state, round.alert)
<1>1. /\ round.phase = "notify" /\ n \in DOMAIN steps /\ steps[n] = "notify" /\ StepRight(n)
      /\ UNCHANGED <<rows, rules, round>>
  BY DEF Notify, AnnounceInv, NotifyRight
<1>2. Message(c, round.state, round.alert)' = m
  BY <1>1, MessageKept
<1>3. CASE UNCHANGED <<steps, tried, embedded>>
  BY <1>1, <1>2, <1>3 DEF StepRight, Stocks
<1>4. CASE m.url /\ steps' = Failed(n) /\ UNCHANGED <<tried, embedded>>
  BY <1>1, <1>2, <1>4 DEF StepRight, Failed, After
<1>5. CASE /\ steps' = After(n, "done") /\ tried' = tried \cup {n} /\ UNCHANGED embedded
  BY <1>1, <1>5 DEF StepRight, After
<1>6. CASE /\ tried' = tried \cup {n}
           /\ embedded' = IF c.type = "email" /\ public = "" /\ disk # ""
                          THEN embedded \cup {disk} ELSE embedded
           /\ \E ok \in Delivered(c) :
                steps' = IF Returns(c, m, ok) = "failed" THEN Failed(n)
                         ELSE After(n, Returns(c, m, ok))
  <2>1. PICK ok : steps' = IF Returns(c, m, ok) = "failed" THEN Failed(n)
                           ELSE After(n, Returns(c, m, ok))
    BY <1>6
  <2>2. /\ Returns(c, m, ok) \in {"file", "done", "failed", "lost"}
        /\ Returns(c, m, ok) = "file" => c.type = "slack" /\ c.token
        /\ Returns(c, m, ok) = "lost" => c.type = "opsgenie"
    BY DEF Returns
  <2>3. steps' = [steps EXCEPT ![n] = Returns(c, m, ok)]
    BY <2>1 DEF Failed, After
  <2>4. StepRight(n)'
    BY <1>1, <1>6, <2>2, <2>3 DEF StepRight, Stocks
  <2> QED BY <1>1, <1>6, <2>3, <2>4
<1> HIDE DEF m
<1> QED BY <1>3, <1>4, <1>5, <1>6 DEF Notify, m

LEMMA AnnounceNotify ==
  ASSUME AnnounceInv, NEW n \in Ids, Notify(n)
  PROVE  AnnounceInv'
<1>1. UNCHANGED <<rows, rules, round, disk, answer>>
  BY DEF Notify
<1>2. \A o \in DOMAIN steps \ {n} : StepRight(o)'
  <2> SUFFICES ASSUME NEW o \in DOMAIN steps \ {n} PROVE StepRight(o)'
    OBVIOUS
  <2>1. StepRight(o) /\ steps'[o] = steps[o] /\ tried \subseteq tried'
    BY NotifyStep DEF AnnounceInv, NotifyRight
  <2>2. Message(rows[o], round.state, round.alert)' = Message(rows[o], round.state, round.alert)
    BY <1>1, MessageKept
  <2> QED BY <1>1, <2>1, <2>2 DEF StepRight, Stocks
<1>3. ImagesRight'
  BY <1>1, NotifyStep DEF AnnounceInv, NotifyRight, ImagesRight, MayBeStock, Stocks
<1> QED BY <1>1, <1>2, <1>3, NotifyStep DEF AnnounceInv, RoundRight, NotifyRight, TestTellsTruth

LEMMA AnnounceFile ==
  ASSUME AnnounceInv, NEW n \in Ids, SlackFileUpload(n)
  PROVE  AnnounceInv'
<1>1. /\ UNCHANGED <<rows, rules, round, embedded, tried, answer>>
      /\ round.phase = "notify" /\ n \in DOMAIN steps /\ steps[n] = "file"
      /\ disk' = IF disk = "" THEN "stock" ELSE disk
      /\ DOMAIN steps' = DOMAIN steps /\ steps'[n] \in {"done", "failed"}
      /\ \A o \in DOMAIN steps \ {n} : steps'[o] = steps[o]
  BY DEF SlackFileUpload, After, Failed
<1>2. n \in tried /\ Stocks(n) /\ ImagesRight
  BY <1>1 DEF AnnounceInv, NotifyRight, StepRight
<1>3. \A o \in DOMAIN steps' : StepRight(o)'
  <2> SUFFICES ASSUME NEW o \in DOMAIN steps PROVE StepRight(o)'
    BY <1>1
  <2>1. StepRight(o)
    BY <1>1 DEF AnnounceInv, NotifyRight
  <2>2. Message(rows[o], round.state, round.alert)' = Message(rows[o], round.state, round.alert)
    BY <1>1, MessageKept
  <2> QED BY <1>1, <1>2, <2>1, <2>2 DEF StepRight, Stocks
<1>4. ImagesRight'
  BY <1>1, <1>2 DEF ImagesRight, MayBeStock, Stocks
<1> QED BY <1>1, <1>3, <1>4 DEF AnnounceInv, RoundRight, NotifyRight, TestTellsTruth

LEMMA AnnounceWait ==
  ASSUME AnnounceInv, Wait
  PROVE  AnnounceInv'
<1>1. /\ round.phase = "notify" /\ round' = Idle /\ rows' = rows
      /\ \A n \in DOMAIN steps : steps[n] \notin {"notify", "file"} /\ StepRight(n)
  BY DEF Wait, Finish, AnnounceInv, NotifyRight
<1>2. RoundRight' /\ NotifyRight'
  BY <1>1 DEF AnnounceInv, RoundRight, NotifyRight, Idle
<1>3. TestTellsTruth'
  <2>1. CASE answer' = answer
    BY <2>1 DEF AnnounceInv, TestTellsTruth
  <2>2. CASE answer' = [ok |-> \A n \in DOMAIN steps : steps[n] # "failed",
                        lost |-> {rows[n].type : n \in {o \in DOMAIN steps : steps[o] # "done"}}]
    <3>1. answer'.lost = {rows[n].type : n \in {o \in DOMAIN steps : steps[o] # "done"}}
      BY <2>2
    <3>2. answer'.ok <=> \A n \in DOMAIN steps : steps[n] # "failed"
      BY <2>2
    <3>3. \A n \in DOMAIN steps : steps[n] \in {"done", "failed"} \/ rows[n].type = "opsgenie"
      BY <1>1 DEF StepRight
    <3> QED BY <3>1, <3>2, <3>3 DEF TestTellsTruth
  <2> QED BY <2>1, <2>2 DEF Wait
<1> QED BY <1>2, <1>3 DEF AnnounceInv

LEMMA AnnounceTest ==
  ASSUME AnnounceInv, NEW n \in Ids, handleNotificationTestCommand(n)
  PROVE  AnnounceInv'
<1>1. /\ ~ Busy /\ UNCHANGED <<rows, answer>> /\ disk' = "" /\ embedded' = {} /\ tried' = {}
  BY DEF handleNotificationTestCommand
<1>2. CASE /\ round' = [phase |-> "notify", alert |-> TestAlert, state |-> "alerting", image |-> ""]
           /\ steps' = [o \in {n} |-> "notify"]
  <2>1. \A o \in DOMAIN steps' : steps'[o] = "notify"
    BY <1>2
  <2>2. RoundRight'
    BY <1>1, <1>2 DEF AnnounceInv, RoundRight
  <2>3. NotifyRight'
    BY <1>1, <1>2, <2>1 DEF NotifyRight, ImagesRight, StepRight
  <2> QED BY <1>1, <2>2, <2>3 DEF AnnounceInv, TestTellsTruth
<1>3. CASE UNCHANGED <<round, steps>>
  BY <1>1, <1>3 DEF AnnounceInv, RoundRight, NotifyRight, TestTellsTruth, Busy
<1> QED BY <1>2, <1>3 DEF handleNotificationTestCommand

LEMMA AnnounceNext == AnnounceInv /\ [NotifiersNext]_notifiersVars => AnnounceInv'
<1> SUFFICES ASSUME AnnounceInv, [NotifiersNext]_notifiersVars PROVE AnnounceInv'
  OBVIOUS
<1>1. CASE UNCHANGED notifiersVars
  <2>1. UNCHANGED <<rows, rules, round, steps, disk, embedded, tried, answer>>
    BY <1>1 DEF notifiersVars, work
  <2>2. RoundRight' /\ ImagesRight' = ImagesRight /\ TestTellsTruth'
    BY <2>1 DEF AnnounceInv, RoundRight, TestTellsTruth, ImagesRight, MayBeStock, Stocks
  <2>3. ASSUME NEW n \in DOMAIN steps, StepRight(n) PROVE StepRight(n)'
    <3>1. Message(rows[n], round.state, round.alert)' = Message(rows[n], round.state, round.alert)
      BY <2>1, MessageKept
    <3> QED BY <2>1, <2>3, <3>1 DEF StepRight, Stocks
  <2> QED BY <2>1, <2>2, <2>3 DEF AnnounceInv, NotifyRight
<1>2. ASSUME NEW n \in Ids, ~ Busy,
             \/ CreateAlertNotificationCommand(n) \/ UpdateAlertNotification(n)
             \/ DeleteAlertNotification(n)
      PROVE  AnnounceInv'
  <2>1. PICK c : Edit(n, c)
    BY <1>2 DEF CreateAlertNotificationCommand, UpdateAlertNotification, DeleteAlertNotification
  <2> QED BY <1>2, <2>1, AnnounceEdit
<1> QED BY <1>1, <1>2, AnnounceHandle, AnnounceUpdate, AnnounceChoose, AnnounceUpload, AnnounceNotify, AnnounceFile,
           AnnounceWait, AnnounceTest DEF NotifiersNext

\* An announcement tries every channel that is due, or none, and a test message
\* that reports success has reached its service.
THEOREM EveryChannelIsTold == NotifiersSpec => []ChannelsTold
<1>1. AnnounceInv => ChannelsTold
  BY DEF AnnounceInv, NotifyRight, StepRight, ChannelsTold, AllOrNone
<1> QED BY <1>1, AnnounceStart, AnnounceNext, PTL DEF NotifiersSpec

\* The image in a mail is the one of its alert, but for the stock image of Slack.
THEOREM OwnImageIsShown == NotifiersSpec => []MailShowsOwnImage
<1>1. AnnounceInv => MailShowsOwnImage
  BY DEF AnnounceInv, RoundRight, NotifyRight, ImagesRight, MayBeStock, Stocks, MailShowsOwnImage, Busy
<1> QED BY <1>1, AnnounceStart, AnnounceNext, PTL DEF NotifiersSpec

\* What the service behind channel n shows for an alert that it was told about.
Followed(a, n) ==
  Resolving(rows[n]) /\ ~ Shared(rows[n], a) =>
    /\ announced[a] = "alerting" => <<n, Key(rows[n], a)>> \in open
    /\ announced[a] = "ok" => <<n, Key(rows[n], a)>> \notin open

\* The alert that an open incident belongs to.
Explained(i) ==
  Resolving(rows[i[1]]) =>
    \E a \in Alerts \cup {TestAlert} : Key(rows[i[1]], a) = i[2] /\ ~ Closed(a, i[1])

\* The announcement under way is of the state that the alert has.
FollowInv ==
  /\ DOMAIN rows = Ids /\ DOMAIN told = Alerts /\ DOMAIN announced = Alerts
  /\ rules \in Namings
  /\ DOMAIN round = {"phase", "alert", "state", "image"}
  /\ Busy => \/ (round.alert \in Alerts /\ announced[round.alert] = round.state)
             \/ round.alert = TestAlert
  /\ \A a \in Alerts : told[a] \subseteq Ids /\ \A n \in told[a] : Followed(a, n)
  /\ \A i \in open : i = <<i[1], i[2]>>
  /\ \A i \in open \ stranded : Explained(i)

LEMMA KeyKept ==
  ASSUME NEW n, rows'[n] = rows[n], rules' = rules
  PROVE  /\ \A a : Key(rows[n], a)' = Key(rows[n], a)
         /\ \A a : Shared(rows[n], a)' = Shared(rows[n], a)
         /\ Resolving(rows[n])' = Resolving(rows[n])
<1>1. ASSUME NEW a PROVE Key(rows[n], a)' = Key(rows[n], a)
  BY DEF Key, OfAlert
<1>2. ASSUME NEW a PROVE Shared(rows[n], a)' = Shared(rows[n], a)
  BY <1>1 DEF Shared
<1> QED BY <1>1, <1>2 DEF Resolving

LEMMA FollowedKept ==
  ASSUME UNCHANGED <<rows, rules, announced, open, told>>
  PROVE  /\ \A a, n : Followed(a, n)' = Followed(a, n)
         /\ \A i : Explained(i)' = Explained(i)
<1>1. ASSUME NEW a, NEW n PROVE Followed(a, n)' = Followed(a, n)
  <2>1. /\ Key(rows[n], a)' = Key(rows[n], a) /\ Shared(rows[n], a)' = Shared(rows[n], a)
        /\ Resolving(rows[n])' = Resolving(rows[n])
    BY KeyKept
  <2> QED BY <2>1 DEF Followed
<1>2. ASSUME NEW i PROVE Explained(i)' = Explained(i)
  <2>1. \A a : Key(rows[i[1]], a)' = Key(rows[i[1]], a)
    BY KeyKept
  <2>2. Resolving(rows[i[1]])' = Resolving(rows[i[1]]) /\ \A a : Closed(a, i[1])' = Closed(a, i[1])
    BY KeyKept DEF Closed
  <2> QED BY <2>1, <2>2 DEF Explained
<1> QED BY <1>1, <1>2

LEMMA FollowStart == NotifiersInit => FollowInv
<1> SUFFICES ASSUME NotifiersInit PROVE FollowInv
  OBVIOUS
<1>1. /\ DOMAIN rows = Ids /\ DOMAIN told = Alerts /\ DOMAIN announced = Alerts
      /\ rules \in Namings /\ open = {}
      /\ DOMAIN round = {"phase", "alert", "state", "image"} /\ ~ Busy
      /\ \A a \in Alerts : told[a] = {}
  BY ChannelsAssumption DEF NotifiersInit, Idle, Busy
<1> QED BY <1>1 DEF FollowInv

\* A step that leaves the channels, the alerts and the incidents as they are.
LEMMA FollowQuiet ==
  ASSUME FollowInv, UNCHANGED <<rows, rules, announced, open, stranded, told>>,
         DOMAIN round' = {"phase", "alert", "state", "image"},
         Busy' => (Busy /\ round'.alert = round.alert /\ round'.state = round.state)
                  \/ round'.alert = TestAlert
  PROVE  FollowInv'
<1>1. \A a \in Alerts : told[a] \subseteq Ids /\ \A n \in told[a] : Followed(a, n)'
  BY FollowedKept DEF FollowInv
<1>2. \A i \in open \ stranded : Explained(i)'
  BY FollowedKept DEF FollowInv
<1> QED BY <1>1, <1>2 DEF FollowInv, Busy

LEMMA FollowEdit ==
  ASSUME FollowInv, ~ Busy, NEW n \in Ids, NEW c, Edit(n, c)
  PROVE  FollowInv'
<1>1. /\ UNCHANGED <<rules, announced, round>> /\ DOMAIN rows' = Ids /\ ~ Busy'
      /\ \A o : o # n => rows'[o] = rows[o]
      /\ DOMAIN told' = Alerts /\ \A a \in Alerts : told'[a] = told[a] \ {n}
      /\ open' = {i \in open : i[1] # n} /\ stranded' = stranded \cap open'
  <2>1. \A o : o # n => rows'[o] = rows[o]
    BY DEF Edit, FollowInv
  <2> QED BY <2>1 DEF Edit, FollowInv, work, Busy
<1>2. ASSUME NEW a \in Alerts, NEW o \in told'[a] PROVE Followed(a, o)'
  <2>1. o # n /\ Followed(a, o)
    BY <1>1, <1>2 DEF FollowInv
  <2>2. rows'[o] = rows[o]
    BY <1>1, <2>1
  <2>3. \A k : <<o, k>> \in open' <=> <<o, k>> \in open
    BY <1>1, <2>1
  <2> QED BY <1>1, <2>1, <2>2, <2>3, KeyKept DEF Followed
<1>3. ASSUME NEW i \in open' \ stranded' PROVE Explained(i)'
  <2>1. i[1] # n /\ Explained(i) /\ rows'[i[1]] = rows[i[1]]
    BY <1>1, <1>3 DEF FollowInv
  <2>2. \A a : Closed(a, i[1])' => Closed(a, i[1])
    BY <1>1, <2>1 DEF Closed
  <2> QED BY <1>1, <2>1, <2>2, KeyKept DEF Explained
<1> QED BY <1>1, <1>2, <1>3 DEF FollowInv

\* Whoever has an incident that changes hands has yet to be told of it.
LEMMA FollowUpdate ==
  ASSUME FollowInv, ~ Busy, NEW a \in Alerts, Update(a)
  PROVE  FollowInv'
<1> DEFINE Kept(n) == Key(rows[n], a)' = Key(rows[n], a)
           All == Alerts \cup {TestAlert}
<1>1. /\ UNCHANGED <<rows, announced, round, open>> /\ ~ Busy' /\ rules' \in Namings
      /\ DOMAIN told' = Alerts
      /\ \A b \in Alerts : told'[b] =
           {n \in told[b] : Kept(n) \/ Key(rows[n], b) \notin {Key(rows[n], a), Key(rows[n], a)'}}
      /\ stranded' = stranded \cup {i \in open : i[2] = Key(rows[i[1]], a) /\ ~ Kept(i[1])}
  BY DEF Update, work, Busy
<1>2. ASSUME NEW n, NEW b \in All, b # a PROVE Key(rows[n], b)' = Key(rows[n], b)
  <2>1. DOMAIN rules = All /\ rules'[b] = rules[b]
    BY <1>2, ChannelsAssumption DEF FollowInv, Update
  <2> QED BY <1>1, <2>1 DEF Key, OfAlert
<1>3. ASSUME NEW b \in Alerts, NEW n \in told'[b] PROVE Followed(b, n)'
  <2>1. n \in told[b] /\ Followed(b, n)
    BY <1>1, <1>3 DEF FollowInv
  <2>2. /\ Resolving(rows[n])' = Resolving(rows[n])
        /\ \A k : <<n, k>> \in open' <=> <<n, k>> \in open
    BY <1>1 DEF Resolving
  <2>3. Key(rows[n], b)' = Key(rows[n], b)
    BY <1>1, <1>2, <1>3
  <2>4. Shared(rows[n], b) => Shared(rows[n], b)'
    <3> SUFFICES ASSUME NEW x \in All \ {b}, Key(rows[n], x) = Key(rows[n], b)
                 PROVE  Shared(rows[n], b)'
      BY DEF Shared
    <3>1. Key(rows[n], x)' = Key(rows[n], x)
      BY <1>1, <1>2, <1>3
    <3> QED BY <2>3, <3>1 DEF Shared
  <2> HIDE DEF Kept
  <2> QED BY <1>1, <2>1, <2>2, <2>3, <2>4 DEF Followed
<1>4. ASSUME NEW i \in open' \ stranded' PROVE Explained(i)'
  <2>1. i \in open \ stranded /\ Explained(i) /\ (i[2] = Key(rows[i[1]], a) => Kept(i[1]))
    BY <1>1, <1>4 DEF FollowInv
  <2>2. \A x : Closed(x, i[1])' => Closed(x, i[1])
    BY <1>1 DEF Closed
  <2>3. ASSUME Resolving(rows[i[1]])'
        PROVE  \E x \in All : Key(rows[i[1]], x)' = i[2] /\ ~ Closed(x, i[1])'
    <3>1. PICK x \in All : Key(rows[i[1]], x) = i[2] /\ ~ Closed(x, i[1])
      BY <1>1, <2>1, <2>3 DEF Explained, Resolving
    <3>2. Key(rows[i[1]], x)' = i[2]
      BY <1>2, <2>1, <3>1
    <3> QED BY <2>2, <3>1, <3>2
  <2> QED BY <2>3 DEF Explained
<1> QED BY <1>1, <1>3, <1>4 DEF FollowInv

LEMMA FollowHandle ==
  ASSUME FollowInv, NEW a \in Alerts, handle(a)
  PROVE  FollowInv'
<1>1. PICK s \in States :
        /\ announced' = [announced EXCEPT ![a] = s]
        /\ round' = IF announced[a] = "pending" /\ s = "ok" THEN Idle
                    ELSE [phase |-> "send", alert |-> a, state |-> s, image |-> ""]
  BY DEF handle
<1>2. /\ UNCHANGED <<rows, rules, open, stranded>> /\ told' = [told EXCEPT ![a] = {}]
  BY DEF handle
<1>3. /\ DOMAIN told' = Alerts /\ DOMAIN announced' = Alerts /\ announced'[a] = s
      /\ told'[a] = {}
      /\ \A b \in Alerts \ {a} : told'[b] = told[b] /\ announced'[b] = announced[b]
  BY <1>1, <1>2 DEF FollowInv
<1>4. /\ DOMAIN round' = {"phase", "alert", "state", "image"}
      /\ Busy' => round'.alert = a /\ round'.state = s
  BY <1>1 DEF Idle, Busy
<1>5. ASSUME NEW b \in Alerts, NEW o \in told'[b] PROVE Followed(b, o)'
  <2>1. Followed(b, o) /\ announced'[b] = announced[b]
    BY <1>3, <1>5 DEF FollowInv
  <2> QED BY <1>2, <2>1, KeyKept DEF Followed
<1>6. ASSUME NEW i \in open' \ stranded' PROVE Explained(i)'
  <2>1. Explained(i)
    BY <1>2, <1>6 DEF FollowInv
  <2>2. \A b : Closed(b, i[1])' => Closed(b, i[1])
    BY <1>3 DEF Closed
  <2> QED BY <1>2, <2>1, <2>2, KeyKept DEF Explained
<1> QED BY <1>2, <1>3, <1>4, <1>5, <1>6 DEF FollowInv

\* A message is about the incident with the key of the alert.
LEMMA MessageKey ==
  ASSUME NEW c, Resolving(c), NEW s, NEW a
  PROVE  LET m == Message(c, s, a) IN
         /\ m.event # "nothing" => m.key = Key(c, a) /\ m.event \in {"trigger", "resolve"}
         /\ s = "alerting" => m.event = "trigger"
         /\ s = "ok" => m.event = "resolve"
<1>1. CASE c.type = "sensu"
  BY <1>1 DEF Message, sensu, Key, OfAlert
<1>0. c.type \in {"opsgenie", "pagerduty"} => Key(c, a) = OfAlert(a)
  BY DEF Key
<1>2. CASE c.type = "opsgenie" /\ c.auto
  <2>1. Message(c, s, a) = opsgenie(c, s, a)
    BY <1>2 DEF Message
  <2>2. CASE s = "alerting"
    BY <1>0, <1>2, <2>1, <2>2 DEF opsgenie
  <2>3. CASE s = "ok"
    BY <1>0, <1>2, <2>1, <2>3 DEF opsgenie
  <2>4. CASE s # "alerting" /\ s # "ok"
    <3>1. opsgenie(c, s, a) = Nothing
      BY <2>4 DEF opsgenie
    <3>2. Nothing.event = "nothing"
      BY DEF Nothing
    <3> QED BY <2>1, <2>4, <3>1, <3>2
  <2> QED BY <2>2, <2>3, <2>4
<1>3. CASE c.type = "pagerduty" /\ c.auto
  <2>1. Message(c, s, a) = pagerduty(c, s, a)
    BY <1>3 DEF Message
  <2> QED BY <1>0, <1>3, <2>1 DEF pagerduty
<1>4. CASE c.type = "victorops" /\ c.auto
  <2>1. Message(c, s, a) = victorops(c, s, rules[a].name)
    BY <1>4 DEF Message
  <2>2. Key(c, a) = [source |-> "", name |-> rules[a].name]
    BY <1>4 DEF Key
  <2>3. victorops(c, s, rules[a].name) =
          [event |-> IF s = "ok" THEN "resolve" ELSE "trigger", key |-> Key(c, a), url |-> TRUE]
    BY <1>4, <2>2 DEF victorops
  <2> QED BY <2>1, <2>3
<1> QED BY <1>1, <1>2, <1>3, <1>4 DEF Resolving

\* Only the incident with that key changes, and a channel that is told shows it right.
LEMMA NotifyFollowed ==
  ASSUME FollowInv, NEW n \in Ids, Notify(n)
  PROVE  /\ Busy /\ DOMAIN told' = Alerts
         /\ \A a \in Alerts : told'[a] \subseteq told[a] \cup {n}
         /\ \A a \in Alerts : \A o \in told'[a] : Followed(a, o)'
         /\ \A i \in open' : i = <<i[1], i[2]>>
         /\ \A i \in open' \ stranded' : Explained(i)'
<1> DEFINE c == rows[n]
           b == round.alert
           m == Message(c, round.state, b)
<1>1. /\ Busy /\ UNCHANGED <<rows, rules, announced, round>>
  BY DEF Notify, Busy
<1>2. /\ (b \in Alerts /\ announced[b] = round.state) \/ b = TestAlert
      /\ DOMAIN told = Alerts /\ TestAlert \notin Alerts
  BY <1>1, ChannelsAssumption DEF FollowInv
<1>3. CASE UNCHANGED <<open, stranded, told>>
  <2>1. \A a \in Alerts : \A o \in told'[a] : Followed(a, o)'
    BY <1>1, <1>3, FollowedKept DEF FollowInv
  <2>2. \A i \in open' \ stranded' : Explained(i)'
    BY <1>1, <1>3, FollowedKept DEF FollowInv
  <2> QED BY <1>1, <1>2, <1>3, <2>1, <2>2 DEF FollowInv
<1>4. CASE /\ UNCHANGED <<open, stranded>> \/ (m.event # "nothing" /\ Effect(n, m))
           /\ told' = told \/ /\ b \in Alerts /\ told' = [told EXCEPT ![b] = @ \cup {n}]
                              /\ m.event = "nothing" \/ Effect(n, m)
  <2>1. /\ DOMAIN told' = Alerts
        /\ \A a \in Alerts : told'[a] = told[a] \/ (a = b /\ told'[a] = told[a] \cup {n})
    <3>1. CASE told' = told
      BY <1>2, <3>1
    <3>2. CASE b \in Alerts /\ told' = [told EXCEPT ![b] = @ \cup {n}]
      BY <1>2, <3>2
    <3> QED BY <1>4, <3>1, <3>2
  <2>2. ASSUME NEW a \in Alerts, NEW o \in told'[a],
               Resolving(rows[o]),
               ~ Shared(rows[o], a)
        PROVE  /\ announced[a] = "alerting" => <<o, Key(rows[o], a)>> \in open'
               /\ announced[a] = "ok" => <<o, Key(rows[o], a)>> \notin open'
    <3> HIDE DEF m
    <3>1. CASE o = n /\ a = b
      <4>1. /\ m.event # "nothing" => m.key = Key(c, a) /\ m.event \in {"trigger", "resolve"}
            /\ announced[a] = "alerting" => m.event = "trigger"
            /\ announced[a] = "ok" => m.event = "resolve"
        BY <1>2, <2>2, <3>1, MessageKey DEF m
      <4>2. CASE o \in told[a]
        <5>1. Followed(a, o)
          BY <4>2 DEF FollowInv
        <5> QED BY <1>4, <2>2, <3>1, <4>1, <5>1 DEF Followed, Effect
      <4>3. CASE o \notin told[a]
        <5>1. m.event = "nothing" \/ Effect(n, m)
          BY <1>4, <4>3
        <5> QED BY <3>1, <4>1, <5>1 DEF Effect
      <4> QED BY <4>2, <4>3
    <3>2. CASE o # n \/ a # b
      <4>1. o \in told[a] /\ Followed(a, o)
        BY <2>1, <2>2, <3>2 DEF FollowInv
      <4>2. <<o, Key(rows[o], a)>> \in open' <=> <<o, Key(rows[o], a)>> \in open
        <5>1. CASE open' = open
          BY <5>1
        <5>2. CASE o # n /\ Effect(n, m)
          BY <5>2 DEF Effect
        <5>3. CASE o = n /\ a # b /\ m.event # "nothing" /\ Effect(n, m)
          <6>1. m.key = Key(c, b) /\ Key(c, b) # Key(c, a)
            BY <1>2, <2>2, <5>3, MessageKey DEF m, Shared
          <6> QED BY <5>3, <6>1 DEF Effect
        <5> QED BY <1>4, <3>2, <5>1, <5>2, <5>3
      <4> QED BY <2>2, <4>1, <4>2 DEF Followed
    <3> QED BY <3>1, <3>2
  <2>3. \A a \in Alerts : \A o \in told'[a] : Followed(a, o)'
    BY <1>1, <2>2, KeyKept DEF Followed
  <2>4. \A i \in open' : i = <<i[1], i[2]>>
    BY <1>4 DEF FollowInv, Effect
  <2>5. ASSUME NEW i \in open' \ stranded' PROVE Explained(i)'
    <3> HIDE DEF m
    <3> SUFFICES ASSUME Resolving(rows[i[1]])
                 PROVE  \E x \in Alerts \cup {TestAlert} :
                          Key(rows[i[1]], x) = i[2] /\ ~ Closed(x, i[1])'
      BY <1>1, KeyKept DEF Explained
    <3>1. CASE i \in open \ stranded /\ ~ (i = <<n, m.key>> /\ Effect(n, m) /\ m.event # "nothing")
      <4>1. PICK x \in Alerts \cup {TestAlert} : Key(rows[i[1]], x) = i[2] /\ ~ Closed(x, i[1])
        BY <3>1 DEF FollowInv, Explained
      <4>2. ASSUME Closed(x, i[1])' PROVE FALSE
        <5>1. /\ x = b /\ i[1] = n /\ x \in Alerts /\ announced[x] = "ok"
              /\ told' # told
          BY <1>1, <2>1, <4>1, <4>2 DEF Closed
        <5>2. m.event = "resolve" /\ m.key = Key(c, b)
          BY <1>2, <5>1, MessageKey DEF m
        <5>3. Effect(n, m) /\ m.event # "nothing"
          BY <1>4, <5>1, <5>2
        <5>4. i = <<n, m.key>>
          BY <3>1, <4>1, <5>1, <5>2 DEF FollowInv
        <5> QED BY <3>1, <5>3, <5>4
      <4> QED BY <4>1, <4>2
    <3>2. CASE i = <<n, m.key>> /\ Effect(n, m) /\ m.event # "nothing"
      <4>1. m.event = "trigger" /\ m.key = Key(c, b) /\ round.state # "ok"
        BY <2>5, <3>2, MessageKey DEF m, Effect
      <4>2. PICK x \in Alerts \cup {TestAlert} : x = b
        BY <1>2
      <4>3. ~ Closed(x, i[1])'
        BY <1>1, <1>2, <4>1, <4>2 DEF Closed
      <4>4. Key(rows[i[1]], x) = i[2]
        BY <3>2, <4>1, <4>2
      <4> QED BY <4>3, <4>4
    <3>3. \/ i \in open \ stranded /\ ~ (i = <<n, m.key>> /\ Effect(n, m) /\ m.event # "nothing")
          \/ i = <<n, m.key>> /\ Effect(n, m) /\ m.event # "nothing"
      BY <1>4, <2>5 DEF Effect
    <3> QED BY <3>1, <3>2, <3>3
  <2> QED BY <1>1, <2>1, <2>3, <2>4, <2>5
<1>5. CASE m.event = "nothing" /\ UNCHANGED <<open, stranded>> /\ Reaches(n, TRUE)
  <2>1. told' = told \/ (b \in Alerts /\ told' = [told EXCEPT ![b] = @ \cup {n}])
    BY <1>5 DEF Reaches
  <2> HIDE DEF m
  <2> QED BY <1>4, <1>5, <2>1
<1>6. CASE m.event # "nothing" /\ \E ok \in Delivered(c) :
             /\ IF ok THEN Effect(n, m) ELSE UNCHANGED <<open, stranded>>
             /\ Reaches(n, ok)
  <2>1. PICK ok \in Delivered(c) :
          /\ IF ok THEN Effect(n, m) ELSE UNCHANGED <<open, stranded>>
          /\ Reaches(n, ok)
    BY <1>6
  <2>2. CASE ok
    BY <1>4, <1>6, <2>1, <2>2 DEF Reaches
  <2>3. CASE ~ ok
    BY <1>3, <2>1, <2>3 DEF Reaches
  <2> QED BY <2>2, <2>3
<1>7. \/ UNCHANGED <<open, stranded, told>>
      \/ (m.event = "nothing" /\ UNCHANGED <<open, stranded>> /\ Reaches(n, TRUE))
      \/ m.event # "nothing" /\ \E ok \in Delivered(c) :
             /\ IF ok THEN Effect(n, m) ELSE UNCHANGED <<open, stranded>>
             /\ Reaches(n, ok)
  <2> HIDE DEF m
  <2> QED BY DEF Notify, m
<1> HIDE DEF m
<1> QED BY <1>3, <1>5, <1>6, <1>7

LEMMA FollowNotify ==
  ASSUME FollowInv, NEW n \in Ids, Notify(n)
  PROVE  FollowInv'
<1>1. UNCHANGED <<rows, rules, announced, round>>
  BY DEF Notify
<1>2. \A a \in Alerts : told'[a] \subseteq Ids
  BY NotifyFollowed DEF FollowInv
<1> QED BY <1>1, <1>2, NotifyFollowed DEF FollowInv, Busy

LEMMA FollowNext == FollowInv /\ [NotifiersNext]_notifiersVars => FollowInv'
<1> SUFFICES ASSUME FollowInv, [NotifiersNext]_notifiersVars PROVE FollowInv'
  OBVIOUS
<1>0. DOMAIN round = {"phase", "alert", "state", "image"} /\ DOMAIN Idle = {"phase", "alert", "state", "image"}
      /\ Idle.phase = "idle"
  BY DEF FollowInv, Idle
<1>1. CASE UNCHANGED notifiersVars
  BY <1>0, <1>1, FollowQuiet DEF notifiersVars, work, Busy
<1>2. ASSUME NEW n \in Ids, ~ Busy,
             \/ CreateAlertNotificationCommand(n) \/ UpdateAlertNotification(n)
             \/ DeleteAlertNotification(n)
      PROVE  FollowInv'
  <2>1. PICK c : Edit(n, c)
    BY <1>2 DEF CreateAlertNotificationCommand, UpdateAlertNotification, DeleteAlertNotification
  <2> QED BY <1>2, <2>1, FollowEdit
<1>3. CASE getNotifiers
  <2>1. UNCHANGED <<rows, rules, announced, open, stranded, told>> /\ Busy
    BY <1>3 DEF getNotifiers, Busy
  <2>2. round' = Idle \/ \E phase : round' = [round EXCEPT !.phase = phase]
    BY <1>3 DEF getNotifiers, Finish
  <2> QED BY <1>0, <2>1, <2>2, FollowQuiet DEF Busy
<1>4. CASE uploadImage
  <2>1. UNCHANGED <<rows, rules, announced, open, stranded, told>> /\ Busy
    BY <1>4 DEF uploadImage, Busy
  <2>2. round' = [round EXCEPT !.phase = "notify", !.image = disk']
    BY <1>4 DEF uploadImage
  <2> QED BY <1>0, <2>1, <2>2, FollowQuiet
<1>5. CASE Wait
  <2>1. UNCHANGED <<rows, rules, announced, open, stranded, told>> /\ round' = Idle
    BY <1>5 DEF Wait, Finish
  <2> QED BY <1>0, <2>1, FollowQuiet DEF Busy
<1>6. ASSUME NEW n \in Ids, SlackFileUpload(n) PROVE FollowInv'
  <2>1. UNCHANGED <<rows, rules, announced, open, stranded, told, round>>
    BY <1>6 DEF SlackFileUpload
  <2> QED BY <1>0, <2>1, FollowQuiet DEF Busy
<1>7. ASSUME NEW n \in Ids, handleNotificationTestCommand(n) PROVE FollowInv'
  <2>1. UNCHANGED <<rows, rules, announced, open, stranded, told>>
    BY <1>7 DEF handleNotificationTestCommand
  <2>2. \/ round' = round
        \/ round' = [phase |-> "notify", alert |-> TestAlert, state |-> "alerting", image |-> ""]
    BY <1>7 DEF handleNotificationTestCommand
  <2>3. /\ DOMAIN round' = {"phase", "alert", "state", "image"}
        /\ (Busy' => Busy /\ round'.alert = round.alert /\ round'.state = round.state)
           \/ round'.alert = TestAlert
    <3>1. CASE round' = round
      BY <1>0, <3>1 DEF Busy
    <3>2. CASE round' = [phase |-> "notify", alert |-> TestAlert, state |-> "alerting", image |-> ""]
      BY <3>2
    <3> QED BY <2>2, <3>1, <3>2
  <2> QED BY <2>1, <2>3, FollowQuiet
<1> QED BY <1>1, <1>2, <1>3, <1>4, <1>5, <1>6, <1>7, FollowHandle, FollowUpdate, FollowNotify DEF NotifiersNext

\* The services that close incidents show what the last announcement said that
\* reached them, for any channels, alerts, losses and names that the rules are
\* given, unless the incident is shared; one that is open belongs to an alert
\* that is not known to be ok, or to a name that its rule has given up.
THEOREM IncidentsFollow == NotifiersSpec => []IncidentFollowsAlert
<1>1. FollowInv => IncidentFollowsAlert
  BY DEF FollowInv, Followed, Explained, IncidentFollowsAlert
<1> QED BY <1>1, FollowStart, FollowNext, PTL DEF NotifiersSpec
=============================================================================
