---------------------------- MODULE ServicesProofs ----------------------------
(***************************************************************************)
(* Theorems about what starts with the server: the ticker, the scheduler,  *)
(* the server process and the live hub.  The four share no state.          *)
(***************************************************************************)
EXTENDS Ticker, Scheduler, GrafanaServer, LiveHub, TLAPS

-------------------------------------------------------------------------------
(* The ticker, for every clock, creation time and offset, unbounded in time.*)

\* Every state of the ticker is well typed.
THEOREM TickerTypeCorrect == TickerSpec => []TickerTypeOK
<1>1. TickerInit => TickerTypeOK
  BY TickerAssumption DEF TickerInit, TickerTypeOK
<1>2. TickerTypeOK /\ [TickerNext]_tickerVars => TickerTypeOK'
  <2> SUFFICES ASSUME TickerTypeOK, [TickerNext]_tickerVars PROVE TickerTypeOK'
    OBVIOUS
  <2> USE TickerAssumption DEF TickerTypeOK
  <2>1. CASE Look
    <3>1. Unit \in Int /\ offset \in Int
      OBVIOUS
    <3> QED BY <2>1, <3>1 DEF Look, next, diff
  <2>2. CASE Send
    <3>1. Unit \in Int /\ last \in Int
      OBVIOUS
    <3>2. receiving' \in BOOLEAN /\ stage' = "look"
      BY <2>2, Zenon DEF Send
    <3>3. last' \in Int
      BY <2>2, <3>1 DEF Send, next
    <3> QED BY <2>2, <3>2, <3>3 DEF Send
  <2>3. CASE TimerFires
    BY <2>3 DEF TimerFires
  <2>4. ASSUME NEW o \in Offsets, NewOffset(o) PROVE TickerTypeOK'
    BY <2>4 DEF NewOffset
  <2>5. CASE Receive
    BY <2>5 DEF Receive
  <2>6. CASE TimePasses
    BY <2>6 DEF TimePasses
  <2>7. ASSUME NEW o \in Offsets, updateOffset(o) PROVE TickerTypeOK'
    BY <2>7 DEF updateOffset
  <2>8. CASE UNCHANGED tickerVars
    BY <2>8 DEF tickerVars
  <2> QED BY <2>1, <2>2, <2>3, <2>4, <2>5, <2>6, <2>7, <2>8 DEF TickerNext, Run
<1> QED BY <1>1, <1>2, PTL DEF TickerSpec

\* A tick on offer is old enough for the offset of the moment, and a sleeping
\* ticker wakes when its next tick is: the offset changes while run sleeps
\* and never while it sends.
THEOREM NeverTooYoung == TickerSpec => []NotTooYoung
<1>1. TickerInit => NotTooYoung
  BY DEF TickerInit, NotTooYoung
<1>2. TickerTypeOK /\ NotTooYoung /\ [TickerNext]_tickerVars => NotTooYoung'
  <2> SUFFICES ASSUME TickerTypeOK, NotTooYoung, [TickerNext]_tickerVars PROVE NotTooYoung'
    OBVIOUS
  <2> USE TickerAssumption DEF TickerTypeOK, NotTooYoung, next, diff
  <2>1. CASE Look
    BY <2>1 DEF Look
  <2>2. CASE Send
    BY <2>2 DEF Send
  <2>3. CASE TimerFires
    BY <2>3 DEF TimerFires
  <2>4. ASSUME NEW o \in Offsets, NewOffset(o) PROVE NotTooYoung'
    BY <2>4 DEF NewOffset
  <2>5. CASE Receive
    BY <2>5 DEF Receive
  <2>6. CASE TimePasses
    BY <2>6 DEF TimePasses
  <2>7. ASSUME NEW o \in Offsets, updateOffset(o) PROVE NotTooYoung'
    BY <2>7 DEF updateOffset
  <2>8. CASE UNCHANGED tickerVars
    BY <2>8 DEF tickerVars
  <2> QED BY <2>1, <2>2, <2>3, <2>4, <2>5, <2>6, <2>7, <2>8 DEF TickerNext, Run
<1> QED BY <1>1, <1>2, TickerTypeCorrect, PTL DEF TickerSpec

\* The receiver gets every second once, in order and not before its time,
\* however slow it is and whatever offsets are set.
THEOREM GivesTickStream == TickerSpec => IsTickStream
<1>1. TickerInit => Stream!Init
  BY TickerAssumption DEF TickerInit, Stream!Init
<1>2. TickerTypeOK /\ NotTooYoung /\ [TickerNext]_tickerVars => [Stream!Next]_Stream!vars
  <2> SUFFICES ASSUME TickerTypeOK, NotTooYoung, [TickerNext]_tickerVars
               PROVE  Stream!Next \/ UNCHANGED Stream!vars
    OBVIOUS
  <2>1. CASE Send
    <3>0. Unit \in Int /\ offset \in Int /\ clock \in Int /\ last \in Int
      BY TickerAssumption DEF TickerTypeOK
    <3>1. Stream!Give
      BY <2>1, <3>0 DEF Send, Stream!Give, NotTooYoung, next, diff
    <3> QED BY <3>1 DEF Stream!Next
  <2>2. ASSUME NEW o \in Offsets, NewOffset(o) PROVE Stream!Next
    BY <2>2 DEF NewOffset, Stream!Next, Stream!Adjust
  <2>3. CASE TimePasses
    BY <2>3 DEF TimePasses, Stream!Next, Stream!TimePasses, TickerTypeOK
  <2>4. CASE Look \/ TimerFires \/ Receive \/ \E o \in Offsets : updateOffset(o)
    BY <2>4 DEF Look, TimerFires, Receive, updateOffset, Stream!vars
  <2>5. CASE UNCHANGED tickerVars
    BY <2>5 DEF tickerVars, Stream!vars
  <2> QED BY <2>1, <2>2, <2>3, <2>4, <2>5 DEF TickerNext, Run
<1> QED
  BY <1>1, <1>2, TickerTypeCorrect, NeverTooYoung, PTL
  DEF TickerSpec, IsTickStream, Stream!Spec

-------------------------------------------------------------------------------
(* The scheduler, for all alerts, lists of rows, orders and frequencies.    *)

\* No rule gets offset 0.
LEMMA OffsetPositive ==
  ASSUME NEW frequency \in Nat, NEW n \in Nat \ {0}, NEW i \in Nat
  PROVE  OffsetOf(frequency, n, i) \in Nat \ {0}
<1> DEFINE step == (frequency * 1000) \div n
<1>1. frequency * 1000 \in Nat
  OBVIOUS
<1>2. step \in Nat
  BY <1>1
<1> HIDE DEF step
<1>3. step * i \in Nat
  BY <1>2
<1>4. (step * i) \div 1000 \in Nat
  BY <1>3
<1>5. Offset(frequency, n, i) \in Nat
  BY <1>4 DEF Offset, step
<1> QED BY <1>5 DEF OffsetOf

\* A job that Tick has looked at is a job, with the frequency it had.
LEMMA VisitedJob ==
  ASSUME NEW j \in Job
  PROVE  /\ Visited(j) \in Job
         /\ Visited(j).frequency = j.frequency
<1>1. [j EXCEPT !.wait = FALSE, !.queued = TRUE] \in Job
  BY DEF Job
<1>2. [j EXCEPT !.wait = TRUE] \in Job
  BY DEF Job
<1>3. [j EXCEPT !.queued = TRUE] \in Job
  BY DEF Job
<1>4. Visited(j) \in Job
  BY <1>1, <1>2, <1>3 DEF Visited
<1>5. Visited(j).frequency = j.frequency
  BY DEF Visited, Job
<1> QED BY <1>4, <1>5

\* A visit keeps the set of jobs and their frequencies, and leaves the jobs
\* it does not reach alone.
LEMMA VisitKeepsJobs ==
  ASSUME SchedulerTypeOK, NEW alerts \in SUBSET DOMAIN jobs, Visit(alerts)
  PROVE  /\ DOMAIN jobs' = DOMAIN jobs
         /\ \A a \in DOMAIN jobs : jobs'[a] \in Job
         /\ \A a \in DOMAIN jobs : jobs'[a].frequency = jobs[a].frequency
         /\ \A a \in alerts : jobs'[a] = Visited(jobs[a])
         /\ \A a \in DOMAIN jobs \ alerts : jobs'[a] = jobs[a]
         /\ begun' \subseteq AlertIds
<1>1. DOMAIN jobs' = DOMAIN jobs
  BY DEF Visit
<1>2. /\ \A a \in alerts : jobs'[a] = Visited(jobs[a])
      /\ \A a \in DOMAIN jobs \ alerts : jobs'[a] = jobs[a]
  BY DEF Visit
<1>3. ASSUME NEW a \in DOMAIN jobs
      PROVE  jobs'[a] \in Job /\ jobs'[a].frequency = jobs[a].frequency
  <2>1. jobs[a] \in Job
    BY DEF SchedulerTypeOK
  <2>2. CASE a \in alerts
    BY <1>2, <2>1, <2>2, VisitedJob
  <2>3. CASE a \notin alerts
    BY <1>2, <2>1, <2>3
  <2> QED BY <2>2, <2>3
<1>4. begun' \subseteq AlertIds
  BY DEF Visit, SchedulerTypeOK
<1> QED BY <1>1, <1>2, <1>3, <1>4

\* What Start and Finish make of a job is a job with the same frequency.
LEMMA ProcessKeepsJobs ==
  ASSUME SchedulerTypeOK, NEW p \in AlertIds, Process(p)
  PROVE  /\ DOMAIN jobs' = DOMAIN jobs
         /\ \A a \in DOMAIN jobs : jobs'[a] \in Job
         /\ \A a \in DOMAIN jobs : jobs'[a].frequency = jobs[a].frequency
         /\ \A a \in DOMAIN jobs : jobs'[a].wait = jobs[a].wait
<1>1. p \in DOMAIN jobs /\ \A a \in DOMAIN jobs : jobs[a] \in Job
  BY DEF SchedulerTypeOK, Process
<1>2. CASE StartEvaluation(p)
  <2> DEFINE j == [jobs[p] EXCEPT !.queued = FALSE, !.running = TRUE,
                                  !.held = TRUE]
  <2>1. j \in Job /\ j.frequency = jobs[p].frequency /\ j.wait = jobs[p].wait
    BY <1>1 DEF Job
  <2>2. jobs' = [jobs EXCEPT ![p] = j]
    BY <1>2 DEF StartEvaluation
  <2> HIDE DEF j
  <2> QED BY <1>1, <2>1, <2>2
<1>3. CASE FinishEvaluation(p)
  <2> DEFINE paused == jobs[p].paused /\ ~jobs[p].held
             j == [jobs[p] EXCEPT !.running = FALSE, !.held = FALSE,
                                  !.paused = paused]
  <2>0. paused \in BOOLEAN
    OBVIOUS
  <2>1. jobs' = [jobs EXCEPT ![p] = j]
    BY <1>3, Zenon DEF FinishEvaluation
  <2> HIDE DEF paused
  <2>2. j \in Job /\ j.frequency = jobs[p].frequency /\ j.wait = jobs[p].wait
    BY <1>1, <2>0 DEF Job
  <2> HIDE DEF j
  <2> QED BY <1>1, <2>1, <2>2
<1> QED BY <1>2, <1>3 DEF Process

\* A reload makes one job of every row.
LEMMA UpdateMakesJobs ==
  ASSUME SchedulerTypeOK, NEW rows \in RowLists, Update(rows)
  PROVE  /\ DOMAIN jobs' \subseteq AlertIds
         /\ \A a \in DOMAIN jobs' : jobs'[a] \in Job
         /\ \A a \in DOMAIN jobs' : jobs'[a].wait = JobOf(a).wait
<1>1. rows \in Seq(Row)
  BY SchedulerAssumption
<1>2. \A k \in DOMAIN rows : rows[k] \in Row /\ k \in 1..Len(rows)
  BY <1>1
<1>3. Len(rows) \in Nat
  BY <1>1
<1> DEFINE ids == {rows[i].id : i \in DOMAIN rows}
           at(a) == CHOOSE k \in DOMAIN rows : rows[k].id = a
           new(a) ==
             [frequency |-> rows[at(a)].frequency,
              paused |-> rows[at(a)].paused,
              offset |-> OffsetOf(rows[at(a)].frequency, Len(rows), at(a) - 1),
              wait |-> JobOf(a).wait, queued |-> JobOf(a).queued,
              running |-> JobOf(a).running, held |-> FALSE]
<1>4. jobs' = [a \in ids |-> new(a)]
  BY DEF Update
<1>5. ids \subseteq AlertIds
  BY <1>2 DEF Row
<1>6. ASSUME NEW a \in ids
      PROVE  new(a) \in Job /\ new(a).wait = JobOf(a).wait
  <2>1. at(a) \in DOMAIN rows
    OBVIOUS
  <2> HIDE DEF at
  <2>2. rows[at(a)].frequency \in Nat /\ rows[at(a)].paused \in BOOLEAN
    BY <1>2, <2>1 DEF Row
  <2>3. at(a) - 1 \in Nat /\ Len(rows) \in Nat \ {0}
    BY <1>2, <1>3, <2>1
  <2>4. OffsetOf(rows[at(a)].frequency, Len(rows), at(a) - 1) \in Nat \ {0}
    BY <2>2, <2>3, OffsetPositive
  <2>5. /\ JobOf(a).wait \in BOOLEAN
        /\ JobOf(a).queued \in BOOLEAN
        /\ JobOf(a).running \in BOOLEAN
    BY DEF SchedulerTypeOK, Job, JobOf, NewJob
  <2> QED BY <2>2, <2>4, <2>5 DEF Job
<1> HIDE DEF new, ids
<1> QED BY <1>4, <1>5, <1>6
\* Every reachable state is well typed; no job has offset 0.
THEOREM SchedulerTypeCorrect == SchedulerSpec => []SchedulerTypeOK
<1>1. SchedulerInit => SchedulerTypeOK
  BY SchedulerAssumption DEF SchedulerInit, SchedulerTypeOK
<1>2. SchedulerTypeOK /\ [SchedulerNext]_schedulerVars => SchedulerTypeOK'
  <2> SUFFICES ASSUME SchedulerTypeOK, [SchedulerNext]_schedulerVars PROVE SchedulerTypeOK'
    OBVIOUS
  <2> USE SchedulerAssumption DEF SchedulerTypeOK
  <2>1. CASE NextSecond
    <3>1. (timestamp + 1) % Cycle \in 0..(Cycle - 1)
      OBVIOUS
    <3>2. (count + 1) % ReloadEvery \in 0..(ReloadEvery - 1)
      OBVIOUS
    <3> QED BY <2>1, <3>1, <3>2 DEF NextSecond
  <2>2. ASSUME NEW rows \in RowLists, Update(rows) PROVE SchedulerTypeOK'
    BY <2>2, UpdateMakesJobs DEF Update
  <2>3. CASE TickAll
    BY <2>3, VisitKeepsJobs DEF TickAll, Visit
  <2>4. ASSUME NEW visited \in SUBSET DOMAIN jobs, TickPanics(visited)
        PROVE  SchedulerTypeOK'
    BY <2>4, VisitKeepsJobs DEF TickPanics, Visit
  <2>5. ASSUME NEW a \in AlertIds, Process(a) PROVE SchedulerTypeOK'
    BY <2>5, ProcessKeepsJobs DEF Process, StartEvaluation, FinishEvaluation
  <2>6. CASE UNCHANGED schedulerVars
    BY <2>6 DEF schedulerVars
  <2> QED BY <2>1, <2>2, <2>3, <2>4, <2>5, <2>6 DEF SchedulerNext, alertingTicker
<1> QED BY <1>1, <1>2, PTL DEF SchedulerSpec

\* Tick divides by zero only for a rule with frequency 0, whatever lists of
\* rows are fetched and in whatever order: no reload gives a job that waits
\* for its offset the offset 0.
THEOREM OnlyFrequencyZero == SchedulerSpec => []StopsOnlyForFrequencyZero
<1>1. SchedulerInit => StopsOnlyForFrequencyZero
  BY DEF SchedulerInit, StopsOnlyForFrequencyZero
<1>2. SchedulerTypeOK /\ StopsOnlyForFrequencyZero /\ [SchedulerNext]_schedulerVars
        => StopsOnlyForFrequencyZero'
  <2> SUFFICES ASSUME SchedulerTypeOK, StopsOnlyForFrequencyZero, [SchedulerNext]_schedulerVars
               PROVE  StopsOnlyForFrequencyZero'
    OBVIOUS
  <2> USE DEF StopsOnlyForFrequencyZero
  <2>1. CASE NextSecond
    BY <2>1 DEF NextSecond
  <2>2. ASSUME NEW rows \in RowLists, Update(rows)
        PROVE  StopsOnlyForFrequencyZero'
    BY <2>2 DEF Update
  <2>3. CASE TickAll
    BY <2>3 DEF TickAll
  <2>4. ASSUME NEW visited \in SUBSET DOMAIN jobs, TickPanics(visited)
        PROVE  StopsOnlyForFrequencyZero'
    <3>1. PICK a \in DOMAIN jobs : DivisionByZero(jobs[a])
      BY <2>4 DEF TickPanics, Panicking
    <3>2. jobs[a].offset # 0
      BY DEF SchedulerTypeOK, Job
    <3>3. jobs[a].frequency = 0
      BY <3>1, <3>2 DEF DivisionByZero
    <3> QED BY <2>4, <3>3, VisitKeepsJobs DEF TickPanics
  <2>5. ASSUME NEW a \in AlertIds, Process(a)
        PROVE  StopsOnlyForFrequencyZero'
    BY <2>5, ProcessKeepsJobs DEF Process, StartEvaluation, FinishEvaluation
  <2>6. CASE UNCHANGED schedulerVars
    BY <2>6 DEF schedulerVars
  <2> QED BY <2>1, <2>2, <2>3, <2>4, <2>5, <2>6 DEF SchedulerNext, alertingTicker
<1> QED BY <1>1, <1>2, SchedulerTypeCorrect, PTL DEF SchedulerSpec

\* Of a job that waits for its offset a period has begun, and when Tick
\* looks at the jobs the last tick's have started.
WaitsInPeriod ==
  /\ \A a \in DOMAIN jobs : jobs[a].wait => a \in begun
  /\ loop \in {"update", "tick"} => \A a \in DOMAIN jobs : ~jobs[a].queued

\* A visit queues a job only if it waited or its period begins now, and
\* leaves waiting only jobs of which a period has begun.
LEMMA VisitWaits ==
  ASSUME SchedulerTypeOK, WaitsInPeriod, loop = "tick",
         NEW alerts \in SUBSET DOMAIN jobs, Visit(alerts)
  PROVE  /\ \A a \in DOMAIN jobs : jobs'[a].wait => a \in begun'
         /\ \A a \in DOMAIN jobs :
              jobs'[a].queued /\ ~jobs[a].queued
                => a \in begun \/ Divides(jobs[a].frequency, timestamp)
<1> SUFFICES ASSUME NEW a \in DOMAIN jobs
             PROVE  /\ jobs'[a].wait => a \in begun'
                    /\ jobs'[a].queued /\ ~jobs[a].queued
                         => a \in begun \/ Divides(jobs[a].frequency, timestamp)
  OBVIOUS
<1>1. jobs[a] \in Job /\ ~jobs[a].queued /\ (jobs[a].wait => a \in begun)
  BY DEF SchedulerTypeOK, WaitsInPeriod
<1>2. begun' = (begun \cup {b \in alerts : Begins(jobs[b])})
                 \ {b \in alerts : jobs'[b].queued}
  BY DEF Visit
<1>3. CASE a \notin alerts
  BY <1>1, <1>2, <1>3, VisitKeepsJobs
<1>4. CASE a \in alerts /\ Fires(jobs[a])
  <2>1. jobs'[a] = [jobs[a] EXCEPT !.wait = FALSE, !.queued = TRUE]
    BY <1>4, VisitKeepsJobs DEF Visited
  <2>2. ~jobs'[a].wait
    BY <1>1, <2>1 DEF Job
  <2>3. a \in begun
    BY <1>1, <1>4 DEF Fires
  <2> QED BY <2>2, <2>3
<1>5. CASE a \in alerts /\ ~Fires(jobs[a]) /\ Begins(jobs[a])
  <2>1. Divides(jobs[a].frequency, timestamp)
    BY <1>5 DEF Begins
  <2>2. jobs[a].offset > 0
    BY <1>1 DEF Job
  <2>3. jobs'[a] = [jobs[a] EXCEPT !.wait = TRUE]
    BY <1>5, <2>2, VisitKeepsJobs DEF Visited
  <2>4. ~jobs'[a].queued
    BY <1>1, <2>3 DEF Job
  <2>5. a \in begun'
    BY <1>2, <1>5, <2>4
  <2> QED BY <2>1, <2>5
<1>6. CASE a \in alerts /\ ~Fires(jobs[a]) /\ ~Begins(jobs[a])
  <2>1. jobs'[a] = jobs[a]
    BY <1>6, VisitKeepsJobs DEF Visited
  <2> QED BY <1>1, <1>2, <2>1
<1> QED BY <1>3, <1>4, <1>5, <1>6

\* In every reachable state a job waits for its offset only in a period that
\* has begun.
LEMMA WaitsInPeriodInvariant == SchedulerSpec => []WaitsInPeriod
<1>1. SchedulerInit => WaitsInPeriod
  BY DEF SchedulerInit, WaitsInPeriod
<1>2. SchedulerTypeOK /\ WaitsInPeriod /\ [SchedulerNext]_schedulerVars => WaitsInPeriod'
  <2> SUFFICES ASSUME SchedulerTypeOK, WaitsInPeriod, [SchedulerNext]_schedulerVars PROVE WaitsInPeriod'
    OBVIOUS
  <2>1. CASE NextSecond
    BY <2>1 DEF NextSecond, WaitsInPeriod
  <2>2. ASSUME NEW rows \in RowLists, Update(rows) PROVE WaitsInPeriod'
    <3>1. ASSUME NEW a \in DOMAIN jobs'
          PROVE  ~jobs'[a].queued /\ (jobs'[a].wait => a \in begun)
      <4>1. ~JobOf(a).queued /\ (JobOf(a).wait => a \in begun)
        BY <2>2 DEF Update, JobOf, NewJob, WaitsInPeriod
      <4>2. jobs'[a].queued = JobOf(a).queued
        BY <2>2 DEF Update
      <4> QED BY <2>2, <4>1, <4>2, UpdateMakesJobs
    <3> QED BY <2>2, <3>1 DEF WaitsInPeriod, Update
  <2>3. CASE TickAll
    <3>1. \A a \in DOMAIN jobs : jobs'[a].wait => a \in begun'
      BY <2>3, VisitWaits DEF TickAll
    <3> QED BY <2>3, <3>1, VisitKeepsJobs DEF WaitsInPeriod, TickAll
  <2>4. ASSUME NEW visited \in SUBSET DOMAIN jobs, TickPanics(visited)
        PROVE  WaitsInPeriod'
    <3>1. \A a \in DOMAIN jobs : jobs'[a].wait => a \in begun'
      BY <2>4, VisitWaits DEF TickPanics
    <3> QED BY <2>4, <3>1, VisitKeepsJobs DEF WaitsInPeriod, TickPanics
  <2>5. ASSUME NEW p \in AlertIds, Process(p) PROVE WaitsInPeriod'
    <3>1. loop' = loop /\ begun' = begun
      BY <2>5 DEF Process, StartEvaluation, FinishEvaluation
    <3>2. ASSUME NEW a \in DOMAIN jobs, ~jobs[a].queued
          PROVE  ~jobs'[a].queued
      BY ZenonT(60), <2>5, <3>2 DEF Process, StartEvaluation, FinishEvaluation, SchedulerTypeOK, Job
    <3> QED BY <2>5, <3>1, <3>2, ProcessKeepsJobs DEF WaitsInPeriod
  <2>6. CASE UNCHANGED schedulerVars
    BY <2>6 DEF schedulerVars, WaitsInPeriod
  <2> QED BY <2>1, <2>2, <2>3, <2>4, <2>5, <2>6 DEF SchedulerNext, alertingTicker
<1> QED BY <1>1, <1>2, SchedulerTypeCorrect, PTL DEF SchedulerSpec

\* A rule is queued at most once in each of its periods, whatever reloads do
\* to offsets and lists of rules in the middle of it.
THEOREM OnceAPeriod == SchedulerSpec => OncePerPeriod
<1> DEFINE Once ==
      \A a \in DOMAIN jobs :
        loop = "tick" /\ loop' # "tick" /\ jobs'[a].queued /\ ~jobs[a].queued
          => a \in begun \/ Divides(jobs[a].frequency, timestamp)
<1>1. SchedulerTypeOK /\ WaitsInPeriod /\ [SchedulerNext]_schedulerVars => [Once]_schedulerVars
  <2> SUFFICES ASSUME SchedulerTypeOK, WaitsInPeriod, [SchedulerNext]_schedulerVars,
                      loop = "tick", loop' # "tick"
               PROVE  Once
    OBVIOUS
  <2>1. CASE TickAll
    BY <2>1, VisitWaits DEF TickAll
  <2>2. ASSUME NEW visited \in SUBSET DOMAIN jobs, TickPanics(visited)
        PROVE  Once
    BY <2>2, VisitWaits DEF TickPanics
  <2>3. ~NextSecond /\ ~UNCHANGED schedulerVars
    BY DEF NextSecond, schedulerVars
  <2>4. \A rows \in RowLists : ~Update(rows)
    BY DEF Update
  <2>5. \A a \in AlertIds : ~Process(a)
    BY DEF Process, StartEvaluation, FinishEvaluation
  <2> QED BY <2>1, <2>2, <2>3, <2>4, <2>5 DEF SchedulerNext, alertingTicker
<1> QED BY <1>1, SchedulerTypeCorrect, WaitsInPeriodInvariant, PTL
        DEF SchedulerSpec, OncePerPeriod

-------------------------------------------------------------------------------
(* The server process, for any evaluations in flight, queue and requests.   *)

\* The ticker holds a job only while there is one left to queue.
Queueing == ticker = "enque" => queued < MaxQueued

\* Every variable keeps to its type, and alertingTicker never holds a job
\* that it may not queue.
LEMMA TypeQueueing == Spec => [](TypeOK /\ Queueing)
<1>1. Init => TypeOK /\ Queueing
  <2> SUFFICES ASSUME Init PROVE TypeOK /\ Queueing
    OBVIOUS
  <2> USE DEF Init
  <2>1. shutdown \in [Callers -> {"no", "http", "drain", "wait"}]
    OBVIOUS
  <2>2. code \in [Callers -> {0, 1}]
    OBVIOUS
  <2>3. eval \in [Evals -> {"idle", "running", "grace", "abandoned"}]
    OBVIOUS
  <2>4. queue \in 0..QueueSize /\ queued \in 0..MaxQueued
        /\ requests \in 0..Requests
    BY ServerAssumption
  <2> QED BY <2>1, <2>2, <2>3, <2>4 DEF TypeOK, Queueing
<1>2. TypeOK /\ Queueing /\ [Next]_vars => (TypeOK /\ Queueing)'
  <2> SUFFICES ASSUME TypeOK, Queueing, [Next]_vars
               PROVE  (TypeOK /\ Queueing)'
    OBVIOUS
  <2> USE ServerAssumption DEF TypeOK, Queueing, startup, engine, Callers
  <2>1. CASE Provisioned
    BY <2>1 DEF Provisioned, Goes
  <2>2. CASE StartEngine
    BY <2>2 DEF StartEngine, Goes
  <2>3. CASE NoEngine
    BY <2>3 DEF NoEngine, Goes
  <2>4. CASE StartCleanUp
    BY <2>4 DEF StartCleanUp, Goes
  <2>5. CASE NewHttpServer
    BY <2>5 DEF NewHttpServer, Goes
  <2>6. CASE Listen
    BY <2>6 DEF Listen, Goes
  <2>7. CASE StartupFails
    BY <2>7 DEF StartupFails, Call
  <2>8. CASE MainReturns
    BY <2>8 DEF MainReturns, Goes
  <2>9. CASE Signal
    BY <2>9 DEF Signal, Call
  <2>10. ASSUME NEW p \in Callers, Shut(p) PROVE (TypeOK /\ Queueing)'
    <3>1. CASE NilHttpServer(p)
      BY <3>1 DEF NilHttpServer
    <3>2. CASE CloseHttp(p)
      BY <3>2 DEF CloseHttp
    <3>3. CASE Cancel(p)
      BY <3>3 DEF Cancel
    <3>4. CASE Exit(p)
      <4>1. exit' \in {"code0", "code1"}
        BY <3>4 DEF Exit
      <4> QED BY <3>4, <4>1 DEF Exit
    <3> QED BY <2>10, <3>1, <3>2, <3>3, <3>4 DEF Shut
  <2>11. CASE RequestBegins
    BY <2>11 DEF RequestBegins
  <2>12. CASE RequestEnds
    BY <2>12 DEF RequestEnds
  <2>13. CASE CleanUpStops
    BY <2>13 DEF CleanUpStops
  <2>14. CASE TickerStep
    <3>1. CASE TickArrives
      BY <3>1 DEF TickArrives
    <3>2. ASSUME NEW more \in BOOLEAN, Enque(more) PROVE (TypeOK /\ Queueing)'
      <4>1. queue' \in 0..QueueSize /\ queued' \in 0..MaxQueued
        BY <3>2 DEF Enque
      <4>2. ticker' \in {"enque", "select"}
        BY <3>2 DEF Enque
      <4>3. ticker' = "enque" => queued' < MaxQueued
        BY <3>2 DEF Enque
      <4> QED BY <3>2, <4>1, <4>2, <4>3 DEF Enque
    <3>3. CASE TickerStops
      BY <3>3 DEF TickerStops
    <3> QED BY <2>14, <3>1, <3>2, <3>3 DEF TickerStep
  <2>15. CASE TickerPanics
    BY <2>15 DEF TickerPanics
  <2>16. CASE DispatcherStep
    <3>1. ASSUME NEW e \in Evals, Dispatch(e) PROVE (TypeOK /\ Queueing)'
      BY <3>1 DEF Dispatch
    <3>2. CASE DispatcherStops \/ DispatcherDone
      BY <3>2 DEF DispatcherStops, DispatcherDone
    <3> QED BY <2>16, <3>1, <3>2 DEF DispatcherStep
  <2>17. ASSUME NEW e \in Evals, JobStep(e) \/ EvalEnds(e)
         PROVE  (TypeOK /\ Queueing)'
    BY <2>17 DEF JobStep, EvalNotices, GraceEnds, EvalEnds
  <2>18. CASE UNCHANGED vars
    BY <2>18 DEF vars
  <2> QED
    BY <2>1, <2>2, <2>3, <2>4, <2>5, <2>6, <2>7, <2>8, <2>9, <2>10, <2>11,
       <2>12, <2>13, <2>14, <2>15, <2>16, <2>17, <2>18 DEF Next, Main
<1> QED BY <1>1, <1>2, PTL DEF Spec

\* Every reachable state is well typed; the queue never exceeds its capacity.
THEOREM ServerTypeCorrect == Spec => []TypeOK
BY TypeQueueing, PTL

(***************************************************************************)
(* Why an orderly exit leaves nothing behind.  A shutdown that waits for   *)
(* the child routines has closed the HTTP server, for good, and seen the   *)
(* last request end; a dispatcher that is done has seen the evaluations    *)
(* end, and there is no other to start them.                               *)
(***************************************************************************)
ClosedForGood ==
  httpServer \in {"listening", "closed"} => main \in {"serving", "failed", "returned"}

Drained ==
  \A p \in Callers :
    /\ shutdown[p] \in {"drain", "wait"} => httpServer = "closed"
    /\ shutdown[p] = "wait" => requests = 0

NoneInFlight == dispatcher \in {"off", "done"} => InFlight = {}

Orderly == ClosedForGood /\ Drained /\ NoneInFlight /\ ExitWaits

\* A step of a live process keeps the first three parts.
LEMMA OrderlyStep ==
  ASSUME TypeOK, ClosedForGood, Drained, NoneInFlight, Next
  PROVE  (ClosedForGood /\ Drained /\ NoneInFlight)'
<1> USE DEF TypeOK, ClosedForGood, Drained, NoneInFlight, InFlight, startup,
            engine, Callers
<1>1. CASE Main
  BY <1>1 DEF Main, Provisioned, StartEngine, NoEngine, StartCleanUp,
     NewHttpServer, Listen, StartupFails, MainReturns, Goes, Call
<1>2. CASE Signal
  BY <1>2 DEF Signal, Call
<1>3. ASSUME NEW p \in Callers, Shut(p)
      PROVE  (ClosedForGood /\ Drained /\ NoneInFlight)'
  <2>1. CASE NilHttpServer(p)
    BY <2>1 DEF NilHttpServer
  <2>2. CASE CloseHttp(p)
    BY <2>2 DEF CloseHttp
  <2>3. CASE Cancel(p)
    BY <2>3 DEF Cancel
  <2>4. CASE Exit(p)
    BY <2>4 DEF Exit
  <2> QED BY <1>3, <2>1, <2>2, <2>3, <2>4 DEF Shut
<1>4. CASE RequestBegins \/ RequestEnds \/ CleanUpStops
  BY <1>4 DEF RequestBegins, RequestEnds, CleanUpStops
<1>5. CASE TickerStep \/ TickerPanics
  BY <1>5 DEF TickerStep, TickArrives, Enque, TickerStops, TickerPanics
<1>6. CASE DispatcherStep
  <2>1. ASSUME NEW e \in Evals, Dispatch(e)
        PROVE  (ClosedForGood /\ Drained /\ NoneInFlight)'
    BY <2>1 DEF Dispatch
  <2>2. CASE DispatcherStops \/ DispatcherDone
    BY <2>2 DEF DispatcherStops, DispatcherDone
  <2> QED BY <1>6, <2>1, <2>2 DEF DispatcherStep
<1>7. ASSUME NEW e \in Evals, JobStep(e) \/ EvalEnds(e)
      PROVE  (ClosedForGood /\ Drained /\ NoneInFlight)'
  BY <1>7 DEF JobStep, EvalNotices, GraceEnds, EvalEnds
<1> QED BY <1>1, <1>2, <1>3, <1>4, <1>5, <1>6, <1>7 DEF Next

\* A step ends the process with an exit code only through Exit; nothing
\* happens afterwards.
LEMMA ExitStep ==
  ASSUME TypeOK, Drained, NoneInFlight, ExitWaits, Next
  PROVE  ExitWaits'
<1> USE DEF ExitWaits
<1>1. exit = "no"
  BY DEF Next, Main, Provisioned, StartEngine, NoEngine, StartCleanUp,
     NewHttpServer, Listen, StartupFails, MainReturns, Signal, Shut,
     NilHttpServer, CloseHttp, Cancel, Exit, RequestBegins, RequestEnds,
     CleanUpStops, TickerStep, TickArrives, Enque, TickerStops, TickerPanics,
     DispatcherStep, Dispatch, DispatcherStops, DispatcherDone, JobStep,
     EvalNotices, GraceEnds, EvalEnds, Alive
<1>2. ASSUME NEW p \in Callers, Exit(p) PROVE ExitWaits'
  <2>1. requests = 0 /\ EngineDone /\ InFlight = {}
    BY <1>2 DEF Exit, Drained, NoneInFlight, EngineDone
  <2>2. UNCHANGED <<requests, ticker, dispatcher, eval>>
    BY <1>2 DEF Exit, engine
  <2> QED BY <2>1, <2>2 DEF EngineDone, InFlight
<1>3. CASE \A p \in Callers : ~Exit(p)
  <2>1. exit' \in {"no", "main", "panic"}
    BY <1>1, <1>3 DEF Next, Main, Provisioned, StartEngine, NoEngine,
       StartCleanUp, NewHttpServer, Listen, StartupFails, MainReturns, Signal,
       Shut, NilHttpServer, CloseHttp, Cancel, RequestBegins, RequestEnds,
       CleanUpStops, TickerStep, TickArrives, Enque, TickerStops, TickerPanics,
       DispatcherStep, Dispatch, DispatcherStops, DispatcherDone, JobStep,
       EvalNotices, GraceEnds, EvalEnds
  <2> QED BY <2>1
<1> QED BY <1>2, <1>3

\* However many evaluations and requests there are, a process that ends
\* through os.Exit has waited for the requests, for the engine and for the
\* evaluations, or for their grace.
THEOREM OrderlyExit == Spec => []ExitWaits
<1>1. Init => Orderly
  BY DEF Init, Orderly, ClosedForGood, Drained, NoneInFlight, InFlight,
     ExitWaits
<1>2. TypeOK /\ Orderly /\ [Next]_vars => Orderly'
  <2> SUFFICES ASSUME TypeOK, Orderly, [Next]_vars PROVE Orderly'
    OBVIOUS
  <2>1. CASE Next
    BY <2>1, OrderlyStep, ExitStep DEF Orderly
  <2>2. CASE UNCHANGED vars
    BY <2>2 DEF vars, startup, engine, Orderly, ClosedForGood, Drained,
       NoneInFlight, InFlight, ExitWaits, EngineDone
  <2> QED BY <2>1, <2>2
<1>3. Orderly => ExitWaits
  BY DEF Orderly
<1> QED BY <1>1, <1>2, <1>3, ServerTypeCorrect, PTL DEF Spec

-------------------------------------------------------------------------------
(* The live hub, for any connections and streams and any buffer.            *)

Places == {"none", "registering", "reading", "unregistering", "done"}

Subs == [name : Streams, remove : BOOLEAN]

LiveTypeOK ==
  /\ connections \subseteq Conns
  /\ DOMAIN streams \subseteq Streams /\ streams \in [DOMAIN streams -> SUBSET Conns]
  /\ send \in [Conns -> [open : BOOLEAN, buf : Seq(Streams)]]
  /\ reader \in [Conns -> [at : Places] \cup [at : {"handing"}, sub : Subs]]
  /\ writer \in [Conns -> {"none", "running", "done"}]
  /\ ws \in [Conns -> BOOLEAN]
  /\ wanted \in [Conns -> SUBSET Streams]
  /\ owed \in [Conns -> Seq(Streams)]
  /\ panicked \in BOOLEAN

\* A connection that the hub has not taken yet is as it was made.
NewIsEmpty ==
  \A c \in Conns : At(c, "none") \/ At(c, "registering") =>
    /\ c \notin connections /\ writer[c] = "none"
    /\ send[c].open /\ send[c].buf = <<>> /\ owed[c] = <<>>
    /\ wanted[c] = {} /\ \A s \in DOMAIN streams : c \notin streams[s]

\* What the hub has is open.
ConnectedIsOpen == \A c \in connections : send[c].open

\* The streams that a connection gets are the ones it wants.
SubscribedIsWanted ==
  \A c \in connections : \A s \in Streams : s \in wanted[c] <=> c \in Subscribers(s)

\* No client unsubscribes from a stream that nobody has subscribed to.
NoStrays ==
  \A c \in Conns : At(c, "handing") /\ reader[c].sub.remove
                     => reader[c].sub.name \in DOMAIN streams

HubInv ==
  /\ LiveTypeOK /\ NewIsEmpty /\ ConnectedIsOpen /\ SubscribedIsWanted /\ NoStrays
  /\ HubRight

\* What a change of one connection's buffer leaves of send.
LEMMA Sends ==
  ASSUME send \in [Conns -> [open : BOOLEAN, buf : Seq(Streams)]], NEW c \in Conns,
         NEW open \in BOOLEAN, NEW buf \in Seq(Streams)
  PROVE  /\ [send EXCEPT ![c].open = open] \in [Conns -> [open : BOOLEAN, buf : Seq(Streams)]]
         /\ [send EXCEPT ![c].buf = buf] \in [Conns -> [open : BOOLEAN, buf : Seq(Streams)]]
         /\ \A d \in Conns :
              /\ [send EXCEPT ![c].open = open][d].buf = send[d].buf
              /\ [send EXCEPT ![c].open = open][d].open = IF d = c THEN open ELSE send[d].open
              /\ [send EXCEPT ![c].buf = buf][d].buf = IF d = c THEN buf ELSE send[d].buf
              /\ [send EXCEPT ![c].buf = buf][d].open = send[d].open
<1>1. send[c] \in [open : BOOLEAN, buf : Seq(Streams)]
  OBVIOUS
<1>2. /\ [send[c] EXCEPT !.open = open] \in [open : BOOLEAN, buf : Seq(Streams)]
      /\ [send[c] EXCEPT !.open = open].buf = send[c].buf
      /\ [send[c] EXCEPT !.open = open].open = open
  BY <1>1
<1>3. /\ [send[c] EXCEPT !.buf = buf] \in [open : BOOLEAN, buf : Seq(Streams)]
      /\ [send[c] EXCEPT !.buf = buf].open = send[c].open
      /\ [send[c] EXCEPT !.buf = buf].buf = buf
  BY <1>1
<1> QED BY <1>2, <1>3

\* The initial state satisfies the invariant.
LEMMA InitHub == LiveInit => HubInv
<1> SUFFICES ASSUME LiveInit PROVE HubInv
  OBVIOUS
<1>1. <<>> \in Seq(Streams)
  OBVIOUS
<1>2. [c \in Conns |-> [open |-> TRUE, buf |-> <<>>]] \in [Conns -> [open : BOOLEAN, buf : Seq(Streams)]]
  BY <1>1
<1>3. [c \in Conns |-> [at |-> "none"]] \in [Conns -> [at : Places]]
  BY DEF Places
<1>4. DOMAIN streams = {} /\ streams \in [DOMAIN streams -> SUBSET Conns]
  BY DEF LiveInit
<1>5. LiveTypeOK
  BY <1>1, <1>2, <1>3, <1>4 DEF LiveInit, LiveTypeOK
<1>6. NewIsEmpty /\ ConnectedIsOpen /\ SubscribedIsWanted /\ NoStrays /\ HubRight
  BY <1>4 DEF LiveInit, NewIsEmpty, ConnectedIsOpen, SubscribedIsWanted, NoStrays,
              HubRight, NeverPanics, GetsWhatIsDue, At
<1> QED BY <1>5, <1>6 DEF HubInv

\* No step breaks it.
LEMMA NextHub == ASSUME ~Stray, HubInv, LiveNext PROVE HubInv'
<1> USE DEF HubInv
<1>1. ASSUME NEW c \in Conns, Serve(c)
      PROVE  HubInv'
  <2>1. LiveTypeOK'
    BY <1>1 DEF Serve, LiveTypeOK, At, ReaderGoes, Places
  <2>2. NewIsEmpty' /\ ConnectedIsOpen' /\ SubscribedIsWanted' /\ NoStrays'
    BY <1>1 DEF Serve, LiveTypeOK, NewIsEmpty, ConnectedIsOpen, SubscribedIsWanted, NoStrays,
                 Subscribers, At, ReaderGoes, Places
  <2>3. HubRight'
    BY <1>1 DEF Serve, LiveTypeOK, NewIsEmpty, HubRight, NeverPanics, GetsWhatIsDue, At, ReaderGoes, Places
  <2> QED BY <2>1, <2>2, <2>3
<1>2. ASSUME NEW c \in Conns, Register(c)
      PROVE  HubInv'
  <2>1. LiveTypeOK'
    BY <1>2 DEF Register, LiveTypeOK, At, ReaderGoes, Places
  <2>2. NewIsEmpty' /\ ConnectedIsOpen' /\ NoStrays'
    BY <1>2 DEF Register, LiveTypeOK, NewIsEmpty, ConnectedIsOpen, NoStrays, At, ReaderGoes
  <2>4. \A s \in Streams : c \notin Subscribers(s) /\ wanted[c] = {}
    BY <1>2 DEF Register, NewIsEmpty, Subscribers
  <2>5. SubscribedIsWanted'
    BY <1>2, <2>4 DEF Register, SubscribedIsWanted, Subscribers
  <2>3. HubRight'
    BY <1>2 DEF Register, LiveTypeOK, NewIsEmpty, HubRight, NeverPanics, GetsWhatIsDue, At, ReaderGoes, Places
  <2> QED BY <2>1, <2>2, <2>3, <2>5
<1>3. ASSUME NEW c \in Conns, Unregister(c)
      PROVE  HubInv'
  <2>1. /\ At(c, "unregistering") /\ reader' = [reader EXCEPT ![c] = [at |-> "done"]]
        /\ connections' = connections \ {c} /\ ws' = [ws EXCEPT ![c] = FALSE]
        /\ UNCHANGED <<hub, streams, writer, wanted, dropped, owed>>
    BY <1>3 DEF Unregister, ReaderGoes
  <2>2. CASE c \in connections
    <3>1. send' = [send EXCEPT ![c].open = FALSE] /\ panicked' = (panicked \/ ~send[c].open)
      BY <1>3, <2>2 DEF Unregister, Close
    <3>2. /\ send' \in [Conns -> [open : BOOLEAN, buf : Seq(Streams)]]
          /\ \A d \in Conns : /\ send'[d].buf = send[d].buf
                              /\ d # c => send'[d].open = send[d].open
      <4>1. send[c].buf \in Seq(Streams)
        BY DEF LiveTypeOK
      <4> QED BY ZenonT(60), <3>1, <4>1, Sends DEF LiveTypeOK
    <3>3. send[c].open = TRUE /\ panicked = FALSE
      BY <2>2 DEF ConnectedIsOpen, HubRight, NeverPanics, LiveTypeOK
    <3>4. panicked' = FALSE
      BY <3>1, <3>3
    <3>5. LiveTypeOK'
      BY <2>1, <3>2, <3>4 DEF LiveTypeOK, Places
    <3>6. NewIsEmpty' /\ ConnectedIsOpen' /\ SubscribedIsWanted' /\ NoStrays'
      <4>1. \A d \in Conns : /\ At(d, "none")' => At(d, "none")
                             /\ At(d, "registering")' => At(d, "registering")
                             /\ At(d, "handing")' => At(d, "handing") /\ d # c
                             /\ At(d, "none") \/ At(d, "registering") => d # c
        BY <2>1 DEF At, LiveTypeOK
      <4>2. NewIsEmpty'
        BY <2>1, <3>2, <4>1 DEF NewIsEmpty, At
      <4>3. ConnectedIsOpen'
        BY <2>1, <3>2 DEF ConnectedIsOpen, LiveTypeOK
      <4>5. SubscribedIsWanted'
        BY <2>1 DEF SubscribedIsWanted, Subscribers
      <4>4. NoStrays'
        BY <2>1, <4>1 DEF NoStrays, LiveTypeOK, At
      <4> QED BY <4>2, <4>3, <4>4, <4>5
    <3>7. HubRight'
      BY <2>1, <3>2, <3>4 DEF HubRight, NeverPanics, GetsWhatIsDue
    <3> QED BY <3>5, <3>6, <3>7
  <2>3. CASE c \notin connections
    <3>1. UNCHANGED <<send, panicked>>
      BY <1>3, <2>3 DEF Unregister
    <3>2. LiveTypeOK'
      BY <2>1, <3>1 DEF LiveTypeOK, Places
    <3>3. NewIsEmpty' /\ ConnectedIsOpen' /\ SubscribedIsWanted' /\ NoStrays'
      BY <2>1, <3>1 DEF LiveTypeOK, NewIsEmpty, ConnectedIsOpen, SubscribedIsWanted,
                        NoStrays, Subscribers, At
    <3>4. HubRight'
      BY <2>1, <3>1 DEF HubRight, NeverPanics, GetsWhatIsDue
    <3> QED BY <3>2, <3>3, <3>4
  <2> QED BY <2>2, <2>3
<1>4. ASSUME NEW c \in Conns, Subscribe(c)
      PROVE  HubInv'
  <2> DEFINE sub == reader[c].sub
  <2>1. sub \in Subs /\ (sub.remove => sub.name \in DOMAIN streams)
    BY <1>4 DEF Subscribe, At, LiveTypeOK, NoStrays, Places
  <2> DEFINE cs == IF sub.remove THEN Subscribers(sub.name) \ {c} ELSE Subscribers(sub.name) \cup {c}
  <2>2. streams' = WithSubscribers(sub.name, cs)
    BY <1>4, <2>1 DEF Subscribe, Handed, Subs
  <2>3. cs \subseteq Conns /\ sub.name \in Streams
    BY <2>1 DEF Subs, Subscribers, LiveTypeOK
  <2> HIDE DEF sub, cs
  <2>4. DOMAIN streams' \subseteq Streams /\ streams' \in [DOMAIN streams' -> SUBSET Conns]
    BY <2>2, <2>3 DEF WithSubscribers, LiveTypeOK
  <2>5. wanted' \in [Conns -> SUBSET Streams]
    BY <1>4, <2>3 DEF Subscribe, LiveTypeOK, sub
  <2>6. LiveTypeOK'
    BY <1>4, <2>4, <2>5 DEF Subscribe, LiveTypeOK, ReaderGoes, Places
  <2>7. \A x \in Streams : Subscribers(x)' = IF x = sub.name THEN cs ELSE Subscribers(x)
    BY <2>2 DEF Subscribers, WithSubscribers
  <2>8. SubscribedIsWanted'
    BY <1>4, <2>3, <2>7 DEF Subscribe, SubscribedIsWanted, LiveTypeOK, cs, sub
  <2>9. NewIsEmpty'
    <3> SUFFICES ASSUME NEW d \in Conns, (At(d, "none") \/ At(d, "registering"))',
                        NEW x \in DOMAIN streams'
                 PROVE  d # c /\ (At(d, "none") \/ At(d, "registering")) /\ d \notin streams'[x]
      BY <1>4 DEF Subscribe, NewIsEmpty, LiveTypeOK, At, ReaderGoes
    <3>1. d # c /\ (At(d, "none") \/ At(d, "registering"))
      BY <1>4 DEF Subscribe, At, ReaderGoes, LiveTypeOK
    <3>2. d \notin Subscribers(x) /\ d \notin cs
      BY <3>1 DEF NewIsEmpty, Subscribers, cs
    <3> QED BY <2>2, <3>1, <3>2 DEF WithSubscribers, Subscribers
  <2>10. ConnectedIsOpen' /\ NoStrays' /\ HubRight'
    BY <1>4, <2>2 DEF Subscribe, ConnectedIsOpen, NoStrays, At, ReaderGoes, WithSubscribers,
                      HubRight, NeverPanics, GetsWhatIsDue, LiveTypeOK
  <2> QED BY <2>6, <2>8, <2>9, <2>10
<1>5. ASSUME NEW c \in Conns, NEW s \in Streams, NEW remove \in BOOLEAN,
             handleMessage(c, s, remove)
      PROVE  HubInv'
  <2>1. LiveTypeOK'
    BY <1>5 DEF handleMessage, LiveTypeOK, At, Hands, Places, Subs
  <2>2. NewIsEmpty' /\ ConnectedIsOpen' /\ SubscribedIsWanted' /\ NoStrays'
    BY <1>5 DEF handleMessage, LiveTypeOK, NewIsEmpty, ConnectedIsOpen, SubscribedIsWanted, NoStrays,
                 Subscribers, At, Hands, Places, Subs
  <2>3. HubRight'
    BY <1>5 DEF handleMessage, LiveTypeOK, NewIsEmpty, HubRight, NeverPanics, GetsWhatIsDue, At, Hands, Places, Subs
  <2> QED BY <2>1, <2>2, <2>3
<1>6. ASSUME NEW c \in Conns, ReadFails(c)
      PROVE  HubInv'
  <2>1. LiveTypeOK'
    BY <1>6 DEF ReadFails, LiveTypeOK, At, ReaderGoes, Places
  <2>2. NewIsEmpty' /\ ConnectedIsOpen' /\ SubscribedIsWanted' /\ NoStrays'
    BY <1>6 DEF ReadFails, LiveTypeOK, NewIsEmpty, ConnectedIsOpen, SubscribedIsWanted, NoStrays,
                 Subscribers, At, ReaderGoes, Places
  <2>3. HubRight'
    BY <1>6 DEF ReadFails, LiveTypeOK, NewIsEmpty, HubRight, NeverPanics, GetsWhatIsDue, At, ReaderGoes, Places
  <2> QED BY <2>1, <2>2, <2>3
<1>7. ASSUME NEW c \in Conns, Leave(c)
      PROVE  HubInv'
  <2>1. LiveTypeOK'
    BY <1>7 DEF Leave, LiveTypeOK, At
  <2>2. NewIsEmpty' /\ ConnectedIsOpen' /\ SubscribedIsWanted' /\ NoStrays'
    BY <1>7 DEF Leave, LiveTypeOK, NewIsEmpty, ConnectedIsOpen, SubscribedIsWanted, NoStrays,
                 Subscribers, At
  <2>3. HubRight'
    BY <1>7 DEF Leave, LiveTypeOK, NewIsEmpty, HubRight, NeverPanics, GetsWhatIsDue, At
  <2> QED BY <2>1, <2>2, <2>3
<1>8. ASSUME NEW c \in Conns, writePump(c)
      PROVE  HubInv'
  <2>1. CASE send[c].buf # <<>> /\ ws[c] /\ send' = [send EXCEPT ![c].buf = Tail(@)]
             /\ owed' = [owed EXCEPT ![c] = IF @ = <<>> THEN @ ELSE Tail(@)]
             /\ UNCHANGED <<writer, ws>>
    <3>1. Tail(send[c].buf) \in Seq(Streams) /\ owed' \in [Conns -> Seq(Streams)]
      BY <2>1 DEF LiveTypeOK
    <3> DEFINE buf == Tail(send[c].buf)
    <3>6. send' = [send EXCEPT ![c].buf = buf]
      BY <2>1
    <3>2. /\ send' \in [Conns -> [open : BOOLEAN, buf : Seq(Streams)]]
          /\ \A d \in Conns : /\ send'[d].buf = IF d = c THEN buf ELSE send[d].buf
                              /\ send'[d].open = send[d].open
      <4>1. buf \in Seq(Streams)
        BY <3>1
      <4> HIDE DEF buf
      <4> QED BY <3>6, <4>1, Sends DEF LiveTypeOK
    <3>3. LiveTypeOK'
      BY <1>8, <2>1, <3>1, <3>2 DEF writePump, LiveTypeOK
    <3>4. NewIsEmpty' /\ ConnectedIsOpen' /\ SubscribedIsWanted' /\ NoStrays'
      BY <1>8, <2>1, <3>2 DEF writePump, LiveTypeOK, NewIsEmpty, ConnectedIsOpen,
                              SubscribedIsWanted, NoStrays, Subscribers, At
    <3>5. HubRight'
      BY <1>8, <2>1, <3>2 DEF writePump, LiveTypeOK, HubRight, NeverPanics, GetsWhatIsDue
    <3> QED BY <3>3, <3>4, <3>5
  <2>2. CASE send' = [send EXCEPT ![c].buf = IF @ = <<>> THEN @ ELSE Tail(@)]
             /\ writer' = [writer EXCEPT ![c] = "done"] /\ ws' = [ws EXCEPT ![c] = FALSE]
             /\ UNCHANGED owed
    <3> DEFINE buf == IF send[c].buf = <<>> THEN send[c].buf ELSE Tail(send[c].buf)
    <3>1. buf \in Seq(Streams) /\ send' = [send EXCEPT ![c].buf = buf]
      BY <2>2 DEF LiveTypeOK
    <3> HIDE DEF buf
    <3>2. /\ send' \in [Conns -> [open : BOOLEAN, buf : Seq(Streams)]]
          /\ \A d \in Conns : /\ d # c => send'[d].buf = send[d].buf
                              /\ send'[d].open = send[d].open
      BY <3>1, Sends DEF LiveTypeOK
    <3>3. LiveTypeOK'
      BY <1>8, <2>2, <3>2 DEF writePump, LiveTypeOK
    <3>4. NewIsEmpty' /\ ConnectedIsOpen' /\ SubscribedIsWanted' /\ NoStrays'
      BY <1>8, <2>2, <3>2 DEF writePump, LiveTypeOK, NewIsEmpty, ConnectedIsOpen,
                              SubscribedIsWanted, NoStrays, Subscribers, At
    <3>5. HubRight'
      BY <1>8, <2>2, <3>2 DEF writePump, LiveTypeOK, HubRight, NeverPanics, GetsWhatIsDue
    <3> QED BY <3>3, <3>4, <3>5
  <2> QED BY <1>8, <2>1, <2>2 DEF writePump, WriterCloses
<1>9. ASSUME NEW c \in Conns, Ping(c)
      PROVE  HubInv'
  <2>1. LiveTypeOK'
    BY <1>9 DEF Ping, LiveTypeOK, At
  <2>2. NewIsEmpty' /\ ConnectedIsOpen' /\ SubscribedIsWanted' /\ NoStrays'
    BY <1>9 DEF Ping, LiveTypeOK, NewIsEmpty, ConnectedIsOpen, SubscribedIsWanted, NoStrays,
                 Subscribers, At
  <2>3. HubRight'
    BY <1>9 DEF Ping, LiveTypeOK, NewIsEmpty, HubRight, NeverPanics, GetsWhatIsDue, At
  <2> QED BY <2>1, <2>2, <2>3
<1>10. ASSUME NEW s \in Streams, Publish(s)
      PROVE  HubInv'
  <2> DEFINE live == Subscribers(s) \cap connections
             full == {c \in live : Len(send[c].buf) >= Buffer}
  <2>1. /\ streams' = (IF Subscribers(s) = {} THEN streams ELSE WithSubscribers(s, live \ full))
        /\ connections' = connections \ full
        /\ send' = [c \in Conns |->
              IF c \in full THEN [send[c] EXCEPT !.open = FALSE]
              ELSE IF c \in live THEN [send[c] EXCEPT !.buf = Append(@, s)] ELSE send[c]]
        /\ panicked' = (panicked \/ \E c \in live : ~send[c].open)
        /\ owed' = [c \in Conns |-> IF s \in wanted[c] /\ c \in connections \ full
                                    THEN Append(owed[c], s) ELSE owed[c]]
        /\ UNCHANGED <<hub, reader, writer, ws, wanted>>
    BY <1>10 DEF Publish, LeftConnected
  <2>2. live \subseteq connections /\ full \subseteq live /\ connections \subseteq Conns
    BY DEF LiveTypeOK
  <2>3. /\ \A c \in connections : send[c].open
        /\ \A c \in connections : s \in wanted[c] <=> c \in live
    BY DEF ConnectedIsOpen, SubscribedIsWanted
  <2> HIDE DEF full
  <2>4. DOMAIN streams' \subseteq Streams /\ streams' \in [DOMAIN streams' -> SUBSET Conns]
    BY <2>1, <2>2 DEF WithSubscribers, LiveTypeOK
  <2>5. \A x \in Streams, c \in Conns :
          c \in Subscribers(x)' <=> c \in Subscribers(x) /\ (x = s => c \in live \ full)
    BY <2>1, <2>2 DEF WithSubscribers, Subscribers
  <2>6. \A c \in Conns :
          /\ send[c] \in [open : BOOLEAN, buf : Seq(Streams)]
          /\ send'[c] \in [open : BOOLEAN, buf : Seq(Streams)]
          /\ send'[c].open = (send[c].open /\ c \notin full)
          /\ send'[c].buf = IF c \in live \ full THEN Append(send[c].buf, s) ELSE send[c].buf
    <3> SUFFICES ASSUME NEW c \in Conns
                 PROVE  /\ send[c] \in [open : BOOLEAN, buf : Seq(Streams)]
                        /\ send'[c] \in [open : BOOLEAN, buf : Seq(Streams)]
                        /\ send'[c].open = (send[c].open /\ c \notin full)
                        /\ send'[c].buf = IF c \in live \ full THEN Append(send[c].buf, s)
                                         ELSE send[c].buf
      OBVIOUS
    <3>1. send[c] \in [open : BOOLEAN, buf : Seq(Streams)] /\ Append(send[c].buf, s) \in Seq(Streams)
      BY DEF LiveTypeOK
    <3> QED BY <2>1, <2>2, <3>1
  <2>7. LiveTypeOK'
    <3>1. send' \in [Conns -> [open : BOOLEAN, buf : Seq(Streams)]]
      BY <2>1, <2>6
    <3>2. owed' \in [Conns -> Seq(Streams)]
      BY <2>1 DEF LiveTypeOK
    <3> QED BY <2>1, <2>2, <2>3, <2>4, <3>1, <3>2 DEF LiveTypeOK
  <2>8. NewIsEmpty'
    <3> SUFFICES ASSUME NEW c \in Conns, At(c, "none") \/ At(c, "registering"),
                        NEW x \in DOMAIN streams'
                 PROVE  c \notin streams'[x]
      BY <2>1, <2>2, <2>6 DEF NewIsEmpty, At
    <3> QED BY <2>1, <2>2 DEF NewIsEmpty, WithSubscribers
  <2>9. ConnectedIsOpen'
    BY <2>1, <2>2, <2>3, <2>6 DEF ConnectedIsOpen
  <2>10. SubscribedIsWanted'
    BY <2>1, <2>2, <2>3, <2>5 DEF SubscribedIsWanted
  <2>11. NoStrays'
    BY <2>1 DEF NoStrays, At, WithSubscribers
  <2>12. HubRight'
    <3>1. ~panicked'
      BY <2>1, <2>2, <2>3 DEF HubRight, NeverPanics
    <3>2. \A c \in Conns : c \in live \ full <=> s \in wanted[c] /\ c \in connections \ full
      BY <2>2, <2>3
    <3>3. GetsWhatIsDue'
      BY <2>1, <2>6, <3>2 DEF HubRight, GetsWhatIsDue
    <3> QED BY <3>1, <3>3 DEF HubRight, NeverPanics
  <2> QED BY <2>7, <2>8, <2>9, <2>10, <2>11, <2>12
<1>11. ASSUME Stop
      PROVE  HubInv'
  <2>1. LiveTypeOK'
    BY <1>11 DEF Stop, LiveTypeOK, At
  <2>2. NewIsEmpty' /\ ConnectedIsOpen' /\ SubscribedIsWanted' /\ NoStrays'
    BY <1>11 DEF Stop, LiveTypeOK, NewIsEmpty, ConnectedIsOpen, SubscribedIsWanted, NoStrays,
                 Subscribers, At
  <2>3. HubRight'
    BY <1>11 DEF Stop, LiveTypeOK, NewIsEmpty, HubRight, NeverPanics, GetsWhatIsDue, At
  <2> QED BY <2>1, <2>2, <2>3
<1> QED BY <1>1, <1>2, <1>3, <1>4, <1>5, <1>6, <1>7, <1>8, <1>9, <1>10, <1>11 DEF LiveNext

\* Clients that unsubscribe only from streams with subscribers get exactly
\* what they subscribed to, and nothing panics: for any number of them.
THEOREM HubIsRight == ASSUME ~Stray PROVE LiveSpec => []HubRight
<1>1. HubInv /\ [LiveNext]_liveVars => HubInv'
  <2>1. CASE LiveNext
    BY <2>1, NextHub
  <2>2. CASE UNCHANGED liveVars
    BY <2>2 DEF liveVars, HubInv, LiveTypeOK, NewIsEmpty, ConnectedIsOpen, SubscribedIsWanted,
                NoStrays, HubRight, NeverPanics, GetsWhatIsDue, At, Subscribers
  <2> QED BY <2>1, <2>2
<1>2. HubInv => HubRight
  BY DEF HubInv
<1> QED BY InitHub, <1>1, <1>2, PTL DEF LiveSpec

===============================================================================
