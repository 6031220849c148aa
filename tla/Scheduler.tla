------------------------------ MODULE Scheduler ------------------------------
(***************************************************************************)
(* When the alerting scheduler queues a job.  Ticks come second by second. *)
(* Every FetchEvery-th tick reloads the rules (Update), and every tick     *)
(* looks at all jobs (Tick): a job whose frequency divides the timestamp   *)
(* waits for its offset, and is queued at the first tick the offset        *)
(* divides.  Jobs that run, or whose rule is paused, are passed over.      *)
(*                                                                         *)
(* Tick and Update are single steps: each treats the jobs one by one, and  *)
(* what runs beside them starts or ends the evaluation of one job.         *)
(* The queue is never full here, and a queued job starts within a second.  *)
(***************************************************************************)
EXTENDS Integers, Sequences

CONSTANTS
  AlertIds,     \* ids of alerts
  RowLists,   \* the lists of rows [id, frequency, paused] a fetch may return
  ReloadEvery, \* the rules are reloaded every 10th tick in the code
  Cycle       \* timestamps count modulo Cycle, which all frequencies and
              \* offsets divide, so that the remainders are those of the code

Row == [id : AlertIds, frequency : Nat, paused : BOOLEAN]

ASSUME SchedulerAssumption ==
  /\ RowLists \subseteq Seq(Row)
  /\ ReloadEvery \in Nat \ {0} /\ Cycle \in Nat \ {0}

VARIABLES
  timestamp,     \* timestamp of the tick
  count,   \* tickIndex % FetchEvery
  loop,      \* alertingTicker: "wait" for a tick, "update", "tick", or it
           \* has "stopped"
  jobs,    \* SchedulerImpl.jobs: alert |-> Job with its Rule
  begun,   \* history: alerts of which a period began and nothing was queued
  moved    \* history: alerts whose rule changed while they wait

schedulerVars == <<timestamp, count, loop, jobs, begun, moved>>

\* held: the evaluation that runs holds the rule that the job points to.
Job == [frequency : Nat, paused : BOOLEAN, offset : Nat \ {0},
        wait : BOOLEAN, queued : BOOLEAN, running : BOOLEAN, held : BOOLEAN]

Divides(d, t) == t % d = 0

SchedulerInit ==
  /\ timestamp \in 0..(Cycle - 1)
  /\ count = 0
  /\ loop = "wait"
  /\ jobs = << >>
  /\ begun = {} /\ moved = {}

\* alertingTicker receives a tick; what the last one queued has started.
NextSecond ==
  /\ loop = "wait"
  /\ \A a \in DOMAIN jobs : ~jobs[a].queued
  /\ timestamp' = (timestamp + 1) % Cycle
  /\ count' = (count + 1) % ReloadEvery
  /\ loop' = IF count = 0 THEN "update" ELSE "tick"
  /\ UNCHANGED <<jobs, begun, moved>>

Offset(frequency, n, i) == ((((frequency * 1000) \div n) * i) \div 1000)

\* Defect: the rules are counted from 1.
OffsetFromOne(frequency, n, i) ==
  IF Offset(frequency, n, i + 1) = 0 THEN 1 ELSE Offset(frequency, n, i + 1)

\* The offset of the i-th of n rules, from 0.
OffsetOf(frequency, n, i) ==
  IF Offset(frequency, n, i) = 0 THEN 1 ELSE Offset(frequency, n, i)

NewJob == [wait |-> FALSE, queued |-> FALSE, running |-> FALSE]

\* Defect: the jobs are made anew.
JobOfForgets(a) == NewJob

\* What a reload keeps of a job.
JobOf(a) == IF a \in DOMAIN jobs THEN jobs[a] ELSE NewJob

\* What the scheduler goes by.
Timing(j) == <<j.frequency, j.offset, j.paused>>

Update(rows) ==
  /\ loop = "update" /\ loop' = "tick"
  /\ jobs' = [a \in {rows[i].id : i \in DOMAIN rows} |->
       LET i == CHOOSE k \in DOMAIN rows : rows[k].id = a IN
       [frequency |-> rows[i].frequency, paused |-> rows[i].paused,
        offset |-> OffsetOf(rows[i].frequency, Len(rows), i - 1),
        wait |-> JobOf(a).wait, queued |-> JobOf(a).queued,
        running |-> JobOf(a).running, held |-> FALSE]]
  /\ moved' = {a \in DOMAIN jobs' :
       jobs'[a].wait /\ (a \in moved \/ Timing(jobs'[a]) # Timing(jobs[a]))}
  /\ UNCHANGED <<timestamp, count, begun>>

(***************************************************************************)
(* The body of Tick's loop.                                                *)
(***************************************************************************)
Ready(j) == ~j.running /\ ~j.paused
DivisionByZero(j) ==
  /\ Ready(j)
  /\ \/ j.wait /\ j.offset = 0
     \/ j.frequency = 0 /\ ~(j.wait /\ Divides(j.offset, timestamp))
Fires(j) == Ready(j) /\ j.wait /\ Divides(j.offset, timestamp)
Begins(j) == Ready(j) /\ ~Fires(j) /\ Divides(j.frequency, timestamp)

Visited(j) ==
  IF Fires(j) THEN [j EXCEPT !.wait = FALSE, !.queued = TRUE]
  ELSE IF ~Begins(j) THEN j
  ELSE IF j.offset > 0 THEN [j EXCEPT !.wait = TRUE]
  ELSE [j EXCEPT !.queued = TRUE]

Visit(alerts) ==
  /\ jobs' = [a \in DOMAIN jobs |->
                IF a \in alerts THEN Visited(jobs[a]) ELSE jobs[a]]
  /\ begun' = (begun \cup {a \in alerts : Begins(jobs[a])})
                \ {a \in alerts : jobs'[a].queued}
  /\ moved' = {a \in moved :
                 jobs'[a].wait /\ ~(a \in alerts /\ Begins(jobs[a]))}
  /\ UNCHANGED <<timestamp, count>>

Panicking == {a \in DOMAIN jobs : DivisionByZero(jobs[a])}

TickAll ==
  /\ loop = "tick" /\ Panicking = {}
  /\ Visit(DOMAIN jobs)
  /\ loop' = "wait"

\* The map is visited in any order, until a job panics; alertingTicker
\* recovers and returns.
TickPanics(visited) ==
  /\ loop = "tick" /\ Panicking # {}
  /\ visited \cap Panicking = {}
  /\ Visit(visited)
  /\ loop' = "stopped"

(***************************************************************************)
(* processJob.  An evaluation sets the state of the rule it holds.         *)
(***************************************************************************)
StartEvaluation(a) ==
  /\ jobs[a].queued
  /\ jobs' = [jobs EXCEPT ![a] =
       [@ EXCEPT !.queued = FALSE, !.running = TRUE, !.held = TRUE]]
  /\ UNCHANGED <<timestamp, count, loop, begun, moved>>

FinishEvaluation(a) ==
  /\ jobs[a].running
  /\ jobs' = [jobs EXCEPT ![a] =
       [@ EXCEPT !.running = FALSE, !.held = FALSE,
                 !.paused = jobs[a].paused /\ ~jobs[a].held]]
  /\ UNCHANGED <<timestamp, count, loop, begun, moved>>

alertingTicker ==
  \/ NextSecond
  \/ \E rows \in RowLists : Update(rows)
  \/ TickAll
  \/ \E visited \in SUBSET DOMAIN jobs : TickPanics(visited)

Process(a) == a \in DOMAIN jobs /\ (StartEvaluation(a) \/ FinishEvaluation(a))

SchedulerNext == alertingTicker \/ \E a \in AlertIds : Process(a)

SchedulerSpec == SchedulerInit /\ [][SchedulerNext]_schedulerVars

\* Ticks keep coming and evaluations end.
SchedulerFairness == WF_schedulerVars(alertingTicker) /\ \A a \in AlertIds : WF_schedulerVars(Process(a))

SchedulerFairSpec == SchedulerSpec /\ SchedulerFairness

---------------------------------------------------------------------------
SchedulerTypeOK ==
  /\ timestamp \in 0..(Cycle - 1) /\ count \in 0..(ReloadEvery - 1)
  /\ loop \in {"wait", "update", "tick", "stopped"}
  /\ DOMAIN jobs \subseteq AlertIds
  /\ \A a \in DOMAIN jobs : jobs[a] \in Job
  /\ begun \subseteq AlertIds /\ moved \subseteq DOMAIN jobs

\* Only a rule with frequency 0 makes Tick divide by zero: whatever rows
\* come and go, however their number shifts the offsets of jobs that wait.
StopsOnlyForFrequencyZero ==
  loop = "stopped" => \E a \in DOMAIN jobs : jobs[a].frequency = 0

\* A tick queues a job only if a period of its rule began since it was
\* queued last: no reload and no change of offsets evaluates a rule twice.
OncePerPeriod ==
  [][\A a \in DOMAIN jobs :
       loop = "tick" /\ loop' # "tick" /\ jobs'[a].queued /\ ~jobs[a].queued
         => a \in begun \/ Divides(jobs[a].frequency, timestamp)]_schedulerVars

\* No period is skipped: when one begins, a job that could run no longer
\* waits for its offset in the last, unless a reload changed its rule or its
\* offset meanwhile, or the rule is to be evaluated every second.
EveryPeriod ==
  [][\A a \in DOMAIN jobs :
       /\ loop = "tick" /\ loop' = "wait"
       /\ jobs[a].frequency > 1
       /\ Ready(jobs[a]) /\ Divides(jobs[a].frequency, timestamp)
       => ~jobs[a].wait \/ a \in moved]_schedulerVars

\* A rule is queued at most once in a period, and in every period, until one
\* with frequency 0 stops the scheduler.
PeriodsKept == OncePerPeriod /\ EveryPeriod /\ []StopsOnlyForFrequencyZero

KeepsTiming(a) ==
  {a} \cap DOMAIN jobs = {a} \cap DOMAIN jobs'
    /\ (a \in DOMAIN jobs => Timing(jobs'[a]) = Timing(jobs[a]))

\* A rule that stays active, and is neither edited nor moved for ever, is
\* queued again and again, whatever happens to the others.
DueAgain ==
  \A a \in AlertIds :
    /\ <>[](loop # "stopped" /\ a \in DOMAIN jobs /\ ~jobs[a].paused)
    /\ <>[][KeepsTiming(a)]_schedulerVars
    => []<>(a \in DOMAIN jobs /\ jobs[a].queued)
=============================================================================
