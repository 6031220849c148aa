---------------------------- MODULE AlertEngine ----------------------------
(***************************************************************************)
(* The alerting engine: every server runs a ticker goroutine, which reads  *)
(* the alert table into rules and puts the jobs that are due on the        *)
(* execution queue, a dispatcher, which starts a goroutine for each queued *)
(* job, and those goroutines, which evaluate the rule, save the new state  *)
(* in the alert table and notify.  The servers share the table, which the  *)
(* API writes as well.                                                     *)
(*                                                                         *)
(* Jobs and rules are Go pointers: a reload hands a job a new rule while   *)
(* an evaluation keeps the old one, and two evaluations of one job share   *)
(* their rule.  Both are modelled as heap cells, `job' and `rule', that    *)
(* are recycled when nothing points to them any more.                      *)
(*                                                                         *)
(* When a job is due is the subject of module Scheduler: here a job the    *)
(* ticker looks at may or may not be due.                                  *)
(***************************************************************************)
EXTENDS Integers, Sequences, FiniteSets

CONSTANTS
  Servers,      \* the Grafana servers that share the database
  Alerts,       \* ids of the alert rows; an id is never used twice
  Slots,        \* bound: the set of goroutines that process jobs on a server
  Jobs, Rules,  \* bounds: heap cells, sets of integers
  QueueSize,    \* capacity of execQueue, 1000 in the code
  FetchEvery,   \* the rules are reloaded every 10th tick in the code
  Serializable, \* TRUE: transactions are serialized (SQLite, shared cache);
                \* FALSE: a SELECT takes no lock (MySQL, PostgreSQL)
  PromptStart,  \* TRUE: a queued job has started before the next tick
  MaxFlips,     \* bound: changes of what the data sources say
  MaxRequests,  \* bound: API requests after the alert is created
  MaxFaults     \* bound: failing calls, panics and crashes

EvalStates == {"ok", "alerting", "no_data"}
RowStates == EvalStates \cup {"pending", "paused"}
Outcomes == EvalStates \cup {"keep"}
None == 0

ASSUME EngineAssumption ==
  /\ Jobs \subseteq Nat \ {None} /\ Rules \subseteq Nat \ {None}
  /\ QueueSize \in Nat \ {0} /\ FetchEvery \in Nat \ {0}
  /\ Serializable \in BOOLEAN /\ PromptStart \in BOOLEAN
  /\ MaxFlips \in Nat /\ MaxRequests \in Nat /\ MaxFaults \in Nat

VARIABLES
  state,     \* alert table: alert |-> alert.state, or "unborn", "deleted"
  changes,   \* alert table: alert |-> alert.state_changes
  annotated, \* alerts that have a row in the annotation table
  signal,    \* what evaluating the alert's conditions yields at the moment
  ticker,    \* server |-> the ticker goroutine
  sched,     \* server |-> SchedulerImpl.jobs: alert |-> job, or None
  queue,     \* server |-> execQueue
  worker,    \* <<server, slot>> |-> a processJob goroutine
  job, rule, \* the heap: server |-> cell |-> Job, server |-> cell |-> Rule.State
  sent,      \* history: <<alert, n>> when its n-th state change was notified
  flips, requests, faults

table == <<state, changes, annotated>>
memory == <<ticker, sched, queue, worker, job, rule>>
budget == <<flips, requests, faults>>
vars == <<table, signal, memory, sent, budget>>

Workers == Servers \X Slots
WorkersOf(s) == {s} \X Slots
Exists(a) == state[a] \in RowStates

NoJob == [alert |-> None, rule |-> None, running |-> FALSE]
IdleTicker ==
  [pc |-> "wait", count |-> 0, snap |-> <<>>, todo |-> {}, next |-> None]
\* change: number of the state change this evaluation saved, 0 if none;
\* from: the state it replaced; want, seen: the command and the row it read.
IdleWorker ==
  [pc |-> "idle", job |-> None, alert |-> None, rule |-> None,
   prev |-> "ok", want |-> "ok", seen |-> 0, change |-> 0, from |-> "ok"]
Done(rec) == [rec EXCEPT !.pc = "done", !.change = 0, !.from = "ok",
                         !.want = "ok", !.seen = 0, !.prev = "ok"]

Init ==
  /\ state = [a \in Alerts |-> "unborn"]
  /\ changes = [a \in Alerts |-> 0]
  /\ annotated = {}
  /\ signal = [a \in Alerts |-> "ok"]
  /\ ticker = [s \in Servers |-> IdleTicker]
  /\ sched = [s \in Servers |-> [a \in Alerts |-> None]]
  /\ queue = [s \in Servers |-> << >>]
  /\ worker = [w \in Workers |-> IdleWorker]
  /\ job = [s \in Servers |-> [j \in Jobs |-> NoJob]]
  /\ rule = [s \in Servers |-> [r \in Rules |-> "free"]]
  /\ sent = {}
  /\ flips = 0 /\ requests = 0 /\ faults = 0

(***************************************************************************)
(* The heap.                                                               *)
(***************************************************************************)
LiveJobs(s, sc, q, wk) ==
  {sc[s][a] : a \in Alerts} \cup {q[s][i] : i \in 1..Len(q[s])}
    \cup {wk[w].job : w \in WorkersOf(s)}

LiveRules(s, jb, wk) ==
  {jb[j].rule : j \in Jobs} \cup {wk[w].rule : w \in WorkersOf(s)}

\* The heap of s after a step that dropped pointers: jb and rl without the
\* cells that the new values of sched, queue and worker do not reach.
Collect(s, jb, rl) ==
  LET jobs == [j \in Jobs |->
                 IF j \in LiveJobs(s, sched', queue', worker')
                 THEN jb[j] ELSE NoJob]
      rules == [r \in Rules |->
                  IF r \in LiveRules(s, jobs, worker') THEN rl[r] ELSE "free"] IN
  /\ job' = [job EXCEPT ![s] = jobs]
  /\ rule' = [rule EXCEPT ![s] = rules]

LeastFree(cell, cells, free) ==
  cell \in cells /\ free[cell] /\ \A c \in cells : free[c] => cell <= c
FreshRule(s, r) == LeastFree(r, Rules, [c \in Rules |-> rule[s][c] = "free"])
FreshJob(s, j) == LeastFree(j, Jobs, [c \in Jobs |-> job[s][c] = NoJob])

(***************************************************************************)
(* Requests to the API and the data sources.                               *)
(***************************************************************************)
\* SaveAlerts inserts the row of an alert that is new on its dashboard.
SaveAlert(a) ==
  /\ state[a] = "unborn"
  /\ state' = [state EXCEPT ![a] = "pending"]
  /\ UNCHANGED <<changes, annotated, signal, memory, sent, budget>>

Request == requests < MaxRequests /\ requests' = requests + 1

\* PauseAlert sets or resets the state whatever it was.
PauseAlert(a, paused) ==
  /\ Request
  /\ Exists(a)
  /\ state' = [state EXCEPT ![a] = IF paused THEN "paused" ELSE "pending"]
  /\ UNCHANGED <<changes, annotated, signal, memory, sent, flips, faults>>

\* deleteAlertByIdInternal removes the row and its annotations.
DeleteAlert(a) ==
  /\ Request
  /\ Exists(a)
  /\ state' = [state EXCEPT ![a] = "deleted"]
  /\ annotated' = annotated \ {a}
  /\ UNCHANGED <<changes, signal, memory, sent, flips, faults>>

Flip(a) ==
  /\ flips < MaxFlips /\ flips' = flips + 1
  /\ \E o \in Outcomes \ {signal[a]} : signal' = [signal EXCEPT ![a] = o]
  /\ UNCHANGED <<table, memory, sent, requests, faults>>

Fault == faults < MaxFaults /\ faults' = faults + 1

(***************************************************************************)
(* The ticker goroutine: DefaultRuleReader.Fetch, SchedulerImpl.Update and *)
(* SchedulerImpl.Tick.                                                     *)
(***************************************************************************)
Scheduled(sc) == {a \in DOMAIN sc : sc[a] # None}
Ticking(todo) == IF todo = {} THEN "wait" ELSE "tick"

Started(s) ==
  queue[s] = << >> /\ \A w \in WorkersOf(s) : worker[w].pc # "start"

AtTick(s) == ticker[s].pc = "wait" /\ (PromptStart => Started(s))

NextCount(s) == (ticker[s].count + 1) % FetchEvery

\* Every tenth tick reads the table; rows is what the query returned.
Fetched(s, rows) ==
  /\ AtTick(s) /\ ticker[s].count = 0
  /\ ticker' = [ticker EXCEPT ![s] =
       [pc |-> "update", count |-> NextCount(s), todo |-> rows, next |-> None,
        snap |-> [a \in rows |-> state[a]]]]
  /\ UNCHANGED <<table, signal, sched, queue, worker, job, rule, sent,
                 flips, requests>>

Fetch(s) ==
  Fetched(s, {a \in Alerts : Exists(a)}) /\ UNCHANGED faults

\* On an error Fetch returns an empty list, not the error.
FetchFails(s) == Fault /\ Fetched(s, {})

\* Defect: a job that exists keeps its rule.
UpdateRuleKeeps(s, a) ==
  LET t == ticker[s] IN
  /\ t.pc = "update" /\ a \in t.todo
  /\ ticker' = [ticker EXCEPT ![s].todo = t.todo \ {a}]
  /\ IF sched[s][a] # None THEN UNCHANGED <<sched, job, rule>>
     ELSE \E j \in Jobs, r \in Rules :
            /\ FreshJob(s, j) /\ FreshRule(s, r)
            /\ sched' = [sched EXCEPT ![s][a] = j]
            /\ job' = [job EXCEPT ![s][j] =
                          [alert |-> a, rule |-> r, running |-> FALSE]]
            /\ rule' = [rule EXCEPT ![s][r] = t.snap[a]]
  /\ UNCHANGED <<table, signal, queue, worker, sent, budget>>

\* The body of Update's loop: the alert's job, or a new one, gets the rule
\* just read.  Only this goroutine reads s.jobs, so the new map may take the
\* place of the old one alert by alert.
UpdateRule(s, a) ==
  LET t == ticker[s] IN
  /\ t.pc = "update" /\ a \in t.todo
  /\ ticker' = [ticker EXCEPT ![s].todo = t.todo \ {a}]
  /\ \E j \in Jobs, r \in Rules :
       /\ IF sched[s][a] = None THEN FreshJob(s, j) ELSE j = sched[s][a]
       /\ FreshRule(s, r)
       /\ sched' = [sched EXCEPT ![s][a] = j]
       /\ UNCHANGED <<queue, worker>>
       /\ Collect(s, [job[s] EXCEPT ![j] = [@ EXCEPT !.alert = a, !.rule = r]],
                  [rule[s] EXCEPT ![r] = t.snap[a]])
  /\ UNCHANGED <<table, signal, sent, budget>>

\* Defect: the new jobs are merged into the old map.
UpdateDoneMerges(s) ==
  LET t == ticker[s]
      todo == Scheduled(sched[s]) IN
  /\ t.pc = "update" /\ t.todo = {}
  /\ ticker' = [ticker EXCEPT ![s] =
       [@ EXCEPT !.pc = Ticking(todo), !.todo = todo, !.snap = << >>]]
  /\ UNCHANGED <<table, signal, sched, queue, worker, job, rule, sent, budget>>

\* s.jobs = jobs: jobs whose alert was not in the list are forgotten; then
\* Tick goes over what is left.
UpdateDone(s) ==
  LET t == ticker[s] IN
  /\ t.pc = "update" /\ t.todo = {}
  /\ sched' = [sched EXCEPT ![s] =
       [a \in Alerts |-> IF a \in DOMAIN t.snap THEN @[a] ELSE None]]
  /\ ticker' = [ticker EXCEPT ![s] =
       [@ EXCEPT !.pc = Ticking(DOMAIN t.snap), !.todo = DOMAIN t.snap,
                 !.snap = << >>]]
  /\ UNCHANGED <<queue, worker>>
  /\ Collect(s, job[s], rule[s])
  /\ UNCHANGED <<table, signal, sent, budget>>

\* A tick that reloads nothing.
Tick(s) ==
  /\ AtTick(s) /\ ticker[s].count # 0
  /\ LET todo == Scheduled(sched[s]) IN
     ticker' = [ticker EXCEPT ![s] =
       [@ EXCEPT !.pc = Ticking(todo), !.count = NextCount(s), !.todo = todo]]
  /\ UNCHANGED <<table, signal, sched, queue, worker, job, rule, sent, budget>>

\* The job is not due, already running or paused.
Skip(s, a) ==
  LET t == ticker[s] IN
  /\ t.pc = "tick" /\ a \in t.todo
  /\ ticker' = [ticker EXCEPT ![s] =
       [@ EXCEPT !.pc = Ticking(t.todo \ {a}), !.todo = t.todo \ {a}]]
  /\ UNCHANGED <<table, signal, sched, queue, worker, job, rule, sent, budget>>

\* The job is due and may run: the goroutine is about to send it.
Due(s, a) ==
  LET t == ticker[s]
      j == job[s][sched[s][a]] IN
  /\ t.pc = "tick" /\ a \in t.todo
  /\ ~j.running /\ rule[s][j.rule] # "paused"
  /\ ticker' = [ticker EXCEPT ![s] =
       [@ EXCEPT !.pc = "send", !.todo = t.todo \ {a}, !.next = sched[s][a]]]
  /\ UNCHANGED <<table, signal, sched, queue, worker, job, rule, sent, budget>>

\* The send blocks while the queue is full.
enque(s) ==
  LET t == ticker[s] IN
  /\ t.pc = "send" /\ Len(queue[s]) < QueueSize
  /\ queue' = [queue EXCEPT ![s] = Append(@, t.next)]
  /\ ticker' = [ticker EXCEPT ![s] =
       [@ EXCEPT !.pc = Ticking(t.todo), !.next = None]]
  /\ UNCHANGED <<table, signal, sched, worker, job, rule, sent, budget>>

(***************************************************************************)
(* The dispatcher, and processJob in a goroutine of its own.               *)
(***************************************************************************)
Dispatch(s, w) ==
  /\ queue[s] # << >> /\ w \in WorkersOf(s) /\ worker[w].pc = "idle"
  /\ worker' = [worker EXCEPT ![w].pc = "start", ![w].job = Head(queue[s])]
  /\ queue' = [queue EXCEPT ![s] = Tail(@)]
  /\ UNCHANGED <<table, signal, ticker, sched, job, rule, sent, budget>>

\* job.Running = true, then NewEvalContext keeps the rule and its state.
StartJob(w) ==
  LET s == w[1]
      j == job[s][worker[w].job] IN
  /\ worker[w].pc = "start"
  /\ job' = [job EXCEPT ![s][worker[w].job].running = TRUE]
  /\ worker' = [worker EXCEPT ![w] =
       [@ EXCEPT !.pc = "eval", !.alert = j.alert, !.rule = j.rule,
                 !.prev = rule[s][j.rule]]]
  /\ UNCHANGED <<table, signal, ticker, sched, queue, rule, sent, budget>>

\* evalContext.Rule.State, as it is now.
RuleState(w) == rule[w[1]][worker[w].rule]

\* What getNewState makes of the outcome; "keep" is keep_state.
NewState(w, outcome) == IF outcome = "keep" THEN worker[w].prev ELSE outcome

Eval(w) ==
  LET wk == worker[w] IN
  /\ wk.pc = "eval"
  /\ rule' = [rule EXCEPT ![w[1]][wk.rule] = NewState(w, signal[wk.alert])]
  /\ worker' = [worker EXCEPT ![w].pc = "decide"]
  /\ UNCHANGED <<table, signal, ticker, sched, queue, job, sent, budget>>

\* Defect: the recovered panic does not close `done', so nobody finishes.
EvalPanicsForGood(w) ==
  /\ Fault /\ worker[w].pc = "eval"
  /\ worker' = [worker EXCEPT ![w] = IdleWorker]
  /\ UNCHANGED <<table, signal, ticker, sched, queue, job, rule, sent,
                 flips, requests>>

\* A panic while evaluating is recovered and closes `done'.
EvalPanics(w) ==
  /\ Fault /\ worker[w].pc = "eval"
  /\ worker' = [worker EXCEPT ![w] = Done(@)]
  /\ UNCHANGED <<table, signal, ticker, sched, queue, job, rule, sent,
                 flips, requests>>

\* Handle asks ShouldUpdateAlertState of the rule it shares.
Handle(w) ==
  LET wk == worker[w] IN
  /\ wk.pc = "decide"
  /\ worker' = [worker EXCEPT ![w] =
       IF RuleState(w) = wk.prev THEN Done(@) ELSE [@ EXCEPT !.pc = "save"]]
  /\ UNCHANGED <<table, signal, ticker, sched, queue, job, rule, sent, budget>>

(***************************************************************************)
(* The SetAlertState transaction.  Its reply decides how Handle goes on.   *)
(***************************************************************************)
\* Defect: ErrRequiresNewState is logged like any other error.
SaveRefusedIfPaused(w) ==
  LET wk == worker[w] IN
  /\ wk.pc = "save"
  /\ state[wk.alert] \in {"paused", RuleState(w)}
  /\ worker' = [worker EXCEPT ![w] =
       IF state[wk.alert] = "paused" THEN Done(@)
       ELSE [@ EXCEPT !.pc = "annotate"]]
  /\ UNCHANGED <<table, signal, ticker, sched, queue, job, rule, sent, budget>>

\* ErrCannotChangeStateOnPausedAlert and ErrRequiresNewState end Handle.
SaveRefused(w) ==
  LET wk == worker[w] IN
  /\ wk.pc = "save"
  /\ state[wk.alert] \in {"paused", RuleState(w)}
  /\ worker' = [worker EXCEPT ![w] = Done(@)]
  /\ UNCHANGED <<table, signal, ticker, sched, queue, job, rule, sent, budget>>

\* Defect: a paused row is not refused.
MaySavePaused(w) ==
  LET wk == worker[w] IN
  wk.pc = "save" /\ Exists(wk.alert) /\ state[wk.alert] # RuleState(w)

MaySave(w) ==
  LET wk == worker[w] IN
  /\ wk.pc = "save"
  /\ Exists(wk.alert)
  /\ state[wk.alert] \notin {"paused", RuleState(w)}

\* Defect: state_changes is not incremented.
SetAlertStateUncounted(w) ==
  LET wk == worker[w] IN
  /\ Serializable /\ MaySave(w)
  /\ state' = [state EXCEPT ![wk.alert] = RuleState(w)]
  /\ worker' = [worker EXCEPT ![w] =
       [@ EXCEPT !.pc = "annotate", !.change = changes[wk.alert] + 1,
                 !.from = state[wk.alert]]]
  /\ UNCHANGED <<changes, annotated, signal, ticker, sched, queue, job, rule,
                 sent, budget>>

\* One serialized transaction.
SetAlertState(w) ==
  LET wk == worker[w] IN
  /\ Serializable /\ MaySave(w)
  /\ state' = [state EXCEPT ![wk.alert] = RuleState(w)]
  /\ changes' = [changes EXCEPT ![wk.alert] = @ + 1]
  /\ worker' = [worker EXCEPT ![w] =
       [@ EXCEPT !.pc = "annotate", !.change = changes[wk.alert] + 1,
                 !.from = state[wk.alert]]]
  /\ UNCHANGED <<annotated, signal, ticker, sched, queue, job, rule, sent,
                 budget>>

\* The same transaction where the SELECT takes no lock: the row is read, and
\* later every column of the copy is written back.
ReadRow(w) ==
  LET wk == worker[w] IN
  /\ ~Serializable /\ MaySave(w)
  /\ worker' = [worker EXCEPT ![w] =
       [@ EXCEPT !.pc = "write", !.want = RuleState(w),
                 !.seen = changes[wk.alert], !.from = state[wk.alert]]]
  /\ UNCHANGED <<table, signal, ticker, sched, queue, job, rule, sent, budget>>

WriteRow(w) ==
  LET wk == worker[w] IN
  /\ wk.pc = "write"
  /\ worker' = [worker EXCEPT ![w] =
       [@ EXCEPT !.pc = "annotate", !.want = "ok", !.seen = 0,
                 !.change = IF Exists(wk.alert) THEN wk.seen + 1 ELSE 0]]
  /\ IF Exists(wk.alert)
     THEN /\ state' = [state EXCEPT ![wk.alert] = wk.want]
          /\ changes' = [changes EXCEPT ![wk.alert] = wk.seen + 1]
     ELSE UNCHANGED <<state, changes>>
  /\ UNCHANGED <<annotated, signal, ticker, sched, queue, job, rule, sent,
                 budget>>

\* Any other error is only logged: the row is gone, or the call failed.
Unsaved(w) ==
  /\ worker[w].pc = "save"
  /\ worker' = [worker EXCEPT ![w].pc = "annotate"]
  /\ UNCHANGED <<table, signal, ticker, sched, queue, job, rule, sent,
                 flips, requests>>

AlertNotFound(w) ==
  Unsaved(w) /\ ~Exists(worker[w].alert) /\ UNCHANGED faults
SaveFails(w) == Fault /\ Unsaved(w)

ShouldSendNotification(w) ==
  ~(worker[w].prev = "pending" /\ RuleState(w) = "ok")

\* The annotation is inserted, also for a row that is gone.
Annotate(w) ==
  /\ worker[w].pc = "annotate"
  /\ annotated' = annotated \cup {worker[w].alert}
  /\ worker' = [worker EXCEPT ![w] =
       IF ShouldSendNotification(w) THEN [@ EXCEPT !.pc = "notify"] ELSE Done(@)]
  /\ UNCHANGED <<state, changes, signal, ticker, sched, queue, job, rule, sent,
                 budget>>

\* A state GetStateModel has a title for.
Notifiable(st) == st \in EvalStates

Notify(w) ==
  LET wk == worker[w] IN
  /\ wk.pc = "notify" /\ Notifiable(RuleState(w))
  /\ sent' = IF wk.change = 0 THEN sent
             ELSE sent \cup {<<wk.alert, wk.change>>}
  /\ worker' = [worker EXCEPT ![w] = Done(@)]
  /\ UNCHANGED <<table, signal, ticker, sched, queue, job, rule, budget>>

\* Defect: job.Running stays true.
FinishRunning(w) ==
  /\ worker[w].pc = "done"
  /\ worker' = [worker EXCEPT ![w] = IdleWorker]
  /\ UNCHANGED <<table, signal, ticker, sched, queue, job, rule, sent, budget>>

\* processJob sees `done': job.Running = false.
Finish(w) ==
  LET wk == worker[w] IN
  /\ wk.pc = "done"
  /\ worker' = [worker EXCEPT ![w] = IdleWorker]
  /\ UNCHANGED <<sched, queue>>
  /\ Collect(w[1], [job[w[1]] EXCEPT ![wk.job].running = FALSE], rule[w[1]])
  /\ UNCHANGED <<table, signal, ticker, sent, budget>>

(***************************************************************************)
(* The process ends at any moment and starts again with an empty memory.   *)
(***************************************************************************)
Restarted(s) ==
  /\ ticker' = [ticker EXCEPT ![s] = IdleTicker]
  /\ sched' = [sched EXCEPT ![s] = [a \in Alerts |-> None]]
  /\ queue' = [queue EXCEPT ![s] = << >>]
  /\ worker' = [w \in Workers |->
                  IF w \in WorkersOf(s) THEN IdleWorker ELSE worker[w]]
  /\ Collect(s, job[s], rule[s])
  /\ UNCHANGED <<table, signal, sent, flips, requests>>

Crash(s) == Fault /\ Restarted(s)

\* A notifier runs in a goroutine without recover: the panic of
\* GetStateModel on any other state takes the process down.
NotifyPanics(w) ==
  /\ worker[w].pc = "notify" /\ ~Notifiable(RuleState(w))
  /\ Restarted(w[1]) /\ UNCHANGED faults

---------------------------------------------------------------------------
RequestStep(a) ==
  SaveAlert(a) \/ (\E p \in BOOLEAN : PauseAlert(a, p)) \/ DeleteAlert(a)

TickerStep(s) ==
  \/ Fetch(s) \/ UpdateDone(s) \/ Tick(s) \/ enque(s)
  \/ \E a \in Alerts : UpdateRule(s, a) \/ Skip(s, a) \/ Due(s, a)

WorkerStep(w) ==
  \/ StartJob(w) \/ Eval(w) \/ Handle(w)
  \/ SaveRefused(w) \/ SetAlertState(w) \/ ReadRow(w) \/ WriteRow(w)
  \/ AlertNotFound(w) \/ Annotate(w) \/ Notify(w) \/ NotifyPanics(w)
  \/ Finish(w)

FaultStep ==
  \/ \E s \in Servers : FetchFails(s) \/ Crash(s)
  \/ \E w \in Workers : EvalPanics(w) \/ SaveFails(w)

Next ==
  \/ \E a \in Alerts : RequestStep(a) \/ Flip(a)
  \/ \E s \in Servers : TickerStep(s) \/ \E w \in Workers : Dispatch(s, w)
  \/ \E w \in Workers : WorkerStep(w)
  \/ FaultStep

Spec == Init /\ [][Next]_vars

(***************************************************************************)
(* Fairness.  Goroutines that can run do, the ticker ticks, and a job that *)
(* may run again and again is due again and again (module Scheduler).      *)
(* Nothing makes users act, data change or calls fail.                     *)
(***************************************************************************)
Fairness ==
  /\ \A s \in Servers :
       /\ WF_vars(TickerStep(s))
       /\ WF_vars(\E w \in Workers : Dispatch(s, w))
       /\ \A a \in Alerts : SF_vars(Due(s, a))
  /\ \A w \in Workers : WF_vars(WorkerStep(w))

FairSpec == Spec /\ Fairness

---------------------------------------------------------------------------
(***************************************************************************)
(* Types.                                                                  *)
(***************************************************************************)
Snapshots == UNION {[A -> RowStates] : A \in SUBSET Alerts}

TickerRecord ==
  [pc : {"wait", "update", "tick", "send"}, count : 0..FetchEvery - 1,
   snap : Snapshots,
   todo : SUBSET Alerts, next : Jobs \cup {None}]

WorkerRecord ==
  [pc : {"idle", "start", "eval", "decide", "save", "write", "annotate",
         "notify", "done"},
   job : Jobs \cup {None}, alert : Alerts \cup {None},
   rule : Rules \cup {None}, prev : RowStates, want : RowStates,
   seen : Nat, change : Nat, from : RowStates]

JobRecord ==
  [alert : Alerts \cup {None}, rule : Rules \cup {None}, running : BOOLEAN]

TableOK ==
  /\ state \in [Alerts -> RowStates \cup {"unborn", "deleted"}]
  /\ changes \in [Alerts -> Nat]
  /\ annotated \subseteq Alerts

MemoryOK ==
  /\ ticker \in [Servers -> TickerRecord]
  /\ sched \in [Servers -> [Alerts -> Jobs \cup {None}]]
  /\ queue \in [Servers -> Seq(Jobs)]
  /\ worker \in [Workers -> WorkerRecord]
  /\ job \in [Servers -> [Jobs -> JobRecord]]
  /\ rule \in [Servers -> [Rules -> RowStates \cup {"free"}]]

\* A job cell in use, and what it points to.
ValidRule(s, r) == r \in Rules /\ rule[s][r] \in RowStates
ValidJob(s, j) ==
  /\ j \in Jobs
  /\ job[s][j].alert \in Alerts
  /\ ValidRule(s, job[s][j].rule)

TickerOK(s) ==
  LET t == ticker[s] IN
  /\ t.pc = "update" => /\ t.todo \subseteq DOMAIN t.snap
                        /\ DOMAIN t.snap \ t.todo \subseteq Scheduled(sched[s])
  /\ t.pc \in {"tick", "send"} => t.todo \subseteq Scheduled(sched[s])
  /\ t.pc = "send" => \E a \in Scheduled(sched[s]) : t.next = sched[s][a]

WorkerOK(w) ==
  LET wk == worker[w] IN
  /\ wk.pc # "idle" => wk.job # None
  /\ wk.pc \notin {"idle", "start"} =>
       wk.alert \in Alerts /\ ValidRule(w[1], wk.rule)

\* No pointer in use leads to a cell that was recycled.
PointersOK ==
  /\ \A s \in Servers :
       /\ \A j \in LiveJobs(s, sched, queue, worker) : j = None \/ ValidJob(s, j)
       /\ TickerOK(s)
  /\ \A w \in Workers : WorkerOK(w)

\* The type invariant.
TypeOK ==
  /\ TableOK
  /\ MemoryOK
  /\ PointersOK
  /\ signal \in [Alerts -> Outcomes]
  /\ sent \subseteq Alerts \X Nat
  /\ flips \in 0..MaxFlips /\ requests \in 0..MaxRequests
  /\ faults \in 0..MaxFaults

(***************************************************************************)
(* Where transactions are serialized, a saved state change belongs to one  *)
(* goroutine until it is notified: what NotifiedOnce rests on.             *)
(***************************************************************************)
\* Whatever the engine remembers, it read from a row.
AlertsBorn ==
  /\ \A s \in Servers :
       /\ \A a \in DOMAIN ticker[s].snap : state[a] # "unborn"
       /\ \A j \in Jobs : job[s][j].rule # None =>
            job[s][j].alert \in Alerts /\ state[job[s][j].alert] # "unborn"
  /\ \A w \in Workers :
       worker[w].pc \notin {"idle", "start"} => state[worker[w].alert] # "unborn"

ChangeOwned(w) ==
  LET wk == worker[w] IN
  /\ wk.pc # "write"
  /\ wk.pc \in {"annotate", "notify"} /\ wk.change = 0 =>
       ~Exists(wk.alert) \/ faults > 0
  /\ wk.change # 0 =>
       /\ wk.pc \in {"annotate", "notify"}
       /\ wk.change \in 1..changes[wk.alert]
       /\ <<wk.alert, wk.change>> \notin sent
       /\ \A v \in Workers \ {w} :
            worker[v].alert # wk.alert \/ worker[v].change # wk.change

\* The number of a change that was saved and not notified yet is held by one
\* goroutine, past its save; the others hold none unless a call failed or the
\* row is gone; what was notified was counted before.
ChangesOwned ==
  /\ AlertsBorn
  /\ \A p \in sent : p[2] \in 1..changes[p[1]]
  /\ \A w \in Workers : ChangeOwned(w)

(***************************************************************************)
(* Safety.                                                                 *)
(***************************************************************************)
\* The result of an evaluation never lands in a paused row: what leaves
\* "paused" is un-paused by a user or deleted (SetAlertState refuses, for all
\* the time between an evaluation's start and its save).
PausedRowUntouched ==
  [][\A a \in Alerts : state[a] = "paused" =>
       /\ state'[a] \in {"paused", "pending", "deleted"}
       /\ changes'[a] = changes[a]]_vars

\* A state change is notified at most once, whatever evaluations of the alert
\* overlap, on one server or on several, with whatever stale rules: the reply
\* of SetAlertState decides who notifies.  Only for want of such a reply, when
\* the call failed or the row was deleted, is something else notified.
NotifiedOnce ==
  [][\A w \in Workers : Notify(w) =>
       LET wk == worker[w] IN
       IF wk.change = 0 THEN ~Exists(wk.alert) \/ faults > 0
       ELSE <<wk.alert, wk.change>> \notin sent]_vars

\* The scheduler skips a job that is marked running, so a mark nobody will
\* reset would end the alert's evaluations for good: some goroutine is
\* processing every job marked so, after panics, refusals and reloads too.
RunningIsProcessed ==
  \A s \in Servers, a \in Alerts :
    sched[s][a] # None /\ job[s][sched[s][a]].running =>
      \E w \in WorkersOf(s) : /\ worker[w].job = sched[s][a]
                              /\ worker[w].pc \notin {"idle", "start"}

\* Two goroutines never process one job, and so never share its rule, as
\* long as queued jobs start before the next tick (PromptStart).
OneGoroutinePerJob ==
  \A v, w \in Workers : v # w /\ v[1] = w[1] /\ worker[v].job = worker[w].job =>
    worker[v].job = None

\* When the notifiers run, the rule they share with the evaluation has one of
\* the states GetStateModel knows; its default case panics.
NotifierKnowsState ==
  \A w \in Workers :
    worker[w].pc = "notify" => Notifiable(RuleState(w))

\* A job, its rule and the goroutine that processes it belong together.
JobsOwned == RunningIsProcessed /\ OneGoroutinePerJob /\ NotifierKnowsState

(***************************************************************************)
(* Liveness.                                                               *)
(***************************************************************************)
Active(a) == Exists(a) /\ state[a] # "paused"

\* When the data of an alert that stays active keeps one result, the row has
\* that state in the end, in spite of rules reloaded while an evaluation was
\* about to save and of replies that say the row has the state already.
SettledResultReachesRow ==
  \A a \in Alerts, o \in EvalStates :
    <>[](Active(a) /\ signal[a] = o) => <>[](state[a] = o)

\* Every server evaluates an active alert again and again.
EvaluatedAgain ==
  \A s \in Servers, a \in Alerts :
    <>[]Active(a) =>
      []<>(\E w \in WorkersOf(s) : worker[w].pc = "eval" /\ worker[w].alert = a)

\* A deleted alert leaves schedule, queue and goroutines of every server.
DeletedIsForgotten ==
  \A s \in Servers, a \in Alerts :
    state[a] = "deleted" ~>
      [](\A j \in LiveJobs(s, sched, queue, worker) \ {None} :
            job[s][j].alert # a)

(***************************************************************************)
(* Refinement.                                                             *)
(***************************************************************************)
History ==
  INSTANCE AlertHistory WITH Alerts <- Alerts, state <- state, changes <- changes, sent <- sent

\* The engine implements the history of alerts that AlertHistory specifies:
\* rows change only where SetAlertState and PauseAlert may change them.
ImplementsHistory == History!Spec
============================================================================
