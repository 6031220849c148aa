------------------------- MODULE AlertEngineProofs -------------------------
(***************************************************************************)
(* Theorems about AlertEngine, for every number of servers, alerts,        *)
(* goroutines and heap cells and every bound.                              *)
(***************************************************************************)
EXTENDS AlertEngine, TLAPS

(***************************************************************************)
(* Type correctness.  PointersOK is the part that needs an argument: a     *)
(* step that drops a pointer recycles the cells nobody reaches.            *)
(***************************************************************************)
\* A goroutine belongs to the server named first in its pair.
LEMMA WorkerServer ==
  ASSUME NEW w \in Workers
  PROVE  w[1] \in Servers /\ w \in WorkersOf(w[1])
BY DEF Workers, WorkersOf

\* The records at rest are well typed.
LEMMA IdleTyped ==
  /\ IdleWorker \in WorkerRecord
  /\ NoJob \in JobRecord
  /\ IdleTicker \in TickerRecord
<1>1. IdleWorker \in WorkerRecord
  BY DEF IdleWorker, WorkerRecord, RowStates, EvalStates
<1>2. NoJob \in JobRecord
  BY DEF NoJob, JobRecord
<1>3. IdleTicker \in TickerRecord
  <2>1. << >> \in [{} -> RowStates]
    OBVIOUS
  <2>2. << >> \in Snapshots
    BY <2>1 DEF Snapshots
  <2>3. 0 \in 0..FetchEvery - 1
    BY EngineAssumption
  <2> QED BY <2>2, <2>3 DEF IdleTicker, TickerRecord
<1> QED BY <1>1, <1>2, <1>3

\* A step that leaves the heap alone and makes no cell reachable.
LEMMA SameHeap ==
  ASSUME PointersOK,
         UNCHANGED <<job, rule>>,
         \A s \in Servers : LiveJobs(s, sched, queue, worker)'
                              \subseteq LiveJobs(s, sched, queue, worker),
         \A s \in Servers : TickerOK(s)',
         \A w \in Workers : WorkerOK(w)'
  PROVE  PointersOK'
BY DEF PointersOK, ValidJob, ValidRule

\* A step that recycles cells of s.
LEMMA CollectKeeps ==
  ASSUME MemoryOK,
         NEW s \in Servers,
         NEW jb \in [Jobs -> JobRecord],
         NEW rl \in [Rules -> RowStates \cup {"free"}],
         Collect(s, jb, rl),
         \A j \in LiveJobs(s, sched, queue, worker)' \ {None} :
           /\ j \in Jobs
           /\ jb[j].alert \in Alerts
           /\ jb[j].rule \in Rules /\ rl[jb[j].rule] \in RowStates
  PROVE  /\ job' \in [Servers -> [Jobs -> JobRecord]]
         /\ rule' \in [Servers -> [Rules -> RowStates \cup {"free"}]]
         /\ \A j \in LiveJobs(s, sched, queue, worker)' :
              j = None \/ (ValidJob(s, j)' /\ job'[s][j] = jb[j])
         /\ \A w \in WorkersOf(s) :
              (worker'[w].rule \in Rules /\ rl[worker'[w].rule] \in RowStates)
                => ValidRule(s, worker[w].rule)'
         /\ \A t \in Servers \ {s} : job'[t] = job[t] /\ rule'[t] = rule[t]
<1> DEFINE jobs == [j \in Jobs |-> IF j \in LiveJobs(s, sched', queue', worker')
                                   THEN jb[j] ELSE NoJob]
           rules == [r \in Rules |-> IF r \in LiveRules(s, jobs, worker')
                                     THEN rl[r] ELSE "free"]
<1>1. job' = [job EXCEPT ![s] = jobs] /\ rule' = [rule EXCEPT ![s] = rules]
  BY DEF Collect
<1>2. jobs \in [Jobs -> JobRecord]
  BY IdleTyped
<1>3. rules \in [Rules -> RowStates \cup {"free"}]
  OBVIOUS
<1>4. /\ job'[s] = jobs /\ rule'[s] = rules
      /\ \A t \in Servers \ {s} : job'[t] = job[t] /\ rule'[t] = rule[t]
  BY <1>1 DEF MemoryOK
<1>5. /\ job' \in [Servers -> [Jobs -> JobRecord]]
      /\ rule' \in [Servers -> [Rules -> RowStates \cup {"free"}]]
  BY <1>1, <1>2, <1>3 DEF MemoryOK
<1>6. ASSUME NEW j \in LiveJobs(s, sched, queue, worker)', j # None
      PROVE  ValidJob(s, j)' /\ job'[s][j] = jb[j]
  <2>1. j \in Jobs /\ jobs[j] = jb[j]
    BY <1>6
  <2>2. jobs[j].rule \in LiveRules(s, jobs, worker')
    BY <2>1 DEF LiveRules
  <2>3. jb[j].rule \in Rules /\ rules[jb[j].rule] = rl[jb[j].rule]
    BY <1>6, <2>1, <2>2
  <2>4. jb[j].alert \in Alerts /\ rl[jb[j].rule] \in RowStates
    BY <1>6
  <2> QED BY <1>4, <2>1, <2>3, <2>4 DEF ValidJob, ValidRule
<1>7. ASSUME NEW w \in WorkersOf(s), worker'[w].rule \in Rules,
             rl[worker'[w].rule] \in RowStates
      PROVE  ValidRule(s, worker[w].rule)'
  <2>1. worker'[w].rule \in LiveRules(s, jobs, worker')
    BY DEF LiveRules
  <2>2. rules[worker'[w].rule] = rl[worker'[w].rule]
    BY <1>7, <2>1
  <2> QED BY <1>4, <1>7, <2>2 DEF ValidRule
<1> HIDE DEF jobs, rules
<1> QED BY <1>4, <1>5, <1>6, <1>7

\* A step of one ticker goroutine that neither reloads nor sends.
LEMMA TickerMoves ==
  ASSUME TypeOK,
         NEW s \in Servers,
         NEW rec \in TickerRecord,
         ticker' = [ticker EXCEPT ![s] = rec],
         UNCHANGED <<sched, queue, worker, job, rule>>,
         TickerOK(s)'
  PROVE  MemoryOK' /\ PointersOK'
<1>1. MemoryOK'
  BY DEF TypeOK, MemoryOK
<1>2. ASSUME NEW t \in Servers PROVE TickerOK(t)'
  <2>1. CASE t = s
    BY <2>1
  <2>2. CASE t # s
    <3>1. ticker'[t] = ticker[t]
      BY <2>2 DEF TypeOK, MemoryOK
    <3> QED BY <3>1 DEF TypeOK, PointersOK, TickerOK
  <2> QED BY <2>1, <2>2
<1>3. \A t \in Servers : LiveJobs(t, sched, queue, worker)'
                            \subseteq LiveJobs(t, sched, queue, worker)
  BY DEF LiveJobs
<1>4. \A w \in Workers : WorkerOK(w)'
  BY DEF TypeOK, PointersOK, WorkerOK, ValidRule
<1> QED
  BY <1>1, <1>2, <1>3, <1>4, SameHeap DEF TypeOK

\* A step of one processJob goroutine that leaves the heap alone.
LEMMA WorkerMoves ==
  ASSUME TypeOK,
         NEW w \in Workers,
         NEW rec \in WorkerRecord,
         worker' = [worker EXCEPT ![w] = rec],
         UNCHANGED <<ticker, sched, queue, job, rule>>,
         rec.job = worker[w].job,
         worker[w].pc # "idle",
         rec.pc \notin {"idle", "start"} =>
           rec.alert \in Alerts /\ ValidRule(w[1], rec.rule)
  PROVE  MemoryOK' /\ PointersOK'
<1>1. MemoryOK'
  BY DEF TypeOK, MemoryOK
<1>2. \A t \in Servers : TickerOK(t)'
  BY DEF TypeOK, PointersOK, TickerOK
<1>3. \A v \in Workers : worker'[v].job = worker[v].job
  BY DEF TypeOK, MemoryOK
<1>4. \A t \in Servers : LiveJobs(t, sched, queue, worker)'
                            \subseteq LiveJobs(t, sched, queue, worker)
  BY <1>3 DEF LiveJobs, Workers, WorkersOf
<1>5. ASSUME NEW v \in Workers PROVE WorkerOK(v)'
  <2>1. CASE v = w
    <3>1. worker'[v] = rec /\ worker[w].job # None
      BY <2>1 DEF TypeOK, MemoryOK, PointersOK, WorkerOK
    <3> QED BY <2>1, <3>1 DEF WorkerOK, ValidRule
  <2>2. CASE v # w
    <3>1. worker'[v] = worker[v]
      BY <2>2 DEF TypeOK, MemoryOK
    <3> QED BY <3>1 DEF TypeOK, PointersOK, WorkerOK, ValidRule
  <2> QED BY <2>1, <2>2
<1> QED
  BY <1>1, <1>2, <1>4, <1>5, SameHeap DEF TypeOK

\* The steps of users, of the data sources and of the table alone.
LEMMA TypeOutside ==
  ASSUME TypeOK, NEW a \in Alerts, RequestStep(a) \/ Flip(a)
  PROVE  TypeOK'
<1>1. TableOK' /\ UNCHANGED memory /\ UNCHANGED sent
  BY DEF TypeOK, TableOK, RequestStep, SaveAlert, PauseAlert, DeleteAlert,
         Request, Flip, RowStates, EvalStates, table
<1>2. /\ signal' \in [Alerts -> Outcomes]
      /\ flips' \in 0..MaxFlips /\ requests' \in 0..MaxRequests
      /\ faults' \in 0..MaxFaults
  BY EngineAssumption
  DEF TypeOK, RequestStep, SaveAlert, PauseAlert, DeleteAlert, Request, Flip,
      budget
<1>3. MemoryOK' /\ PointersOK'
  BY <1>1 DEF TypeOK, MemoryOK, PointersOK, memory, LiveJobs, TickerOK, WorkerOK,
              ValidJob, ValidRule
<1> QED BY <1>1, <1>2, <1>3 DEF TypeOK

\* Reading any set of existing rows into a snapshot keeps the types.
LEMMA FetchTyped ==
  ASSUME TypeOK, NEW s \in Servers, NEW rows, rows \subseteq Alerts,
         \A a \in rows : state[a] \in RowStates,
         Fetched(s, rows), faults' \in 0..MaxFaults
  PROVE  TypeOK'
<1> DEFINE rec == [pc |-> "update", count |-> NextCount(s), todo |-> rows,
                   next |-> None, snap |-> [a \in rows |-> state[a]]]
<1>1. rec \in TickerRecord
  <2>1. NextCount(s) \in 0..FetchEvery - 1
    BY EngineAssumption DEF NextCount, TypeOK, MemoryOK, TickerRecord
  <2>2. [a \in rows |-> state[a]] \in Snapshots
    BY DEF Snapshots
  <2> QED BY <2>1, <2>2 DEF TickerRecord
<1>2. ticker' = [ticker EXCEPT ![s] = rec]
  BY DEF Fetched
<1>3. ticker'[s] = rec
  BY <1>2 DEF TypeOK, MemoryOK
<1>4. TickerOK(s)'
  BY <1>3 DEF TickerOK
<1>5. MemoryOK' /\ PointersOK'
  BY <1>1, <1>2, <1>4, TickerMoves DEF Fetched
<1> QED
  BY <1>5 DEF TypeOK, TableOK, Fetched, table

\* Fetch returns the rows that exist or, on an error, none.
LEMMA TypeFetch ==
  ASSUME TypeOK, NEW s \in Servers, Fetch(s) \/ FetchFails(s)
  PROVE  TypeOK'
<1>1. CASE Fetch(s)
  BY <1>1, FetchTyped DEF Fetch, Exists, TypeOK
<1>2. CASE FetchFails(s)
  <2>1. faults' \in 0..MaxFaults
    BY <1>2, EngineAssumption DEF FetchFails, Fault, TypeOK
  <2> QED BY <1>2, <2>1, FetchTyped DEF FetchFails
<1> QED BY <1>1, <1>2

\* A tick that reloads nothing looks at every scheduled job.
LEMMA TypeTick ==
  ASSUME TypeOK, NEW s \in Servers, Tick(s)
  PROVE  TypeOK'
<1> DEFINE todo == Scheduled(sched[s])
           rec == [ticker[s] EXCEPT !.pc = Ticking(todo),
                                    !.count = NextCount(s), !.todo = todo]
<1>1. rec \in TickerRecord
  <2>1. NextCount(s) \in 0..FetchEvery - 1
    BY EngineAssumption DEF NextCount, TypeOK, MemoryOK, TickerRecord
  <2>2. todo \subseteq Alerts
    BY DEF Scheduled, TypeOK, MemoryOK
  <2>3. Ticking(todo) \in {"wait", "tick"}
    BY DEF Ticking
  <2>4. ticker[s] \in TickerRecord
    BY DEF TypeOK, MemoryOK
  <2> HIDE DEF todo
  <2> QED BY <2>1, <2>2, <2>3, <2>4 DEF TickerRecord
<1>2. ticker' = [ticker EXCEPT ![s] = rec]
  BY DEF Tick
<1>3. ticker'[s] = rec /\ rec.todo = todo /\ rec.pc = Ticking(todo)
  BY <1>2 DEF TypeOK, MemoryOK, TickerRecord
<1>4. TickerOK(s)'
  <2>1. Ticking(todo) \in {"wait", "tick"} /\ sched' = sched
    BY DEF Ticking, Tick
  <2> QED BY <1>3, <2>1 DEF TickerOK
<1>5. MemoryOK' /\ PointersOK'
  BY <1>1, <1>2, <1>4, TickerMoves DEF Tick
<1> QED
  BY <1>5 DEF TypeOK, TableOK, Tick, table, budget

\* Skipping a job leaves the others of the tick to look at.
LEMMA TypeSkip ==
  ASSUME TypeOK, NEW s \in Servers, NEW a \in Alerts, Skip(s, a)
  PROVE  TypeOK'
<1> DEFINE todo == ticker[s].todo \ {a}
           rec == [ticker[s] EXCEPT !.pc = Ticking(todo), !.todo = todo]
<1>1. rec \in TickerRecord
  <2>1. Ticking(todo) \in {"wait", "tick"}
    BY DEF Ticking
  <2>2. ticker[s] \in TickerRecord
    BY DEF TypeOK, MemoryOK
  <2>3. todo \subseteq Alerts
    BY <2>2 DEF TickerRecord
  <2> HIDE DEF todo
  <2> QED BY <2>1, <2>2, <2>3 DEF TickerRecord
<1>2. ticker' = [ticker EXCEPT ![s] = rec]
  BY DEF Skip
<1>3. ticker'[s] = rec /\ rec.todo = todo /\ rec.pc = Ticking(todo)
  BY <1>2 DEF TypeOK, MemoryOK, TickerRecord
<1>4. TickerOK(s)'
  <2>1. Ticking(todo) \in {"wait", "tick"} /\ sched' = sched
    BY DEF Ticking, Skip
  <2>2. todo \subseteq Scheduled(sched[s])
    BY DEF Skip, TypeOK, PointersOK, TickerOK
  <2> QED BY <1>3, <2>1, <2>2 DEF TickerOK
<1>5. MemoryOK' /\ PointersOK'
  BY <1>1, <1>2, <1>4, TickerMoves DEF Skip
<1> QED
  BY <1>5 DEF TypeOK, TableOK, Skip, table, budget

\* The job about to be sent is one of the schedule.
LEMMA TypeDue ==
  ASSUME TypeOK, NEW s \in Servers, NEW a \in Alerts, Due(s, a)
  PROVE  TypeOK'
<1> DEFINE rec == [ticker[s] EXCEPT !.pc = "send", !.todo = ticker[s].todo \ {a},
                                    !.next = sched[s][a]]
<1>1. rec \in TickerRecord
  <2>1. ticker[s] \in TickerRecord /\ sched[s][a] \in Jobs \cup {None}
    BY DEF TypeOK, MemoryOK
  <2> QED BY <2>1 DEF TickerRecord
<1>2. ticker' = [ticker EXCEPT ![s] = rec]
  BY DEF Due
<1>3. ticker'[s] = rec
  BY <1>2 DEF TypeOK, MemoryOK
<1>4. TickerOK(s)'
  <2>1. ticker[s].todo \subseteq Scheduled(sched[s]) /\ a \in ticker[s].todo
    BY DEF Due, TypeOK, PointersOK, TickerOK
  <2>2. /\ rec.pc = "send" /\ rec.todo = ticker[s].todo \ {a}
        /\ rec.next = sched[s][a]
    BY DEF TypeOK, MemoryOK, TickerRecord
  <2> QED BY <1>3, <2>1, <2>2 DEF Due, TickerOK
<1>5. MemoryOK' /\ PointersOK'
  BY <1>1, <1>2, <1>4, TickerMoves DEF Due
<1> QED
  BY <1>5 DEF TypeOK, TableOK, Due, table, budget

\* What is put on the queue is a job of the schedule.
LEMMA TypeEnque ==
  ASSUME TypeOK, NEW s \in Servers, enque(s)
  PROVE  TypeOK'
<1> DEFINE rec == [ticker[s] EXCEPT !.pc = Ticking(ticker[s].todo), !.next = None]
<1>1. PICK a \in Alerts : sched[s][a] # None /\ ticker[s].next = sched[s][a]
  BY DEF enque, TypeOK, MemoryOK, PointersOK, TickerOK, Scheduled
<1>2. sched[s][a] \in Jobs
  BY <1>1 DEF TypeOK, MemoryOK
<1>3. queue' = [queue EXCEPT ![s] = Append(queue[s], sched[s][a])]
  BY <1>1 DEF enque
<1>4. ticker' = [ticker EXCEPT ![s] = rec] /\ rec \in TickerRecord
  <2>1. Ticking(ticker[s].todo) \in {"wait", "tick"}
    BY DEF Ticking
  <2>2. ticker[s] \in TickerRecord
    BY DEF TypeOK, MemoryOK
  <2> QED BY <2>1, <2>2 DEF enque, TickerRecord
<1>5. MemoryOK'
  <2>1. queue' \in [Servers -> Seq(Jobs)]
    BY <1>2, <1>3 DEF TypeOK, MemoryOK
  <2> QED BY <2>1, <1>4 DEF enque, TypeOK, MemoryOK
<1>6. ASSUME NEW t \in Servers
      PROVE  LiveJobs(t, sched, queue, worker)'
               \subseteq LiveJobs(t, sched, queue, worker)
  <2>1. ASSUME NEW i \in 1..Len(queue'[t])
        PROVE  queue'[t][i] \in LiveJobs(t, sched, queue, worker)
    <3>1. queue[t] \in Seq(Jobs)
      BY DEF TypeOK, MemoryOK
    <3>2. CASE t = s
      <4>1. queue'[t] = Append(queue[t], sched[t][a])
        BY <1>3, <3>2 DEF TypeOK, MemoryOK
      <4>2. CASE i = Len(queue[t]) + 1
        <5>1. queue'[t][i] = sched[t][a]
          BY <4>1, <4>2, <3>1
        <5> QED BY <5>1 DEF LiveJobs
      <4>3. CASE i # Len(queue[t]) + 1
        <5>1. i \in 1..Len(queue[t]) /\ queue'[t][i] = queue[t][i]
          BY <4>1, <4>3, <3>1, <2>1, <1>2, <3>2
        <5> QED BY <5>1 DEF LiveJobs
      <4> QED BY <4>2, <4>3
    <3>3. CASE t # s
      <4>1. queue'[t] = queue[t]
        BY <1>3, <3>3 DEF TypeOK, MemoryOK
      <4> QED BY <4>1, <2>1 DEF LiveJobs
    <3> QED BY <3>2, <3>3
  <2>2. sched' = sched /\ worker' = worker
    BY DEF enque
  <2> QED BY <2>1, <2>2 DEF LiveJobs
<1>7. ASSUME NEW t \in Servers PROVE TickerOK(t)'
  <2>1. CASE t = s
    <3>1. /\ ticker'[s] = rec /\ rec.todo = ticker[s].todo
          /\ rec.pc = Ticking(ticker[s].todo)
      BY <1>4 DEF TypeOK, MemoryOK, TickerRecord
    <3>2. ticker[s].todo \subseteq Scheduled(sched[s])
      BY DEF enque, TypeOK, PointersOK, TickerOK
    <3>3. Ticking(ticker[s].todo) \in {"wait", "tick"} /\ sched' = sched
      BY DEF Ticking, enque
    <3> QED BY <2>1, <3>1, <3>2, <3>3 DEF TickerOK
  <2>2. CASE t # s
    <3>1. ticker'[t] = ticker[t] /\ sched' = sched
      BY <1>4, <2>2 DEF enque, TypeOK, MemoryOK
    <3> QED BY <3>1 DEF TypeOK, PointersOK, TickerOK
  <2> QED BY <2>1, <2>2
<1>8. \A w \in Workers : WorkerOK(w)'
  BY DEF enque, TypeOK, PointersOK, WorkerOK, ValidRule
<1>9. PointersOK'
  BY <1>6, <1>7, <1>8, SameHeap DEF TypeOK, enque
<1> QED
  BY <1>5, <1>9 DEF enque, TypeOK, TableOK, table, budget

\* A new goroutine takes over the first job of the queue.
LEMMA TypeDispatch ==
  ASSUME TypeOK, NEW s \in Servers, NEW w \in Workers, Dispatch(s, w)
  PROVE  TypeOK'
<1> DEFINE j == Head(queue[s])
           rec == [worker[w] EXCEPT !.pc = "start", !.job = j]
<1>1. queue[s] \in Seq(Jobs) /\ queue[s] # << >> /\ w \in WorkersOf(s)
  BY DEF Dispatch, TypeOK, MemoryOK
<1>2. /\ j \in Jobs /\ j # None
      /\ 1 \in 1..Len(queue[s]) /\ j = queue[s][1]
      /\ Tail(queue[s]) \in Seq(Jobs)
  BY <1>1, EngineAssumption DEF None
<1>3. worker' = [worker EXCEPT ![w] = rec] /\ rec \in WorkerRecord
  <2>1. worker' = [worker EXCEPT ![w] = rec]
    BY DEF Dispatch, TypeOK, MemoryOK
  <2>2. worker[w] \in WorkerRecord
    BY DEF TypeOK, MemoryOK
  <2> HIDE DEF j
  <2> QED BY <1>2, <2>1, <2>2 DEF WorkerRecord
<1>4. MemoryOK'
  BY <1>2, <1>3 DEF Dispatch, TypeOK, MemoryOK
<1>5. ASSUME NEW t \in Servers
      PROVE  LiveJobs(t, sched, queue, worker)'
               \subseteq LiveJobs(t, sched, queue, worker)
  <2>1. ASSUME NEW i \in 1..Len(queue'[t])
        PROVE  queue'[t][i] \in LiveJobs(t, sched, queue, worker)
    <3>1. CASE t = s
      <4>1. queue'[t] = Tail(queue[t])
        BY <3>1 DEF Dispatch, TypeOK, MemoryOK
      <4>2. i + 1 \in 1..Len(queue[t]) /\ queue'[t][i] = queue[t][i + 1]
        BY <1>1, <2>1, <3>1, <4>1
      <4> QED BY <4>2 DEF LiveJobs
    <3>2. CASE t # s
      <4>1. queue'[t] = queue[t]
        BY <3>2 DEF Dispatch, TypeOK, MemoryOK
      <4> QED BY <2>1, <4>1 DEF LiveJobs
    <3> QED BY <3>1, <3>2
  <2>2. ASSUME NEW v \in WorkersOf(t)
        PROVE  worker'[v].job \in LiveJobs(t, sched, queue, worker)
    <3>1. v \in Workers
      BY DEF Workers, WorkersOf
    <3>2. CASE v = w
      <4>1. t = s
        BY <1>1, <3>2 DEF WorkersOf
      <4>2. worker'[v].job = j
        BY <1>3, <3>1, <3>2 DEF TypeOK, MemoryOK, WorkerRecord
      <4> QED BY <1>2, <4>1, <4>2 DEF LiveJobs
    <3>3. CASE v # w
      BY <1>3, <3>1, <3>3 DEF TypeOK, MemoryOK, LiveJobs
    <3> QED BY <3>2, <3>3
  <2>3. sched' = sched
    BY DEF Dispatch
  <2> QED BY <2>1, <2>2, <2>3 DEF LiveJobs
<1>6. \A t \in Servers : TickerOK(t)'
  BY DEF Dispatch, TypeOK, PointersOK, TickerOK
<1>7. ASSUME NEW v \in Workers PROVE WorkerOK(v)'
  <2>1. CASE v = w
    <3>1. worker'[v].pc = "start" /\ worker'[v].job = j
      BY <1>3, <2>1 DEF TypeOK, MemoryOK, WorkerRecord
    <3> QED BY <1>2, <3>1 DEF WorkerOK
  <2>2. CASE v # w
    <3>1. worker'[v] = worker[v] /\ rule' = rule
      BY <1>3, <2>2 DEF Dispatch, TypeOK, MemoryOK
    <3> QED BY <3>1 DEF TypeOK, PointersOK, WorkerOK, ValidRule
  <2> QED BY <2>1, <2>2
<1>8. PointersOK'
  BY <1>5, <1>6, <1>7, SameHeap DEF TypeOK, Dispatch
<1> QED
  BY <1>4, <1>8 DEF Dispatch, TypeOK, TableOK, table, budget

\* A step that changes cells but keeps every valid cell valid.
LEMMA ValidHeap ==
  ASSUME PointersOK,
         \A s \in Servers : LiveJobs(s, sched, queue, worker)'
                              \subseteq LiveJobs(s, sched, queue, worker),
         \A s \in Servers, j \in Jobs : ValidJob(s, j) => ValidJob(s, j)',
         \A s \in Servers : TickerOK(s)',
         \A w \in Workers : WorkerOK(w)'
  PROVE  PointersOK'
<1>1. ASSUME NEW s \in Servers, NEW j \in LiveJobs(s, sched, queue, worker)'
      PROVE  j = None \/ ValidJob(s, j)'
  <2>1. j = None \/ ValidJob(s, j)
    BY DEF PointersOK
  <2>2. ValidJob(s, j) => j \in Jobs
    BY DEF ValidJob
  <2> QED BY <2>1, <2>2
<1> QED BY <1>1 DEF PointersOK

\* NewEvalContext takes alert, rule and state from a valid job.
LEMMA TypeStartJob ==
  ASSUME TypeOK, NEW w \in Workers, StartJob(w)
  PROVE  TypeOK'
<1> DEFINE s == w[1]
           c == worker[w].job
           j == job[s][c]
           rec == [worker[w] EXCEPT !.pc = "eval", !.alert = j.alert,
                                    !.rule = j.rule, !.prev = rule[s][j.rule]]
<1>1. s \in Servers /\ w \in WorkersOf(s)
  BY WorkerServer
<1>2. ValidJob(s, c)
  <2>1. c # None
    BY DEF StartJob, TypeOK, PointersOK, WorkerOK
  <2>2. c \in LiveJobs(s, sched, queue, worker)
    BY <1>1 DEF LiveJobs
  <2> QED BY <1>1, <2>1, <2>2 DEF TypeOK, PointersOK
<1>3. worker' = [worker EXCEPT ![w] = rec] /\ rec \in WorkerRecord
  <2>1. worker[w] \in WorkerRecord
    BY DEF TypeOK, MemoryOK
  <2>2. /\ j.alert \in Alerts /\ j.rule \in Rules
        /\ rule[s][j.rule] \in RowStates
    BY <1>2 DEF ValidJob, ValidRule
  <2>3. worker' = [worker EXCEPT ![w] = rec]
    BY DEF StartJob
  <2> HIDE DEF j
  <2> QED BY <2>1, <2>2, <2>3 DEF WorkerRecord
<1>4. job' = [job EXCEPT ![s][c].running = TRUE]
  BY DEF StartJob
<1>5. job' \in [Servers -> [Jobs -> JobRecord]]
  <2>1. job \in [Servers -> [Jobs -> JobRecord]]
    BY DEF TypeOK, MemoryOK
  <2>2. [job[s][c] EXCEPT !.running = TRUE] \in JobRecord
    <3>1. job[s][c] \in JobRecord
      BY <1>1, <1>2, <2>1 DEF ValidJob
    <3> QED BY <3>1 DEF JobRecord
  <2>3. job' = [job EXCEPT ![s] =
                  [job[s] EXCEPT ![c] = [job[s][c] EXCEPT !.running = TRUE]]]
    BY <1>4
  <2> HIDE DEF s, c
  <2> QED BY <1>1, <2>1, <2>2, <2>3
<1>6. MemoryOK'
  BY <1>3, <1>5 DEF StartJob, TypeOK, MemoryOK
<1>7. \A t \in Servers, i \in Jobs : job'[t][i].alert = job[t][i].alert
                                     /\ job'[t][i].rule = job[t][i].rule
  BY <1>1, <1>4 DEF TypeOK, MemoryOK, JobRecord
<1>8. \A t \in Servers, i \in Jobs : ValidJob(t, i) => ValidJob(t, i)'
  <2>1. rule' = rule
    BY DEF StartJob
  <2> QED BY <1>7, <2>1 DEF ValidJob, ValidRule
<1>9. \A v \in Workers : worker'[v].job = worker[v].job
  BY <1>3 DEF TypeOK, MemoryOK, WorkerRecord
<1>10. \A t \in Servers : LiveJobs(t, sched, queue, worker)'
                             \subseteq LiveJobs(t, sched, queue, worker)
  <2>1. sched' = sched /\ queue' = queue
    BY DEF StartJob
  <2> QED BY <1>9, <2>1 DEF LiveJobs, Workers, WorkersOf
<1>11. \A t \in Servers : TickerOK(t)'
  BY DEF StartJob, TypeOK, PointersOK, TickerOK
<1>12. ASSUME NEW v \in Workers PROVE WorkerOK(v)'
  <2>1. CASE v = w
    <3>1. /\ worker'[v].job = c /\ worker'[v].alert = j.alert
          /\ worker'[v].rule = j.rule /\ rule' = rule
      <4>1. worker'[v] = rec /\ worker[w] \in WorkerRecord /\ rule' = rule
        BY <1>3, <2>1 DEF StartJob, TypeOK, MemoryOK
      <4> HIDE DEF j
      <4> QED BY <4>1 DEF WorkerRecord
    <3>2. c # None /\ j.alert \in Alerts /\ ValidRule(s, j.rule)
      BY <1>2, EngineAssumption DEF ValidJob
    <3> QED BY <2>1, <3>1, <3>2 DEF WorkerOK, ValidRule
  <2>2. CASE v # w
    <3>1. worker'[v] = worker[v] /\ rule' = rule
      BY <1>3, <2>2 DEF StartJob, TypeOK, MemoryOK
    <3> QED BY <3>1 DEF TypeOK, PointersOK, WorkerOK, ValidRule
  <2> QED BY <2>1, <2>2
<1>13. PointersOK'
  BY <1>8, <1>10, <1>11, <1>12, ValidHeap DEF TypeOK
<1> QED
  BY <1>6, <1>13 DEF StartJob, TypeOK, TableOK, table, budget

\* The shared rule gets a state that a row may have.
LEMMA TypeEval ==
  ASSUME TypeOK, NEW w \in Workers, Eval(w)
  PROVE  TypeOK'
<1> DEFINE s == w[1]
           wk == worker[w]
           new == NewState(w, signal[wk.alert])
           rec == [wk EXCEPT !.pc = "decide"]
<1>1. s \in Servers /\ w \in WorkersOf(s)
  BY WorkerServer
<1>2. wk.alert \in Alerts /\ ValidRule(s, wk.rule) /\ wk.job # None
  BY DEF Eval, TypeOK, PointersOK, WorkerOK
<1>3. wk \in WorkerRecord
  BY DEF TypeOK, MemoryOK
<1>4. new \in RowStates
  BY <1>2, <1>3 DEF NewState, TypeOK, Outcomes, RowStates, WorkerRecord
<1>5. /\ rule' = [rule EXCEPT ![s][wk.rule] = new]
      /\ worker' = [worker EXCEPT ![w] = rec] /\ rec \in WorkerRecord
  BY <1>3 DEF Eval, WorkerRecord
<1>6. MemoryOK'
  <2>1. rule' \in [Servers -> [Rules -> RowStates \cup {"free"}]]
    BY <1>1, <1>2, <1>4, <1>5 DEF TypeOK, MemoryOK
  <2> QED BY <1>5, <2>1 DEF Eval, TypeOK, MemoryOK
<1>7. \A t \in Servers, r \in Rules : ValidRule(t, r) => ValidRule(t, r)'
  BY <1>1, <1>4, <1>5 DEF TypeOK, MemoryOK, ValidRule
<1>8. \A t \in Servers, i \in Jobs : ValidJob(t, i) => ValidJob(t, i)'
  <2>1. job' = job
    BY DEF Eval
    <2>2. \A t \in Servers : \A r : ValidRule(t, r) => ValidRule(t, r)'
    BY <1>7 DEF ValidRule
  <2> QED BY <2>1, <2>2 DEF ValidJob
<1>9. \A v \in Workers : worker'[v].job = worker[v].job
  BY <1>5 DEF TypeOK, MemoryOK, WorkerRecord
<1>10. \A t \in Servers : LiveJobs(t, sched, queue, worker)'
                             \subseteq LiveJobs(t, sched, queue, worker)
  BY <1>9 DEF Eval, LiveJobs, Workers, WorkersOf
<1>11. \A t \in Servers : TickerOK(t)'
  BY DEF Eval, TypeOK, PointersOK, TickerOK
<1>12. ASSUME NEW v \in Workers PROVE WorkerOK(v)'
  <2>1. /\ worker'[v].job = worker[v].job /\ worker'[v].alert = worker[v].alert
        /\ worker'[v].rule = worker[v].rule
        /\ worker'[v].pc = worker[v].pc \/ (v = w /\ worker'[v].pc = "decide")
    BY <1>5 DEF TypeOK, MemoryOK, WorkerRecord
  <2>2. WorkerOK(v) /\ v[1] \in Servers
    BY WorkerServer DEF TypeOK, PointersOK
  <2>3. worker[w].pc = "eval"
    BY DEF Eval
  <2>4. ValidRule(v[1], worker[v].rule) => ValidRule(v[1], worker[v].rule)'
    BY <1>7, <2>1, <2>2 DEF ValidRule
  <2> QED BY <1>2, <2>1, <2>2, <2>3, <2>4 DEF WorkerOK
<1>13. PointersOK'
  BY <1>8, <1>10, <1>11, <1>12, ValidHeap DEF TypeOK
<1> QED
  BY <1>6, <1>13 DEF Eval, TypeOK, TableOK, table, budget

\* A goroutine that is done keeps its job, its alert and its rule.
LEMMA DoneTyped ==
  ASSUME NEW rec \in WorkerRecord
  PROVE  /\ Done(rec) \in WorkerRecord
         /\ Done(rec).pc = "done"
         /\ Done(rec).job = rec.job
         /\ Done(rec).alert = rec.alert
         /\ Done(rec).rule = rec.rule
BY DEF Done, WorkerRecord, RowStates, EvalStates

\* A goroutine past its start moves on: job, alert and rule stay.
LEMMA BusyMoves ==
  ASSUME TypeOK,
         NEW w \in Workers,
         NEW rec \in WorkerRecord,
         worker' = [worker EXCEPT ![w] = rec],
         UNCHANGED <<ticker, sched, queue, job, rule>>,
         worker[w].pc \notin {"idle", "start"},
         rec.job = worker[w].job,
         rec.alert = worker[w].alert,
         rec.rule = worker[w].rule
  PROVE  MemoryOK' /\ PointersOK'
<1>1. worker[w].alert \in Alerts /\ ValidRule(w[1], worker[w].rule)
  BY DEF TypeOK, PointersOK, WorkerOK
<1> QED BY <1>1, WorkerMoves

\* The alert and the state a goroutine that is about to save works with.
LEMMA BusyFacts ==
  ASSUME TypeOK, NEW w \in Workers, worker[w].pc \notin {"idle", "start"}
  PROVE  /\ worker[w] \in WorkerRecord
         /\ worker[w].alert \in Alerts
         /\ RuleState(w) \in RowStates
         /\ state[worker[w].alert] \in RowStates \cup {"unborn", "deleted"}
         /\ changes[worker[w].alert] \in Nat
BY DEF TypeOK, TableOK, MemoryOK, PointersOK, WorkerOK, ValidRule, RuleState

\* A recovered panic ends the evaluation, not the goroutine's hold on its job.
LEMMA TypeEvalPanics ==
  ASSUME TypeOK, NEW w \in Workers, EvalPanics(w)
  PROVE  TypeOK'
<1>1. MemoryOK' /\ PointersOK'
  <2>1. worker[w].pc = "eval"
    BY DEF EvalPanics
  <2>2. worker[w] \in WorkerRecord
    BY <2>1, BusyFacts
  <2> QED BY <2>1, <2>2, DoneTyped, BusyMoves DEF EvalPanics
<1>2. faults' \in 0..MaxFaults
  BY EngineAssumption DEF EvalPanics, Fault, TypeOK
<1> QED
  BY <1>1, <1>2 DEF EvalPanics, TypeOK, TableOK, table

\* Handle saves or is done.
LEMMA TypeHandle ==
  ASSUME TypeOK, NEW w \in Workers, Handle(w)
  PROVE  TypeOK'
<1> DEFINE wk == worker[w]
           rec == IF RuleState(w) = wk.prev THEN Done(wk)
                  ELSE [wk EXCEPT !.pc = "save"]
<1>1. wk.pc = "decide" /\ worker' = [worker EXCEPT ![w] = rec]
  BY DEF Handle
<1>2. wk \in WorkerRecord
  BY <1>1, BusyFacts
<1>3. /\ rec \in WorkerRecord /\ rec.job = wk.job
      /\ rec.alert = wk.alert /\ rec.rule = wk.rule
  <2>1. CASE RuleState(w) = wk.prev
    BY <1>2, <2>1, DoneTyped
  <2>2. CASE RuleState(w) # wk.prev
    BY <1>2, <2>2 DEF WorkerRecord
  <2> QED BY <2>1, <2>2
<1>4. MemoryOK' /\ PointersOK'
  BY <1>1, <1>3, BusyMoves DEF Handle
<1> QED
  BY <1>4 DEF Handle, TypeOK, TableOK, table, budget

\* A refused save ends the evaluation.
LEMMA TypeSaveRefused ==
  ASSUME TypeOK, NEW w \in Workers, SaveRefused(w)
  PROVE  TypeOK'
<1>1. MemoryOK' /\ PointersOK'
  <2>1. worker[w].pc = "save"
    BY DEF SaveRefused
  <2>2. worker[w] \in WorkerRecord
    BY <2>1, BusyFacts
  <2> QED BY <2>1, <2>2, DoneTyped, BusyMoves DEF SaveRefused
<1> QED
  BY <1>1 DEF SaveRefused, TypeOK, TableOK, table, budget

\* The serialized transaction writes a state and a count of the right types.
LEMMA TypeSetAlertState ==
  ASSUME TypeOK, NEW w \in Workers, SetAlertState(w)
  PROVE  TypeOK'
<1> DEFINE wk == worker[w]
           n == changes[wk.alert] + 1
           st == state[wk.alert]
           rec == [wk EXCEPT !.pc = "annotate", !.change = n, !.from = st]
<1>1. wk.pc = "save" /\ st \in RowStates
  BY DEF SetAlertState, MaySave, Exists
<1>2. /\ wk \in WorkerRecord /\ wk.alert \in Alerts /\ n \in Nat
      /\ RuleState(w) \in RowStates
  BY <1>1, BusyFacts
<1>3. worker' = [worker EXCEPT ![w] = rec]
  BY DEF SetAlertState
<1>4. /\ rec \in WorkerRecord /\ rec.job = wk.job
      /\ rec.alert = wk.alert /\ rec.rule = wk.rule
  <2> HIDE DEF n, st, wk
  <2> QED BY <1>1, <1>2 DEF WorkerRecord
<1>5. MemoryOK' /\ PointersOK'
  BY <1>1, <1>3, <1>4, BusyMoves DEF SetAlertState
<1>6. TableOK'
  BY <1>2 DEF SetAlertState, TypeOK, TableOK
<1> QED
  BY <1>5, <1>6 DEF SetAlertState, TypeOK, budget

\* The copy of the row that is read is well typed.
LEMMA TypeReadRow ==
  ASSUME TypeOK, NEW w \in Workers, ReadRow(w)
  PROVE  TypeOK'
<1> DEFINE wk == worker[w]
           n == changes[wk.alert]
           st == state[wk.alert]
           new == RuleState(w)
           rec == [wk EXCEPT !.pc = "write", !.want = new, !.seen = n,
                             !.from = st]
<1>1. wk.pc = "save" /\ st \in RowStates
  BY DEF ReadRow, MaySave, Exists
<1>2. wk \in WorkerRecord /\ n \in Nat /\ new \in RowStates
  BY <1>1, BusyFacts
<1>3. worker' = [worker EXCEPT ![w] = rec]
  BY DEF ReadRow
<1>4. /\ rec \in WorkerRecord /\ rec.job = wk.job
      /\ rec.alert = wk.alert /\ rec.rule = wk.rule
  <2> HIDE DEF n, st, new, wk
  <2> QED BY <1>1, <1>2 DEF WorkerRecord
<1>5. MemoryOK' /\ PointersOK'
  BY <1>1, <1>3, <1>4, BusyMoves DEF ReadRow
<1> QED
  BY <1>5 DEF ReadRow, TypeOK, TableOK, table, budget

\* The copy that is written back is, too.
LEMMA TypeWriteRow ==
  ASSUME TypeOK, NEW w \in Workers, WriteRow(w)
  PROVE  TypeOK'
<1> DEFINE wk == worker[w]
           n == IF Exists(wk.alert) THEN wk.seen + 1 ELSE 0
           rec == [wk EXCEPT !.pc = "annotate", !.want = "ok", !.seen = 0,
                             !.change = n]
<1>1. wk.pc = "write"
  BY DEF WriteRow
<1>2. wk \in WorkerRecord /\ wk.alert \in Alerts
  BY <1>1, BusyFacts
<1>3. n \in Nat /\ wk.seen + 1 \in Nat /\ wk.want \in RowStates
  BY <1>2 DEF WorkerRecord
<1>4. worker' = [worker EXCEPT ![w] = rec]
  BY DEF WriteRow
<1>5. /\ rec \in WorkerRecord /\ rec.job = wk.job
      /\ rec.alert = wk.alert /\ rec.rule = wk.rule
  <2> HIDE DEF n, wk
  <2> QED BY <1>2, <1>3 DEF WorkerRecord, RowStates, EvalStates
<1>6. MemoryOK' /\ PointersOK'
  BY ZenonT(60), <1>1, <1>4, <1>5, BusyMoves DEF WriteRow
<1>7. TableOK'
  BY <1>2, <1>3 DEF WriteRow, TypeOK, TableOK
<1> QED
  BY <1>6, <1>7 DEF WriteRow, TypeOK, budget

\* Handle goes on after an error it only logs.
LEMMA TypeUnsaved ==
  ASSUME TypeOK, NEW w \in Workers, AlertNotFound(w) \/ SaveFails(w)
  PROVE  TypeOK'
<1> DEFINE wk == worker[w]
           rec == [wk EXCEPT !.pc = "annotate"]
<1>1. Unsaved(w) /\ wk.pc = "save"
  BY DEF AlertNotFound, SaveFails, Unsaved
<1>2. wk \in WorkerRecord
  BY <1>1, BusyFacts
<1>3. worker' = [worker EXCEPT ![w] = rec]
  BY <1>1 DEF Unsaved
<1>4. /\ rec \in WorkerRecord /\ rec.job = wk.job
      /\ rec.alert = wk.alert /\ rec.rule = wk.rule
  <2> HIDE DEF wk
  <2> QED BY <1>2 DEF WorkerRecord
<1>5. MemoryOK' /\ PointersOK'
  BY <1>1, <1>3, <1>4, BusyMoves DEF Unsaved
<1>6. faults' \in 0..MaxFaults
  BY EngineAssumption DEF AlertNotFound, SaveFails, Fault, TypeOK
<1> QED
  BY <1>1, <1>5, <1>6 DEF Unsaved, TypeOK, TableOK, table

\* An annotation names an alert.
LEMMA TypeAnnotate ==
  ASSUME TypeOK, NEW w \in Workers, Annotate(w)
  PROVE  TypeOK'
<1> DEFINE wk == worker[w]
           rec == IF ShouldSendNotification(w) THEN [wk EXCEPT !.pc = "notify"]
                  ELSE Done(wk)
<1>1. wk.pc = "annotate" /\ worker' = [worker EXCEPT ![w] = rec]
  BY DEF Annotate
<1>2. wk \in WorkerRecord /\ wk.alert \in Alerts
  BY <1>1, BusyFacts
<1>3. /\ rec \in WorkerRecord /\ rec.job = wk.job
      /\ rec.alert = wk.alert /\ rec.rule = wk.rule
  <2>1. CASE ShouldSendNotification(w)
    BY <1>2, <2>1 DEF WorkerRecord
  <2>2. CASE ~ShouldSendNotification(w)
    BY <1>2, <2>2, DoneTyped
  <2> QED BY <2>1, <2>2
<1>4. MemoryOK' /\ PointersOK'
  BY <1>1, <1>3, BusyMoves DEF Annotate
<1> QED
  BY <1>2, <1>4 DEF Annotate, TypeOK, TableOK, budget

\* What is recorded as notified is an alert and a number.
LEMMA TypeNotify ==
  ASSUME TypeOK, NEW w \in Workers, Notify(w)
  PROVE  TypeOK'
<1>1. worker[w].pc = "notify"
  BY DEF Notify
<1>2. worker[w] \in WorkerRecord /\ worker[w].alert \in Alerts
  BY <1>1, BusyFacts
<1>3. MemoryOK' /\ PointersOK'
  BY <1>1, <1>2, DoneTyped, BusyMoves DEF Notify
<1>4. sent' \subseteq Alerts \X Nat
  BY <1>2 DEF Notify, TypeOK, WorkerRecord
<1> QED
  BY <1>3, <1>4 DEF Notify, TypeOK, TableOK, table, budget

\* A step that recycles cells of s: what is left to show of PointersOK.
LEMMA CollectPointers ==
  ASSUME TypeOK,
         NEW s \in Servers,
         NEW jb \in [Jobs -> JobRecord],
         NEW rl \in [Rules -> RowStates \cup {"free"}],
         Collect(s, jb, rl),
         \A j \in LiveJobs(s, sched, queue, worker)' \ {None} :
           /\ j \in Jobs
           /\ jb[j].alert \in Alerts
           /\ jb[j].rule \in Rules /\ rl[jb[j].rule] \in RowStates,
         \A t \in Servers \ {s} :
           /\ ticker'[t] = ticker[t] /\ sched'[t] = sched[t]
           /\ queue'[t] = queue[t]
           /\ \A w \in WorkersOf(t) : worker'[w] = worker[w],
         TickerOK(s)',
         \A w \in WorkersOf(s) :
           /\ worker'[w].pc # "idle" => worker'[w].job # None
           /\ worker'[w].pc \notin {"idle", "start"} =>
                /\ worker'[w].alert \in Alerts
                /\ worker'[w].rule \in Rules
                /\ rl[worker'[w].rule] \in RowStates
  PROVE  PointersOK'
<1>1. /\ \A j \in LiveJobs(s, sched, queue, worker)' : j = None \/ ValidJob(s, j)'
      /\ \A w \in WorkersOf(s) :
           (worker'[w].rule \in Rules /\ rl[worker'[w].rule] \in RowStates)
             => ValidRule(s, worker[w].rule)'
      /\ \A t \in Servers \ {s} : job'[t] = job[t] /\ rule'[t] = rule[t]
  BY CollectKeeps DEF TypeOK
<1>2. ASSUME NEW t \in Servers \ {s}
      PROVE  /\ \A j \in LiveJobs(t, sched, queue, worker)' :
                  j = None \/ ValidJob(t, j)'
             /\ TickerOK(t)'
  <2>1. LiveJobs(t, sched, queue, worker)' = LiveJobs(t, sched, queue, worker)
    BY DEF LiveJobs
  <2>2. \A j : ValidJob(t, j) => ValidJob(t, j)'
    BY <1>1 DEF ValidJob, ValidRule
  <2>3. TickerOK(t)'
    BY DEF TypeOK, PointersOK, TickerOK
  <2> QED BY <2>1, <2>2, <2>3 DEF TypeOK, PointersOK
<1>3. ASSUME NEW w \in Workers PROVE WorkerOK(w)'
  <2>1. w[1] \in Servers /\ w \in WorkersOf(w[1])
    BY WorkerServer
  <2>2. CASE w[1] = s
    BY <1>1, <2>1, <2>2 DEF WorkerOK
  <2>3. CASE w[1] # s
    <3>1. worker'[w] = worker[w] /\ rule'[w[1]] = rule[w[1]]
      BY <1>1, <2>1, <2>3
    <3> QED BY <3>1 DEF TypeOK, PointersOK, WorkerOK, ValidRule
  <2> QED BY <2>2, <2>3
<1> QED BY <1>1, <1>2, <1>3 DEF PointersOK

\* Update gives a job, old or new, a free cell with the state just read; the
\* rule it had is recycled unless an evaluation still holds it.
LEMMA TypeUpdateRule ==
  ASSUME TypeOK, NEW s \in Servers, NEW a \in Alerts, UpdateRule(s, a)
  PROVE  TypeOK'
<1> DEFINE t == ticker[s]
           cell(j, r) == [job[s][j] EXCEPT !.alert = a, !.rule = r]
           jb(j, r) == [job[s] EXCEPT ![j] = cell(j, r)]
           rl(r) == [rule[s] EXCEPT ![r] = t.snap[a]]
<1>1. PICK j \in Jobs, r \in Rules :
        /\ rule[s][r] = "free"
        /\ sched' = [sched EXCEPT ![s][a] = j]
        /\ Collect(s, jb(j, r), rl(r))
  BY DEF UpdateRule, FreshRule, LeastFree
<1>2. /\ t.pc = "update" /\ a \in t.todo
      /\ ticker' = [ticker EXCEPT ![s].todo = t.todo \ {a}]
      /\ UNCHANGED <<table, signal, queue, worker, sent, budget>>
  BY DEF UpdateRule
<1>3. t \in TickerRecord /\ a \in DOMAIN t.snap /\ t.snap[a] \in RowStates
  <2>1. t \in TickerRecord
    BY DEF TypeOK, MemoryOK
  <2>2. t.snap \in Snapshots
    BY <2>1 DEF TickerRecord
  <2>3. t.todo \subseteq DOMAIN t.snap
    BY <1>2 DEF TypeOK, PointersOK, TickerOK
  <2> HIDE DEF t
  <2> QED BY <1>2, <2>1, <2>2, <2>3 DEF Snapshots
<1>4. /\ jb(j, r) \in [Jobs -> JobRecord]
      /\ jb(j, r)[j].alert = a /\ jb(j, r)[j].rule = r
      /\ \A i \in Jobs \ {j} : jb(j, r)[i] = job[s][i]
  <2>1. job[s] \in [Jobs -> JobRecord]
    BY DEF TypeOK, MemoryOK
  <2>2. cell(j, r) \in JobRecord /\ cell(j, r).alert = a /\ cell(j, r).rule = r
    <3>1. job[s][j] \in JobRecord
      BY <2>1
    <3> QED BY <3>1 DEF JobRecord
  <2> HIDE DEF cell
  <2> QED BY <2>1, <2>2
<1>5. /\ rl(r) \in [Rules -> RowStates \cup {"free"}]
      /\ rl(r)[r] \in RowStates
      /\ \A q \in Rules : rule[s][q] \in RowStates => rl(r)[q] \in RowStates
  BY <1>3 DEF TypeOK, MemoryOK
<1>6. /\ sched' \in [Servers -> [Alerts -> Jobs \cup {None}]]
      /\ sched'[s][a] = j /\ j # None
      /\ \A b \in Alerts \ {a} : sched'[s][b] = sched[s][b]
      /\ \A u \in Servers \ {s} : sched'[u] = sched[u]
  BY <1>1, EngineAssumption DEF TypeOK, MemoryOK
<1>7. ASSUME NEW i \in LiveJobs(s, sched, queue, worker)' \ {None}
      PROVE  /\ i \in Jobs
             /\ jb(j, r)[i].alert \in Alerts
             /\ jb(j, r)[i].rule \in Rules /\ rl(r)[jb(j, r)[i].rule] \in RowStates
  <2>1. CASE i = j
    BY <1>4, <1>5, <2>1
  <2>2. CASE i # j
    <3>1. i \in LiveJobs(s, sched, queue, worker)
      BY <1>2, <1>6, <1>7, <2>2 DEF LiveJobs
    <3>2. ValidJob(s, i)
      BY <3>1 DEF TypeOK, PointersOK
    <3> HIDE DEF jb, rl
    <3> QED BY <1>4, <1>5, <2>2, <3>2 DEF ValidJob, ValidRule
  <2> QED BY <2>1, <2>2
<1>8. /\ ticker' \in [Servers -> TickerRecord]
      /\ ticker'[s] = [t EXCEPT !.todo = t.todo \ {a}]
      /\ \A u \in Servers \ {s} : ticker'[u] = ticker[u]
  <2>1. [t EXCEPT !.todo = t.todo \ {a}] \in TickerRecord
    <3> HIDE DEF t
    <3> QED BY <1>3 DEF TickerRecord
  <2>2. ticker' = [ticker EXCEPT ![s] = [t EXCEPT !.todo = t.todo \ {a}]]
    BY <1>2
  <2> QED BY <2>1, <2>2 DEF TypeOK, MemoryOK
<1>9. TickerOK(s)'
  <2>1. /\ ticker'[s].pc = "update" /\ ticker'[s].snap = t.snap
        /\ ticker'[s].todo = t.todo \ {a}
    <3> HIDE DEF t
    <3> QED BY <1>2, <1>3, <1>8 DEF TickerRecord
  <2>2. /\ t.todo \subseteq DOMAIN t.snap
        /\ DOMAIN t.snap \ t.todo \subseteq Scheduled(sched[s])
    BY <1>2 DEF TypeOK, PointersOK, TickerOK
  <2>3. Scheduled(sched[s]) \cup {a} \subseteq Scheduled(sched'[s])
    BY <1>6 DEF Scheduled, TypeOK, MemoryOK
  <2> HIDE DEF t
  <2> QED BY <2>1, <2>2, <2>3 DEF TickerOK
<1>10. ASSUME NEW w \in WorkersOf(s)
       PROVE  /\ worker'[w].pc # "idle" => worker'[w].job # None
              /\ worker'[w].pc \notin {"idle", "start"} =>
                   /\ worker'[w].alert \in Alerts
                   /\ worker'[w].rule \in Rules
                   /\ rl(r)[worker'[w].rule] \in RowStates
  <2>1. w \in Workers /\ w[1] = s /\ worker' = worker
    BY <1>2 DEF Workers, WorkersOf
  <2>2. WorkerOK(w)
    BY <2>1 DEF TypeOK, PointersOK
  <2> HIDE DEF rl
  <2> QED BY <1>5, <2>1, <2>2 DEF WorkerOK, ValidRule
<1>11. \A u \in Servers \ {s} :
         /\ ticker'[u] = ticker[u] /\ sched'[u] = sched[u]
         /\ queue'[u] = queue[u]
         /\ \A w \in WorkersOf(u) : worker'[w] = worker[w]
  BY <1>2, <1>6, <1>8
<1> HIDE DEF jb, rl, t
<1>12. PointersOK'
  BY <1>1, <1>4, <1>5, <1>7, <1>9, <1>10, <1>11, CollectPointers
<1>13. /\ job' \in [Servers -> [Jobs -> JobRecord]]
       /\ rule' \in [Servers -> [Rules -> RowStates \cup {"free"}]]
  BY <1>1, <1>4, <1>5, <1>7, CollectKeeps DEF TypeOK
<1>14. MemoryOK'
  BY <1>2, <1>6, <1>8, <1>13 DEF TypeOK, MemoryOK
<1> QED
  BY <1>2, <1>12, <1>14 DEF TypeOK, TableOK, table, budget

\* The list is complete: Update takes the new map, which may forget jobs.
LEMMA TypeUpdateDone ==
  ASSUME TypeOK, NEW s \in Servers, UpdateDone(s)
  PROVE  TypeOK'
<1> DEFINE t == ticker[s]
           A == DOMAIN t.snap
           kept == [a \in Alerts |-> IF a \in A THEN sched[s][a] ELSE None]
           rec == [t EXCEPT !.pc = Ticking(A), !.todo = A, !.snap = << >>]
<1>1. /\ t.pc = "update" /\ t.todo = {}
      /\ sched' = [sched EXCEPT ![s] = kept]
      /\ ticker' = [ticker EXCEPT ![s] = rec]
      /\ Collect(s, job[s], rule[s])
      /\ UNCHANGED <<table, signal, queue, worker, sent, budget>>
  BY DEF UpdateDone
<1>2. t \in TickerRecord /\ A \subseteq Alerts
  <2>1. t \in TickerRecord
    BY DEF TypeOK, MemoryOK
  <2>2. t.snap \in Snapshots
    BY <2>1 DEF TickerRecord
  <2> QED BY <2>1, <2>2 DEF Snapshots
<1>3. A \subseteq Scheduled(sched[s])
  BY <1>1 DEF TypeOK, PointersOK, TickerOK
<1>4. /\ rec \in TickerRecord
      /\ rec.pc = Ticking(A) /\ rec.todo = A
  <2>1. Ticking(A) \in {"wait", "tick"}
    BY DEF Ticking
  <2>2. << >> \in Snapshots
    BY IdleTyped DEF IdleTicker, TickerRecord
  <2> HIDE DEF A, t
  <2> QED BY <1>2, <2>1, <2>2 DEF TickerRecord
<1>5. kept \in [Alerts -> Jobs \cup {None}]
  BY DEF TypeOK, MemoryOK
<1>6. /\ sched' \in [Servers -> [Alerts -> Jobs \cup {None}]]
      /\ ticker' \in [Servers -> TickerRecord]
      /\ sched'[s] = kept /\ ticker'[s] = rec
      /\ \A u \in Servers \ {s} : sched'[u] = sched[u] /\ ticker'[u] = ticker[u]
  <2> HIDE DEF rec, kept
  <2> QED BY <1>1, <1>4, <1>5 DEF TypeOK, MemoryOK
<1>7. job[s] \in [Jobs -> JobRecord] /\ rule[s] \in [Rules -> RowStates \cup {"free"}]
  BY DEF TypeOK, MemoryOK
<1>8. ASSUME NEW i \in LiveJobs(s, sched, queue, worker)' \ {None}
      PROVE  /\ i \in Jobs
             /\ job[s][i].alert \in Alerts
             /\ job[s][i].rule \in Rules /\ rule[s][job[s][i].rule] \in RowStates
  <2>1. \A a \in Alerts : sched'[s][a] \in {sched[s][a], None}
    BY <1>6
  <2>2. i \in LiveJobs(s, sched, queue, worker)
    BY <1>1, <1>8, <2>1 DEF LiveJobs
  <2>3. ValidJob(s, i)
    BY <2>2 DEF TypeOK, PointersOK
  <2> QED BY <2>3 DEF ValidJob, ValidRule
<1>9. TickerOK(s)'
  <2>1. Ticking(A) \in {"wait", "tick"}
    BY DEF Ticking
  <2>2. A \subseteq Scheduled(sched'[s])
    BY <1>2, <1>3, <1>6 DEF Scheduled, TypeOK, MemoryOK
  <2> HIDE DEF A, rec
  <2> QED BY <1>4, <1>6, <2>1, <2>2 DEF TickerOK
<1>10. ASSUME NEW w \in WorkersOf(s)
       PROVE  /\ worker'[w].pc # "idle" => worker'[w].job # None
              /\ worker'[w].pc \notin {"idle", "start"} =>
                   /\ worker'[w].alert \in Alerts
                   /\ worker'[w].rule \in Rules
                   /\ rule[s][worker'[w].rule] \in RowStates
  <2>1. w \in Workers /\ w[1] = s /\ worker' = worker
    BY <1>1 DEF Workers, WorkersOf
  <2>2. WorkerOK(w)
    BY <2>1 DEF TypeOK, PointersOK
  <2> QED BY <2>1, <2>2 DEF WorkerOK, ValidRule
<1>11. \A u \in Servers \ {s} :
         /\ ticker'[u] = ticker[u] /\ sched'[u] = sched[u]
         /\ queue'[u] = queue[u]
         /\ \A w \in WorkersOf(u) : worker'[w] = worker[w]
  BY <1>1, <1>6
<1> HIDE DEF t, A, kept, rec
<1>12. PointersOK'
  BY <1>1, <1>7, <1>8, <1>9, <1>10, <1>11, CollectPointers
<1>13. /\ job' \in [Servers -> [Jobs -> JobRecord]]
       /\ rule' \in [Servers -> [Rules -> RowStates \cup {"free"}]]
  BY <1>1, <1>7, <1>8, CollectKeeps DEF TypeOK
<1>14. MemoryOK'
  BY <1>1, <1>6, <1>13 DEF TypeOK, MemoryOK
<1> QED
  BY <1>1, <1>12, <1>14 DEF TypeOK, TableOK, table, budget

\* A goroutine that ends resets Running and drops its job and its rule.
LEMMA TypeFinish ==
  ASSUME TypeOK, NEW w \in Workers, Finish(w)
  PROVE  TypeOK'
<1> DEFINE s == w[1]
           c == worker[w].job
           jb == [job[s] EXCEPT ![c].running = FALSE]
<1>1. s \in Servers /\ w \in WorkersOf(s)
  BY WorkerServer
<1>2. /\ worker' = [worker EXCEPT ![w] = IdleWorker]
      /\ Collect(s, jb, rule[s])
      /\ UNCHANGED <<table, signal, ticker, sched, queue, sent, budget>>
  BY DEF Finish
<1>3. c \in Jobs
  <2>1. c # None
    BY DEF Finish, TypeOK, PointersOK, WorkerOK
  <2>2. c \in LiveJobs(s, sched, queue, worker)
    BY <1>1 DEF LiveJobs
  <2> QED BY <1>1, <2>1, <2>2 DEF TypeOK, PointersOK, ValidJob
<1>4. job[s] \in [Jobs -> JobRecord] /\ rule[s] \in [Rules -> RowStates \cup {"free"}]
  BY <1>1 DEF TypeOK, MemoryOK
<1>5. /\ jb \in [Jobs -> JobRecord]
      /\ \A i \in Jobs : jb[i].alert = job[s][i].alert /\ jb[i].rule = job[s][i].rule
  <2>1. jb = [job[s] EXCEPT ![c] = [job[s][c] EXCEPT !.running = FALSE]]
    OBVIOUS
  <2>2. job[s][c] \in JobRecord
    BY <1>3, <1>4
  <2>3. /\ [job[s][c] EXCEPT !.running = FALSE] \in JobRecord
        /\ [job[s][c] EXCEPT !.running = FALSE].alert = job[s][c].alert
        /\ [job[s][c] EXCEPT !.running = FALSE].rule = job[s][c].rule
    BY <2>2 DEF JobRecord
  <2> HIDE DEF jb, c, s
  <2> QED BY <1>3, <1>4, <2>1, <2>3
<1>6. /\ worker' \in [Workers -> WorkerRecord]
      /\ worker'[w] = IdleWorker
      /\ \A v \in Workers \ {w} : worker'[v] = worker[v]
  BY <1>2, IdleTyped DEF TypeOK, MemoryOK
<1>7. ASSUME NEW i \in LiveJobs(s, sched, queue, worker)' \ {None}
      PROVE  /\ i \in Jobs
             /\ jb[i].alert \in Alerts
             /\ jb[i].rule \in Rules /\ rule[s][jb[i].rule] \in RowStates
  <2>1. \A v \in WorkersOf(s) : v \in Workers
    BY <1>1 DEF Workers, WorkersOf
  <2>2. worker'[w].job = None
    BY <1>6 DEF IdleWorker
  <2>3. i \in LiveJobs(s, sched, queue, worker)
    BY <1>2, <1>6, <1>7, <2>1, <2>2 DEF LiveJobs
  <2>4. ValidJob(s, i)
    BY <1>1, <2>3 DEF TypeOK, PointersOK
  <2> HIDE DEF jb
  <2> QED BY <1>5, <2>4 DEF ValidJob, ValidRule
<1>8. TickerOK(s)'
  BY <1>1, <1>2 DEF TypeOK, PointersOK, TickerOK
<1>9. ASSUME NEW v \in WorkersOf(s)
      PROVE  /\ worker'[v].pc # "idle" => worker'[v].job # None
             /\ worker'[v].pc \notin {"idle", "start"} =>
                  /\ worker'[v].alert \in Alerts
                  /\ worker'[v].rule \in Rules
                  /\ rule[s][worker'[v].rule] \in RowStates
  <2>1. v \in Workers /\ v[1] = s
    BY <1>1 DEF Workers, WorkersOf
  <2>2. CASE v = w
    BY <1>6, <2>2 DEF IdleWorker
  <2>3. CASE v # w
    <3>1. WorkerOK(v)
      BY <2>1 DEF TypeOK, PointersOK
    <3> QED BY <1>6, <2>1, <2>3, <3>1 DEF WorkerOK, ValidRule
  <2> QED BY <2>2, <2>3
<1>10. \A u \in Servers \ {s} :
         /\ ticker'[u] = ticker[u] /\ sched'[u] = sched[u]
         /\ queue'[u] = queue[u]
         /\ \A v \in WorkersOf(u) : worker'[v] = worker[v]
  BY <1>1, <1>2, <1>6 DEF Workers, WorkersOf
<1> HIDE DEF s, jb, c
<1>11. PointersOK'
  BY <1>1, <1>2, <1>4, <1>5, <1>7, <1>8, <1>9, <1>10, CollectPointers
<1>12. /\ job' \in [Servers -> [Jobs -> JobRecord]]
       /\ rule' \in [Servers -> [Rules -> RowStates \cup {"free"}]]
  BY <1>1, <1>2, <1>4, <1>5, <1>7, CollectKeeps DEF TypeOK
<1>13. MemoryOK'
  BY <1>2, <1>6, <1>12 DEF TypeOK, MemoryOK
<1> QED
  BY <1>2, <1>11, <1>13 DEF TypeOK, TableOK, table, budget

\* A server that starts again reaches no cell.
LEMMA TypeRestarted ==
  ASSUME TypeOK, NEW s \in Servers, Restarted(s), faults' \in 0..MaxFaults
  PROVE  TypeOK'
<1>1. /\ ticker' = [ticker EXCEPT ![s] = IdleTicker]
      /\ sched' = [sched EXCEPT ![s] = [a \in Alerts |-> None]]
      /\ queue' = [queue EXCEPT ![s] = << >>]
      /\ worker' = [w \in Workers |->
                      IF w \in WorkersOf(s) THEN IdleWorker ELSE worker[w]]
      /\ Collect(s, job[s], rule[s])
      /\ UNCHANGED <<table, signal, sent, flips, requests>>
  BY DEF Restarted
<1>2. job[s] \in [Jobs -> JobRecord] /\ rule[s] \in [Rules -> RowStates \cup {"free"}]
  BY DEF TypeOK, MemoryOK
<1>3. /\ ticker' \in [Servers -> TickerRecord]
      /\ sched' \in [Servers -> [Alerts -> Jobs \cup {None}]]
      /\ queue' \in [Servers -> Seq(Jobs)]
      /\ worker' \in [Workers -> WorkerRecord]
  <2>1. << >> \in Seq(Jobs)
    OBVIOUS
  <2> QED BY <1>1, <2>1, IdleTyped DEF TypeOK, MemoryOK
<1>4. /\ ticker'[s] = IdleTicker /\ queue'[s] = << >>
      /\ \A a \in Alerts : sched'[s][a] = None
      /\ \A w \in WorkersOf(s) : worker'[w] = IdleWorker
      /\ \A u \in Servers \ {s} :
           /\ ticker'[u] = ticker[u] /\ sched'[u] = sched[u]
           /\ queue'[u] = queue[u]
           /\ \A w \in WorkersOf(u) : worker'[w] = worker[w]
  BY <1>1 DEF TypeOK, MemoryOK, Workers, WorkersOf
<1>5. LiveJobs(s, sched, queue, worker)' \ {None} = {}
  BY <1>4 DEF LiveJobs, IdleWorker
<1>6. TickerOK(s)'
  BY <1>4 DEF TickerOK, IdleTicker
<1>7. PointersOK'
  <2>1. \A w \in WorkersOf(s) : worker'[w].pc = "idle"
    BY <1>4 DEF IdleWorker
  <2> QED BY <1>1, <1>2, <1>4, <1>5, <1>6, <2>1, CollectPointers
<1>8. /\ job' \in [Servers -> [Jobs -> JobRecord]]
      /\ rule' \in [Servers -> [Rules -> RowStates \cup {"free"}]]
  BY <1>1, <1>2, <1>5, CollectKeeps DEF TypeOK
<1>9. MemoryOK'
  BY <1>3, <1>8 DEF MemoryOK
<1> QED
  BY <1>1, <1>7, <1>9 DEF TypeOK, TableOK, table

\* A crash, or the panic of a notifier.
LEMMA TypeCrash ==
  ASSUME TypeOK,
         (\E s \in Servers : Crash(s)) \/ (\E w \in Workers : NotifyPanics(w))
  PROVE  TypeOK'
<1>1. ASSUME NEW s \in Servers, Crash(s) PROVE TypeOK'
  <2>1. faults' \in 0..MaxFaults
    BY <1>1, EngineAssumption DEF Crash, Fault, TypeOK
  <2> QED BY <1>1, <2>1, TypeRestarted DEF Crash
<1>2. ASSUME NEW w \in Workers, NotifyPanics(w) PROVE TypeOK'
  <2>1. w[1] \in Servers /\ faults' \in 0..MaxFaults
    BY <1>2, WorkerServer DEF NotifyPanics, TypeOK
  <2> QED BY <1>2, <2>1, TypeRestarted DEF NotifyPanics
<1> QED BY <1>1, <1>2

\* At start the table is empty and no pointer is in use.
LEMMA TypeInit == Init => TypeOK
<1> SUFFICES ASSUME Init PROVE TypeOK
  OBVIOUS
<1>1. TableOK
  BY DEF Init, TableOK
<1>2. MemoryOK
  <2>1. job \in [Servers -> [Jobs -> JobRecord]]
    BY IdleTyped DEF Init
  <2>2. << >> \in Seq(Jobs)
    OBVIOUS
  <2> QED BY <2>1, <2>2, IdleTyped DEF Init, MemoryOK
<1>3. \A w \in Workers : worker[w] = IdleWorker
  BY DEF Init
<1>4. ASSUME NEW s \in Servers
      PROVE  /\ \A j \in LiveJobs(s, sched, queue, worker) : j = None
             /\ TickerOK(s)
  <2>1. queue[s] = << >> /\ ticker[s] = IdleTicker
    BY DEF Init
  <2>2. \A a \in Alerts : sched[s][a] = None
    BY DEF Init
  <2>3. \A w \in WorkersOf(s) : worker[w].job = None
    BY <1>3 DEF Workers, WorkersOf, IdleWorker
  <2>4. TickerOK(s)
    BY <2>1 DEF TickerOK, IdleTicker
  <2> QED BY <2>1, <2>2, <2>3, <2>4 DEF LiveJobs
<1>5. \A w \in Workers : WorkerOK(w)
  BY <1>3 DEF WorkerOK, IdleWorker
<1>6. /\ signal \in [Alerts -> Outcomes] /\ sent \subseteq Alerts \X Nat
      /\ flips \in 0..MaxFlips /\ requests \in 0..MaxRequests
      /\ faults \in 0..MaxFaults
  BY EngineAssumption DEF Init, Outcomes, EvalStates
<1> QED BY <1>1, <1>2, <1>4, <1>5, <1>6 DEF TypeOK, PointersOK

\* Every step of the engine keeps the types.
LEMMA TypeNext == TypeOK /\ [Next]_vars => TypeOK'
<1> SUFFICES ASSUME TypeOK, [Next]_vars PROVE TypeOK'
  OBVIOUS
<1>1. CASE \E a \in Alerts : RequestStep(a) \/ Flip(a)
  BY <1>1, TypeOutside
<1>2. ASSUME NEW s \in Servers, TickerStep(s) PROVE TypeOK'
  <2>1. CASE Fetch(s)
    BY <2>1, TypeFetch
  <2>2. CASE UpdateDone(s)
    BY <2>2, TypeUpdateDone
  <2>3. CASE Tick(s)
    BY <2>3, TypeTick
  <2>4. CASE enque(s)
    BY <2>4, TypeEnque
  <2>5. ASSUME NEW a \in Alerts, UpdateRule(s, a) \/ Skip(s, a) \/ Due(s, a)
        PROVE  TypeOK'
    BY <2>5, TypeUpdateRule, TypeSkip, TypeDue
  <2> QED BY <1>2, <2>1, <2>2, <2>3, <2>4, <2>5 DEF TickerStep
<1>3. ASSUME NEW s \in Servers, NEW w \in Workers, Dispatch(s, w) PROVE TypeOK'
  BY <1>3, TypeDispatch
<1>4. ASSUME NEW w \in Workers, WorkerStep(w) PROVE TypeOK'
  BY <1>4, TypeStartJob, TypeEval, TypeHandle, TypeSaveRefused,
     TypeSetAlertState, TypeReadRow, TypeWriteRow, TypeUnsaved, TypeAnnotate,
     TypeNotify, TypeCrash, TypeFinish
  DEF WorkerStep
<1>5. CASE FaultStep
  BY <1>5, TypeFetch, TypeCrash, TypeEvalPanics, TypeUnsaved DEF FaultStep
<1>6. CASE UNCHANGED vars
  BY <1>6 DEF vars, table, memory, budget, TypeOK, TableOK, MemoryOK, PointersOK,
              LiveJobs, TickerOK, WorkerOK, ValidJob, ValidRule
<1> QED BY <1>1, <1>2, <1>3, <1>4, <1>5, <1>6 DEF Next

\* Every state the engine reaches is well typed: in particular no job the
\* schedule, the queue or a goroutine points to, and no rule of such a job or
\* goroutine, is a cell that was recycled.
THEOREM TypeCorrect == Spec => []TypeOK
BY TypeInit, TypeNext, PTL DEF Spec

(***************************************************************************)
(* Serialized transactions.  Where the SELECT of SetAlertState locks the   *)
(* row, a pause is never overwritten, and every saved change is notified   *)
(* at most once.                                                           *)
(***************************************************************************)
\* No goroutine is ever between the SELECT and the UPDATE.
NoneWrites == \A w \in Workers : worker[w].pc # "write"


\* A goroutine gets as far as "write" by ReadRow alone, which only runs where
\* transactions are not serialized.
LEMMA WriteOnlyUnlocked ==
  ASSUME Serializable, TypeOK, NoneWrites, [Next]_vars
  PROVE  NoneWrites'
<1>1. ASSUME NEW w \in Workers, worker'[w].pc # "write",
             \A v \in Workers \ {w} : worker'[v] = worker[v]
      PROVE  NoneWrites'
  BY <1>1 DEF NoneWrites
<1>2. CASE worker' = worker
  BY <1>2 DEF NoneWrites
<1>3. ASSUME NEW s \in Servers, Restarted(s) PROVE NoneWrites'
  BY <1>3 DEF Restarted, NoneWrites, IdleWorker
<1>4. ASSUME NEW w \in Workers, WorkerStep(w) PROVE NoneWrites'
  <2>1. worker[w] \in WorkerRecord /\ worker \in [Workers -> WorkerRecord]
    BY DEF TypeOK, MemoryOK
  <2>2. Done(worker[w]).pc = "done"
    BY <2>1, DoneTyped
  <2>3. CASE StartJob(w) \/ Eval(w) \/ Handle(w) \/ SaveRefused(w) \/ SetAlertState(w)
    <3>1. CASE StartJob(w)
      BY <1>1, <2>1, <3>1 DEF StartJob, WorkerRecord
    <3>2. CASE Eval(w)
      BY <1>1, <2>1, <3>2 DEF Eval, WorkerRecord
    <3>3. CASE Handle(w) \/ SaveRefused(w)
      BY <1>1, <2>1, <2>2, <3>3 DEF Handle, SaveRefused, WorkerRecord
    <3>4. CASE SetAlertState(w)
      BY <1>1, <2>1, <3>4 DEF SetAlertState, WorkerRecord
    <3> QED BY <2>3, <3>1, <3>2, <3>3, <3>4
  <2>4. CASE ReadRow(w) \/ WriteRow(w)
    BY <2>4 DEF ReadRow, WriteRow, NoneWrites
  <2>5. CASE AlertNotFound(w) \/ Annotate(w) \/ Notify(w) \/ Finish(w)
    BY <1>1, <2>1, <2>2, <2>5
    DEF AlertNotFound, Unsaved, Annotate, Notify, Finish, IdleWorker, WorkerRecord
  <2>6. CASE NotifyPanics(w)
    BY <1>3, <2>6, WorkerServer DEF NotifyPanics
  <2> QED BY <1>4, <2>3, <2>4, <2>5, <2>6 DEF WorkerStep
<1>5. ASSUME NEW s \in Servers, NEW w \in Workers, Dispatch(s, w) PROVE NoneWrites'
  BY <1>5 DEF Dispatch, NoneWrites, TypeOK, MemoryOK, WorkerRecord
<1>6. CASE FaultStep
  <2>1. ASSUME NEW w \in Workers, EvalPanics(w) \/ SaveFails(w) PROVE NoneWrites'
    <3>1. worker[w] \in WorkerRecord /\ worker \in [Workers -> WorkerRecord]
      BY DEF TypeOK, MemoryOK
    <3> QED
      BY <1>1, <2>1, <3>1, DoneTyped
      DEF EvalPanics, SaveFails, Unsaved, WorkerRecord
  <2>2. ASSUME NEW s \in Servers, FetchFails(s) PROVE NoneWrites'
    BY <1>2, <2>2 DEF FetchFails, Fetched
  <2> QED BY <1>3, <1>6, <2>1, <2>2 DEF FaultStep, Crash
<1>7. ASSUME NEW a \in Alerts, RequestStep(a) \/ Flip(a) PROVE NoneWrites'
  BY <1>2, <1>7
  DEF RequestStep, SaveAlert, PauseAlert, DeleteAlert, Flip, memory
<1>8. ASSUME NEW s \in Servers, TickerStep(s) PROVE NoneWrites'
  BY <1>2, <1>8
  DEF TickerStep, Fetch, Fetched, UpdateDone, Tick, enque, UpdateRule, Skip, Due
<1>9. CASE UNCHANGED vars
  BY <1>2, <1>9 DEF vars, memory
<1> QED BY <1>4, <1>5, <1>6, <1>7, <1>8, <1>9 DEF Next

\* What a step can do to the row of an alert when transactions are serialized.
RowStep(a) ==
  \/ state'[a] = state[a] /\ changes'[a] = changes[a]
  \/ /\ state[a] = "unborn" /\ state'[a] = "pending"
     /\ changes'[a] = changes[a]
  \/ /\ state[a] \in RowStates /\ state'[a] \in {"paused", "pending", "deleted"}
     /\ changes'[a] = changes[a]
  \/ /\ state[a] \in RowStates \ {"paused"} /\ state'[a] \in RowStates \ {state[a]}
     /\ changes'[a] = changes[a] + 1

\* Rows change in no other way.
LEMMA RowsStep ==
  ASSUME TypeOK, NoneWrites, [Next]_vars
  PROVE  \A a \in Alerts : RowStep(a)
<1>1. CASE UNCHANGED <<state, changes>>
  BY <1>1 DEF RowStep
<1>2. ASSUME NEW a \in Alerts, RequestStep(a)
      PROVE  \A b \in Alerts : RowStep(b)
  BY <1>2
  DEF RequestStep, SaveAlert, PauseAlert, DeleteAlert, RowStep, TypeOK, TableOK,
      Exists
<1>3. ASSUME NEW a \in Alerts, Flip(a) PROVE UNCHANGED <<state, changes>>
  BY <1>3 DEF Flip, table
<1>4. ASSUME NEW s \in Servers, TickerStep(s) PROVE UNCHANGED <<state, changes>>
  BY <1>4
  DEF TickerStep, Fetch, Fetched, UpdateDone, Tick, enque, UpdateRule, Skip, Due,
      table
<1>5. ASSUME NEW s \in Servers, NEW w \in Workers, Dispatch(s, w)
      PROVE  UNCHANGED <<state, changes>>
  BY <1>5 DEF Dispatch, table
<1>6. CASE FaultStep
  <2>1. ASSUME NEW s \in Servers, FetchFails(s) \/ Crash(s)
        PROVE  UNCHANGED <<state, changes>>
    BY <2>1 DEF FetchFails, Fetched, Crash, Restarted, table
  <2>2. ASSUME NEW w \in Workers, EvalPanics(w) \/ SaveFails(w)
        PROVE  UNCHANGED <<state, changes>>
    BY <2>2 DEF EvalPanics, SaveFails, Unsaved, table
  <2> QED BY <1>1, <1>6, <2>1, <2>2 DEF FaultStep
<1>7. ASSUME NEW w \in Workers, WorkerStep(w)
      PROVE  \A a \in Alerts : RowStep(a)
  <2>1. CASE SetAlertState(w)
    <3>1. /\ worker[w].alert \in Alerts /\ RuleState(w) \in RowStates
          /\ state[worker[w].alert] \in RowStates
          /\ state[worker[w].alert] \notin {"paused", RuleState(w)}
      BY <2>1, BusyFacts DEF SetAlertState, MaySave, Exists
    <3>2. /\ state' = [state EXCEPT ![worker[w].alert] = RuleState(w)]
          /\ changes' = [changes EXCEPT ![worker[w].alert] = @ + 1]
      BY <2>1 DEF SetAlertState
    <3> QED BY <3>1, <3>2 DEF RowStep, TypeOK, TableOK
  <2>2. CASE WriteRow(w)
    BY <2>2 DEF WriteRow, NoneWrites
  <2>3. CASE StartJob(w) \/ Eval(w) \/ Handle(w) \/ SaveRefused(w) \/ ReadRow(w)
    BY <1>1, <2>3 DEF StartJob, Eval, Handle, SaveRefused, ReadRow, table
  <2>4. CASE AlertNotFound(w) \/ Annotate(w) \/ Notify(w) \/ NotifyPanics(w)
             \/ Finish(w)
    BY <1>1, <2>4
    DEF AlertNotFound, Unsaved, Annotate, Notify, NotifyPanics, Restarted, Finish,
        table
  <2> QED BY <1>7, <2>1, <2>2, <2>3, <2>4 DEF WorkerStep
<1>8. CASE UNCHANGED vars
  BY <1>1, <1>8 DEF vars, table
<1> QED BY <1>1, <1>2, <1>3, <1>4, <1>5, <1>6, <1>7, <1>8 DEF Next

\* No goroutine is between SELECT and UPDATE, in any state of the engine.
LEMMA NoneWritesAlways == ASSUME Serializable PROVE Spec => []NoneWrites
<1>1. Init => NoneWrites
  BY DEF Init, NoneWrites, IdleWorker
<1>2. TypeOK /\ NoneWrites /\ [Next]_vars => NoneWrites'
  BY WriteOnlyUnlocked
<1> QED BY <1>1, <1>2, TypeCorrect, PTL DEF Spec

\* Where transactions are serialized, a paused row is left by a user's request
\* alone, whatever evaluations were under way when it was paused.
THEOREM PausedRows == ASSUME Serializable PROVE Spec => PausedRowUntouched
<1>1. TypeOK /\ NoneWrites /\ [Next]_vars =>
        [\A a \in Alerts : state[a] = "paused" =>
           /\ state'[a] \in {"paused", "pending", "deleted"}
           /\ changes'[a] = changes[a]]_vars
  BY RowsStep DEF RowStep
<1> QED BY <1>1, TypeCorrect, NoneWritesAlways, PTL DEF Spec, PausedRowUntouched

\* What the engine remembers of the table, a step took from a row that
\* existed or from what was remembered before.
LEMMA BornStep ==
  ASSUME TypeOK, AlertsBorn,
         \A a \in Alerts : state[a] # "unborn" => state'[a] # "unborn",
         \A s \in Servers : \A a \in DOMAIN ticker'[s].snap :
           a \in Alerts /\ (a \in DOMAIN ticker[s].snap \/ state[a] # "unborn"),
         \A s \in Servers, j \in Jobs : job'[s][j].rule # None =>
           \/ /\ job[s][j].rule # None
              /\ job'[s][j].alert = job[s][j].alert
           \/ job'[s][j].alert \in DOMAIN ticker[s].snap \cap Alerts,
         \A w \in Workers : worker'[w].pc \notin {"idle", "start"} =>
           \/ /\ worker[w].pc \notin {"idle", "start"}
              /\ worker'[w].alert = worker[w].alert
           \/ worker'[w].alert \in Alerts /\ state[worker'[w].alert] # "unborn"
  PROVE  AlertsBorn'
<1>1. ASSUME NEW s \in Servers, NEW a \in DOMAIN ticker'[s].snap
      PROVE  state'[a] # "unborn"
  BY DEF AlertsBorn
<1>2. ASSUME NEW s \in Servers, NEW j \in Jobs, job'[s][j].rule # None
      PROVE  job'[s][j].alert \in Alerts /\ state'[job'[s][j].alert] # "unborn"
  BY <1>2 DEF AlertsBorn
<1>3. ASSUME NEW w \in Workers, worker'[w].pc \notin {"idle", "start"}
      PROVE  state'[worker'[w].alert] # "unborn"
  <2>1. worker[w].pc \notin {"idle", "start"} => worker[w].alert \in Alerts
    BY DEF TypeOK, PointersOK, WorkerOK
  <2> QED BY <1>3, <2>1 DEF AlertsBorn
<1> QED BY <1>1, <1>2, <1>3 DEF AlertsBorn

\* A row is born once.
LEMMA RowsBorn ==
  ASSUME TypeOK, NoneWrites, [Next]_vars
  PROVE  \A a \in Alerts : state[a] # "unborn" =>
           /\ state'[a] # "unborn"
           /\ ~Exists(a) => ~Exists(a)'
BY RowsStep DEF RowStep, Exists, RowStates, EvalStates

\* A cell that was recycled holds no rule, and the others what they held.
LEMMA CollectBorn ==
  ASSUME TypeOK, NEW s \in Servers, NEW jb, NEW rl, Collect(s, jb, rl)
  PROVE  /\ \A j \in Jobs : job'[s][j] = jb[j] \/ job'[s][j].rule = None
         /\ \A t \in Servers \ {s} : job'[t] = job[t]
BY DEF Collect, NoJob, TypeOK, MemoryOK

\* The steps of the ticker goroutine keep what is remembered born.
LEMMA BornTicker ==
  ASSUME TypeOK, AlertsBorn, NoneWrites, NEW s \in Servers,
         TickerStep(s) \/ FetchFails(s)
  PROVE  AlertsBorn'
<1>1. /\ \A a \in Alerts : state[a] # "unborn" => state'[a] # "unborn"
      /\ worker' = worker
  BY DEF TickerStep, Fetch, FetchFails, Fetched, UpdateDone, Tick, enque,
         UpdateRule, Skip, Due, table
<1>2. ticker \in [Servers -> TickerRecord] /\ job \in [Servers -> [Jobs -> JobRecord]]
  BY DEF TypeOK, MemoryOK
<1>3. \A t \in Servers : DOMAIN ticker[t].snap \subseteq Alerts
  BY <1>2 DEF TickerRecord, Snapshots
<1>4. ASSUME NEW rows, rows \subseteq Alerts, \A a \in rows : state[a] # "unborn",
             Fetched(s, rows)
      PROVE  AlertsBorn'
  <2>1. job' = job
    BY <1>4 DEF Fetched
  <2>2. /\ DOMAIN ticker'[s].snap = rows
        /\ \A t \in Servers \ {s} : ticker'[t] = ticker[t]
    BY <1>2, <1>4 DEF Fetched
  <2> QED BY <1>1, <1>3, <1>4, <2>1, <2>2, BornStep
<1>5. CASE Fetch(s)
  BY <1>4, <1>5 DEF Fetch, Exists, RowStates, EvalStates
<1>6. CASE FetchFails(s)
  BY <1>4, <1>6 DEF FetchFails
<1>7. CASE UpdateDone(s)
  <2>1. /\ DOMAIN ticker'[s].snap = {}
        /\ \A t \in Servers \ {s} : ticker'[t] = ticker[t]
    BY <1>2, <1>7 DEF UpdateDone, TickerRecord
  <2>2. /\ \A j \in Jobs : job'[s][j] = job[s][j] \/ job'[s][j].rule = None
        /\ \A t \in Servers \ {s} : job'[t] = job[t]
    BY <1>7, CollectBorn DEF UpdateDone
  <2> QED BY <1>1, <1>3, <2>1, <2>2, BornStep
<1>8. ASSUME NEW a \in Alerts, UpdateRule(s, a) PROVE AlertsBorn'
  <2>1. PICK j \in Jobs, r \in Rules :
          Collect(s, [job[s] EXCEPT ![j] = [@ EXCEPT !.alert = a, !.rule = r]],
                  [rule[s] EXCEPT ![r] = ticker[s].snap[a]])
    BY <1>8 DEF UpdateRule
  <2>2. /\ DOMAIN ticker'[s].snap = DOMAIN ticker[s].snap
        /\ \A t \in Servers \ {s} : ticker'[t] = ticker[t]
    BY <1>2, <1>8 DEF UpdateRule, TickerRecord
  <2>3. a \in DOMAIN ticker[s].snap
    BY <1>8 DEF UpdateRule, TypeOK, PointersOK, TickerOK
  <2>4. /\ \A i \in Jobs :
             \/ job'[s][i] = [job[s] EXCEPT ![j] =
                                [@ EXCEPT !.alert = a, !.rule = r]][i]
             \/ job'[s][i].rule = None
        /\ \A t \in Servers \ {s} : job'[t] = job[t]
    BY <2>1, CollectBorn
  <2>5. \A i \in Jobs \ {j} :
          [job[s] EXCEPT ![j] = [@ EXCEPT !.alert = a, !.rule = r]][i] = job[s][i]
    BY <1>2
  <2>6. [job[s] EXCEPT ![j] = [@ EXCEPT !.alert = a, !.rule = r]][j].alert = a
    BY <1>2 DEF JobRecord
  <2> QED BY ZenonT(60), <1>1, <1>3, <2>2, <2>3, <2>4, <2>5, <2>6, BornStep
<1>9. ASSUME \/ Tick(s) \/ enque(s)
             \/ \E a \in Alerts : Skip(s, a) \/ Due(s, a)
      PROVE  AlertsBorn'
  <2>1. /\ job' = job
        /\ \A t \in Servers \ {s} : ticker'[t] = ticker[t]
    BY <1>2, <1>9 DEF Tick, enque, Skip, Due
  <2>2. ticker[s] \in TickerRecord
    BY <1>2
  <2>3. CASE Tick(s)
    <3>1. ticker'[s].snap = ticker[s].snap
      BY <1>2, <2>2, <2>3 DEF Tick, TickerRecord
    <3> QED BY <1>1, <1>3, <2>1, <3>1, BornStep
  <2>4. CASE enque(s)
    <3>1. ticker'[s].snap = ticker[s].snap
      BY <1>2, <2>2, <2>4 DEF enque, TickerRecord
    <3> QED BY <1>1, <1>3, <2>1, <3>1, BornStep
  <2>5. ASSUME NEW a \in Alerts, Skip(s, a) PROVE AlertsBorn'
    <3>1. ticker'[s].snap = ticker[s].snap
      BY <1>2, <2>2, <2>5 DEF Skip, TickerRecord
    <3> QED BY <1>1, <1>3, <2>1, <3>1, BornStep
  <2>6. ASSUME NEW a \in Alerts, Due(s, a) PROVE AlertsBorn'
    <3>1. ticker'[s].snap = ticker[s].snap
      BY <1>2, <2>2, <2>6 DEF Due, TickerRecord
    <3> QED BY <1>1, <1>3, <2>1, <3>1, BornStep
  <2> QED BY <1>9, <2>3, <2>4, <2>5, <2>6
<1> QED BY <1>5, <1>6, <1>7, <1>8, <1>9 DEF TickerStep

\* A server that starts again remembers nothing.
LEMMA BornRestarted ==
  ASSUME TypeOK, AlertsBorn, NEW s \in Servers, Restarted(s)
  PROVE  AlertsBorn'
<1>1. state' = state
  BY DEF Restarted, table
<1>2. /\ \A j \in Jobs : job'[s][j] = job[s][j] \/ job'[s][j].rule = None
      /\ \A t \in Servers \ {s} : job'[t] = job[t]
  BY CollectBorn DEF Restarted
<1>3. \A v \in Workers : worker'[v].pc = "idle" \/ worker'[v] = worker[v]
  BY DEF Restarted, IdleWorker
<1>4. /\ ticker'[s].snap = << >>
      /\ \A t \in Servers \ {s} : ticker'[t] = ticker[t]
  BY DEF Restarted, IdleTicker, TypeOK, MemoryOK
<1>5. \A t \in Servers : /\ DOMAIN ticker'[t].snap \subseteq DOMAIN ticker[t].snap
                         /\ DOMAIN ticker[t].snap \subseteq Alerts
  <2>1. \A t \in Servers : DOMAIN ticker[t].snap \subseteq Alerts
    BY DEF TypeOK, MemoryOK, TickerRecord, Snapshots
  <2>2. DOMAIN ticker'[s].snap = {}
    BY <1>4
  <2> QED BY <1>4, <2>1, <2>2
<1>6. \A t \in Servers, j \in Jobs : job'[t][j].rule # None =>
        job'[t][j] = job[t][j]
  BY <1>2
<1> QED BY <1>1, <1>3, <1>5, <1>6, BornStep

\* The steps of users and of the other goroutines do so too.
LEMMA BornOther ==
  ASSUME TypeOK, AlertsBorn, NoneWrites, [Next]_vars,
         \/ \E a \in Alerts : RequestStep(a) \/ Flip(a)
         \/ \E s \in Servers, w \in Workers : Dispatch(s, w)
         \/ \E w \in Workers : WorkerStep(w) \/ EvalPanics(w) \/ SaveFails(w)
         \/ UNCHANGED vars
  PROVE  AlertsBorn'
<1>1. \A a \in Alerts : state[a] # "unborn" => state'[a] # "unborn"
  BY RowsBorn
<1>2. /\ ticker \in [Servers -> TickerRecord]
      /\ job \in [Servers -> [Jobs -> JobRecord]]
      /\ worker \in [Workers -> WorkerRecord]
  BY DEF TypeOK, MemoryOK
<1>3. \A t \in Servers : DOMAIN ticker[t].snap \subseteq Alerts
  BY <1>2 DEF TickerRecord, Snapshots
<1>4. ASSUME ticker' = ticker, job' = job, worker' = worker PROVE AlertsBorn'
  BY <1>1, <1>3, <1>4, BornStep
<1>5. ASSUME NEW a \in Alerts, RequestStep(a) \/ Flip(a) PROVE AlertsBorn'
  BY <1>4, <1>5
  DEF RequestStep, SaveAlert, PauseAlert, DeleteAlert, Flip, memory
<1>6. ASSUME NEW w \in Workers, ticker' = ticker, job' = job,
             \A v \in Workers \ {w} : worker'[v] = worker[v],
             \/ worker'[w].pc \in {"idle", "start"}
             \/ /\ worker[w].pc \notin {"idle", "start"}
                /\ worker'[w].alert = worker[w].alert
      PROVE  AlertsBorn'
  BY <1>1, <1>3, <1>6, BornStep
<1>7. ASSUME NEW s \in Servers, NEW w \in Workers, Dispatch(s, w)
      PROVE  AlertsBorn'
  BY <1>2, <1>6, <1>7 DEF Dispatch, WorkerRecord
<1>8. ASSUME NEW w \in Workers, WorkerStep(w) \/ EvalPanics(w) \/ SaveFails(w)
      PROVE  AlertsBorn'
  <2>1. worker[w] \in WorkerRecord
    BY <1>2
  <2>2. CASE StartJob(w)
    <3>1. /\ w[1] \in Servers /\ worker[w].job \in Jobs
          /\ ValidJob(w[1], worker[w].job)
      <4>1. worker[w].job \in LiveJobs(w[1], sched, queue, worker)
        BY WorkerServer DEF LiveJobs
      <4>2. worker[w].job # None
        BY <2>2 DEF StartJob, TypeOK, PointersOK, WorkerOK
      <4> QED BY <4>1, <4>2, WorkerServer DEF TypeOK, PointersOK, ValidJob
    <3>2. job[w[1]][worker[w].job].rule # None
      BY <3>1, EngineAssumption DEF ValidJob, ValidRule
    <3>3. \A t \in Servers, i \in Jobs : job'[t][i].rule = job[t][i].rule
                                         /\ job'[t][i].alert = job[t][i].alert
      <4>1. job' = [job EXCEPT ![w[1]][worker[w].job].running = TRUE]
        BY <2>2 DEF StartJob
      <4> QED BY <1>2, <4>1 DEF JobRecord
    <3>4. /\ worker'[w].alert = job[w[1]][worker[w].job].alert
          /\ \A v \in Workers \ {w} : worker'[v] = worker[v]
      BY <1>2, <2>1, <2>2 DEF StartJob, WorkerRecord
    <3>5. worker'[w].alert \in Alerts /\ state[worker'[w].alert] # "unborn"
      BY <3>1, <3>2, <3>4 DEF AlertsBorn
    <3>6. ticker' = ticker
      BY <2>2 DEF StartJob
    <3> QED BY <1>1, <1>3, <3>3, <3>4, <3>5, <3>6, BornStep
  <2>3. CASE Finish(w)
    <3>1. w[1] \in Servers
      BY WorkerServer
    <3>2. /\ \A j \in Jobs :
               \/ job'[w[1]][j] =
                    [job[w[1]] EXCEPT ![worker[w].job].running = FALSE][j]
               \/ job'[w[1]][j].rule = None
          /\ \A t \in Servers \ {w[1]} : job'[t] = job[t]
      BY <2>3, <3>1, CollectBorn DEF Finish
    <3>3. \A j \in Jobs :
            LET c == [job[w[1]] EXCEPT ![worker[w].job].running = FALSE][j] IN
            c.rule = job[w[1]][j].rule /\ c.alert = job[w[1]][j].alert
      BY <1>2, <3>1 DEF JobRecord
    <3>4. /\ worker'[w].pc = "idle"
          /\ \A v \in Workers \ {w} : worker'[v] = worker[v]
      BY <1>2, <2>3 DEF Finish, IdleWorker
    <3>5. \A t \in Servers, j \in Jobs : job'[t][j].rule # None =>
            /\ job[t][j].rule # None
            /\ job'[t][j].alert = job[t][j].alert
      BY ZenonT(60), <3>2, <3>3
    <3>6. ticker' = ticker
      BY <2>3 DEF Finish
    <3> QED BY <1>1, <1>3, <3>4, <3>5, <3>6, BornStep
  <2>5. Done(worker[w]).alert = worker[w].alert
    BY <2>1, DoneTyped
  <2>6. CASE Eval(w) \/ Handle(w) \/ SaveRefused(w) \/ EvalPanics(w)
    <3>1. /\ ticker' = ticker /\ job' = job
          /\ worker[w].pc \notin {"idle", "start"}
          /\ worker'[w].alert = worker[w].alert
          /\ \A v \in Workers \ {w} : worker'[v] = worker[v]
      BY <1>2, <2>1, <2>5, <2>6
      DEF Eval, Handle, SaveRefused, EvalPanics, WorkerRecord
    <3> QED BY <1>6, <3>1
  <2>7. CASE SetAlertState(w) \/ ReadRow(w) \/ AlertNotFound(w) \/ SaveFails(w)
    <3>1. /\ ticker' = ticker /\ job' = job
          /\ worker[w].pc \notin {"idle", "start"}
          /\ \A v \in Workers \ {w} : worker'[v] = worker[v]
      BY <1>2, <2>7
      DEF SetAlertState, ReadRow, MaySave, AlertNotFound, SaveFails, Unsaved
    <3>2. CASE SetAlertState(w)
      <4>1. worker'[w].alert = worker[w].alert
        BY <1>2, <2>1, <3>2 DEF SetAlertState, WorkerRecord
      <4> QED BY <1>6, <3>1, <4>1
    <3>3. CASE ReadRow(w)
      <4>1. worker'[w].alert = worker[w].alert
        BY <1>2, <2>1, <3>3 DEF ReadRow, WorkerRecord
      <4> QED BY <1>6, <3>1, <4>1
    <3>4. CASE AlertNotFound(w) \/ SaveFails(w)
      <4>1. worker'[w].alert = worker[w].alert
        BY <1>2, <2>1, <3>4 DEF AlertNotFound, SaveFails, Unsaved, WorkerRecord
      <4> QED BY <1>6, <3>1, <4>1
    <3> QED BY <2>7, <3>2, <3>3, <3>4
  <2>8. CASE WriteRow(w)
    BY <2>8 DEF WriteRow, NoneWrites
  <2>9. CASE Annotate(w) \/ Notify(w)
    <3>1. /\ ticker' = ticker /\ job' = job
          /\ worker[w].pc \notin {"idle", "start"}
          /\ worker'[w].alert = worker[w].alert
          /\ \A v \in Workers \ {w} : worker'[v] = worker[v]
      BY <1>2, <2>1, <2>5, <2>9 DEF Annotate, Notify, WorkerRecord
    <3> QED BY <1>6, <3>1
  <2>10. CASE NotifyPanics(w)
    BY <2>10, WorkerServer, BornRestarted DEF NotifyPanics
  <2> QED
    BY <1>8, <2>2, <2>3, <2>6, <2>7, <2>8, <2>9, <2>10 DEF WorkerStep
<1>9. CASE UNCHANGED vars
  BY <1>4, <1>9 DEF vars, memory
<1> QED BY <1>5, <1>7, <1>8, <1>9

\* Goroutines, as far as the changes they hold are concerned, stop or start
\* (and hold none), move on with what they hold, or did not save.
LEMMA OwnedStep ==
  ASSUME TypeOK, AlertsBorn, \A w \in Workers : ChangeOwned(w),
         UNCHANGED <<changes, sent>>,
         \A a \in Alerts : state[a] # "unborn" /\ ~Exists(a) => ~Exists(a)',
         faults > 0 => faults' > 0,
         \A w \in Workers :
           \/ /\ worker'[w].pc \notin {"write", "annotate", "notify"}
              /\ worker'[w].change = 0
           \/ /\ worker'[w].pc \in {"annotate", "notify"}
              /\ worker[w].pc \in {"annotate", "notify"}
              /\ worker'[w].alert = worker[w].alert
              /\ worker'[w].change = worker[w].change
           \/ /\ worker'[w].pc = "annotate" /\ worker'[w].change = 0
              /\ worker'[w].alert \in Alerts
              /\ ~(state'[worker'[w].alert] \in RowStates) \/ faults' > 0
  PROVE  \A w \in Workers : ChangeOwned(w)'
<1> SUFFICES ASSUME NEW w \in Workers PROVE ChangeOwned(w)'
  OBVIOUS
<1>1. worker[w].pc \in {"annotate", "notify"} =>
        worker[w].alert \in Alerts /\ state[worker[w].alert] # "unborn"
  BY DEF TypeOK, PointersOK, WorkerOK, AlertsBorn
<1>2. worker'[w].pc # "write"
  OBVIOUS
<1>3. ASSUME worker'[w].pc \in {"annotate", "notify"}, worker'[w].change = 0
      PROVE  ~(state'[worker'[w].alert] \in RowStates) \/ faults' > 0
  BY <1>1, <1>3 DEF ChangeOwned, Exists
<1>4. ASSUME worker'[w].change # 0
      PROVE  /\ worker'[w].pc \in {"annotate", "notify"}
             /\ worker'[w].change \in 1..changes'[worker'[w].alert]
             /\ <<worker'[w].alert, worker'[w].change>> \notin sent'
             /\ \A v \in Workers \ {w} :
                  \/ worker'[v].alert # worker'[w].alert
                  \/ worker'[v].change # worker'[w].change
  BY <1>4 DEF ChangeOwned
<1> QED BY <1>2, <1>3, <1>4 DEF ChangeOwned, Exists

\* A goroutine that saves is given a number nobody has.
LEMMA OwnedSave ==
  ASSUME TypeOK, ChangesOwned, NEW w \in Workers, SetAlertState(w)
  PROVE  /\ \A p \in sent' : p[2] \in 1..changes'[p[1]]
         /\ \A v \in Workers : ChangeOwned(v)'
<1> DEFINE a == worker[w].alert
           n == changes[a] + 1
<1>1. /\ worker[w].pc = "save" /\ Exists(a) /\ a \in Alerts
      /\ changes \in [Alerts -> Nat] /\ sent \subseteq Alerts \X Nat
      /\ RuleState(w) \in RowStates
  BY BusyFacts DEF SetAlertState, MaySave, TypeOK, TableOK
<1>2. /\ changes' = [changes EXCEPT ![a] = n]
      /\ state' = [state EXCEPT ![a] = RuleState(w)]
      /\ sent' = sent /\ faults' = faults
  BY DEF SetAlertState, budget
<1>3. /\ worker'[w].pc = "annotate" /\ worker'[w].alert = a
      /\ worker'[w].change = n
      /\ \A v \in Workers \ {w} : worker'[v] = worker[v]
  <2>1. worker[w] \in WorkerRecord /\ worker \in [Workers -> WorkerRecord]
    BY DEF TypeOK, MemoryOK
  <2> QED BY <2>1 DEF SetAlertState, WorkerRecord
<1>4. \A b \in Alerts : /\ changes[b] \in Nat /\ changes'[b] \in Nat
                        /\ changes[b] <= changes'[b]
                        /\ Exists(b)' => Exists(b)
  BY <1>1, <1>2 DEF TypeOK, TableOK, Exists
<1>5. n \in 1..changes'[a] /\ n \notin 1..changes[a]
  BY <1>1, <1>2
<1>6. \A p \in sent' : p[2] \in 1..changes'[p[1]]
  BY <1>1, <1>2, <1>4 DEF ChangesOwned
<1>7. <<a, n>> \notin sent
  BY <1>5 DEF ChangesOwned
<1>8. ASSUME NEW v \in Workers \ {w}
      PROVE  worker[v].alert # a \/ worker[v].change # n
  <2>1. worker[v].change # 0 => worker[v].change \in 1..changes[worker[v].alert]
    BY DEF ChangesOwned, ChangeOwned
  <2>2. n # 0
    BY <1>1
  <2> HIDE DEF a, n
  <2> QED BY <1>5, <2>1, <2>2
<1>9. ASSUME NEW v \in Workers \ {w} PROVE ChangeOwned(v)'
  <2>1. ChangeOwned(v)
    BY DEF ChangesOwned
  <2>2. worker[v].pc \in {"annotate", "notify"} => worker[v].alert \in Alerts
    BY DEF TypeOK, PointersOK, WorkerOK
  <2>3. worker[v].change \in 1..changes[worker[v].alert]
          /\ worker[v].alert \in Alerts
        => worker[v].change \in 1..changes'[worker[v].alert]
    BY <1>4
  <2> HIDE DEF a, n
  <2> QED BY <1>2, <1>3, <1>4, <1>8, <2>1, <2>2, <2>3 DEF ChangeOwned, Exists
<1>10. ChangeOwned(w)'
  <2>1. n # 0
    BY <1>1
  <2> HIDE DEF a, n
  <2> QED BY <1>2, <1>3, <1>5, <1>7, <1>8, <2>1 DEF ChangeOwned
<1> QED BY <1>6, <1>9, <1>10

\* A goroutine that notifies gives its number away.
LEMMA OwnedNotify ==
  ASSUME TypeOK, ChangesOwned, NEW w \in Workers, Notify(w)
  PROVE  /\ \A p \in sent' : p[2] \in 1..changes'[p[1]]
         /\ \A v \in Workers : ChangeOwned(v)'
<1> DEFINE wk == worker[w]
<1>1. wk.pc = "notify" /\ wk.alert \in Alerts /\ ChangeOwned(w)
  BY BusyFacts DEF Notify, ChangesOwned
<1>2. /\ sent' = IF wk.change = 0 THEN sent ELSE sent \cup {<<wk.alert, wk.change>>}
      /\ UNCHANGED <<state, changes, faults>>
  BY DEF Notify, table, budget
<1>3. /\ worker'[w].pc = "done" /\ worker'[w].change = 0
      /\ \A v \in Workers \ {w} : worker'[v] = worker[v]
  <2>1. worker[w] \in WorkerRecord /\ worker \in [Workers -> WorkerRecord]
    BY DEF TypeOK, MemoryOK
  <2>2. worker' = [worker EXCEPT ![w] = Done(wk)]
    BY DEF Notify
  <2>3. Done(wk).pc = "done" /\ Done(wk).change = 0
    BY <2>1 DEF Done, WorkerRecord
  <2> QED BY <2>1, <2>2, <2>3
<1>4. \A p \in sent' : p[2] \in 1..changes'[p[1]]
  BY <1>1, <1>2 DEF ChangesOwned, ChangeOwned
<1>5. ASSUME NEW v \in Workers \ {w} PROVE ChangeOwned(v)'
  <2>1. ChangeOwned(v)
    BY DEF ChangesOwned
  <2>2. worker[v].change # 0 => <<worker[v].alert, worker[v].change>> \notin sent'
    BY <1>1, <1>2, <2>1 DEF ChangeOwned
  <2>3. \A u \in Workers \ {v} : worker[v].change # 0 =>
          worker'[u].alert # worker[v].alert \/ worker'[u].change # worker[v].change
    BY <1>3, <2>1 DEF ChangeOwned
  <2> HIDE DEF wk
  <2> QED BY <1>2, <1>3, <2>1, <2>2, <2>3 DEF ChangeOwned, Exists
<1>6. ChangeOwned(w)'
  BY <1>3 DEF ChangeOwned
<1> QED BY <1>4, <1>5, <1>6

\* What makes NotifiedOnce inductive is kept by every step.
LEMMA OwnedNext ==
  ASSUME Serializable, TypeOK, NoneWrites, ChangesOwned, [Next]_vars
  PROVE  ChangesOwned'
<1> DEFINE Owned == /\ \A p \in sent' : p[2] \in 1..changes'[p[1]]
                    /\ \A w \in Workers : ChangeOwned(w)'
<1>1. /\ TypeOK /\ AlertsBorn /\ \A w \in Workers : ChangeOwned(w)
      /\ \A p \in sent : p[2] \in 1..changes[p[1]]
      /\ worker \in [Workers -> WorkerRecord]
  BY DEF ChangesOwned, TypeOK, MemoryOK
<1>2. \A a \in Alerts : state[a] # "unborn" /\ ~Exists(a) => ~Exists(a)'
  BY RowsBorn
\* A step that saves and notifies nothing; each goroutine but one stands still.
<1>3. ASSUME UNCHANGED <<changes, sent>>, faults > 0 => faults' > 0,
             NEW w \in Workers, \A v \in Workers \ {w} : worker'[v] = worker[v],
             \/ /\ worker'[w].pc \notin {"write", "annotate", "notify"}
                /\ worker'[w].change = 0
             \/ /\ worker'[w].pc \in {"annotate", "notify"}
                /\ worker[w].pc \in {"annotate", "notify"}
                /\ worker'[w].alert = worker[w].alert
                /\ worker'[w].change = worker[w].change
             \/ /\ worker'[w].pc = "annotate" /\ worker'[w].change = 0
                /\ worker'[w].alert \in Alerts
                /\ ~(state'[worker'[w].alert] \in RowStates) \/ faults' > 0
      PROVE  Owned
  <2>1. \A v \in Workers \ {w} :
          \/ /\ worker'[v].pc \notin {"write", "annotate", "notify"}
             /\ worker'[v].change = 0
          \/ /\ worker'[v].pc \in {"annotate", "notify"}
             /\ worker[v].pc \in {"annotate", "notify"}
             /\ worker'[v].alert = worker[v].alert
             /\ worker'[v].change = worker[v].change
    BY <1>1, <1>3 DEF ChangeOwned
  <2>2. \A v \in Workers : ChangeOwned(v)'
    BY <1>1, <1>2, <1>3, <2>1, OwnedStep
  <2> QED BY <1>1, <1>3, <2>2
<1>4. ASSUME UNCHANGED <<changes, sent>>, faults > 0 => faults' > 0,
             \A v \in Workers : worker'[v] = worker[v] \/ worker'[v] = IdleWorker
      PROVE  Owned
  <2>1. \A v \in Workers :
          \/ /\ worker'[v].pc \notin {"write", "annotate", "notify"}
             /\ worker'[v].change = 0
          \/ /\ worker'[v].pc \in {"annotate", "notify"}
             /\ worker[v].pc \in {"annotate", "notify"}
             /\ worker'[v].alert = worker[v].alert
             /\ worker'[v].change = worker[v].change
    <3> SUFFICES ASSUME NEW v \in Workers
                 PROVE  \/ /\ worker'[v].pc \notin {"write", "annotate", "notify"}
                           /\ worker'[v].change = 0
                        \/ /\ worker'[v].pc \in {"annotate", "notify"}
                           /\ worker[v].pc \in {"annotate", "notify"}
                           /\ worker'[v].alert = worker[v].alert
                           /\ worker'[v].change = worker[v].change
      OBVIOUS
    <3>1. CASE worker'[v] = IdleWorker
      BY <3>1 DEF IdleWorker
    <3>2. CASE worker'[v] = worker[v]
      BY <1>1, <3>2 DEF ChangeOwned
    <3> QED BY <1>4, <3>1, <3>2
  <2>2. \A v \in Workers : ChangeOwned(v)'
    BY <1>1, <1>2, <1>4, <2>1, OwnedStep
  <2> QED BY <1>1, <1>4, <2>2
<1>5. ASSUME NEW a \in Alerts, RequestStep(a) \/ Flip(a) PROVE AlertsBorn' /\ Owned
  <2>1. worker' = worker /\ UNCHANGED <<changes, sent, faults>>
    BY <1>5
    DEF RequestStep, SaveAlert, PauseAlert, DeleteAlert, Flip, memory, budget, table
  <2> QED BY <1>1, <1>4, <1>5, <2>1, BornOther
<1>6. ASSUME NEW s \in Servers, TickerStep(s) \/ FetchFails(s)
      PROVE  AlertsBorn' /\ Owned
  <2>1. worker' = worker /\ UNCHANGED <<changes, sent>>
    BY <1>6
    DEF TickerStep, Fetch, FetchFails, Fetched, UpdateDone, Tick, enque,
        UpdateRule, Skip, Due, table
  <2>2. faults \in Nat /\ (faults' = faults \/ faults' = faults + 1)
    <3>1. faults \in Nat
      BY EngineAssumption DEF TypeOK
    <3>2. TickerStep(s) => faults' = faults
      BY DEF TickerStep, Fetch, UpdateDone, Tick, enque, UpdateRule, Skip, Due, budget
    <3>3. FetchFails(s) => faults' = faults + 1
      BY DEF FetchFails, Fault
    <3> QED BY <1>6, <3>1, <3>2, <3>3
  <2> HIDE DEF Owned
  <2> QED BY <1>1, <1>4, <1>6, <2>1, <2>2, BornTicker
<1>7. ASSUME NEW s \in Servers, Restarted(s), faults > 0 => faults' > 0
      PROVE  AlertsBorn' /\ Owned
  <2>1. /\ UNCHANGED <<changes, sent>>
        /\ \A v \in Workers : worker'[v] = worker[v] \/ worker'[v] = IdleWorker
    BY <1>7 DEF Restarted, table
  <2> QED BY <1>1, <1>4, <1>7, <2>1, BornRestarted
<1>8. faults \in Nat
  BY EngineAssumption DEF TypeOK
<1>9. ASSUME NEW s \in Servers, NEW w \in Workers, Dispatch(s, w)
      PROVE  AlertsBorn' /\ Owned
  <2>1. /\ UNCHANGED <<changes, sent, faults>>
        /\ \A v \in Workers \ {w} : worker'[v] = worker[v]
        /\ worker'[w].pc = "start" /\ worker'[w].change = worker[w].change
        /\ worker[w].pc = "idle"
    BY <1>1, <1>9 DEF Dispatch, budget, table, WorkerRecord
  <2>2. worker'[w].change = 0
    BY <1>1, <2>1 DEF ChangeOwned
  <2>3. Owned
    BY <1>3, <2>1, <2>2
  <2> QED BY <1>1, <1>9, <2>3, BornOther
<1>10. ASSUME NEW w \in Workers, WorkerStep(w) \/ EvalPanics(w) \/ SaveFails(w)
       PROVE  Owned
  <2>1. worker[w] \in WorkerRecord /\ ChangeOwned(w)
    BY <1>1
  <2>2. Done(worker[w]).pc = "done" /\ Done(worker[w]).change = 0
    BY <2>1 DEF Done, WorkerRecord
  <2>3. CASE SetAlertState(w)
    BY <2>3, OwnedSave
  <2>4. CASE Notify(w)
    BY <2>4, OwnedNotify
  <2>5. CASE WriteRow(w) \/ ReadRow(w)
    <3>1. ~WriteRow(w)
      BY DEF WriteRow, NoneWrites
    <3>2. CASE ReadRow(w)
      <4>1. worker'[w].pc = "write"
        BY <1>1, <3>2, <2>1 DEF ReadRow, WorkerRecord
      <4> QED BY <3>2, <4>1, WriteOnlyUnlocked DEF ReadRow, NoneWrites
    <3> QED BY <2>5, <3>1, <3>2
  <2>6. CASE StartJob(w)
    <3>1. /\ UNCHANGED <<changes, sent, faults>>
          /\ \A v \in Workers \ {w} : worker'[v] = worker[v]
          /\ worker'[w].pc = "eval" /\ worker'[w].change = worker[w].change
          /\ worker[w].pc = "start"
      BY <1>1, <2>1, <2>6 DEF StartJob, budget, table, WorkerRecord
    <3>2. worker'[w].change = 0
      BY <2>1, <3>1 DEF ChangeOwned
    <3> QED BY <1>3, <3>1, <3>2
  <2>7. CASE Eval(w)
    <3>1. /\ UNCHANGED <<changes, sent, faults>>
          /\ \A v \in Workers \ {w} : worker'[v] = worker[v]
          /\ worker'[w].pc = "decide" /\ worker'[w].change = worker[w].change
          /\ worker[w].pc = "eval"
      BY <1>1, <2>1, <2>7 DEF Eval, budget, table, WorkerRecord
    <3>2. worker'[w].change = 0
      BY <2>1, <3>1 DEF ChangeOwned
    <3> QED BY <1>3, <3>1, <3>2
  <2>8. CASE Handle(w)
    <3>1. /\ UNCHANGED <<changes, sent, faults>>
          /\ \A v \in Workers \ {w} : worker'[v] = worker[v]
          /\ worker[w].pc = "decide"
          /\ worker'[w] \in {Done(worker[w]), [worker[w] EXCEPT !.pc = "save"]}
      BY <1>1, <2>8 DEF Handle, budget, table
    <3>2. worker'[w].pc \in {"done", "save"} /\ worker'[w].change = 0
      BY <2>1, <2>2, <3>1 DEF ChangeOwned, WorkerRecord
    <3> QED BY <1>3, <3>1, <3>2
  <2>9. CASE SaveRefused(w) \/ EvalPanics(w)
    <3>1. /\ UNCHANGED <<changes, sent>>
          /\ faults' = faults \/ faults' = faults + 1
          /\ \A v \in Workers \ {w} : worker'[v] = worker[v]
          /\ worker'[w] = Done(worker[w])
      BY <1>1, <2>9 DEF SaveRefused, EvalPanics, Fault, budget, table
    <3> QED BY <1>3, <1>8, <2>2, <3>1
  <2>10. CASE AlertNotFound(w) \/ SaveFails(w)
    <3>1. /\ UNCHANGED <<state, changes, sent>> /\ worker[w].pc = "save"
          /\ \A v \in Workers \ {w} : worker'[v] = worker[v]
          /\ worker'[w] = [worker[w] EXCEPT !.pc = "annotate"]
      BY <1>1, <2>10 DEF AlertNotFound, SaveFails, Unsaved, table
    <3>2. /\ worker'[w].pc = "annotate" /\ worker'[w].change = 0
          /\ worker'[w].alert = worker[w].alert /\ worker[w].alert \in Alerts
      BY <2>1, <3>1, BusyFacts DEF ChangeOwned, WorkerRecord
    <3>3. (faults' = faults /\ ~Exists(worker[w].alert)) \/ faults' = faults + 1
      BY <2>10 DEF AlertNotFound, SaveFails, Fault
    <3>4. ~(state'[worker'[w].alert] \in RowStates) \/ faults' > 0
      BY <1>8, <3>1, <3>2, <3>3 DEF Exists
    <3>5. faults > 0 => faults' > 0
      BY <1>8, <3>3
    <3> QED BY <1>3, <3>1, <3>2, <3>4, <3>5
  <2>11. CASE Annotate(w)
    <3>1. /\ UNCHANGED <<changes, sent, faults>> /\ worker[w].pc = "annotate"
          /\ \A v \in Workers \ {w} : worker'[v] = worker[v]
          /\ worker'[w] \in {Done(worker[w]), [worker[w] EXCEPT !.pc = "notify"]}
      BY <1>1, <2>11 DEF Annotate, budget, table
    <3>2. CASE worker'[w] = Done(worker[w])
      BY <1>3, <2>2, <3>1, <3>2
    <3>3. CASE worker'[w] = [worker[w] EXCEPT !.pc = "notify"]
      <4>1. /\ worker'[w].pc = "notify" /\ worker'[w].alert = worker[w].alert
            /\ worker'[w].change = worker[w].change
        BY <2>1, <3>3 DEF WorkerRecord
      <4> QED BY <1>3, <3>1, <4>1
    <3> QED BY <3>1, <3>2, <3>3
  <2>12. CASE Finish(w)
    <3>1. /\ UNCHANGED <<changes, sent, faults>>
          /\ \A v \in Workers : worker'[v] = worker[v] \/ worker'[v] = IdleWorker
      BY <1>1, <2>12 DEF Finish, budget, table
    <3> QED BY <1>4, <3>1
  <2>13. CASE NotifyPanics(w)
    BY <1>7, <2>13, WorkerServer DEF NotifyPanics
  <2> HIDE DEF Owned
  <2> QED BY <1>10, <2>3, <2>4, <2>5, <2>6, <2>7, <2>8, <2>9, <2>10, <2>11, <2>12,
             <2>13 DEF WorkerStep
<1>11. ASSUME NEW s \in Servers, Crash(s) PROVE AlertsBorn' /\ Owned
  BY <1>7, <1>8, <1>11 DEF Crash, Fault
<1>12. ASSUME UNCHANGED vars PROVE AlertsBorn' /\ Owned
  <2>1. worker' = worker /\ UNCHANGED <<changes, sent, faults>>
    BY <1>12 DEF vars, memory, table, budget
  <2> QED BY <1>1, <1>4, <1>12, <2>1, BornOther
<1> HIDE DEF Owned
<1>13. ASSUME NEW w \in Workers, WorkerStep(w) \/ EvalPanics(w) \/ SaveFails(w)
       PROVE  AlertsBorn'
  BY <1>1, <1>13, BornOther
<1>14. AlertsBorn' /\ Owned
  BY <1>5, <1>6, <1>9, <1>10, <1>11, <1>12, <1>13 DEF Next, FaultStep
<1> USE DEF Owned
<1> QED BY <1>14 DEF ChangesOwned

\* Where transactions are serialized, the number of a saved change that was
\* not notified yet is held by one goroutine, of one server, and by no other.
THEOREM Ownership == ASSUME Serializable PROVE Spec => []ChangesOwned
<1>1. Init => ChangesOwned
  <2> SUFFICES ASSUME Init PROVE ChangesOwned
    OBVIOUS
  <2>1. \A w \in Workers : worker[w] = IdleWorker
    BY DEF Init
  <2>2. \A w \in Workers : ChangeOwned(w)
    BY <2>1 DEF ChangeOwned, IdleWorker
  <2>3. \A s \in Servers : DOMAIN ticker[s].snap = {}
    BY DEF Init, IdleTicker
  <2>4. \A s \in Servers, j \in Jobs : job[s][j].rule = None
    BY DEF Init, NoJob
  <2>5. AlertsBorn
    BY <2>1, <2>3, <2>4 DEF AlertsBorn, IdleWorker
  <2>6. sent = {}
    BY DEF Init
  <2> QED BY <2>2, <2>5, <2>6 DEF ChangesOwned
<1>2. TypeOK /\ NoneWrites /\ ChangesOwned /\ [Next]_vars => ChangesOwned'
  BY OwnedNext
<1> QED BY <1>1, <1>2, TypeCorrect, NoneWritesAlways, PTL DEF Spec

\* Where transactions are serialized, every state change is notified at most
\* once, by whatever number of servers and goroutines, across restarts too.
THEOREM OneNotification == ASSUME Serializable PROVE Spec => NotifiedOnce
<1>1. ChangesOwned /\ [Next]_vars =>
        [\A w \in Workers : Notify(w) =>
           LET wk == worker[w] IN
           IF wk.change = 0 THEN ~Exists(wk.alert) \/ faults > 0
           ELSE <<wk.alert, wk.change>> \notin sent]_vars
  <2>1. ASSUME ChangesOwned, NEW w \in Workers, Notify(w)
        PROVE  IF worker[w].change = 0 THEN ~Exists(worker[w].alert) \/ faults > 0
               ELSE <<worker[w].alert, worker[w].change>> \notin sent
    <3>1. ChangeOwned(w) /\ worker[w].pc = "notify"
      BY <2>1 DEF ChangesOwned, Notify
    <3> QED BY <3>1 DEF ChangeOwned
  <2> QED BY <2>1
<1> QED BY <1>1, Ownership, PTL DEF Spec, NotifiedOnce

\* The steps that touch neither rows nor what was notified.
LEMMA OtherSteps ==
  ASSUME TypeOK, NoneWrites, [Next]_vars,
         \A a \in Alerts : ~RequestStep(a),
         \A w \in Workers : ~SetAlertState(w) /\ ~Notify(w)
  PROVE  UNCHANGED <<state, changes, sent>>
<1>1. ASSUME NEW a \in Alerts, Flip(a) PROVE UNCHANGED <<state, changes, sent>>
  BY <1>1 DEF Flip, table
<1>2. ASSUME NEW s \in Servers, TickerStep(s) PROVE UNCHANGED <<state, changes, sent>>
  BY <1>2
  DEF TickerStep, Fetch, Fetched, UpdateDone, Tick, enque, UpdateRule, Skip, Due,
      table
<1>3. ASSUME NEW s \in Servers, NEW w \in Workers, Dispatch(s, w)
      PROVE  UNCHANGED <<state, changes, sent>>
  BY <1>3 DEF Dispatch, table
<1>4. ASSUME NEW s \in Servers, FetchFails(s) \/ Crash(s)
      PROVE  UNCHANGED <<state, changes, sent>>
  BY <1>4 DEF FetchFails, Fetched, Crash, Restarted, table
<1>5. ASSUME NEW w \in Workers, EvalPanics(w) \/ SaveFails(w) \/ AlertNotFound(w)
      PROVE  UNCHANGED <<state, changes, sent>>
  BY <1>5 DEF EvalPanics, SaveFails, AlertNotFound, Unsaved, table
<1>6. ASSUME NEW w \in Workers,
             StartJob(w) \/ Eval(w) \/ Handle(w) \/ SaveRefused(w) \/ ReadRow(w)
      PROVE  UNCHANGED <<state, changes, sent>>
  BY <1>6 DEF StartJob, Eval, Handle, SaveRefused, ReadRow, table
<1>7. ASSUME NEW w \in Workers, Annotate(w) \/ Finish(w) \/ NotifyPanics(w)
      PROVE  UNCHANGED <<state, changes, sent>>
  BY <1>7 DEF Annotate, Finish, NotifyPanics, Restarted, table
<1>8. ASSUME NEW w \in Workers, WriteRow(w) PROVE FALSE
  BY <1>8 DEF WriteRow, NoneWrites
<1>9. CASE UNCHANGED vars
  BY <1>9 DEF vars, table
<1> QED
  BY <1>1, <1>2, <1>3, <1>4, <1>5, <1>6, <1>7, <1>8, <1>9
  DEF Next, WorkerStep, FaultStep

\* Where transactions are serialized, the engine implements AlertHistory: a
\* request is one, SetAlertState is a change, a notification announces a change
\* that was saved and not announced before, and all else is invisible.
THEOREM HistoryImplemented == ASSUME Serializable PROVE Spec => ImplementsHistory
<1>1. Init => History!Init
  BY DEF Init, History!Init
<1>2. TypeOK /\ NoneWrites /\ ChangesOwned /\ [Next]_vars =>
        [History!Next]_History!vars
  <2> SUFFICES ASSUME TypeOK, NoneWrites, ChangesOwned, [Next]_vars
               PROVE  [History!Next]_History!vars
    OBVIOUS
  <2>1. ASSUME NEW a \in Alerts, RequestStep(a) PROVE History!Next
    <3>1. UNCHANGED <<changes, sent>>
      BY <2>1 DEF RequestStep, SaveAlert, PauseAlert, DeleteAlert
    <3>2. CASE SaveAlert(a)
      <4>1. History!Create(a)
        BY <3>1, <3>2 DEF SaveAlert, History!Create
      <4> QED BY <4>1 DEF History!Next
    <3>3. CASE DeleteAlert(a)
      <4>1. History!Request(a, "deleted")
        BY <3>1, <3>3
        DEF DeleteAlert, Exists, History!Request, RowStates, EvalStates,
            History!RowStates
      <4> QED BY <4>1 DEF History!Next
    <3>4. ASSUME NEW p \in BOOLEAN, PauseAlert(a, p) PROVE History!Next
      <4>1. History!Request(a, IF p THEN "paused" ELSE "pending")
        BY <3>1, <3>4
        DEF PauseAlert, Exists, History!Request, RowStates, EvalStates,
            History!RowStates
      <4> QED BY <4>1 DEF History!Next
    <3> QED BY <2>1, <3>2, <3>3, <3>4 DEF RequestStep
  <2>2. ASSUME NEW w \in Workers, SetAlertState(w) PROVE History!Next
    <3>1. worker[w].alert \in Alerts /\ RuleState(w) \in RowStates
      BY <2>2, BusyFacts DEF SetAlertState, MaySave
    <3>2. History!Change(worker[w].alert, RuleState(w))
      BY <2>2, <3>1
      DEF SetAlertState, MaySave, Exists, History!Change, RowStates, EvalStates,
          History!RowStates
    <3>3. RuleState(w) \in History!RowStates
      BY <3>1 DEF RowStates, EvalStates, History!RowStates
    <3> QED BY <3>1, <3>2, <3>3 DEF History!Next
  <2>3. ASSUME NEW w \in Workers, Notify(w), worker[w].change # 0
        PROVE  History!Next
    <3>1. /\ worker[w].alert \in Alerts /\ ChangeOwned(w)
          /\ UNCHANGED <<state, changes>>
          /\ sent' = sent \cup {<<worker[w].alert, worker[w].change>>}
      BY <2>3, BusyFacts DEF Notify, ChangesOwned, table
    <3>2. /\ worker[w].change \in 1..changes[worker[w].alert]
          /\ <<worker[w].alert, worker[w].change>> \notin sent
      BY <2>3, <3>1 DEF ChangeOwned
    <3>3. History!Announce(worker[w].alert, worker[w].change)
      BY <3>1, <3>2 DEF History!Announce
    <3> QED BY <3>1, <3>2, <3>3 DEF History!Next
  <2>4. ASSUME NEW w \in Workers, Notify(w), worker[w].change = 0
        PROVE  UNCHANGED History!vars
    BY <2>4 DEF Notify, table, History!vars
  <2>5. CASE /\ \A a \in Alerts : ~RequestStep(a)
             /\ \A w \in Workers : ~SetAlertState(w) /\ ~Notify(w)
    BY <2>5, OtherSteps DEF History!vars
  <2> QED BY <2>1, <2>2, <2>3, <2>4, <2>5
<1> QED
  BY <1>1, <1>2, TypeCorrect, NoneWritesAlways, Ownership, PTL
  DEF Spec, ImplementsHistory, History!Spec

(***************************************************************************)
(* Jobs, rules and the goroutines that process them.                       *)
(***************************************************************************)
Busy(w) == worker[w].pc \notin {"idle", "start"}

\* What a server keeps in its memory.
Same(s) ==
  /\ ticker'[s] = ticker[s] /\ sched'[s] = sched[s] /\ queue'[s] = queue[s]
  /\ job'[s] = job[s] /\ rule'[s] = rule[s]
  /\ \A w \in WorkersOf(s) : worker'[w] = worker[w]

\* What a collection leaves in the heap of s.
LEMMA Collected ==
  ASSUME TypeOK, NEW s \in Servers, NEW jb, NEW rl, Collect(s, jb, rl)
  PROVE  /\ \A j \in Jobs : job'[s][j] = IF j \in LiveJobs(s, sched, queue, worker)'
                                         THEN jb[j] ELSE NoJob
         /\ \A j \in Jobs : job'[s][j] = jb[j] \/ job'[s][j] = NoJob
         /\ \A r \in Rules : rule'[s][r] \in {rl[r], "free"}
         /\ \A w \in WorkersOf(s) : worker'[w].rule \in Rules =>
              rule'[s][worker'[w].rule] = rl[worker'[w].rule]
         /\ \A j \in Jobs : job'[s][j].rule \in Rules =>
              rule'[s][job'[s][j].rule] = rl[job'[s][j].rule]
         /\ \A t \in Servers \ {s} : job'[t] = job[t] /\ rule'[t] = rule[t]
<1> DEFINE jobs == [j \in Jobs |-> IF j \in LiveJobs(s, sched', queue', worker')
                                   THEN jb[j] ELSE NoJob]
           rules == [r \in Rules |-> IF r \in LiveRules(s, jobs, worker')
                                     THEN rl[r] ELSE "free"]
<1>1. job' = [job EXCEPT ![s] = jobs] /\ rule' = [rule EXCEPT ![s] = rules]
  BY DEF Collect
<1>2. /\ job'[s] = jobs /\ rule'[s] = rules
      /\ \A t \in Servers \ {s} : job'[t] = job[t] /\ rule'[t] = rule[t]
  BY <1>1 DEF TypeOK, MemoryOK
<1>3. LiveJobs(s, sched, queue, worker)' = LiveJobs(s, sched', queue', worker')
  BY DEF LiveJobs
<1>4. \A w \in WorkersOf(s) : worker'[w].rule \in LiveRules(s, jobs, worker')
  BY DEF LiveRules
<1>5. \A j \in Jobs : jobs[j].rule \in LiveRules(s, jobs, worker')
  BY DEF LiveRules
<1> QED BY <1>2, <1>3, <1>4, <1>5

(***************************************************************************)
(* A job marked running is being processed.                                *)
(***************************************************************************)
\* The cells of s that are marked running, which the schedule may have
\* forgotten, are held by goroutines past their start.
RunOwned(s) ==
  \A j \in Jobs : job[s][j].running =>
    \E w \in WorkersOf(s) : worker[w].job = j /\ Busy(w)

RunsOwned == \A s \in Servers : RunOwned(s)

\* A step that marks no job and takes no goroutine off its job.
LEMMA RunKept ==
  ASSUME NEW s \in Servers, RunOwned(s),
         \A j \in Jobs : job'[s][j].running => job[s][j].running,
         \A w \in WorkersOf(s) : Busy(w) => Busy(w)' /\ worker'[w].job = worker[w].job
  PROVE  RunOwned(s)'
BY DEF RunOwned

\* A collection marks no job either.
LEMMA RunCollect ==
  ASSUME TypeOK, NEW s \in Servers, NEW jb, NEW rl, Collect(s, jb, rl),
         \A j \in Jobs : jb[j].running => job[s][j].running
  PROVE  \A t \in Servers, j \in Jobs : job'[t][j].running => job[t][j].running
<1>1. \A j \in Jobs : job'[s][j] = jb[j] \/ job'[s][j] = NoJob
  BY Collected
<1>2. \A j \in Jobs : job'[s][j].running => job[s][j].running
  BY <1>1 DEF NoJob
<1>3. \A t \in Servers \ {s} : job'[t] = job[t]
  BY Collected
<1> QED BY <1>2, <1>3

\* What a ticker goroutine does, a reload included.
LEMMA RunTicker ==
  ASSUME TypeOK, NEW s \in Servers, TickerStep(s) \/ FetchFails(s),
         RunsOwned
  PROVE  RunsOwned'
<1>1. worker' = worker
  BY DEF TickerStep, Fetch, FetchFails, Fetched, UpdateDone, Tick, enque,
         UpdateRule, Skip, Due
<1>2. \A t \in Servers, j \in Jobs : job'[t][j].running => job[t][j].running
  <2>1. CASE UpdateDone(s)
    BY <2>1, RunCollect DEF UpdateDone
  <2>2. ASSUME NEW a \in Alerts, UpdateRule(s, a)
        PROVE  \A t \in Servers, j \in Jobs : job'[t][j].running => job[t][j].running
    <3>1. PICK i \in Jobs, r \in Rules :
            Collect(s, [job[s] EXCEPT ![i] = [@ EXCEPT !.alert = a, !.rule = r]],
                    [rule[s] EXCEPT ![r] = ticker[s].snap[a]])
      BY <2>2 DEF UpdateRule
    <3>2. \A j \in Jobs :
            [job[s] EXCEPT ![i] = [@ EXCEPT !.alert = a, !.rule = r]][j].running
              = job[s][j].running
      BY DEF TypeOK, MemoryOK, JobRecord
    <3>3. \A j \in Jobs :
            [job[s] EXCEPT ![i] = [@ EXCEPT !.alert = a, !.rule = r]][j].running
              => job[s][j].running
      BY <3>2
    <3> QED BY <3>1, <3>3, RunCollect
  <2>3. ASSUME ~UpdateDone(s), \A a \in Alerts : ~UpdateRule(s, a)
        PROVE  job' = job
    BY <2>3 DEF TickerStep, Fetch, FetchFails, Fetched, Tick, enque, Skip, Due
  <2> QED BY <2>1, <2>2, <2>3
<1> QED BY <1>1, <1>2, RunKept DEF RunsOwned, Busy

\* A goroutine marks its job and is past its start.
LEMMA RunStart ==
  ASSUME TypeOK, NEW v \in Workers, StartJob(v), RunsOwned
  PROVE  RunsOwned'
<1>1. v[1] \in Servers /\ v \in WorkersOf(v[1])
  BY WorkerServer
<1>2. worker'[v].job = worker[v].job /\ Busy(v)'
  BY DEF StartJob, TypeOK, MemoryOK, WorkerRecord, Busy
<1>3. \A w \in Workers : Busy(w) => Busy(w)' /\ worker'[w].job = worker[w].job
  <2>1. \A w \in Workers \ {v} : worker'[w] = worker[w]
    BY DEF StartJob, TypeOK, MemoryOK
  <2> QED BY <1>2, <2>1 DEF Busy
<1>4. ASSUME NEW t \in Servers, NEW j \in Jobs, job'[t][j].running
      PROVE  job[t][j].running \/ (t = v[1] /\ j = worker[v].job)
  BY ZenonT(60), <1>4 DEF StartJob, TypeOK, MemoryOK
<1> QED BY <1>1, <1>2, <1>3, <1>4 DEF RunsOwned, RunOwned, Workers, WorkersOf

\* A goroutine that finishes resets its job.
LEMMA RunFinish ==
  ASSUME TypeOK, NEW v \in Workers, Finish(v), RunsOwned
  PROVE  RunsOwned'
<1>1. v[1] \in Servers /\ v \in WorkersOf(v[1])
  BY WorkerServer
<1>2. \A w \in Workers \ {v} : worker'[w] = worker[w]
  BY DEF Finish
<1>3. ASSUME NEW t \in Servers, NEW j \in Jobs, job'[t][j].running
      PROVE  job[t][j].running /\ (t = v[1] => j # worker[v].job)
  <2>1. CASE t = v[1]
    <3>1. Collect(t, [job[t] EXCEPT ![worker[v].job].running = FALSE], rule[t])
      BY <2>1 DEF Finish
    <3>2. \/ job'[t][j] = [job[t] EXCEPT ![worker[v].job].running = FALSE][j]
          \/ job'[t][j] = NoJob
      BY ZenonT(60), <3>1, Collected
    <3>3. job'[t][j] = [job[t] EXCEPT ![worker[v].job].running = FALSE][j]
      BY <1>3, <3>2 DEF NoJob
    <3> QED BY <1>3, <2>1, <3>3 DEF TypeOK, MemoryOK, JobRecord
  <2>2. CASE t # v[1]
    <3>1. Collect(v[1], [job[v[1]] EXCEPT ![worker[v].job].running = FALSE], rule[v[1]])
      BY DEF Finish
    <3>2. job'[t] = job[t]
      BY <1>1, <2>2, <3>1, Collected
    <3> QED BY <1>3, <2>2, <3>2
  <2> QED BY <2>1, <2>2
<1>4. ASSUME NEW t \in Servers, NEW j \in Jobs, job'[t][j].running
      PROVE  \E w \in WorkersOf(t) : worker'[w].job = j /\ Busy(w)'
  <2>1. PICK w \in WorkersOf(t) : worker[w].job = j /\ Busy(w)
    BY <1>3, <1>4 DEF RunsOwned, RunOwned
  <2>2. w # v /\ w \in Workers
    BY <1>3, <1>4, <2>1 DEF Workers, WorkersOf
  <2> QED BY <1>2, <2>1, <2>2 DEF Busy
<1> QED BY <1>4 DEF RunsOwned, RunOwned

\* Nothing of a process that ended is marked.
LEMMA RunRestarted ==
  ASSUME TypeOK, NEW s \in Servers, Restarted(s), RunsOwned
  PROVE  RunsOwned'
<1>1. /\ \A a \in Alerts : sched'[s][a] = None
      /\ queue'[s] = << >>
      /\ \A w \in WorkersOf(s) : worker'[w].job = None
  BY DEF Restarted, IdleWorker, TypeOK, MemoryOK, Workers, WorkersOf
<1>2. \A j \in LiveJobs(s, sched, queue, worker)' : j = None
  BY <1>1 DEF LiveJobs
<1>3. \A j \in Jobs : j # None
  BY EngineAssumption
<1>4. \A j \in Jobs : ~job'[s][j].running
  <2>1. Collect(s, job[s], rule[s])
    BY DEF Restarted
  <2>2. \A j \in Jobs : job'[s][j] = IF j \in LiveJobs(s, sched, queue, worker)'
                                     THEN job[s][j] ELSE NoJob
    BY <2>1, Collected
  <2> QED BY <1>2, <1>3, <2>2 DEF NoJob
<1>5. ASSUME NEW t \in Servers, t # s PROVE RunOwned(t)'
  <2>1. job'[t] = job[t]
    BY <1>5, Collected DEF Restarted
  <2>2. \A w \in WorkersOf(t) : worker'[w] = worker[w]
    BY <1>5 DEF Restarted, Workers, WorkersOf
  <2> QED BY <1>5, <2>1, <2>2 DEF RunsOwned, RunOwned, Busy
<1> QED BY <1>4, <1>5 DEF RunsOwned, RunOwned

\* The steps of a goroutine that goes on with its job.
LEMMA BusySteps ==
  ASSUME TypeOK, NEW v \in Workers,
         \/ Eval(v) \/ Handle(v) \/ SaveRefused(v) \/ SetAlertState(v)
         \/ ReadRow(v) \/ WriteRow(v) \/ Unsaved(v) \/ Annotate(v)
         \/ Notify(v) \/ EvalPanics(v)
  PROVE  /\ UNCHANGED <<ticker, sched, queue, job>>
         /\ \A w \in Workers \ {v} : worker'[w] = worker[w]
         /\ Busy(v) /\ Busy(v)' /\ worker'[v].job = worker[v].job
         /\ worker'[v].rule = worker[v].rule
         /\ Eval(v) \/ UNCHANGED rule
<1>1. worker[v] \in WorkerRecord
  BY DEF TypeOK, MemoryOK
<1>2. CASE Eval(v)
  BY <1>1, <1>2 DEF Eval, Busy, WorkerRecord, TypeOK, MemoryOK
<1>3. CASE Handle(v)
  BY <1>1, <1>3 DEF Handle, Done, Busy, WorkerRecord, TypeOK, MemoryOK
<1>4. CASE SaveRefused(v)
  BY <1>1, <1>4 DEF SaveRefused, Done, Busy, WorkerRecord, TypeOK, MemoryOK
<1>5. CASE SetAlertState(v)
  BY <1>1, <1>5 DEF SetAlertState, MaySave, Busy, WorkerRecord, TypeOK, MemoryOK
<1>6. CASE ReadRow(v)
  BY <1>1, <1>6 DEF ReadRow, MaySave, Busy, WorkerRecord, TypeOK, MemoryOK
<1>7. CASE WriteRow(v)
  BY <1>1, <1>7 DEF WriteRow, Busy, WorkerRecord, TypeOK, MemoryOK
<1>8. CASE Unsaved(v)
  BY <1>1, <1>8 DEF Unsaved, Busy, WorkerRecord, TypeOK, MemoryOK
<1>9. CASE Annotate(v)
  BY <1>1, <1>9 DEF Annotate, Done, Busy, WorkerRecord, TypeOK, MemoryOK
<1>10. CASE Notify(v)
  BY <1>1, <1>10 DEF Notify, Done, Busy, WorkerRecord, TypeOK, MemoryOK
<1>11. CASE EvalPanics(v)
  BY <1>1, <1>11 DEF EvalPanics, Done, Busy, WorkerRecord, TypeOK, MemoryOK
<1> QED BY <1>2, <1>3, <1>4, <1>5, <1>6, <1>7, <1>8, <1>9, <1>10, <1>11

\* What the engine does to keep marks and goroutines together.
LEMMA RunNext ==
  ASSUME TypeOK, [Next]_vars, RunsOwned
  PROVE  RunsOwned'
<1>1. ASSUME NEW a \in Alerts, RequestStep(a) \/ Flip(a) PROVE UNCHANGED memory
  BY <1>1 DEF RequestStep, SaveAlert, PauseAlert, DeleteAlert, Flip
<1>2. CASE UNCHANGED memory
  BY <1>2 DEF memory, RunsOwned, RunOwned, Busy
<1>3. ASSUME NEW s \in Servers, NEW w \in Workers, Dispatch(s, w)
      PROVE  RunsOwned'
  <2>1. job' = job /\ worker[w].pc = "idle" /\ \A v \in Workers \ {w} : worker'[v] = worker[v]
    BY <1>3 DEF Dispatch, TypeOK, MemoryOK
  <2>2. \A v \in Workers : Busy(v) => Busy(v)' /\ worker'[v].job = worker[v].job
    BY <2>1 DEF Busy
  <2> QED BY <2>1, <2>2, RunKept DEF RunsOwned, Workers, WorkersOf
<1>4. ASSUME NEW v \in Workers,
             \/ Eval(v) \/ Handle(v) \/ SaveRefused(v) \/ SetAlertState(v)
             \/ ReadRow(v) \/ WriteRow(v) \/ Unsaved(v) \/ Annotate(v)
             \/ Notify(v) \/ EvalPanics(v)
      PROVE  RunsOwned'
  <2>1. job' = job /\ \A w \in Workers \ {v} : worker'[w] = worker[w]
    BY <1>4, BusySteps
  <2>2. worker'[v].job = worker[v].job /\ Busy(v)'
    BY <1>4, BusySteps
  <2>3. \A w \in Workers : Busy(w) => Busy(w)' /\ worker'[w].job = worker[w].job
    BY <2>1, <2>2 DEF Busy
  <2> QED BY <2>1, <2>3, RunKept DEF RunsOwned, Workers, WorkersOf
<1>5. ASSUME NEW w \in Workers, NotifyPanics(w) PROVE RunsOwned'
  BY <1>5, WorkerServer, RunRestarted DEF NotifyPanics
<1>6. ASSUME NEW s \in Servers, Crash(s) PROVE RunsOwned'
  BY <1>6, RunRestarted DEF Crash
<1>7. CASE UNCHANGED vars
  BY <1>2, <1>7 DEF vars
<1> QED
  BY <1>1, <1>2, <1>3, <1>4, <1>5, <1>6, <1>7, RunTicker, RunStart, RunFinish
  DEF Next, WorkerStep, FaultStep, AlertNotFound, SaveFails

\* A job that is marked running is being processed by some goroutine, however
\* many evaluate it: the scheduler never skips a job for a mark left behind by
\* a panic, a refused save, a reload or a crash.
THEOREM RunningProcessed == Spec => []RunningIsProcessed
<1>1. Init => RunsOwned
  BY DEF Init, RunsOwned, RunOwned, NoJob
<1>2. TypeOK /\ RunsOwned /\ [Next]_vars =>
        RunsOwned'
  BY RunNext
<1>3. TypeOK /\ RunsOwned => RunningIsProcessed
  <2> SUFFICES ASSUME TypeOK, RunsOwned,
                      NEW s \in Servers, NEW a \in Alerts, sched[s][a] # None,
                      job[s][sched[s][a]].running
               PROVE  \E w \in WorkersOf(s) : /\ worker[w].job = sched[s][a]
                                              /\ worker[w].pc \notin {"idle", "start"}
    BY DEF RunningIsProcessed
  <2>1. sched[s][a] \in Jobs
    BY DEF TypeOK, MemoryOK
  <2> QED BY <2>1 DEF RunsOwned, RunOwned, Busy
<1> QED BY <1>1, <1>2, <1>3, TypeCorrect, PTL DEF Spec

(***************************************************************************)
(* Where queued jobs have started before the next tick, one goroutine at a *)
(* time processes a job.  A job is looked at once in a tick, so what is    *)
(* still to be looked at is neither queued nor about to start; the others  *)
(* are marked running, and so not sent again.                              *)
(***************************************************************************)
\* No two alerts share a job.
SchedOwned(s) ==
  \A a \in Scheduled(sched[s]) : job[s][sched[s][a]].alert = a

\* A queued job is queued once, and no goroutine has it.
QueueOwned(s) ==
  \A i \in 1..Len(queue[s]) :
    /\ \A k \in 1..Len(queue[s]) : queue[s][i] = queue[s][k] => i = k
    /\ \A w \in WorkersOf(s) : worker[w].job # queue[s][i]

\* No two goroutines have one job, and those past their start have marked it.
WorkersApart(s) ==
  \A w \in WorkersOf(s) :
    /\ worker[w].pc = "idle" => worker[w].job = None
    /\ Busy(w) => job[s][worker[w].job].running
    /\ \A v \in WorkersOf(s) \ {w} :
         worker[v].job = worker[w].job => worker[v].job = None

\* Job j is neither queued nor about to start.
Untouched(s, j) ==
  /\ \A i \in 1..Len(queue[s]) : queue[s][i] # j
  /\ \A w \in WorkersOf(s) : worker[w].pc = "start" => worker[w].job # j

TickOwned(s) ==
  LET t == ticker[s] IN
  /\ t.pc = "update" => Started(s)
  /\ t.pc \in {"tick", "send"} => \A a \in t.todo : Untouched(s, sched[s][a])
  /\ t.pc = "send" => /\ Untouched(s, t.next)
                      /\ \A w \in WorkersOf(s) : worker[w].job # t.next
                      /\ \A a \in t.todo : sched[s][a] # t.next

\* No two jobs share a rule, nor do two goroutines, nor a goroutine and a job
\* that is not its own.
RulesApart(s) ==
  /\ \A j \in Jobs : job[s][j].rule # None =>
       /\ ValidRule(s, job[s][j].rule)
       /\ \A k \in Jobs \ {j} : job[s][k].rule # job[s][j].rule
  /\ \A w \in WorkersOf(s) : Busy(w) =>
       /\ \A j \in Jobs \ {worker[w].job} : job[s][j].rule # worker[w].rule
       /\ \A v \in WorkersOf(s) \ {w} : Busy(v) => worker[v].rule # worker[w].rule

\* What the rule of a goroutine says after Eval.
StateKnown(w) ==
  /\ worker[w].pc = "decide" => RuleState(w) \in EvalStates \cup {worker[w].prev}
  /\ worker[w].pc \in {"save", "write", "annotate", "notify"} =>
       RuleState(w) \in EvalStates

ServerOwned(s) ==
  /\ SchedOwned(s) /\ QueueOwned(s) /\ WorkersApart(s) /\ TickOwned(s)
  /\ RulesApart(s)
  /\ \A w \in WorkersOf(s) : StateKnown(w)

ServersOwned == \A s \in Servers : ServerOwned(s)

\* A goroutine of s is one of Workers, and s is its server.
LEMMA ServerOf ==
  ASSUME NEW s \in Servers, NEW w \in WorkersOf(s)
  PROVE  w \in Workers /\ w[1] = s
BY DEF Workers, WorkersOf

\* What a server keeps stays together as long as it does not change.
LEMMA SameOwned ==
  ASSUME NEW t \in Servers, Same(t), ServerOwned(t)
  PROVE  ServerOwned(t)'
<1>2. \A w \in WorkersOf(t) : worker'[w] = worker[w] /\ w[1] = t
  BY ServerOf DEF Same
<1>3. SchedOwned(t)' /\ QueueOwned(t)'
  BY <1>2 DEF Same, ServerOwned, SchedOwned, QueueOwned, Scheduled
<1>4. WorkersApart(t)'
  BY <1>2 DEF Same, ServerOwned, WorkersApart, Busy
<1>5. \A j : Untouched(t, j) => Untouched(t, j)'
  BY <1>2 DEF Same, Untouched
<1>6. TickOwned(t)'
  BY <1>2, <1>5 DEF Same, ServerOwned, TickOwned, Started, Untouched
<1>7. RulesApart(t)'
  BY <1>2 DEF Same, ServerOwned, RulesApart, ValidRule, Busy
<1>8. \A w \in WorkersOf(t) : StateKnown(w)'
  BY <1>2 DEF Same, ServerOwned, StateKnown, RuleState
<1> QED BY <1>3, <1>4, <1>6, <1>7, <1>8 DEF ServerOwned

\* A step changes the memory of one server only.
LEMMA OthersOwned ==
  ASSUME ServersOwned, NEW s \in Servers,
         \A t \in Servers \ {s} : Same(t),
         ServerOwned(s)'
  PROVE  ServersOwned'
<1>1. ASSUME NEW t \in Servers, t # s PROVE ServerOwned(t)'
  BY <1>1, SameOwned DEF ServersOwned
<1> QED BY <1>1 DEF ServersOwned

\* A step of the ticker goroutine that changes nothing else.
LEMMA OwnedTicker ==
  ASSUME TypeOK, ServersOwned, NEW s \in Servers,
         UNCHANGED <<sched, queue, worker, job, rule>>,
         \A t \in Servers \ {s} : ticker'[t] = ticker[t],
         TickOwned(s)'
  PROVE  ServersOwned'
<1>1. \A t \in Servers \ {s} : Same(t)
  BY DEF Same
<1>2. ServerOwned(s)
  BY DEF ServersOwned
<1>3. /\ SchedOwned(s)' /\ QueueOwned(s)' /\ WorkersApart(s)' /\ RulesApart(s)'
      /\ \A w \in WorkersOf(s) : StateKnown(w)'
  BY <1>2 DEF ServerOwned, SchedOwned, Scheduled, QueueOwned, WorkersApart,
              RulesApart, StateKnown, RuleState, ValidRule, Busy
<1> QED BY <1>1, <1>3, OthersOwned DEF ServerOwned

\* A tick starts when nothing is queued or about to start.
LEMMA OwnedFetch ==
  ASSUME TypeOK, ServersOwned, PromptStart, NEW s \in Servers, NEW rows,
         Fetched(s, rows)
  PROVE  ServersOwned'
<1>1. ticker'[s].pc = "update" /\ Started(s)
  BY DEF Fetched, AtTick, TypeOK, MemoryOK
<1>2. TickOwned(s)'
  BY <1>1 DEF TickOwned, Started, Fetched
<1> QED BY <1>2, OwnedTicker DEF Fetched, TypeOK, MemoryOK

\* Nothing is queued or about to start: no job is touched.
LEMMA StartedUntouched ==
  ASSUME NEW s \in Servers, Started(s)
  PROVE  \A j : Untouched(s, j)
BY DEF Started, Untouched

LEMMA OwnedTick ==
  ASSUME TypeOK, ServersOwned, PromptStart, NEW s \in Servers, Tick(s)
  PROVE  ServersOwned'
<1>1. ticker'[s].pc \in {"wait", "tick"} /\ Started(s)
  BY DEF Tick, Ticking, AtTick, TypeOK, MemoryOK, TickerRecord
<1>2. \A j : Untouched(s, j)'
  BY <1>1, StartedUntouched DEF Tick, Untouched
<1>3. TickOwned(s)'
  BY <1>1, <1>2 DEF TickOwned
<1> QED BY <1>3, OwnedTicker DEF Tick, TypeOK, MemoryOK

LEMMA OwnedSkip ==
  ASSUME TypeOK, ServersOwned, NEW s \in Servers, NEW a \in Alerts, Skip(s, a)
  PROVE  ServersOwned'
<1>1. /\ ticker'[s].pc \in {"wait", "tick"} /\ ticker[s].pc = "tick"
      /\ ticker'[s].todo \subseteq ticker[s].todo
  BY DEF Skip, Ticking, TypeOK, MemoryOK, TickerRecord
<1>2. TickOwned(s)
  BY DEF ServersOwned, ServerOwned
<1>3. \A b \in ticker'[s].todo : Untouched(s, sched[s][b])'
  BY <1>1, <1>2 DEF TickOwned, Skip, Untouched
<1>4. TickOwned(s)'
  BY <1>1, <1>3 DEF TickOwned, Skip
<1> QED BY <1>4, OwnedTicker DEF Skip, TypeOK, MemoryOK

\* The job that is about to be sent is not running, so no goroutine has it.
LEMMA OwnedDue ==
  ASSUME TypeOK, ServersOwned, NEW s \in Servers, NEW a \in Alerts, Due(s, a)
  PROVE  ServersOwned'
<1>1. /\ ticker'[s].pc = "send" /\ ticker[s].pc = "tick"
      /\ ticker'[s].todo = ticker[s].todo \ {a}
      /\ ticker'[s].next = sched[s][a] /\ a \in ticker[s].todo
      /\ ~job[s][sched[s][a]].running
  BY DEF Due, TypeOK, MemoryOK, TickerRecord
<1>2. /\ TickOwned(s) /\ SchedOwned(s) /\ WorkersApart(s) /\ TickerOK(s)
      /\ ticker[s].todo \subseteq Scheduled(sched[s])
  BY <1>1 DEF ServersOwned, ServerOwned, TypeOK, PointersOK, TickerOK
<1>3. \A b \in ticker[s].todo : Untouched(s, sched[s][b])
  BY <1>1, <1>2 DEF TickOwned
<1>4. \A w \in WorkersOf(s) : worker[w].job # sched[s][a]
  <2>1. ASSUME NEW w \in WorkersOf(s), worker[w].job = sched[s][a] PROVE FALSE
    <3>1. worker[w].pc # "start"
      BY <1>1, <1>3, <2>1 DEF Untouched
    <3>2. worker[w].pc # "idle"
      BY <1>1, <1>2, <2>1 DEF WorkersApart, Scheduled
    <3>3. job[s][worker[w].job].running
      BY <1>2, <3>1, <3>2 DEF WorkersApart, Busy
    <3> QED BY <1>1, <2>1, <3>3
  <2> QED BY <2>1
<1>5. \A b \in ticker[s].todo \ {a} : sched[s][b] # sched[s][a]
  BY <1>1, <1>2 DEF SchedOwned
<1>6. TickOwned(s)'
  BY <1>1, <1>3, <1>4, <1>5 DEF TickOwned, Due, Untouched
<1> QED BY <1>6, OwnedTicker DEF Due, TypeOK, MemoryOK

LEMMA OwnedEnque ==
  ASSUME TypeOK, ServersOwned, NEW s \in Servers, enque(s)
  PROVE  ServersOwned'
<1>1. /\ ticker[s].pc = "send" /\ ticker'[s].pc \in {"wait", "tick"}
      /\ ticker'[s].todo = ticker[s].todo
      /\ queue' = [queue EXCEPT ![s] = Append(@, ticker[s].next)]
      /\ UNCHANGED <<sched, worker, job, rule>>
      /\ \A t \in Servers \ {s} : ticker'[t] = ticker[t] /\ queue'[t] = queue[t]
  BY DEF enque, Ticking, TypeOK, MemoryOK, TickerRecord
<1>2. /\ SchedOwned(s) /\ QueueOwned(s) /\ WorkersApart(s) /\ TickOwned(s)
      /\ RulesApart(s) /\ \A w \in WorkersOf(s) : StateKnown(w)
  BY DEF ServersOwned, ServerOwned
<1>3. /\ queue[s] \in Seq(Jobs)
      /\ ticker[s].next \in Jobs
  BY <1>1 DEF TypeOK, MemoryOK, PointersOK, TickerOK, Scheduled
<1>4. /\ Len(queue'[s]) = Len(queue[s]) + 1 /\ Len(queue[s]) \in Nat
      /\ \A i \in 1..Len(queue[s]) : queue'[s][i] = queue[s][i]
      /\ queue'[s][Len(queue[s]) + 1] = ticker[s].next
  BY <1>1, <1>3 DEF TypeOK, MemoryOK
<1>5. \A i \in 1..Len(queue[s]) : queue[s][i] # ticker[s].next
  BY <1>1, <1>2 DEF TickOwned, Untouched
<1>6. QueueOwned(s)'
  <2>1. \A i, k \in 1..Len(queue'[s]) : queue'[s][i] = queue'[s][k] => i = k
    BY SMTT(30), <1>2, <1>4, <1>5 DEF QueueOwned
  <2>2. ASSUME NEW i \in 1..Len(queue'[s]), NEW w \in WorkersOf(s)
        PROVE  worker[w].job # queue'[s][i]
    <3>1. CASE i \in 1..Len(queue[s])
      BY <1>2, <1>4, <3>1 DEF QueueOwned
    <3>2. CASE i = Len(queue[s]) + 1
      BY <1>1, <1>2, <1>4, <3>2 DEF TickOwned
    <3> QED BY <1>4, <3>1, <3>2
  <2> QED BY <1>1, <2>1, <2>2 DEF QueueOwned
<1>7. TickOwned(s)'
  <2>1. ASSUME NEW a \in ticker[s].todo PROVE Untouched(s, sched[s][a])'
    <3>1. Untouched(s, sched[s][a]) /\ sched[s][a] # ticker[s].next
      BY <1>1, <1>2, <2>1 DEF TickOwned
    <3>2. \A i \in 1..Len(queue'[s]) : queue'[s][i] # sched[s][a]
      <4>1. ASSUME NEW i \in 1..Len(queue'[s]) PROVE queue'[s][i] # sched[s][a]
        <5>1. CASE i \in 1..Len(queue[s])
          BY <1>4, <3>1, <5>1 DEF Untouched
        <5>2. CASE i = Len(queue[s]) + 1
          BY <1>4, <3>1, <5>2
        <5> QED BY <1>4, <5>1, <5>2
      <4> QED BY <4>1
    <3> QED BY <1>1, <3>1, <3>2 DEF Untouched
  <2> QED BY <1>1, <2>1 DEF TickOwned
<1>8. /\ SchedOwned(s)' /\ WorkersApart(s)' /\ RulesApart(s)'
      /\ \A w \in WorkersOf(s) : StateKnown(w)'
  <2>1. SchedOwned(s)' /\ WorkersApart(s)'
    BY <1>1, <1>2 DEF SchedOwned, Scheduled, WorkersApart, Busy
  <2>2. RulesApart(s)'
    BY <1>1, <1>2 DEF RulesApart, ValidRule, Busy
  <2>3. \A w \in WorkersOf(s) : StateKnown(w)'
    BY <1>1, <1>2 DEF StateKnown, RuleState
  <2> QED BY <2>1, <2>2, <2>3
<1>9. \A t \in Servers \ {s} : Same(t)
  BY <1>1 DEF Same
<1> QED BY <1>6, <1>7, <1>8, <1>9, OthersOwned DEF ServerOwned

LEMMA OwnedDispatch ==
  ASSUME TypeOK, ServersOwned, NEW s \in Servers, NEW w \in Workers, Dispatch(s, w)
  PROVE  ServersOwned'
<1> DEFINE h == Head(queue[s])
<1>1. /\ queue[s] # << >> /\ w \in WorkersOf(s) /\ worker[w].pc = "idle"
      /\ worker'[w].pc = "start" /\ worker'[w].job = h
      /\ \A v \in Workers \ {w} : worker'[v] = worker[v]
      /\ queue'[s] = Tail(queue[s])
      /\ \A t \in Servers \ {s} : queue'[t] = queue[t]
      /\ UNCHANGED <<ticker, sched, job, rule>>
  BY DEF Dispatch, TypeOK, MemoryOK, WorkerRecord
<1>2. /\ SchedOwned(s) /\ QueueOwned(s) /\ WorkersApart(s) /\ TickOwned(s)
      /\ RulesApart(s) /\ \A v \in WorkersOf(s) : StateKnown(v)
  BY DEF ServersOwned, ServerOwned
<1>3. queue[s] \in Seq(Jobs)
  BY DEF TypeOK, MemoryOK
<1>4. /\ Len(queue'[s]) = Len(queue[s]) - 1 /\ Len(queue[s]) \in Nat \ {0}
      /\ \A i \in 1..Len(queue'[s]) : /\ queue'[s][i] = queue[s][i + 1]
                                      /\ i + 1 \in 1..Len(queue[s])
      /\ 1 \in 1..Len(queue[s]) /\ h = queue[s][1]
  BY <1>1, <1>3
<1>5. \A v \in WorkersOf(s) \ {w} : worker'[v] = worker[v] /\ worker[v].job # h
  BY <1>1, <1>2, <1>4, ServerOf DEF QueueOwned
<1>6. QueueOwned(s)'
  <2>1. ASSUME NEW i \in 1..Len(queue'[s]), NEW k \in 1..Len(queue'[s]),
               queue'[s][i] = queue'[s][k]
        PROVE  i = k
    <3>1. i + 1 = k + 1
      BY <1>2, <1>4, <2>1 DEF QueueOwned
    <3> QED BY <3>1
  <2>2. ASSUME NEW i \in 1..Len(queue'[s]), NEW v \in WorkersOf(s)
        PROVE  worker'[v].job # queue'[s][i]
    <3>1. CASE v = w
      <4>1. i + 1 # 1
        OBVIOUS
      <4>2. queue[s][i + 1] # queue[s][1]
        BY <1>2, <1>4, <4>1 DEF QueueOwned
      <4> QED BY <1>1, <1>4, <3>1, <4>2
    <3>2. CASE v # w
      BY <1>2, <1>4, <1>5, <3>2 DEF QueueOwned
    <3> QED BY <3>1, <3>2
  <2> QED BY <2>1, <2>2 DEF QueueOwned
<1>7. WorkersApart(s)'
  <2>1. ASSUME NEW v \in WorkersOf(s)
        PROVE  /\ worker'[v].pc = "idle" => worker'[v].job = None
               /\ Busy(v)' => job'[s][worker'[v].job].running
               /\ \A u \in WorkersOf(s) \ {v} :
                    worker'[u].job = worker'[v].job => worker'[u].job = None
    <3>1. CASE v = w
      BY <1>1, <1>5, <3>1 DEF Busy
    <3>2. CASE v # w
      BY <1>1, <1>2, <1>5, <3>2 DEF WorkersApart, Busy
    <3> QED BY <3>1, <3>2
  <2> QED BY <2>1 DEF WorkersApart
<1>8. \A j : Untouched(s, j) => Untouched(s, j)' /\ h # j
  BY <1>1, <1>4, <1>5 DEF Untouched
<1>9. TickOwned(s)'
  <2>1. ticker[s].pc # "update"
    BY <1>1, <1>2 DEF TickOwned, Started
  <2> QED BY <1>1, <1>2, <1>5, <1>8, <2>1 DEF TickOwned
<1>10. RulesApart(s)' /\ \A v \in WorkersOf(s) : StateKnown(v)'
  <2>1. \A v \in WorkersOf(s) : Busy(v)' => Busy(v) /\ worker'[v] = worker[v]
    BY <1>1, <1>5 DEF Busy
  <2>2. RulesApart(s)'
    BY <1>1, <1>2, <2>1 DEF RulesApart, ValidRule
  <2>3. ASSUME NEW v \in WorkersOf(s) PROVE StateKnown(v)'
    <3>1. CASE v = w
      BY <1>1, <3>1 DEF StateKnown
    <3>2. CASE v # w
      BY <1>1, <1>2, <1>5, <3>2 DEF StateKnown, RuleState
    <3> QED BY <3>1, <3>2
  <2> QED BY <2>2, <2>3
<1>11. SchedOwned(s)'
  BY <1>1, <1>2 DEF SchedOwned, Scheduled
<1>12. \A t \in Servers \ {s} : Same(t)
  BY <1>1 DEF Same, Workers, WorkersOf
<1> QED BY <1>6, <1>7, <1>9, <1>10, <1>11, <1>12, OthersOwned DEF ServerOwned

\* The goroutine marks its job and takes the job's rule.
LEMMA OwnedStartJob ==
  ASSUME TypeOK, ServersOwned, NEW w \in Workers, StartJob(w)
  PROVE  ServersOwned'
<1> DEFINE s == w[1]
           j == worker[w].job
<1>1. /\ s \in Servers /\ w \in WorkersOf(s)
      /\ worker[w].pc = "start" /\ worker'[w].pc = "eval"
      /\ worker'[w].job = j /\ worker'[w].rule = job[s][j].rule
      /\ \A v \in Workers \ {w} : worker'[v] = worker[v]
      /\ UNCHANGED <<ticker, sched, queue, rule>>
      /\ \A t \in Servers \ {s} : job'[t] = job[t]
  BY ZenonT(60), WorkerServer DEF StartJob, TypeOK, MemoryOK, WorkerRecord
<1>2. /\ SchedOwned(s) /\ QueueOwned(s) /\ WorkersApart(s) /\ TickOwned(s)
      /\ RulesApart(s) /\ \A v \in WorkersOf(s) : StateKnown(v)
  BY <1>1 DEF ServersOwned, ServerOwned
<1>3. ValidJob(s, j) /\ j \in Jobs
  <2>1. j \in LiveJobs(s, sched, queue, worker) /\ j # None
    BY <1>1 DEF LiveJobs, TypeOK, PointersOK, WorkerOK
  <2> QED BY <1>1, <2>1 DEF TypeOK, PointersOK, ValidJob
<1>4. /\ job'[s][j].running
      /\ \A i \in Jobs : /\ job'[s][i].alert = job[s][i].alert
                         /\ job'[s][i].rule = job[s][i].rule
                         /\ job[s][i].running => job'[s][i].running
  <2>1. job[s] \in [Jobs -> JobRecord]
    BY <1>1 DEF TypeOK, MemoryOK
  <2>2. job'[s] = [job[s] EXCEPT ![j].running = TRUE]
    BY <1>1 DEF StartJob, TypeOK, MemoryOK
  <2> HIDE DEF s, j
  <2> QED BY <1>3, <2>1, <2>2 DEF JobRecord
<1>5. \A v \in WorkersOf(s) : v # w => worker'[v] = worker[v]
  BY <1>1, ServerOf
<1>6. \A v \in WorkersOf(s) : worker'[v].job = worker[v].job
  BY <1>1, <1>5
<1>7. SchedOwned(s)'
  <2>1. \A a \in Scheduled(sched[s]) : sched[s][a] \in Jobs
    BY <1>1 DEF Scheduled, TypeOK, MemoryOK
  <2> QED BY ZenonT(60), <1>1, <1>2, <1>4, <2>1 DEF SchedOwned, Scheduled
<1>8. QueueOwned(s)'
  BY <1>1, <1>2, <1>6 DEF QueueOwned
<1>9. WorkersApart(s)'
  <2>1. ASSUME NEW v \in WorkersOf(s), Busy(v)' PROVE job'[s][worker'[v].job].running
    <3>1. CASE v = w
      BY <1>1, <1>4, <3>1
    <3>2. CASE v # w
      <4>1. Busy(v) /\ job[s][worker[v].job].running
        BY <1>2, <1>5, <2>1, <3>2 DEF WorkersApart, Busy
      <4>2. worker[v].job \in Jobs
        BY <4>1, ServerOf, <1>1 DEF Busy, TypeOK, MemoryOK, PointersOK, WorkerOK, WorkerRecord
      <4> QED BY <1>4, <1>5, <3>2, <4>1, <4>2
    <3> QED BY <3>1, <3>2
  <2>2. \A v \in WorkersOf(s) : worker'[v].pc = "idle" => worker[v].pc = "idle"
    BY <1>1, <1>5
  <2> QED BY <1>2, <1>6, <2>1, <2>2 DEF WorkersApart
<1>10. TickOwned(s)'
  <2>1. \A i : Untouched(s, i) => Untouched(s, i)'
    BY <1>1, <1>5 DEF Untouched
  <2>2. ticker[s].pc # "update"
    BY <1>1, <1>2 DEF TickOwned, Started
  <2> QED BY <1>1, <1>2, <1>6, <2>1, <2>2 DEF TickOwned
<1>11. RulesApart(s)'
  <2>1. \A i \in Jobs : job'[s][i].rule # None =>
          /\ ValidRule(s, job[s][i].rule)'
          /\ \A k \in Jobs \ {i} : job'[s][k].rule # job'[s][i].rule
    <3> HIDE DEF s, j
    <3> QED BY <1>1, <1>2, <1>4 DEF RulesApart, ValidRule
  <2>2. job[s][j].rule # None
    BY <1>3, EngineAssumption DEF ValidJob, ValidRule
  <2>3. \A v \in WorkersOf(s) \ {w} : worker[v].job # j
    BY <1>1, <1>2, <1>3, EngineAssumption DEF WorkersApart
  <2>4. ASSUME NEW v \in WorkersOf(s), Busy(v)'
        PROVE  /\ \A i \in Jobs \ {worker'[v].job} : job'[s][i].rule # worker'[v].rule
               /\ \A u \in WorkersOf(s) \ {v} : Busy(u)' =>
                    worker'[u].rule # worker'[v].rule
    <3>1. ASSUME NEW u \in WorkersOf(s) \ {w}, Busy(u)'
          PROVE  /\ Busy(u) /\ worker'[u].rule = worker[u].rule
                 /\ worker[u].rule # job[s][j].rule
      BY <1>2, <1>3, <1>5, <2>3, <3>1 DEF RulesApart, Busy
    <3> HIDE DEF s, j
    <3>2. CASE v = w
      BY <1>1, <1>2, <1>4, <2>2, <3>1, <3>2, <1>3 DEF RulesApart
    <3>3. CASE v # w
      BY <1>1, <1>2, <1>4, <1>6, <2>4, <3>1, <3>3 DEF RulesApart
    <3> QED BY <3>2, <3>3
  <2> QED BY <2>1, <2>4 DEF RulesApart
<1>12. \A v \in WorkersOf(s) : StateKnown(v)'
  BY <1>1, <1>2, <1>5 DEF StateKnown, RuleState
<1>13. \A t \in Servers \ {s} : Same(t)
  BY <1>1 DEF Same, Workers, WorkersOf
<1> QED BY <1>1, <1>7, <1>8, <1>9, <1>10, <1>11, <1>12, <1>13, OthersOwned
        DEF ServerOwned

\* What Eval and Handle leave in the rule of their goroutine.
LEMMA StateAfter ==
  ASSUME TypeOK, NEW w \in Workers, StateKnown(w),
         \/ Eval(w) \/ Handle(w) \/ SaveRefused(w) \/ SetAlertState(w)
         \/ ReadRow(w) \/ WriteRow(w) \/ Unsaved(w) \/ Annotate(w)
         \/ Notify(w) \/ EvalPanics(w)
  PROVE  StateKnown(w)'
<1>1. /\ worker[w] \in WorkerRecord /\ worker \in [Workers -> WorkerRecord]
      /\ worker'[w].rule = worker[w].rule
  BY BusySteps DEF TypeOK, MemoryOK
<1>2. CASE Eval(w)
  <2>1. /\ worker'[w] = [worker[w] EXCEPT !.pc = "decide"]
        /\ rule' = [rule EXCEPT ![w[1]][worker[w].rule] =
                      NewState(w, signal[worker[w].alert])]
    BY <1>1, <1>2 DEF Eval
  <2>2. /\ worker[w].alert \in Alerts
        /\ worker[w].rule \in Rules
    BY <1>2 DEF Eval, TypeOK, PointersOK, WorkerOK, ValidRule
  <2>3. RuleState(w)' = NewState(w, signal[worker[w].alert])
    BY <1>1, <2>1, <2>2, WorkerServer DEF RuleState, TypeOK, MemoryOK
  <2>4. NewState(w, signal[worker[w].alert]) \in EvalStates \cup {worker[w].prev}
    BY <2>2 DEF NewState, TypeOK, Outcomes
  <2>5. worker'[w].pc = "decide" /\ worker'[w].prev = worker[w].prev
    BY <1>1, <2>1 DEF WorkerRecord
  <2> QED BY <2>3, <2>4, <2>5 DEF StateKnown
<1>3. CASE Handle(w)
  BY <1>1, <1>3 DEF Handle, Done, StateKnown, RuleState, WorkerRecord
<1>4. CASE SaveRefused(w)
  BY <1>1, <1>4 DEF SaveRefused, Done, StateKnown, WorkerRecord
<1>5. CASE SetAlertState(w) \/ ReadRow(w)
  BY <1>1, <1>5
  DEF SetAlertState, ReadRow, MaySave, StateKnown, RuleState, WorkerRecord
<1>6. CASE WriteRow(w)
  BY <1>1, <1>6 DEF WriteRow, StateKnown, RuleState, WorkerRecord
<1>7. CASE Unsaved(w)
  BY <1>1, <1>7 DEF Unsaved, StateKnown, RuleState, WorkerRecord
<1>8. CASE Annotate(w)
  BY <1>1, <1>8 DEF Annotate, Done, StateKnown, RuleState, WorkerRecord
<1>9. CASE Notify(w)
  BY <1>1, <1>9 DEF Notify, Done, StateKnown, WorkerRecord
<1>10. CASE EvalPanics(w)
  BY <1>1, <1>10 DEF EvalPanics, Done, StateKnown, WorkerRecord
<1> QED BY <1>2, <1>3, <1>4, <1>5, <1>6, <1>7, <1>8, <1>9, <1>10

\* A goroutine that goes on with its job.
LEMMA OwnedBusy ==
  ASSUME TypeOK, TypeOK', ServersOwned, NEW w \in Workers,
         \/ Eval(w) \/ Handle(w) \/ SaveRefused(w) \/ SetAlertState(w)
         \/ ReadRow(w) \/ WriteRow(w) \/ Unsaved(w) \/ Annotate(w)
         \/ Notify(w) \/ EvalPanics(w)
  PROVE  ServersOwned'
<1> DEFINE s == w[1]
<1>1. s \in Servers /\ w \in WorkersOf(s)
  BY WorkerServer
<1>2. /\ SchedOwned(s) /\ QueueOwned(s) /\ WorkersApart(s) /\ TickOwned(s)
      /\ RulesApart(s) /\ \A v \in WorkersOf(s) : StateKnown(v)
  BY <1>1 DEF ServersOwned, ServerOwned
<1>3. /\ UNCHANGED <<ticker, sched, queue, job>>
      /\ \A v \in Workers \ {w} : worker'[v] = worker[v]
      /\ Busy(w) /\ Busy(w)' /\ worker'[w].job = worker[w].job
      /\ worker'[w].rule = worker[w].rule
  BY BusySteps
<1>4. \A v \in WorkersOf(s) : v # w => worker'[v] = worker[v]
  BY <1>1, <1>3, ServerOf
<1>5. \A v \in WorkersOf(s) :
        /\ worker'[v].job = worker[v].job /\ worker'[v].rule = worker[v].rule
        /\ Busy(v)' <=> Busy(v)
        /\ worker'[v].pc = "idle" <=> worker[v].pc = "idle"
        /\ worker'[v].pc = "start" <=> worker[v].pc = "start"
  BY <1>3, <1>4 DEF Busy
<1>6. \A r \in Rules \ {worker[w].rule} : rule'[s][r] = rule[s][r]
  <2>1. CASE Eval(w)
    BY <1>1, <2>1 DEF Eval, TypeOK, MemoryOK
  <2>2. CASE UNCHANGED rule
    BY <2>2
  <2> QED BY BusySteps, <2>1, <2>2
<1>7. \A t \in Servers \ {s} : rule'[t] = rule[t]
  BY ZenonT(60), BusySteps DEF Eval, TypeOK, MemoryOK
<1>8. SchedOwned(s)' /\ QueueOwned(s)'
  BY <1>2, <1>3, <1>5 DEF SchedOwned, Scheduled, QueueOwned
<1>9. WorkersApart(s)'
  BY <1>2, <1>3, <1>5 DEF WorkersApart
<1>10. TickOwned(s)'
  <2>1. \A j : Untouched(s, j) => Untouched(s, j)'
    BY <1>3, <1>5 DEF Untouched
  <2>2. Started(s) => Started(s)'
    BY <1>3, <1>5 DEF Started
  <2> QED BY <1>2, <1>3, <1>5, <2>1, <2>2 DEF TickOwned
<1>11. RulesApart(s)'
  <2>1. ASSUME NEW j \in Jobs, job[s][j].rule # None
        PROVE  ValidRule(s, job[s][j].rule)'
    <3>1. ValidRule(s, job[s][j].rule)
      BY <1>2, <2>1 DEF RulesApart
    <3>2. CASE job[s][j].rule = worker[w].rule
      <4>1. WorkerOK(w)'
        BY DEF TypeOK, PointersOK
      <4> QED BY <1>3, <3>2, <4>1 DEF WorkerOK, Busy, ValidRule
    <3>3. CASE job[s][j].rule # worker[w].rule
      BY <1>3, <1>6, <3>1, <3>3 DEF ValidRule
    <3> QED BY <3>2, <3>3
  <2> QED BY <1>2, <1>3, <1>5, <2>1 DEF RulesApart
<1>12. ASSUME NEW v \in WorkersOf(s) PROVE StateKnown(v)'
  <2>1. CASE v = w
    BY <1>1, <1>2, <2>1, StateAfter
  <2>2. CASE v # w
    <3>1. CASE Busy(v)
      <4>1. worker[v].rule # worker[w].rule
        BY <1>1, <1>2, <1>3, <2>2, <3>1 DEF RulesApart
      <4>2. worker[v].rule \in Rules
        BY <1>1, <3>1, ServerOf
        DEF Busy, TypeOK, PointersOK, WorkerOK, ValidRule
      <4>3. v[1] = s
        BY <1>1, ServerOf
      <4>4. RuleState(v)' = RuleState(v)
        BY <1>4, <1>6, <2>2, <4>1, <4>2, <4>3 DEF RuleState
      <4> QED BY <1>2, <1>4, <2>2, <4>4 DEF StateKnown
    <3>2. CASE ~Busy(v)
      BY <1>4, <2>2, <3>2 DEF StateKnown, Busy
    <3> QED BY <3>1, <3>2
  <2> QED BY <2>1, <2>2
<1>13. \A t \in Servers \ {s} : Same(t)
  BY <1>3, <1>7 DEF Same, Workers, WorkersOf
<1> QED BY <1>1, <1>8, <1>9, <1>10, <1>11, <1>12, <1>13, OthersOwned
        DEF ServerOwned

\* A collection keeps apart what was apart before it.
LEMMA RulesCollected ==
  ASSUME TypeOK, TypeOK', NEW s \in Servers, NEW jb, NEW rl, Collect(s, jb, rl),
         \A j \in Jobs : jb[j].rule # None =>
           /\ jb[j].rule \in Rules /\ rl[jb[j].rule] \in RowStates
           /\ \A k \in Jobs \ {j} : jb[k].rule # jb[j].rule,
         \A w \in WorkersOf(s) : Busy(w)' =>
           /\ \A j \in Jobs \ {worker'[w].job} : jb[j].rule # worker'[w].rule
           /\ \A v \in WorkersOf(s) \ {w} : Busy(v)' =>
                worker'[v].rule # worker'[w].rule
  PROVE  RulesApart(s)'
<1>1. \A j \in Jobs : job'[s][j] = jb[j] \/ job'[s][j] = NoJob
  BY Collected
<1>2. \A j \in Jobs : job'[s][j].rule \in Rules =>
        rule'[s][job'[s][j].rule] = rl[job'[s][j].rule]
  BY Collected
<1>3. ASSUME NEW j \in Jobs, job'[s][j].rule # None
      PROVE  /\ ValidRule(s, job[s][j].rule)'
             /\ \A k \in Jobs \ {j} : job'[s][k].rule # job'[s][j].rule
  <2>1. job'[s][j] = jb[j]
    BY <1>1, <1>3 DEF NoJob
  <2>2. \A k \in Jobs : job'[s][k].rule = jb[k].rule \/ job'[s][k].rule = None
    BY <1>1 DEF NoJob
  <2> QED BY <1>2, <1>3, <2>1, <2>2 DEF ValidRule
<1>4. ASSUME NEW w \in WorkersOf(s), Busy(w)', NEW j \in Jobs \ {worker'[w].job}
      PROVE  job'[s][j].rule # worker'[w].rule
  <2>1. worker'[w].rule # None
    BY <1>4, ServerOf, EngineAssumption
    DEF TypeOK, PointersOK, WorkerOK, ValidRule, Busy
  <2>2. job'[s][j].rule = jb[j].rule \/ job'[s][j].rule = None
    BY <1>1 DEF NoJob
  <2> QED BY <1>4, <2>1, <2>2
<1> QED BY <1>3, <1>4 DEF RulesApart

\* A goroutine that is done releases its job.
LEMMA OwnedFinish ==
  ASSUME TypeOK, TypeOK', ServersOwned, NEW w \in Workers, Finish(w)
  PROVE  ServersOwned'
<1> DEFINE s == w[1]
           jb == [job[s] EXCEPT ![worker[w].job].running = FALSE]
<1>1. /\ s \in Servers /\ w \in WorkersOf(s)
      /\ worker[w].pc = "done" /\ worker'[w] = IdleWorker
      /\ \A v \in Workers \ {w} : worker'[v] = worker[v]
      /\ UNCHANGED <<ticker, sched, queue>>
      /\ Collect(s, jb, rule[s])
  BY WorkerServer DEF Finish, TypeOK, MemoryOK
<1>2. /\ SchedOwned(s) /\ QueueOwned(s) /\ WorkersApart(s) /\ TickOwned(s)
      /\ RulesApart(s) /\ \A v \in WorkersOf(s) : StateKnown(v)
  BY <1>1 DEF ServersOwned, ServerOwned
<1>3. /\ worker[w].job \in Jobs /\ worker[w].job # None
  BY <1>1 DEF TypeOK, MemoryOK, WorkerRecord, PointersOK, WorkerOK
<1>4. /\ \A j \in Jobs : jb[j].alert = job[s][j].alert /\ jb[j].rule = job[s][j].rule
      /\ \A j \in Jobs \ {worker[w].job} : jb[j] = job[s][j]
  <2>1. job[s] \in [Jobs -> JobRecord]
    BY <1>1 DEF TypeOK, MemoryOK
  <2> QED BY <1>3, <2>1 DEF JobRecord
<1> HIDE DEF jb
<1>5. \A v \in WorkersOf(s) : v # w => worker'[v] = worker[v]
  BY <1>1, ServerOf
<1>6. \A j \in LiveJobs(s, sched, queue, worker)' \cap Jobs : job'[s][j] = jb[j]
  BY <1>1, Collected
<1>7. ~Busy(w)' /\ worker'[w].pc = "idle" /\ worker'[w].job = None
  BY <1>1 DEF IdleWorker, Busy
<1>8. SchedOwned(s)'
  <2>1. ASSUME NEW a \in Scheduled(sched[s])
        PROVE  job'[s][sched'[s][a]].alert = a
    <3>1. sched'[s][a] \in LiveJobs(s, sched, queue, worker)' \cap Jobs
      BY <1>1 DEF LiveJobs, Scheduled, TypeOK, MemoryOK
    <3> QED BY <1>1, <1>2, <1>4, <1>6, <3>1 DEF SchedOwned
  <2> QED BY <1>1, <2>1 DEF SchedOwned, Scheduled
<1>9. QueueOwned(s)'
  <2>1. \A i \in 1..Len(queue[s]) : queue[s][i] # None
    <3>1. queue[s] \in Seq(Jobs)
      BY <1>1 DEF TypeOK, MemoryOK
    <3>2. \A j \in Jobs : j # None
      BY EngineAssumption
    <3> QED BY <3>1, <3>2
  <2> QED BY <1>1, <1>2, <1>5, <1>7, <2>1 DEF QueueOwned
<1>10. WorkersApart(s)'
  <2>1. ASSUME NEW v \in WorkersOf(s), Busy(v)' PROVE job'[s][worker'[v].job].running
    <3>1. v # w /\ Busy(v) /\ worker'[v] = worker[v]
      BY <1>5, <1>7, <2>1 DEF Busy
    <3>2. worker[v].job \in Jobs /\ worker[v].job # None
      BY <1>1, <3>1, ServerOf
      DEF Busy, TypeOK, MemoryOK, WorkerRecord, PointersOK, WorkerOK
    <3>3. worker[v].job # worker[w].job
      BY <1>1, <1>2, <3>1, <3>2 DEF WorkersApart
    <3>4. worker[v].job \in LiveJobs(s, sched, queue, worker)'
      BY <3>1 DEF LiveJobs
    <3> QED BY <1>2, <1>4, <1>6, <3>1, <3>2, <3>3, <3>4 DEF WorkersApart
  <2>2. ASSUME NEW v \in WorkersOf(s)
        PROVE  /\ worker'[v].pc = "idle" => worker'[v].job = None
               /\ \A u \in WorkersOf(s) \ {v} :
                    worker'[u].job = worker'[v].job => worker'[u].job = None
    BY <1>2, <1>5, <1>7 DEF WorkersApart
  <2> QED BY <2>1, <2>2 DEF WorkersApart
<1>11. TickOwned(s)'
  <2>1. \A j : Untouched(s, j) => Untouched(s, j)'
    BY <1>1, <1>5, <1>7 DEF Untouched
  <2>2. Started(s) => Started(s)'
    BY <1>1, <1>5, <1>7 DEF Started
  <2>3. ticker[s].pc = "send" => ticker[s].next # None
    BY <1>1 DEF TypeOK, PointersOK, TickerOK, Scheduled
  <2> QED BY <1>1, <1>2, <1>5, <1>7, <2>1, <2>2, <2>3 DEF TickOwned
<1>12. RulesApart(s)'
  <2>1. \A j \in Jobs : jb[j].rule # None =>
          /\ jb[j].rule \in Rules /\ rule[s][jb[j].rule] \in RowStates
          /\ \A k \in Jobs \ {j} : jb[k].rule # jb[j].rule
    BY <1>2, <1>4 DEF RulesApart, ValidRule
  <2>2. \A v \in WorkersOf(s) : Busy(v)' =>
          /\ \A j \in Jobs \ {worker'[v].job} : jb[j].rule # worker'[v].rule
          /\ \A u \in WorkersOf(s) \ {v} : Busy(u)' =>
               worker'[u].rule # worker'[v].rule
    <3>1. \A v \in WorkersOf(s) : Busy(v)' =>
            v # w /\ Busy(v) /\ worker'[v] = worker[v]
      BY <1>5, <1>7 DEF Busy
    <3> QED BY <1>2, <1>4, <3>1 DEF RulesApart
  <2> QED BY <1>1, <2>1, <2>2, RulesCollected
<1>13. ASSUME NEW v \in WorkersOf(s) PROVE StateKnown(v)'
  <2>1. CASE ~Busy(v)'
    BY <2>1 DEF StateKnown, Busy
  <2>2. CASE Busy(v)'
    <3>1. v # w /\ Busy(v) /\ worker'[v] = worker[v] /\ v[1] = s
      BY <1>1, <1>5, <1>7, <2>2, ServerOf DEF Busy
    <3>2. worker'[v].rule \in Rules
      BY <1>1, <3>1, ServerOf
      DEF Busy, TypeOK, PointersOK, WorkerOK, ValidRule
    <3>3. rule'[s][worker'[v].rule] = rule[s][worker'[v].rule]
      BY <1>1, <3>2, Collected
    <3>4. RuleState(v)' = RuleState(v)
      BY <3>1, <3>3 DEF RuleState
    <3> QED BY <1>2, <3>1, <3>4 DEF StateKnown
  <2> QED BY <2>1, <2>2
<1>14. \A t \in Servers \ {s} : Same(t)
  <2>1. \A t \in Servers \ {s} : job'[t] = job[t] /\ rule'[t] = rule[t]
    BY <1>1, Collected
  <2> QED BY <1>1, <2>1 DEF Same, Workers, WorkersOf
<1> QED BY <1>1, <1>8, <1>9, <1>10, <1>11, <1>12, <1>13, <1>14, OthersOwned
        DEF ServerOwned

\* A process that starts again has nothing to mix up.
LEMMA OwnedRestarted ==
  ASSUME TypeOK, TypeOK', ServersOwned, NEW s \in Servers, Restarted(s)
  PROVE  ServersOwned'
<1>1. /\ \A a \in Alerts : sched'[s][a] = None
      /\ DOMAIN sched'[s] = Alerts
      /\ queue'[s] = << >> /\ ticker'[s].pc = "wait"
      /\ \A w \in WorkersOf(s) : worker'[w].job = None /\ worker'[w].pc = "idle"
  BY DEF Restarted, IdleWorker, IdleTicker, TypeOK, MemoryOK, Workers, WorkersOf
<1>2. \A j \in LiveJobs(s, sched, queue, worker)' : j = None
  BY <1>1 DEF LiveJobs
<1>3. \A j \in Jobs : job'[s][j].rule = None
  <2>1. \A j \in Jobs : j # None
    BY EngineAssumption
  <2>2. Collect(s, job[s], rule[s])
    BY DEF Restarted
  <2>3. \A j \in Jobs : job'[s][j] = IF j \in LiveJobs(s, sched, queue, worker)'
                                     THEN job[s][j] ELSE NoJob
    BY <2>2, Collected
  <2> QED BY <1>2, <2>1, <2>3 DEF NoJob
<1>4. SchedOwned(s)' /\ QueueOwned(s)' /\ WorkersApart(s)' /\ TickOwned(s)'
  BY <1>1 DEF SchedOwned, Scheduled, QueueOwned, WorkersApart, TickOwned, Busy
<1>5. RulesApart(s)' /\ \A w \in WorkersOf(s) : StateKnown(w)'
  BY <1>1, <1>3 DEF RulesApart, StateKnown, Busy
<1>6. \A t \in Servers \ {s} : Same(t)
  <2>1. \A t \in Servers \ {s} : job'[t] = job[t] /\ rule'[t] = rule[t]
    BY Collected DEF Restarted
  <2>2. \A t \in Servers \ {s} : /\ ticker'[t] = ticker[t] /\ sched'[t] = sched[t]
                                 /\ queue'[t] = queue[t]
    BY DEF Restarted, TypeOK, MemoryOK
  <2>3. \A t \in Servers \ {s} : \A w \in WorkersOf(t) : worker'[w] = worker[w]
    BY DEF Restarted, Workers, WorkersOf
  <2> QED BY <2>1, <2>2, <2>3 DEF Same
<1> QED BY <1>4, <1>5, <1>6, OthersOwned DEF ServerOwned

\* A reload gives the alert's job a rule that nobody has.
LEMMA OwnedUpdateRule ==
  ASSUME TypeOK, TypeOK', ServersOwned, NEW s \in Servers, NEW a \in Alerts,
         UpdateRule(s, a)
  PROVE  ServersOwned'
<1>1. PICK j \in Jobs, r \in Rules :
        /\ IF sched[s][a] = None THEN FreshJob(s, j) ELSE j = sched[s][a]
        /\ FreshRule(s, r)
        /\ sched' = [sched EXCEPT ![s][a] = j]
        /\ Collect(s, [job[s] EXCEPT ![j] = [@ EXCEPT !.alert = a, !.rule = r]],
                   [rule[s] EXCEPT ![r] = ticker[s].snap[a]])
  BY DEF UpdateRule
<1> DEFINE jb == [job[s] EXCEPT ![j] = [@ EXCEPT !.alert = a, !.rule = r]]
           rl == [rule[s] EXCEPT ![r] = ticker[s].snap[a]]
<1>2. /\ SchedOwned(s) /\ QueueOwned(s) /\ WorkersApart(s) /\ TickOwned(s)
      /\ RulesApart(s) /\ \A v \in WorkersOf(s) : StateKnown(v)
  BY DEF ServersOwned, ServerOwned
<1>3. /\ ticker[s].pc = "update" /\ ticker'[s].pc = "update"
      /\ UNCHANGED <<queue, worker>>
      /\ \A t \in Servers \ {s} : ticker'[t] = ticker[t]
  BY DEF UpdateRule, TypeOK, MemoryOK, TickerRecord
<1>4. /\ sched'[s] = [sched[s] EXCEPT ![a] = j]
      /\ \A t \in Servers \ {s} : sched'[t] = sched[t]
  BY <1>1 DEF TypeOK, MemoryOK
<1>5. /\ jb[j].alert = a /\ jb[j].rule = r /\ jb[j].running = job[s][j].running
      /\ \A k \in Jobs \ {j} : jb[k] = job[s][k]
      /\ rl[r] \in RowStates
      /\ \A q \in Rules \ {r} : rl[q] = rule[s][q]
  <2>1. job[s] \in [Jobs -> JobRecord] /\ rule[s] \in [Rules -> RowStates \cup {"free"}]
    BY DEF TypeOK, MemoryOK
  <2>2. ticker[s].snap[a] \in RowStates
    <3>1. a \in DOMAIN ticker[s].snap
      BY DEF UpdateRule, TypeOK, PointersOK, TickerOK
    <3> QED BY <3>1 DEF TypeOK, MemoryOK, TickerRecord, Snapshots
  <2> QED BY <2>1, <2>2 DEF JobRecord
<1>6. Collect(s, jb, rl)
  BY <1>1
<1> HIDE DEF jb, rl
<1>7. \A i \in LiveJobs(s, sched, queue, worker)' \cap Jobs : job'[s][i] = jb[i]
  BY <1>6, Collected
<1>8. rule[s][r] = "free" /\ "free" \notin RowStates
  BY <1>1 DEF FreshRule, LeastFree, RowStates, EvalStates
<1>9. \A k \in Jobs \ {j} : job[s][k].rule # r
  <2>1. r # None
    BY EngineAssumption
  <2> QED BY <1>2, <1>8, <2>1 DEF RulesApart, ValidRule
<1>10. \A w \in WorkersOf(s) : Busy(w) => worker[w].rule \in Rules \ {r}
  BY <1>8, ServerOf DEF Busy, TypeOK, PointersOK, WorkerOK, ValidRule
<1>11. \A b \in Scheduled(sched[s]) \ {a} : sched[s][b] # j
  <2>1. ASSUME NEW b \in Scheduled(sched[s]) \ {a}, sched[s][b] = j PROVE FALSE
    <3>1. job[s][j].alert = b /\ b \in Alerts /\ sched[s][b] # None
      BY <1>2, <2>1 DEF SchedOwned, Scheduled, TypeOK, MemoryOK
    <3>2. ValidJob(s, j)
      BY <2>1, <3>1 DEF TypeOK, PointersOK, LiveJobs
    <3>3. job[s][j] # NoJob
      <4>1. job[s][j].rule # None
        BY <3>2, EngineAssumption DEF ValidJob, ValidRule
      <4> QED BY <4>1 DEF NoJob
    <3>4. sched[s][a] # None
      BY <1>1, <3>3 DEF FreshJob, LeastFree
    <3>5. a \in Scheduled(sched[s]) /\ sched[s][a] = j
      BY <1>1, <3>4 DEF Scheduled, TypeOK, MemoryOK
    <3> QED BY <1>2, <2>1, <3>1, <3>5 DEF SchedOwned
  <2> QED BY <2>1
<1>12. SchedOwned(s)'
  <2>1. ASSUME NEW b \in Alerts, sched'[s][b] # None
        PROVE  job'[s][sched'[s][b]].alert = b
    <3>1. sched'[s][b] \in LiveJobs(s, sched, queue, worker)' \cap Jobs
      BY <2>1 DEF LiveJobs, TypeOK, MemoryOK
    <3>2. CASE b = a
      BY <1>4, <1>5, <1>7, <3>1, <3>2 DEF TypeOK, MemoryOK
    <3>3. CASE b # a
      <4>1. sched'[s][b] = sched[s][b] /\ b \in Scheduled(sched[s]) \ {a}
        BY <1>4, <2>1, <3>3 DEF Scheduled, TypeOK, MemoryOK
      <4> QED BY <1>2, <1>5, <1>7, <1>11, <3>1, <4>1 DEF SchedOwned
    <3> QED BY <3>2, <3>3
  <2>2. DOMAIN sched'[s] = Alerts
    BY DEF TypeOK, MemoryOK
  <2> QED BY <2>1, <2>2 DEF SchedOwned, Scheduled
<1>13. QueueOwned(s)'
  BY <1>2, <1>3 DEF QueueOwned
<1>14. WorkersApart(s)'
  <2>1. ASSUME NEW w \in WorkersOf(s), Busy(w) PROVE job'[s][worker[w].job].running
    <3>1. worker[w].job \in Jobs
      BY <2>1, ServerOf
      DEF Busy, TypeOK, MemoryOK, WorkerRecord, PointersOK, WorkerOK
    <3>2. worker[w].job \in LiveJobs(s, sched, queue, worker)'
      BY <1>3 DEF LiveJobs
    <3> QED BY <1>2, <1>5, <1>7, <2>1, <3>1, <3>2 DEF WorkersApart
  <2> QED BY <1>2, <1>3, <2>1 DEF WorkersApart, Busy
<1>15. TickOwned(s)'
  BY <1>2, <1>3 DEF TickOwned, Started
<1>16. RulesApart(s)'
  <2>1. \A i \in Jobs : jb[i].rule # None =>
          /\ jb[i].rule \in Rules /\ rl[jb[i].rule] \in RowStates
          /\ \A k \in Jobs \ {i} : jb[k].rule # jb[i].rule
    <3>1. ASSUME NEW i \in Jobs, jb[i].rule # None
          PROVE  /\ jb[i].rule \in Rules /\ rl[jb[i].rule] \in RowStates
                 /\ \A k \in Jobs \ {i} : jb[k].rule # jb[i].rule
      <4>1. CASE i = j
        BY <1>5, <1>9, <4>1
      <4>2. CASE i # j
        <5>1. jb[i] = job[s][i] /\ job[s][i].rule # r
          BY <1>5, <1>9, <4>2
        <5> QED BY <1>2, <1>5, <3>1, <5>1 DEF RulesApart, ValidRule
      <4> QED BY <4>1, <4>2
    <3> QED BY <3>1
  <2>2. \A w \in WorkersOf(s) : Busy(w)' =>
          /\ \A i \in Jobs \ {worker'[w].job} : jb[i].rule # worker'[w].rule
          /\ \A v \in WorkersOf(s) \ {w} : Busy(v)' =>
               worker'[v].rule # worker'[w].rule
    BY <1>2, <1>3, <1>5, <1>10 DEF RulesApart, Busy
  <2> QED BY <1>6, <2>1, <2>2, RulesCollected
<1>17. ASSUME NEW w \in WorkersOf(s) PROVE StateKnown(w)'
  <2>1. CASE ~Busy(w)
    BY <1>3, <2>1 DEF StateKnown, Busy
  <2>2. CASE Busy(w)
    <3>1. worker'[w].rule \in Rules \ {r} /\ w[1] = s
      BY <1>3, <1>10, <2>2, ServerOf
    <3>2. rule'[s][worker'[w].rule] = rl[worker'[w].rule]
      BY <1>6, <3>1, Collected
    <3>3. RuleState(w)' = RuleState(w)
      BY <1>3, <1>5, <3>1, <3>2 DEF RuleState
    <3> QED BY <1>2, <1>3, <3>3 DEF StateKnown
  <2> QED BY <2>1, <2>2
<1>18. \A t \in Servers \ {s} : Same(t)
  <2>1. \A t \in Servers \ {s} : job'[t] = job[t] /\ rule'[t] = rule[t]
    BY <1>6, Collected
  <2> QED BY <1>3, <1>4, <2>1 DEF Same
<1> QED BY <1>12, <1>13, <1>14, <1>15, <1>16, <1>17, <1>18, OthersOwned
        DEF ServerOwned

\* The jobs of alerts that were not read are forgotten.
LEMMA OwnedUpdateDone ==
  ASSUME TypeOK, TypeOK', ServersOwned, NEW s \in Servers, UpdateDone(s)
  PROVE  ServersOwned'
<1>1. /\ ticker[s].pc = "update" /\ ticker'[s].pc \in {"wait", "tick"}
      /\ UNCHANGED <<queue, worker>>
      /\ \A t \in Servers \ {s} : ticker'[t] = ticker[t] /\ sched'[t] = sched[t]
      /\ \A a \in Alerts : sched'[s][a] \in {sched[s][a], None}
      /\ DOMAIN sched'[s] = Alerts /\ DOMAIN sched[s] = Alerts
      /\ Collect(s, job[s], rule[s])
  BY ZenonT(60), SMTT(30) DEF UpdateDone, Ticking, TypeOK, MemoryOK, TickerRecord
<1>2. /\ SchedOwned(s) /\ QueueOwned(s) /\ WorkersApart(s) /\ TickOwned(s)
      /\ RulesApart(s) /\ \A v \in WorkersOf(s) : StateKnown(v)
  BY DEF ServersOwned, ServerOwned
<1>3. \A i \in LiveJobs(s, sched, queue, worker)' \cap Jobs : job'[s][i] = job[s][i]
  BY <1>1, Collected
<1>4. SchedOwned(s)'
  <2>1. ASSUME NEW a \in Alerts, sched'[s][a] # None
        PROVE  job'[s][sched'[s][a]].alert = a
    <3>1. sched'[s][a] \in LiveJobs(s, sched, queue, worker)' \cap Jobs
      BY <2>1 DEF LiveJobs, TypeOK, MemoryOK
    <3>2. sched'[s][a] = sched[s][a] /\ a \in Scheduled(sched[s])
      BY <1>1, <2>1 DEF Scheduled
    <3> QED BY <1>2, <1>3, <3>1, <3>2 DEF SchedOwned
  <2> QED BY <1>1, <2>1 DEF SchedOwned, Scheduled
<1>5. QueueOwned(s)'
  BY <1>1, <1>2 DEF QueueOwned
<1>6. WorkersApart(s)'
  <2>1. ASSUME NEW w \in WorkersOf(s), Busy(w) PROVE job'[s][worker[w].job].running
    <3>1. worker[w].job \in Jobs
      BY <2>1, ServerOf
      DEF Busy, TypeOK, MemoryOK, WorkerRecord, PointersOK, WorkerOK
    <3>2. worker[w].job \in LiveJobs(s, sched, queue, worker)'
      BY <1>1 DEF LiveJobs
    <3> QED BY <1>2, <1>3, <2>1, <3>1, <3>2 DEF WorkersApart
  <2> QED BY <1>1, <1>2, <2>1 DEF WorkersApart, Busy
<1>7. TickOwned(s)'
  <2>1. \A j : Untouched(s, j)
    BY <1>1, <1>2, StartedUntouched DEF TickOwned
  <2>2. \A j : Untouched(s, j)'
    BY <1>1, <2>1 DEF Untouched
  <2> QED BY <1>1, <2>2 DEF TickOwned
<1>8. RulesApart(s)'
  <2>1. \A j \in Jobs : job[s][j].rule # None =>
          /\ job[s][j].rule \in Rules /\ rule[s][job[s][j].rule] \in RowStates
          /\ \A k \in Jobs \ {j} : job[s][k].rule # job[s][j].rule
    BY <1>2 DEF RulesApart, ValidRule
  <2>2. \A w \in WorkersOf(s) : Busy(w)' =>
          /\ \A j \in Jobs \ {worker'[w].job} : job[s][j].rule # worker'[w].rule
          /\ \A v \in WorkersOf(s) \ {w} : Busy(v)' =>
               worker'[v].rule # worker'[w].rule
    BY <1>1, <1>2 DEF RulesApart, Busy
  <2> QED BY <1>1, <2>1, <2>2, RulesCollected
<1>9. ASSUME NEW w \in WorkersOf(s) PROVE StateKnown(w)'
  <2>1. CASE ~Busy(w)
    BY <1>1, <2>1 DEF StateKnown, Busy
  <2>2. CASE Busy(w)
    <3>1. worker'[w].rule \in Rules /\ w[1] = s
      BY <1>1, <2>2, ServerOf DEF Busy, TypeOK, PointersOK, WorkerOK, ValidRule
    <3>2. rule'[s][worker'[w].rule] = rule[s][worker'[w].rule]
      BY <1>1, <3>1, Collected
    <3> QED BY <1>1, <1>2, <3>1, <3>2 DEF StateKnown, RuleState
  <2> QED BY <2>1, <2>2
<1>10. \A t \in Servers \ {s} : Same(t)
  <2>1. \A t \in Servers \ {s} : job'[t] = job[t] /\ rule'[t] = rule[t]
    BY <1>1, Collected
  <2> QED BY <1>1, <2>1 DEF Same
<1> QED BY <1>4, <1>5, <1>6, <1>7, <1>8, <1>9, <1>10, OthersOwned DEF ServerOwned

\* Every step keeps what belongs together together.
LEMMA OwnedNextJobs ==
  ASSUME TypeOK, ServersOwned, PromptStart, [Next]_vars
  PROVE  ServersOwned'
<1>1. TypeOK'
  BY TypeNext
<1>2. ASSUME NEW a \in Alerts, RequestStep(a) \/ Flip(a) PROVE UNCHANGED memory
  BY <1>2 DEF RequestStep, SaveAlert, PauseAlert, DeleteAlert, Flip
<1>3. CASE UNCHANGED memory
  <2>1. \A t \in Servers : Same(t)
    BY <1>3 DEF memory, Same
  <2> QED BY <2>1, SameOwned DEF ServersOwned
<1>4. ASSUME NEW s \in Servers, TickerStep(s) PROVE ServersOwned'
  BY <1>1, <1>4, OwnedFetch, OwnedUpdateDone, OwnedTick, OwnedEnque,
     OwnedUpdateRule, OwnedSkip, OwnedDue
  DEF TickerStep, Fetch
<1>5. ASSUME NEW w \in Workers, WorkerStep(w) PROVE ServersOwned'
  BY <1>1, <1>5, OwnedStartJob, OwnedBusy, OwnedFinish, OwnedRestarted, WorkerServer
  DEF WorkerStep, AlertNotFound, NotifyPanics
<1>6. CASE FaultStep
  BY <1>1, <1>6, OwnedFetch, OwnedRestarted, OwnedBusy
  DEF FaultStep, FetchFails, Crash, SaveFails
<1>7. CASE UNCHANGED vars
  BY <1>3, <1>7 DEF vars
<1> QED BY <1>2, <1>3, <1>4, <1>5, <1>6, <1>7, OwnedDispatch DEF Next

\* Where queued jobs have started before the next tick, a job that is marked
\* running is being processed, no two goroutines process one job, and the rule
\* a notifier runs with has a state it knows.
THEOREM OwnedJobs == ASSUME PromptStart PROVE Spec => []JobsOwned
<1>1. Init => ServersOwned
  <2> SUFFICES ASSUME Init, NEW s \in Servers PROVE ServerOwned(s)
    BY DEF ServersOwned
  <2>1. /\ queue[s] = << >> /\ ticker[s].pc = "wait" /\ Scheduled(sched[s]) = {}
        /\ \A j \in Jobs : job[s][j].rule = None
        /\ \A w \in WorkersOf(s) : worker[w].pc = "idle" /\ worker[w].job = None
    BY DEF Init, IdleTicker, Scheduled, NoJob, IdleWorker, Workers, WorkersOf
  <2> QED BY <2>1
          DEF ServerOwned, SchedOwned, QueueOwned, WorkersApart, TickOwned,
              RulesApart, StateKnown, Busy
<1>2. TypeOK /\ ServersOwned /\ [Next]_vars => ServersOwned'
  BY OwnedNextJobs
<1>3. TypeOK /\ ServersOwned => OneGoroutinePerJob /\ NotifierKnowsState
  <2> SUFFICES ASSUME TypeOK, ServersOwned
               PROVE  OneGoroutinePerJob /\ NotifierKnowsState
    OBVIOUS
  <2>1. ASSUME NEW w \in Workers
        PROVE  /\ WorkersApart(w[1]) /\ StateKnown(w)
               /\ \A v \in Workers : v[1] = w[1] => v \in WorkersOf(w[1])
    BY WorkerServer DEF ServersOwned, ServerOwned
  <2>2. OneGoroutinePerJob
    BY <2>1 DEF OneGoroutinePerJob, WorkersApart
  <2>3. NotifierKnowsState
    BY <2>1 DEF NotifierKnowsState, Notifiable, StateKnown
  <2> QED BY <2>2, <2>3
<1> QED BY <1>1, <1>2, <1>3, TypeCorrect, RunningProcessed, PTL DEF Spec, JobsOwned
=============================================================================
