---------------------------- MODULE GrafanaServer ----------------------------
(***************************************************************************)
(* The life of a Grafana process.  The main goroutine starts the parts of  *)
(* the server and then serves HTTP; another waits for a signal and shuts   *)
(* the server down.  Either may call Shutdown: main does when it fails to  *)
(* start.  Shutdown closes the HTTP server, cancels the context that all   *)
(* parts share, and waits for the child routines: the alerting engine      *)
(* (ticker, dispatcher and a goroutine per evaluation) and the cleanup     *)
(* service.                                                                *)
(***************************************************************************)
EXTENDS Integers, FiniteSets

CONSTANTS
  Evals,      \* bound: the set of evaluations that may be in flight
  QueueSize,  \* capacity of the engine's execQueue, 1000 in the code
  MaxQueued,  \* bound: jobs that are ever queued
  Requests    \* bound: HTTP requests in flight

ASSUME ServerAssumption ==
  /\ QueueSize \in Nat \ {0} /\ MaxQueued \in Nat /\ Requests \in Nat
  /\ IsFiniteSet(Evals)

Callers == {"main", "signal"}  \* goroutines that may call Shutdown

VARIABLES
  main,        \* where the main goroutine is in Start
  shutdown,    \* caller |-> where it is in Shutdown, or "no"
  code,        \* caller |-> the exit code it gives
  httpServer,  \* "nil"; "made", without httpSrv; "listening"; "closed"
  requests,    \* HTTP requests in flight
  cancelled,   \* TRUE when the shared context is done
  ticker,      \* alertingTicker: "off", "select", "enque" or "done"
  queue,       \* number of jobs in execQueue
  queued,      \* number of jobs ever queued
  dispatcher,  \* runJobDispatcher: "off", "select", "wait" or "done"
  eval,        \* evaluation |-> "idle"; "running"; "grace", after the
               \* context is done; "abandoned", when the grace is over
  cleanup,     \* CleanUpService: "off", "select" or "done"
  exit         \* "no"; "code0", "code1", "main" returned, or "panic"

startup == <<main, shutdown, code>>
engine == <<ticker, queue, queued, dispatcher, eval>>
vars == <<startup, httpServer, requests, cancelled, engine, cleanup, exit>>

Init ==
  /\ main = "provisioning"
  /\ shutdown = [p \in Callers |-> "no"]
  /\ code = [p \in Callers |-> 0]
  /\ httpServer = "nil" /\ requests = 0
  /\ cancelled = FALSE
  /\ ticker = "off" /\ queue = 0 /\ queued = 0
  /\ dispatcher = "off"
  /\ eval = [e \in Evals |-> "idle"]
  /\ cleanup = "off"
  /\ exit = "no"

\* Nothing happens in a process that has ended.
Alive == exit = "no"

(***************************************************************************)
(* GrafanaServerImpl.Start, in the main goroutine.                         *)
(***************************************************************************)
Call(p, c) ==
  /\ shutdown[p] = "no"
  /\ shutdown' = [shutdown EXCEPT ![p] = "http"]
  /\ code' = [code EXCEPT ![p] = c]

Goes(from, to) == main = from /\ main' = to

Provisioned ==
  /\ Alive
  /\ Goes("provisioning", "engine")
  /\ UNCHANGED <<shutdown, code, httpServer, requests, cancelled, engine,
                 cleanup, exit>>

StartEngine ==
  /\ Alive
  /\ Goes("engine", "cleanup")
  /\ ticker' = "select" /\ dispatcher' = "select"
  /\ UNCHANGED <<shutdown, code, httpServer, requests, cancelled, queue,
                 queued, eval, cleanup, exit>>

\* Alerting is disabled.
NoEngine ==
  /\ Alive
  /\ Goes("engine", "cleanup")
  /\ UNCHANGED <<shutdown, code, httpServer, requests, cancelled, engine,
                 cleanup, exit>>

StartCleanUp ==
  /\ Alive
  /\ Goes("cleanup", "notifications")
  /\ cleanup' = "select"
  /\ UNCHANGED <<shutdown, code, httpServer, requests, cancelled, engine, exit>>

NewHttpServer ==
  /\ Alive
  /\ Goes("notifications", "http")
  /\ httpServer' = "made"
  /\ UNCHANGED <<shutdown, code, requests, cancelled, engine, cleanup, exit>>

Listen ==
  /\ Alive
  /\ Goes("http", "serving")
  /\ httpServer' = "listening"
  /\ UNCHANGED <<shutdown, code, requests, cancelled, engine, cleanup, exit>>

\* Provisioning, tracing, notifications or listening fails.
StartupFails ==
  /\ Alive
  /\ main \in {"provisioning", "notifications", "serving"}
  /\ main = "serving" => httpServer = "listening" /\ requests = 0
  /\ main' = "failed"
  /\ Call("main", 1)
  /\ UNCHANGED <<httpServer, requests, cancelled, engine, cleanup, exit>>

\* ListenAndServe returns when the server is closed, Start returns, and with
\* main the process ends.
MainReturns ==
  /\ Alive
  /\ Goes("serving", "returned")
  /\ httpServer = "closed"
  /\ exit' = "main"
  /\ UNCHANGED <<shutdown, code, httpServer, requests, cancelled, engine,
                 cleanup>>

(***************************************************************************)
(* Shutdown.                                                               *)
(***************************************************************************)
Signal ==
  /\ Alive
  /\ Call("signal", 0)
  /\ UNCHANGED <<main, httpServer, requests, cancelled, engine, cleanup, exit>>

\* g.httpServer or its httpSrv is nil.
NilHttpServer(p) ==
  /\ Alive
  /\ shutdown[p] = "http" /\ httpServer \in {"nil", "made"}
  /\ exit' = "panic"
  /\ UNCHANGED <<startup, httpServer, requests, cancelled, engine, cleanup>>

\* httpSrv.Shutdown closes the listeners, then waits for requests.
CloseHttp(p) ==
  /\ Alive
  /\ shutdown[p] = "http" /\ httpServer \in {"listening", "closed"}
  /\ httpServer' = "closed"
  /\ shutdown' = [shutdown EXCEPT ![p] = "drain"]
  /\ UNCHANGED <<main, code, requests, cancelled, engine, cleanup, exit>>

\* shutdownFn
Cancel(p) ==
  /\ Alive
  /\ shutdown[p] = "drain" /\ requests = 0
  /\ cancelled' = TRUE
  /\ shutdown' = [shutdown EXCEPT ![p] = "wait"]
  /\ UNCHANGED <<main, code, httpServer, requests, engine, cleanup, exit>>

EngineDone == ticker \in {"off", "done"} /\ dispatcher \in {"off", "done"}

\* childRoutines.Wait, os.Exit
Exit(p) ==
  /\ Alive
  /\ shutdown[p] = "wait" /\ EngineDone /\ cleanup \in {"off", "done"}
  /\ exit' = IF code[p] = 0 THEN "code0" ELSE "code1"
  /\ UNCHANGED <<startup, httpServer, requests, cancelled, engine, cleanup>>

(***************************************************************************)
(* HTTP requests, the cleanup service and the alerting engine.             *)
(***************************************************************************)
RequestBegins ==
  /\ Alive
  /\ httpServer = "listening" /\ requests < Requests
  /\ requests' = requests + 1
  /\ UNCHANGED <<startup, httpServer, cancelled, engine, cleanup, exit>>

RequestEnds ==
  /\ Alive
  /\ requests > 0 /\ requests' = requests - 1
  /\ UNCHANGED <<startup, httpServer, cancelled, engine, cleanup, exit>>

CleanUpStops ==
  /\ Alive
  /\ cleanup = "select" /\ cancelled
  /\ cleanup' = "done"
  /\ UNCHANGED <<startup, httpServer, requests, cancelled, engine, exit>>

\* A tick finds a job that is due; where many are, one after the other.
TickArrives ==
  /\ Alive
  /\ ticker = "select" /\ queued < MaxQueued
  /\ ticker' = "enque"
  /\ UNCHANGED <<startup, httpServer, requests, cancelled, queue, queued,
                 dispatcher, eval, cleanup, exit>>

Enque(more) ==
  /\ Alive
  /\ ticker = "enque" /\ queue < QueueSize
  /\ queue' = queue + 1 /\ queued' = queued + 1
  /\ ticker' = IF more /\ queued' < MaxQueued THEN "enque" ELSE "select"
  /\ UNCHANGED <<startup, httpServer, requests, cancelled, dispatcher, eval,
                 cleanup, exit>>

\* It notices the context only between ticks.
TickerStops ==
  /\ Alive
  /\ ticker = "select" /\ cancelled
  /\ ticker' = "done"
  /\ UNCHANGED <<startup, httpServer, requests, cancelled, queue, queued,
                 dispatcher, eval, cleanup, exit>>

\* A panic is recovered and ends the ticker without an error.
TickerPanics ==
  /\ Alive
  /\ ticker = "select" /\ ticker' = "done"
  /\ UNCHANGED <<startup, httpServer, requests, cancelled, queue, queued,
                 dispatcher, eval, cleanup, exit>>

Dispatch(e) ==
  /\ Alive
  /\ dispatcher = "select" /\ queue > 0 /\ eval[e] = "idle"
  /\ queue' = queue - 1
  /\ eval' = [eval EXCEPT ![e] = "running"]
  /\ UNCHANGED <<startup, httpServer, requests, cancelled, ticker, queued,
                 dispatcher, cleanup, exit>>

\* Where both are ready Go's select takes either.
DispatcherStops ==
  /\ Alive
  /\ dispatcher = "select" /\ cancelled
  /\ dispatcher' = "wait"
  /\ UNCHANGED <<startup, httpServer, requests, cancelled, ticker, queue,
                 queued, eval, cleanup, exit>>

InFlight == {e \in Evals : eval[e] \in {"running", "grace"}}

\* Defect: it does not wait.
DispatcherReturns ==
  /\ Alive
  /\ dispatcher = "wait"
  /\ dispatcher' = "done"
  /\ UNCHANGED <<startup, httpServer, requests, cancelled, ticker, queue,
                 queued, eval, cleanup, exit>>

\* dispatcherGroup.Wait
DispatcherDone ==
  /\ Alive
  /\ dispatcher = "wait" /\ InFlight = {}
  /\ dispatcher' = "done"
  /\ UNCHANGED <<startup, httpServer, requests, cancelled, ticker, queue,
                 queued, eval, cleanup, exit>>

EvalEnds(e) ==
  /\ Alive
  /\ eval[e] # "idle"
  /\ eval' = [eval EXCEPT ![e] = "idle"]
  /\ UNCHANGED <<startup, httpServer, requests, cancelled, ticker, queue,
                 queued, dispatcher, cleanup, exit>>

\* processJob notices that the context is done, and gives the evaluation
\* unfinishedWorkTimeout.
EvalNotices(e) ==
  /\ Alive
  /\ eval[e] = "running" /\ cancelled
  /\ eval' = [eval EXCEPT ![e] = "grace"]
  /\ UNCHANGED <<startup, httpServer, requests, cancelled, ticker, queue,
                 queued, dispatcher, cleanup, exit>>

\* Defect: the timer is that of the alert, which an evaluation may ignore.
GraceNeverEnds(e) ==
  /\ Alive
  /\ eval[e] = "grace"
  /\ UNCHANGED vars

\* When it is over processJob returns without the evaluation.
GraceEnds(e) ==
  /\ Alive
  /\ eval[e] = "grace"
  /\ eval' = [eval EXCEPT ![e] = "abandoned"]
  /\ UNCHANGED <<startup, httpServer, requests, cancelled, ticker, queue,
                 queued, dispatcher, cleanup, exit>>

Main ==
  \/ Provisioned \/ StartEngine \/ NoEngine \/ StartCleanUp
  \/ NewHttpServer \/ Listen \/ StartupFails \/ MainReturns

Shut(p) == NilHttpServer(p) \/ CloseHttp(p) \/ Cancel(p) \/ Exit(p)

TickerStep == TickArrives \/ (\E more \in BOOLEAN : Enque(more)) \/ TickerStops

DispatcherStep ==
  (\E e \in Evals : Dispatch(e)) \/ DispatcherStops \/ DispatcherDone

JobStep(e) == EvalNotices(e) \/ GraceEnds(e)

Next ==
  \/ Main \/ Signal \/ \E p \in Callers : Shut(p)
  \/ RequestBegins \/ RequestEnds \/ CleanUpStops
  \/ TickerStep \/ TickerPanics \/ DispatcherStep
  \/ \E e \in Evals : JobStep(e) \/ EvalEnds(e)

Spec == Init /\ [][Next]_vars

\* Goroutines run and requests end; evaluations may hang.  A select that
\* finds the context done again and again takes that case at last, for it
\* chooses at random.
Fairness ==
  /\ WF_vars(MainReturns)
  /\ \A p \in Callers : WF_vars(Shut(p))
  /\ WF_vars(RequestEnds) /\ WF_vars(CleanUpStops)
  /\ WF_vars(TickerStep) /\ SF_vars(TickerStops)
  /\ WF_vars(DispatcherStep) /\ SF_vars(DispatcherStops)
  /\ \A e \in Evals : WF_vars(JobStep(e))

FairSpec == Spec /\ Fairness

---------------------------------------------------------------------------
TypeOK ==
  /\ main \in {"provisioning", "engine", "cleanup", "notifications", "http",
               "serving", "failed", "returned"}
  /\ shutdown \in [Callers -> {"no", "http", "drain", "wait"}]
  /\ code \in [Callers -> {0, 1}]
  /\ httpServer \in {"nil", "made", "listening", "closed"}
  /\ requests \in 0..Requests /\ cancelled \in BOOLEAN
  /\ ticker \in {"off", "select", "enque", "done"}
  /\ queue \in 0..QueueSize /\ queued \in 0..MaxQueued
  /\ dispatcher \in {"off", "select", "wait", "done"}
  /\ eval \in [Evals -> {"idle", "running", "grace", "abandoned"}]
  /\ cleanup \in {"off", "select", "done"}
  /\ exit \in {"no", "code0", "code1", "main", "panic"}

\* A process that ends through os.Exit leaves nothing behind: no request and
\* no evaluation that has not had its grace; and the engine has stopped.
ExitWaits ==
  exit \in {"code0", "code1"} =>
    requests = 0 /\ InFlight = {} /\ EngineDone

\* A shutdown ends, though evaluations hang.
ShutdownEnds ==
  \A p \in Callers : shutdown[p] # "no" ~> exit # "no"

\* However the process ends, evaluations have had their grace.
GraceGiven == exit \in {"code0", "code1", "main"} => InFlight = {}
=============================================================================
