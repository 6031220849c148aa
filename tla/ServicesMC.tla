----------------------------- MODULE ServicesMC -----------------------------
(***************************************************************************)
(* What starts with the server, side by side: process, migrations, live    *)
(* hub, and the ticker and the scheduler of the alerting.  A behaviour is  *)
(* one of the part that it begins with, and the others stand still.        *)
(***************************************************************************)
EXTENDS GrafanaServer, LiveHub, MigrationsMC, Ticker, SchedulerMC

VARIABLE part

\* The state each part stands still in while another one runs.
MigrationsStill == server.driver = "sqlite3" /\ ~upgraded
TickerStill == offset = 0 /\ last = CreatedAt
SchedulerStill == timestamp = 0

ServicesInit ==
  /\ Init /\ LiveInit /\ MigrationsInit /\ TickerInit /\ SchedulerInit
  /\ part \in {"server", "live", "migrations", "ticker", "scheduler"}
  /\ part # "migrations" => MigrationsStill
  /\ part # "ticker" => TickerStill
  /\ part # "scheduler" => SchedulerStill

servicesVars == <<part, vars, liveVars, migrationsVars, tickerVars, schedulerVars>>

ServicesNext ==
  /\ UNCHANGED part
  /\ \/ /\ part = "server" /\ Next
        /\ UNCHANGED <<liveVars, migrationsVars, tickerVars, schedulerVars>>
     \/ /\ part = "live" /\ LiveNext
        /\ UNCHANGED <<vars, migrationsVars, tickerVars, schedulerVars>>
     \/ /\ part = "migrations" /\ MigrationsNext
        /\ UNCHANGED <<vars, liveVars, tickerVars, schedulerVars>>
     \/ /\ part = "ticker" /\ TickerNext
        /\ UNCHANGED <<vars, liveVars, migrationsVars, schedulerVars>>
     \/ /\ part = "scheduler" /\ SchedulerNext
        /\ UNCHANGED <<vars, liveVars, migrationsVars, tickerVars>>

\* The fairness of the parts, each while it runs.
ServerRuns ==
  /\ WF_vars(part = "server" /\ MainReturns)
  /\ \A p \in Callers : WF_vars(part = "server" /\ Shut(p))
  /\ WF_vars(part = "server" /\ RequestEnds) /\ WF_vars(part = "server" /\ CleanUpStops)
  /\ WF_vars(part = "server" /\ TickerStep) /\ SF_vars(part = "server" /\ TickerStops)
  /\ WF_vars(part = "server" /\ DispatcherStep) /\ SF_vars(part = "server" /\ DispatcherStops)
  /\ \A e \in Evals : WF_vars(part = "server" /\ JobStep(e))

LiveRuns ==
  \A c \in Conns :
    /\ WF_liveVars(part = "live" /\ (Register(c) \/ Unregister(c) \/ Subscribe(c)))
    /\ WF_liveVars(part = "live" /\ ReadFails(c))
    /\ WF_liveVars(part = "live" /\ (writePump(c) \/ Ping(c)))

MigrationsRun ==
  WF_migrationsVars(part = "migrations" /\ (Start \/ Skip \/ Exec \/ Log \/ Fail \/ EnsureAdminUser))

TickerRuns ==
  /\ WF_tickerVars(part = "ticker" /\ Run)
  /\ WF_tickerVars(part = "ticker" /\ Receive)
  /\ WF_tickerVars(part = "ticker" /\ TimePasses)

SchedulerRuns ==
  /\ WF_schedulerVars(part = "scheduler" /\ alertingTicker)
  /\ \A a \in AlertIds : WF_schedulerVars(part = "scheduler" /\ Process(a))

ServicesSpec ==
  /\ ServicesInit /\ [][ServicesNext]_servicesVars
  /\ ServerRuns /\ LiveRuns /\ MigrationsRun /\ TickerRuns /\ SchedulerRuns
=============================================================================
