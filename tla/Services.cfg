SPECIFICATION ServicesSpec
CONSTANTS
\* The process: a queue that takes all jobs there are.
  Evals = {e1, e2}
  QueueSize = 3
  MaxQueued = 3
  Requests = 1
\* Its database
  MaxStarts = 3
  Servers <- MCServers
\* Live streams
  Conns = {c1, c2}
  Streams = {s1}
  Buffer = 2
  Stray = FALSE
\* The ticker: half seconds; created with the time of the last tick processed, up
\* to two seconds ago or half a second ahead; the clock runs on for three seconds.
  Unit = 2
  CreatedAt = 4
  Lasts = {0, 1, 2, 3, 4, 5}
  Offsets = {0, 1, 3}
  MaxTime = 10
\* The scheduler: rules come, go, move and change; a panic stops it.
  i1 = i1  i2 = i2  i3 = i3
  AlertIds = {i1, i2, i3}
  RowLists <- WithZero
  ReloadEvery = 4
  Cycle = 12
INVARIANTS ExitWaits HubRight Migrated
PROPERTIES
  ShutdownEnds DroppedEnds EventuallyStarts
  IsTickStream CatchesUp PeriodsKept DueAgain
\* A process that has exited or runs migrated, and a hub that was stopped, do
\* nothing more, and neither does a scheduler that has panicked.
CHECK_DEADLOCK FALSE
