\* One server, two goroutines, every kind of fault.
SPECIFICATION Spec
CONSTANTS
  s1 = s1
  s2 = s2
  a1 = a1
  w1 = w1
  w2 = w2
  Servers <- OneServer
  Alerts <- OneAlert
  Slots <- TwoSlots
  Jobs = {1, 2}
  Rules = {1, 2, 3}
  QueueSize = 1
  FetchEvery = 1
  Serializable = TRUE
  PromptStart = TRUE
  MaxFlips = 1
  MaxRequests = 1
  MaxFaults = 1
INVARIANTS
  JobsOwned
  ChangesOwned
PROPERTIES
  PausedRowUntouched
  NotifiedOnce
SYMMETRY ServerSymmetry
