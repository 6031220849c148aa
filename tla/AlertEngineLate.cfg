\* Queued jobs may start late: two goroutines share a rule and may panic.
SPECIFICATION Spec
CONSTANTS
  s1 = s1
  s2 = s2
  a1 = a1
  w1 = w1
  w2 = w2
  Servers <- OneServer
  Alerts <- OneAlert
  Slots <- TwoSlots
  Jobs = {1}
  Rules = {1, 2}
  QueueSize = 1
  FetchEvery = 1
  Serializable = TRUE
  PromptStart = FALSE
  MaxFlips = 2
  MaxRequests = 0
  MaxFaults = 0
PROPERTY ImplementsHistory
SYMMETRY ServerSymmetry
