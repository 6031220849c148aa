\* Two servers on a database whose SELECT takes no lock.
SPECIFICATION Spec
CONSTANTS
  s1 = s1
  s2 = s2
  a1 = a1
  w1 = w1
  w2 = w2
  Servers <- TwoServers
  Alerts <- OneAlert
  Slots <- OneSlot
  Jobs = {1}
  Rules = {1, 2}
  QueueSize = 1
  FetchEvery = 1
  Serializable = FALSE
  PromptStart = TRUE
  MaxFlips = 1
  MaxRequests = 0
  MaxFaults = 0
PROPERTY NotifiedOnce
SYMMETRY ServerSymmetry
