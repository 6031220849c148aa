SPECIFICATION FairSpec
CONSTANTS
\* Whatever comes between SELECT and UPDATE; one goroutine is enough as jobs start
\* promptly and no call fails.
  s1 = s1
  s2 = s2
  a1 = a1
  w1 = w1
  w2 = w2
  Servers <- OneServer
  Alerts <- OneAlert
  Slots <- OneSlot
  Jobs = {1}
  Rules = {1, 2, 3}
  QueueSize = 1
  FetchEvery = 2
  Serializable = FALSE
  PromptStart = TRUE
  MaxFlips = 1
  MaxRequests = 1
  MaxFaults = 0
PROPERTIES SettledResultReachesRow EvaluatedAgain DeletedIsForgotten
