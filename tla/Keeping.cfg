SPECIFICATION KeepingSpec
CONSTANTS
  t1 = t1
  t2 = t2
  Nil = Nil
  Procs = {p1, p2}
  Users = {0, 1}
  Topics = {"annotations", "playlists", "preferences", "search", "expiry"}
  Panels = {1}
  MaxRequests = 3
  RowLimit = 3
  Limits = {1, 2}
  Dashboards <- MCDashboards
  Files <- MCFiles
  Tags <- MCTags
  DashTags <- MCDashTags
  Lists <- MCLists
  Clients = {c1, c2}
  Outlets = {"log", "metrics", "mail", "avatars"}
  MaxLines = 2
  KeepDays = 1
  MaxNum = 2
  MaxDay = 2
  MaxFaults = 2
  MaxUses = 4
  Metrics <- MCMetrics
  Capacity = 1
  Addresses = 2
  Hashes = {h1}
INVARIANTS ShownAsSaved SearchFindsAll NothingLost ServesAnImage
PROPERTIES ImagesGo MailTaken
\* The bounds end it.
CHECK_DEADLOCK FALSE
