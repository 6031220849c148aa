CONSTANTS
  r1 = r1
  r2 = r2
  Slots = {r1, r2}
  Boot = boot
  Datas <- Dashes
  Files <- Releases
  Keep = 1
  Databases = {"sqlite", "other"}
  MaxDash = 3
  MaxAlerts = 4
  MaxRequests = 3
  MaxTries = 1
SPECIFICATION DashboardsSpec
INVARIANTS
  HistoryMatches
  AlertsFollow
PROPERTY SavesKeep
CHECK_DEADLOCK FALSE
SYMMETRY SlotSymmetry
