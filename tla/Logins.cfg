SPECIFICATION LoginSpec
CONSTANTS
  Browsers = {b1}
  Procs = {p1, p2}
  Users = {u1, u2}
  Modes = {"form", "reset", "proxy"}
  Passwords = {1, 2}
  Lifetime = 0
  Ttl = 0
  CodeLife = 1
  MaxTime = 1
  MaxRequests = 3
INVARIANTS StaysSignedIn SyncedWithinTtl
CHECK_DEADLOCK FALSE
SYMMETRY Alike
