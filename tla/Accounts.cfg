CONSTANTS
  r1 = r1
  r2 = r2
  Slots = {r1, r2}
  Names = {"root", "ann", "bob"}
  KeyNames = {"k1", "k2"}
  MaxUsers = 4
  MaxOrgs = 2
  MaxCodes = 1
  MaxRequests = 2
  Limits = {0, 1}
  MaxNames = 3
  Confs <- Settings
  Temps <- Invited
  MaxMembers = 3
  LdapGroups <- Mappings
SPECIFICATION AccountsSpec
INVARIANTS
  KeysWithinQuota
  LdapRolesMapped
PROPERTIES
  AdminKept
CHECK_DEADLOCK FALSE
SYMMETRY SlotSymmetry
