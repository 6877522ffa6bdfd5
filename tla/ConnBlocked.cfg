\* Third-party code may keep a connection for ever, or upgrade.
SPECIFICATION StubbornSpec
CONSTANTS
  A = A
  B = B
  a1 = a1
  a2 = a2
  b1 = b1
  x = x
  y = y
  Realms = {A}
  Tasks = {a1, a2}
  RealmOf <- MCRealmOf
  Needs <- MCNeeds
  Conns = {1, 2, 3, 4}
  UpgradeTries = 2
  MaxCalls = 1
  MaxForeign = 1
  Foreign = Foreign
  None = None
INVARIANT RetriesHaveRivals
PROPERTY CallsEndOrStuck
CHECK_DEADLOCK FALSE
