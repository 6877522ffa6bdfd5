\* Two tabs upgrade one database and leave idle connections behind.
SPECIFICATION FairSpec
CONSTANTS
  A = A
  B = B
  a1 = a1
  a2 = a2
  b1 = b1
  x = x
  y = y
  Realms = {A, B}
  Tasks = {a1, b1}
  RealmOf <- MCRealmOf
  Needs <- MCNeeds
  Conns = {1, 2, 3, 4, 5, 6, 7}
  UpgradeTries = 2
  MaxCalls = 1
  MaxForeign = 0
  Foreign = Foreign
  None = None
INVARIANTS TypeOK NoLeak RetriesHaveRivals
PROPERTIES CallsEnd IdleConnectionsClose
CHECK_DEADLOCK FALSE
