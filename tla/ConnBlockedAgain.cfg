\* The same, and the task calls again.
SPECIFICATION StubbornSpec
CONSTANTS
  A = A
  B = B
  a1 = a1
  a2 = a2
  b1 = b1
  x = x
  y = y
  Realms = {A}
  Tasks = {a1}
  RealmOf <- MCRealmOf
  Needs <- MCNeeds
  Conns = {1, 2, 3, 4}
  UpgradeTries = 2
  MaxCalls = 2
  MaxForeign = 1
  Foreign = Foreign
  None = None
PROPERTIES CallsEnd
CHECK_DEADLOCK FALSE
