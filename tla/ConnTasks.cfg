\* Two operators in one tab share a connection and the upgrade lock.
SPECIFICATION Spec
CONSTANTS
  A = A
  B = B
  a1 = a1
  a2 = a2
  b1 = b1
  x = x
  y = y
  Realms = {A}
  Tasks = {a1, a2}
  RealmOf <- MCRealmOf
  Needs <- MCNeeds
  Conns = {1, 2, 3, 4, 5, 6, 7}
  UpgradeTries = 2
  MaxCalls = 2
  MaxForeign = 0
  Foreign = Foreign
  None = None
INVARIANTS NoLeak NoSelfBlock TransactionsHaveStores CacheIsWatched
CHECK_DEADLOCK FALSE
PROPERTIES ImplementsCache
