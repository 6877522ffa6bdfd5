SPECIFICATION AdaptersSpec
CONSTANTS
  f = f
  fx = fx
  b = b
  c = c
  text = text
  Paths = {f, fx}
  Subtree <- MCSubtree
  Byte = {b, c}
  Field = {}
  Attr = {}
  Times = {1}
  None = None
  Star = Star
  NotBytes = NotBytes
  Clients = {w1, w2, d}
  Calls = {}
  Writers = {w1, w2}
  Deleters = {d}
  Targets <- MCTargets
  MaxBytes = 2
  Deletions <- MCDeletions
  MaxBatch = 2
  Before <- MCBefore
INVARIANTS StoredOnce DeletesDone
PROPERTIES StoredWhole
CHECK_DEADLOCK FALSE
