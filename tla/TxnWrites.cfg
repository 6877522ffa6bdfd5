\* Two writers contend for one path.
SPECIFICATION MCFairSpec
CONSTANTS
  f = f
  fx = fx
  b = b
  ct = ct
  text = text
  Paths = {f}
  Subtree <- MCSubtree
  Byte = {b}
  Field = {ct}
  Attr = {text}
  Times = {1, 2}
  None = None
  Star = Star
  NotBytes = NotBytes
  BadMeta = BadMeta
  t1 = t1
  t2 = t2
  Clients = {t1, t2}
  Calls <- WriteCalls
  Quota = 2
  Old <- MCOld
INVARIANTS TypeOK SnapshotCurrent
PROPERTIES ConditionalWrites Implements CallsReturn
