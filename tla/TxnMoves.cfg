\* Two tasks copy, rename and delete over two paths, one under the other.
SPECIFICATION MCSpec
CONSTANTS
  f = f
  fx = fx
  b = b
  ct = ct
  text = text
  Paths = {f, fx}
  Subtree <- MCSubtree
  Byte = {b}
  Field = {ct}
  Attr = {text}
  Times = {1, 2}
  None = None
  Star = Star
  NotBytes = NotBytes
  BadMeta = BadMeta
  t1 = t1
  t2 = t2
  Clients = {t1, t2}
  Calls <- MoveCalls
  Quota = 1
  Old <- MCOld
SYMMETRY Symmetry
INVARIANTS SidecarMatches
PROPERTIES WritesLeaveSidecar NoNewOrphans Implements
