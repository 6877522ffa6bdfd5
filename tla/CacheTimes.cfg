SPECIFICATION Spec
CONSTANTS
  None = None
  TTL = 3
  Late = 1
  MaxTime = 12
  MaxConns = 2
  MaxBack = 2
  MaxForward = 1
INVARIANTS TypeOK IdleBounded
PROPERTIES NoSpin Implements
CHECK_DEADLOCK FALSE
