SPECIFICATION CreateSpec
CONSTANTS
  Thread = {t1, t2}
  NoStack = NoStack
  Locked = FALSE
INVARIANT Created
CHECK_DEADLOCK FALSE
