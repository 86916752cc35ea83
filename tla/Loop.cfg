SPECIFICATION Spec
CONSTANTS
  w1 = w1
  w2 = w2
  w3 = w3
  Watcher = {w1, w2, w3}
  NoWatcher = NoWatcher
  childev = childev
  Priorities = {0, 1}
  anfdmax = 2
  Programs <- All
  MaxCalls = 8
  MaxDepth = 2
  MaxFiles = 4
INVARIANTS Verified Armed OnlyAsked
PROPERTIES NoStaleEvents ChildrenTold
CHECK_DEADLOCK FALSE
