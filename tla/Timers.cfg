SPECIFICATION Spec
CONSTANTS
  Timer = {t1, t2}
  Periodic = {p1}
  Delays = {0, 2}
  Repeats = {0, 1}
  Intervals = {0, 2}
  Offsets = {1}
  NoTime = NoTime
  NoWatcher = NoWatcher
  MaxClock = 3
  MaxWait = 2
  JumpBy <- Jumps
  MaxJumps = 1
  MIN_TIMEJUMP = 2
  MAX_BLOCKTIME = 3
  timeout_blocktime = 1
  backend_mintime = 0
  MaxCalls = 3
  Arities = {2}
  Clocks = {TRUE, FALSE}
SYMMETRY Alike
INVARIANTS TimersVerified NoOversleep PeriodicsInTime
PROPERTY TimerSetSpec
