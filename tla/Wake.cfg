SPECIFICATION FairSpec
CONSTANTS
  Async = {a1}
  Signo = {s1}
  Sender = {t1, t2}
  PipeSize = 2
  Forks = TRUE
  Delayed = FALSE
INVARIANT WakeSeen
PROPERTY SendsArrive
