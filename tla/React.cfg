SPECIFICATION FairSpec
CONSTANTS
  Coro = {reactor, acceptor, c1, c2}
  Event = {e1, e2, e3}
  Null = Null
  Absent = Absent
  Reactor = reactor
  Persistent = {acceptor}
  OneShot = {c1, c2}
  Cancelled = {c1}
INVARIANTS OwnedOnce ArmedOwned WaiterArmed TableExact
PROPERTY TimeoutEnds
