SPECIFICATION SpecSocket
CONSTANTS
  Coro = {reactor, acceptor, c1, c2}
  Event = {e1, e2, e3}
  Null = Null
  Absent = Absent
  Reactor = reactor
  Persistent = {acceptor}
  OneShot = {c1, c2}
  Cancelled = {c1, c2}
  Sock = {f}
  Listener = listener
  Apis <- Programs
  Users = {c1, c2}
  MaxClients = 1
INVARIANT ConnectedIsUp
