SPECIFICATION Spec
CONSTANTS
  Coro = {c1, c2, c3}
  Nil = Nil
  Message = {m}
  MaxMessages = 1
  RawMsg <- CleanMsg
  Api = {"child", "drain", "resume", "resume_childs", "yield", "finish", "mput", "mbroadcast", "mget", "trymget"}
SYMMETRY Symmetry
INVARIANTS TypeOK OneRunner ReturnChain AssertionsHold OwnedOnce NoNullFront NoParkedMail WakeReaches
PROPERTIES DestroyedClean NestingSpec
