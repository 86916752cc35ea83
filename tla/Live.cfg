SPECIFICATION FinishSpec
CONSTANTS
  Coro = {c1, c2, c3}
  Nil = Nil
  Message = {m}
  MaxMessages = 1
  RawMsg <- CleanMsg
  Api = {"child", "drain", "yield", "finish_childless", "await", "event_add"}
PROPERTIES WokenRuns FreedByParent
