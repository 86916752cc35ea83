SPECIFICATION Spec
CONSTANTS
  Cothread = {t1, t2, t3}
  Main = Main
  Null = Null
  JoinsOne = {t1, t2, t3}
INVARIANTS ObjectOutlives JoinValid OwnedOnce
PROPERTY JoinReturns
