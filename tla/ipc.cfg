SPECIFICATION IpcSpec
CONSTANTS
  th1 = th1
  th2 = th2
  th3 = th3
  end1 = end1
  end2 = end2
  fd1 = fd1
  fd2 = fd2
  Nothing = Nothing
  Nobody = Nobody
  Caller = {th1, th2, th3}
  Fd = {fd1, fd2}
  Users <- FlockUsers
  MaxOpens = 2
  Values <- TimerValues
  Intervals = {0, 2}
  NapMax = 2
  Slice = 1
  TimeMax = 9
  MaxNow = 4
  MaxGen = 2
INVARIANTS
  Types SleepersAreTold RecordsAreExact LivesWhileUsed AnswersAreExact
  UndoBalances NoCycleSleeps FlockExclusive
PROPERTIES
  TakenInOrder WholeOrNothing ImplementsByteLocks DeliversWhatIsDue SettleBrackets
SYMMETRY Alike
CHECK_DEADLOCK FALSE
