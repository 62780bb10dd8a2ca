SPECIFICATION WaitingSpec
CONSTANTS
  t1 = t1
  t2 = t2
  t3 = t3
  u1 = u1
  u2 = u2
  h = h
  k1 = k1
  k2 = k2
  d1 = d1
  d2 = d2
  waiter = waiter
  writer = writer
  control = control
  file1 = file1
  file2 = file2
  ep1 = ep1
  ep2 = ep2
  None = None
  Sender = {u1, u2}
  Holding = {}
  Kinds = {"plain", "ignore"}
  Record = {d1, d2}
  Thread = {u1, u2}
  Lock = {t1, t2, t3}
  Nobody = None
  Limit = 2
  KillAt = {"idle", "try", "wait", "queued", "link", "unlock", "wake"}
  Fault = {"head", "link", "get", "put"}
SYMMETRY Symmetric
INVARIANTS
  HeldWhileUsed  DeadHoldNothing WaitersAreReached
  SleeperIsReached MarkIsSpent NoCircularWait
PROPERTIES
  WakesAreKept OneshotOnce RestartKeepsDeadline DeathIsTold WalkWritesOwnWords
