SPECIFICATION FairSpecs
CONSTANTS
  th1 = th1
  th2 = th2
  l1 = l1
  l2 = l2
  k1 = k1
  p1 = p1
  p2 = p2
  i1 = i1
  Nobody = Nobody
  NoThread = NoThread
  Thread = {th1, th2}
  Lock = {l1, l2}
  Robust = {l2}
INVARIANTS
  TypeOK MutualExclusion WordNamesOwner QueuesMatchFrames
PROPERTIES
  HandOverKept WaitersLeave TimersAreServed
CHECK_DEADLOCK FALSE
