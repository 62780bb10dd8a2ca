SPECIFICATION Spec
CONSTANTS
  t1 = t1
  t2 = t2
  k1 = k1
  k2 = k2
  Thread = {t1, t2}
  Key <- MCKey
  Word <- MCKey
  WordOf <- MCWordOf
  Val = {0}
  Bit <- MCBit
  Timeout <- MCForever
  Mask <- MCMaskAll
  MaxWake = 1
  MaxSeq = 2
  MaxNow = 0
  MaxNest = 1
  MaxSignals = 1
  Ops = {"wake", "requeue", "cmp_requeue", "wake_op"}
INVARIANTS EveryWakeInWindowHonoured
