SPECIFICATION Spec
CONSTANTS
  a = a
  b = b
  c = c
  l1 = l1
  NoThread = NoThread
  Thread = {a, b, c}
  Lock = {l1}
  Robust = {l1}
INVARIANTS MutualExclusionAll
