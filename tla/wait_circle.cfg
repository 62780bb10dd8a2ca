SPECIFICATION Spec
CONSTANTS
  Sender = {s1, s2}
  Holding = {s1}
  Kinds = {"plain", "ignore"}
  Record = {r1, r2}
  None = None
INVARIANTS NoCircularWait
