SPECIFICATION RobustSpec
CONSTANTS
  Thread = {a, b}
  Lock = {l1}
  Nobody = Nobody
  Limit = 1
  KillAt = {"idle"}
  Fault = {}
INVARIANTS NobodyStranded
