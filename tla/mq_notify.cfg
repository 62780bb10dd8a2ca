SPECIFICATION Spec
CONSTANTS
  a = a
  b = b
  Nothing = Nothing
  Thread = {a, b}
  Proc = {a, b}
  ProcOf <- MCProcOf
  Queue = {1}
  Desc = {1, 2}
  Prio = {0}
  MaxMsgs = {1}
  QueuesMax = 1
  Limit = 3
INVARIANTS FillIsToldOrTaken
