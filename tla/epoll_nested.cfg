SPECIFICATION Spec
CONSTANTS
  waiter = waiter
  writer = writer
  file1 = file1
  inner = inner
  outer = outer
  None = None
  Waiter = {waiter}
  Changer = {writer}
  Controller = {}
  File = {file1}
  Epoll = {inner, outer}
  Watch <- Watches
  First <- Watches
  Waits <- WaitsOn
  Mask <- Masks
  Events = {"in"}
  Room = 1
  MaxSignals = 0
INVARIANT OuterHears
