SPECIFICATION MemorySpec
CONSTANTS
  m1 = m1
  m2 = m2
  n1 = n1
  f1 = f1
  g1 = g1
  h2 = h2
  top = top
  big = big
  Lost = Lost
  Empty = Empty
  Mem = {n1}
  Page = {1, 2}
  Frame = {1, 2}
  FrameOf <- TwoFrames
  Val = {0, 1}
  Sizes = {1, 2}
  Modes = {"file"}
  IoErrors = TRUE
  ZSlot = {0, 1, 2}
  Counts = {2, 3}
  Object = {f1, g1, h2, top, big}
  Shrinks = {f1, g1, h2, top}
  SizeOf <- Compressed
  ObjectMax = 3
  Caps = {0, 6, 9}
SYMMETRY Symmetric
INVARIANTS
  ReadsBack SlotsAccountedFor SwapoffEnds QuiescedIsStill KeptThroughForks PoolAccountedFor
PROPERTIES KeepsFrames
