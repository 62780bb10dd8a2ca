SPECIFICATION TimerSpec
CONSTANTS
  Values <- MCValues
  Intervals <- MCIntervals
  NapMax = 2
  Slice = 1
  TimeMax = 9
  MaxNow = 3
  MaxGen = 2
INVARIANTS ClockSourceThere
