SPECIFICATION Spec
CONSTANTS
  Callers = {c1}
  Windows = {4}
  Narrowest = 4
  Widest = 4
  HourLen = 2
  BarLen = 1
  Closed = {10, 12}
  MaxTime = 6
  MaxRefused = 0
INVARIANTS TicksInTheirBar
