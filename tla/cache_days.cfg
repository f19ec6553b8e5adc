SPECIFICATION Spec
CONSTANTS
  Callers = {c1}
  Windows = {6, 12}
  Narrowest = 6
  Widest = 12
  HourLen = 2
  BarLen = 2
  Closed = {10, 12}
  MaxTime = 12
  MaxRefused = 0
INVARIANTS WholeWindow
