SPECIFICATION Spec
CONSTANTS
  Callers = {c1, c2}
  Windows = {17, 20}
  Narrowest = 17
  Widest = 20
  HourLen = 2
  BarLen = 4
  Closed = {6, 10, 12}
  MaxTime = 21
  MaxRefused = 1
SYMMETRY MCCallers
CONSTRAINT NotOverlapped
INVARIANTS TypeOK CacheHonest CacheUnbroken WindowServed
