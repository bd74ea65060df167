SPECIFICATION Spec
CONSTANTS
  a = a
  b = b
  c = c
  x = x
  y = y
  z = z
  Threads = {a, b, c}
  Descs = {x, y, z}
  NONE = NONE
  BLOCKS = 3
  MAXCREDITS = 2
  AVAILS = 8
  COUNTERS = 8
  TAGS = 2
  CREDITS = 4
  Data = {1}
  SPAN = 1
  CALLS = 4
INVARIANTS BlocksDistinct CounterHonest OneSuperblock
PROPERTY CallsReturn
CHECK_DEADLOCK FALSE
