SPECIFICATION Spec
CONSTANTS
  a = a
  b = b
  c = c
  Threads = {a, b, c}
  CALLS = 2
INVARIANTS HookKept CountedOnce
PROPERTY CallsReturn
CHECK_DEADLOCK FALSE
