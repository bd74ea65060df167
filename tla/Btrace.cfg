SPECIFICATION Spec
CONSTANTS
  p = p
  q = q
  Tracers = {p, q}
  sig_nums <- SomeSignals
  DEFAULT_DEPTH = 3
  Depths = {1, 3, 7}
  JunkCounts = {0, 1, 9}
  NULL = NULL
INVARIANTS CrashInWindow WholeStackPrinted
PROPERTY TracesEnd
CHECK_DEADLOCK FALSE
