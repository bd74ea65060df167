SPECIFICATION TestSpec
CONSTANTS
  m = m
  t1 = t1
  t2 = t2
  t3 = t3
  h = h
  z = z
  c1 = c1
  c2 = c2
  c3 = c3
  k1 = k1
  k2 = k2
  k3 = k3
  MAIN = m
  HEAD = h
  TAIL = z
  NULL = NULL
  Junk = Junk
  Threads = {m, t1, t2, t3}
  Cells = {h, z, c1, c2, c3}
  Keys = {k1, k2, k3}
  WORKERS <- TestWorkers
  Programs <- LoopPrograms
  Reuse = TRUE
INVARIANT VerifySucceeds
SYMMETRY CellSymmetry
