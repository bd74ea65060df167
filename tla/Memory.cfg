SPECIFICATION TaskSpec
CONSTANTS
  a = a
  k1 = k1
  k2 = k2
  k3 = k3
  Tasks = {k1, k2, k3}
  MAX_TASK = 2
  TASKS = 4
  Holders <- SomeHolders
  NOBLOCK = NOBLOCK
  Orders = {0, 4}
  MAX_PAGE_ORDER = 3
  WORD = 128
  BEYOND = 1
  MemorySizes = {4, 5, 7, 8, 12, 19}
  KERNEL_PAGES = 2
  PAGE_SIZE = 16
  ONE_MB = 64
  MEM_MAP_T = 5
  TABLE_MB = 4
  BOOT_PAGES = 2
  BOOT_BITMAP_SIZE = 4
  KERNEL_START = 12
INVARIANTS TaskTypeOK Counted Exclusive BootMemoryKept FailedGivesBack TaskCountExact
SYMMETRY Sym
CHECK_DEADLOCK FALSE
