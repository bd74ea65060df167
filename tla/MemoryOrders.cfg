SPECIFICATION BootSpec
CONSTANTS
  a = a
  b = b
  c = c
  d = d
  Holders = {a, b, c}
  NOBLOCK = NOBLOCK
  Orders = {0, 1}
  MAX_PAGE_ORDER = 3
  WORD = 128
  BEYOND = 1
  MemorySizes = {4, 8}
  KERNEL_PAGES = 2
  PAGE_SIZE = 16
  ONE_MB = 64
  MEM_MAP_T = 5
  TABLE_MB = 4
  BOOT_PAGES = 2
  BOOT_BITMAP_SIZE = 4
  KERNEL_START = 12
INVARIANT Exclusive
SYMMETRY Sym
