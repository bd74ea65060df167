SPECIFICATION Spec
CONSTANTS
  x = x
  y = y
  Values = {x, y}
  STACK_SIZE = 2
  ELEM_SIZE = 2
  Requests = {1, 4}
  ALIGN = 2
  NALLOC = 4
  NDESCRIPTORS = 3
  HASHES = 4
  HASH_UNIT = 1
  LIMIT = 10
  NULL = NULL
INVARIANTS BlocksApart FreeChecked LastInFirstOut NothingLost
CHECK_DEADLOCK FALSE
