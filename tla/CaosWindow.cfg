SPECIFICATION Spec
CONSTANTS
  NULL = NULL
  MAX_TASK = 3
  KEY_INPUT_MAX = 2
  MaxKeys = 3
  Calls = {"open", "close", "read", "turnoff"}
  Contexts = 2
INVARIANT OnKernelStack
