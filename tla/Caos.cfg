SPECIFICATION FairSpec
CONSTANTS
  NULL = NULL
  MAX_TASK = 3
  KEY_INPUT_MAX = 2
  MaxKeys = 3
  Calls = {"open", "close", "read", "turnoff"}
  Contexts = 2
INVARIANTS CaosTypeOK MaskRestored ContextsKept OnlyTasksRun KeysInOrder
PROPERTY EveryTaskRuns
