CONSTANTS
  Readers = {a, b, c}
  Writers = {a, b, c}
  Free = Free
  MaxCount = 3
SPECIFICATION LiveSpec
INVARIANTS Exclusion NoOrphanRequest
PROPERTIES ImplementsSharedLock Progress
