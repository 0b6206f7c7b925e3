SPECIFICATION Spec
CONSTANTS
  Keys = {1, 3, 5}
  Results <- UsualResults
  Sizes = {1, 4}
  ThreadCounts = {1, 3}
  MaxPuts = 4
  VALUE_NONE = VALUE_NONE
  MOVE_NONE = MOVE_NONE
  Garbage = Garbage
INVARIANTS
  EntryCount InItsSlot NeverStale SweptOnce
