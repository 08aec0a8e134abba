SPECIFICATION Spec
CONSTANTS
  MaxEdits = 1
  MaxNotes = 2
  None = None
INVARIANT
  StartsFromLatestState
