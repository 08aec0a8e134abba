SPECIFICATION Spec
CONSTANTS
  Decisions = {empty, sold_out, available}
  Empty = empty
  LastCheck = 2
  MaxKills = 2
  Absent = Absent
  Garbage = Garbage
  NotText = NotText
  Torn = Torn
INVARIANTS
  SavedIsKept
  LitterNeedsKill
PROPERTIES
  WritesAreNews
  ImplementsAtomicStore
