CONSTANTS
  MaxTyped = 3
  MaxClosure = 5
  MaxEdits = 2
  MaxChanges = 2
  MaxHeads = 6
  MaxReviewEvents = 5
SPECIFICATION Spec
CHECK_DEADLOCK FALSE
INVARIANTS
  RecordedPassesGate
  BuiltMeetsAppendRules
  PassRecordsPassGate
  DecidedOnHeads
  SourceIsAccountedFor
  ProofsDecide
