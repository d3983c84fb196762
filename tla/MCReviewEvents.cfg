SPECIFICATION MCSpec
CONSTANTS
  n1 = n1
  n2 = n2
  d1 = d1
  d2 = d2
  Writers = {w1, w2}
  Types <- AllTypes
  Actors = {"customer_user", "reviewer", "vendor_service"}
  Names = {n1, n2}
  Refs = {None, n1}
  Digests = {d1, d2}
  MaxVersion = 3
  Times = {0, 1}
  MaxEvents = 4
  None = None
SYMMETRY Symmetry
CHECK_DEADLOCK FALSE
INVARIANTS
  FamiliesAreLinear
  LogStaysAppendable
  ExpertRecordsStand
  GateAgrees
PROPERTIES
  ShownHistoryOnlyGrows
