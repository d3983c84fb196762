CONSTANTS
  Handlers = {h1, h2}
  RequestOf <- MCRequestOf
  Times = {0, 1, 2}
  Controls = {"c1", "c2"}
  Promoters = {o1, o2}
  Packages <- MCPackages
  Seeds <- MCSeeds
  MaxVersion = 3
  Days = {0, 1, 8}
  MaxEdits = 2
SPECIFICATION Spec
CHECK_DEADLOCK FALSE
INVARIANT PromotedDecisionPassesGate
