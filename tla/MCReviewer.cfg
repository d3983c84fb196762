SPECIFICATION MCSpec
CONSTANTS
  d1 = d1
  s1 = s1
  likely = likely
  Requests = {r1, r2}
  Reviewers = {alice, bob}
  Drafts = {d1, d2}
  Sets = {s1}
  SetOf <- OneSet
  Judgments = {likely, weak}
  Unsupported = {weak}
  MaxEvents = 2
  MaxClock = 1
  None = None
SYMMETRY Symmetry
INVARIANTS
  JudgmentsFormALine
  ShownWasInForce
  ReadBeforeJudged
