SPECIFICATION MCSpec
CONSTANTS
  a1 = a1
  r1 = r1
  d1 = d1
  d2 = d2
  b1 = b1
  b2 = b2
  Requests = {h1, h2}
  Attempts = {a1, a2}
  Reviews = {r1}
  ReviewOf <- OneReview
  Digests = {d1, d2}
  SourceDerived = {d1}
  Bodies = {b1, b2}
  Manifest <- ManifestPair
  Decisions = {"received_with_receipt", "rejected_no_receipt", "quarantined_no_receipt"}
  EnvelopeKey = TRUE
  MaxClock = 1
  MaxCrashes = 1
  Logins = {l1, l2}
  Threshold = 1
  Window = 2
  MaxStep = 2
  MaxTries = 3
  MaxIssued = 3
  MaxStops = 1
  Handles = {s1}
  Visits = {q1, q2}
  Idle = 4
  Absolute = 7
  Gap = 2
  MaxTick = 8
  Clients = {c1, c2}
  Ceiling = 40
  Unit = 19
  Months = 2
  Networks = {n1, n2}
  MaxPerWindow = 2
  WindowLength = 2
  MapLimit = 1
  LastInstant = 4
  MaxAdmitted = 5
SYMMETRY Symmetry
INVARIANTS
  OutcomeReceiptDurable
  OutcomeMatchesEvent
  ReadsAreLogged
  ReplyAgrees
  OneSessionPerCode
  JudgedTriesAreBounded
  SessionsKeepTime
  BudgetHolds
  AdmissionIsBounded
PROPERTIES
  DeadSessionStaysDead
