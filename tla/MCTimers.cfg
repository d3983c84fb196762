SPECIFICATION MCSpec
CONSTANTS
  r1 = r1
  r2 = r2
  d1 = d1
  d2 = d2
  v1 = v1
  v2 = v2
  Records = {r1, r2}
  Artifacts = {d1, d2}
  RetainedBy <- OfRecords
  EndOf <- Ends
  MaxTime = 2
  MaxMishaps = 1
  MaxBack = 1
  ReviewOrder <- TwoReviews
  MaxLog = 2
  MaxSecond = 1
  MaxOutages = 1
  Workers = {w1}
  Attempts = {a1, a2}
  MaxAttempts = 1
  Stamps = {t1}
  MaxAborts = 1
CHECK_DEADLOCK FALSE
INVARIANTS
  StoredIsKept
  PublicationsStand
PROPERTIES
  PurgedStaysPurged
  ExpiredIsPurged
  RetentionPassEnds
  EventsGetAnchored
  JobEnds
