SPECIFICATION Spec
CONSTANTS
  a1 = a1
  r1 = r1
  d1 = d1
  b1 = b1
  Requests = {h1}
  Attempts = {a1}
  Reviews = {r1}
  ReviewOf <- OneReview
  Digests = {d1}
  SourceDerived = {d1}
  Bodies = {b1}
  Manifest <- ManifestOne
  Decisions = {"received_with_receipt", "rejected_no_receipt", "quarantined_no_receipt"}
  EnvelopeKey = FALSE
  MaxClock = 0
  MaxCrashes = 0
INVARIANT NothingMissingMeansStored
