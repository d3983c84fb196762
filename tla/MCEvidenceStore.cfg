SPECIFICATION MCSpec
CONSTANTS
  Appenders = {p1, p2}
  Reviews = {r1}
  Keys = {k1, k2, k3}
  Bodies = {b1, b2}
  Putters = {put1, put2}
  Readers = {get1}
  Purgers = {del1}
  Inodes = {i1, i2, i3}
  Encrypted = TRUE
  MaxCrashes = 1
  Workers = {w1, w2}
  Attempts = {a1, a2}
  MaxAttempts = 1
  Stamps = {t1}
  MaxAborts = 1
SYMMETRY Symmetry
INVARIANTS
  AcknowledgedIsLogged
  BrokenOnlyIfShared
  RowsAreTrue
  JobsAreKept
PROPERTIES
  ImplementsHistory
