SPECIFICATION ObjectSpec
CONSTANTS
  Putters = {put1, put2}
  Readers = {get1}
  Purgers = {}
  Inodes = {i1, i2, i3}
  Encrypted = TRUE
  MaxCrashes = 0
INVARIANT ReadIsWhole
