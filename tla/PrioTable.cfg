CONSTANTS
  w1 = w1
  w2 = w2
  Writers = {w1, w2}
  NumItems = 2
  Cap = 1
  Retries = 1
  Deadlines = {0, 1}
  MaxWrites = 2
  Free = Free
SPECIFICATION FairSpec
INVARIANTS TypeOK NoLostUpdate QuietIsFresh OneWriter ElisionIsSafe
PROPERTIES NoTornCopy EventuallyFresh
