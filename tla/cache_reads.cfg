CONSTANTS
  K1 = K1
  K2 = K2
  Keys = {K1, K2}
  Scopes <- OneKeyOrAll
  Readers = {R1, R2}
  Loads = {L1, L2}
  MaxEntries = 1
  MaxGeneration = 1
  None = None
SPECIFICATION FairSpec
INVARIANTS IInv NothingStaleIsServed SharedLoadsSurvive LockedMeansEmpty GenerationsEnd CacheIsBounded
PROPERTIES ReadersEnd
