SPECIFICATION FairSpec
CONSTANTS
  T1 = T1
  T2 = T2
  T3 = T3
  R1 = R1
  R2 = R2
  Nobody = Nobody
  Targets = {T1, T2}
  Ready = {T1, T2}
  ModelOf <- OneModel
  NumDocs = 1
  RetryIds = {R1}
  MaxAttempts = 2
  MaxCrashes = 0
CHECK_DEADLOCK FALSE
INVARIANTS SingleWriterPerModel EveryWriteIsAccounted VerifiedIsProven EndedJobOwnsNoWrite
PROPERTIES SettledIsFinal RunEndsEventually RetryEndsEventually
