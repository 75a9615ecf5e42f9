SPECIFICATION Spec
CONSTANTS
  T1 = T1
  T2 = T2
  T3 = T3
  R1 = R1
  R2 = R2
  Nobody = Nobody
  Targets = {T1, T2}
  Ready = {T1}
  ModelOf <- OwnModel
  NumDocs = 1
  RetryIds = {R1, R2}
  MaxAttempts = 2
  MaxCrashes = 0
CHECK_DEADLOCK FALSE
INVARIANTS OneRetryPerTarget
