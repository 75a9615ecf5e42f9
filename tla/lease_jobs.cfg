SPECIFICATION FairSpec
CONSTANTS
  P1 = P1
  P2 = P2
  S1 = S1
  S2 = S2
  C1 = C1
  X = X
  Y = Y
  Nobody = Nobody
  Models = {X}
  ModelJobs = {P1, P2}
  RefreshJobs = {S1}
  CopyJobs = {C1}
  ModelOf <- OnOneModel
  MaxRestarts = 1
CHECK_DEADLOCK FALSE
INVARIANTS IInv OneUnresolvedPerModel ReservationsEnd WritesAreCovered SucceededIsSettled
PROPERTIES OnlyOldPollsReopen LockSpec JobsEnd
