SPECIFICATION Spec
CONSTANTS
  P1 = P1
  P2 = P2
  C1 = C1
  C2 = C2
  D1 = D1
  D2 = D2
  E1 = E1
  E2 = E2
  Original = Original
  Edited = Edited
  Nobody = Nobody
  Plans = {}
  Evidence = {E1}
  Corrections = {}
  Repairs = {D1}
  NumFiles = 2
  AgentFiles = {2}
  MaxEdits = 0
  MaxRestarts = 1
CHECK_DEADLOCK FALSE
PROPERTIES PrewriteFailureStaysSettled
