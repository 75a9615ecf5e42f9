SPECIFICATION FairSpec
CONSTANTS
  P1 = P1
  P2 = P2
  C1 = C1
  C2 = C2
  D1 = D1
  D2 = D2
  E1 = E1
  E2 = E2
  Original = Original
  Edited = Edited
  Nobody = Nobody
  Plans = {P1, P2}
  Evidence = {E1, E2}
  Corrections = {C1}
  Repairs = {}
  NumFiles = 2
  AgentFiles = {2}
  MaxEdits = 1
  MaxRestarts = 1
CHECK_DEADLOCK FALSE
INVARIANTS ReplacedPlanWroteNothing
PROPERTIES HandlersEnd
