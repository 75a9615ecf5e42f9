CONSTANTS
  Requests = {R1, R2, R3, R4}
  RequestBudget = 3
  BackgroundBudget = 2
  Window = 3
  StateTtl = 4
  None = None
SPECIFICATION FairSpec
INVARIANTS IInv BudgetIsKept WakeIsExact StateIsForgotten
PROPERTIES BackgroundYields InteractiveStarts
