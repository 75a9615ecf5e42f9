--------------------------- MODULE MCModelLease ---------------------------
(* Small instances of ModelLease for TLC. *)
EXTENDS ModelLease, TLC

CONSTANTS P1, P2, S1, S2, C1, X, Y

OnOneModel == [j \in Jobs |-> X]
OnTwoModels == [j \in Jobs |-> IF j \in {P2, S2} THEN Y ELSE X]
=============================================================================
