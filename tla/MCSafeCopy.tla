---------------------------- MODULE MCSafeCopy ----------------------------
(* Small instances of SafeCopy for TLC. *)
EXTENDS SafeCopy, TLC

CONSTANTS T1, T2, T3, R1, R2

OneModel == [t \in Targets |-> "m"]
OwnModel == [t \in Targets |-> t]
PairedModels == [t \in Targets |-> IF t = T3 THEN "n" ELSE "m"]
=============================================================================
