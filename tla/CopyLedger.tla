----------------------------- MODULE CopyLedger -----------------------------
(***************************************************************************)
(* What the ledger of a safe-copy job promises about writes that are not   *)
(* idempotent and whose answers can be lost. A write is opened before it   *)
(* can take effect, and closed once: as done, on the evidence of an effect *)
(* in its slot, or as void, when it had no effect and can never have one.  *)
(***************************************************************************)
EXTENDS Naturals

CONSTANTS Writes, Slots, Owner    \* Owner: [Slots -> what one open write excludes others from]

VARIABLES entry, slot, landed

vars == <<entry, slot, landed>>

Init ==
  /\ entry = [a \in Writes |-> "none"]
  /\ slot \in [Writes -> Slots]
  /\ landed = {}

Open(a) ==
  /\ entry[a] = "none"
  /\ entry' = [entry EXCEPT ![a] = "open"]
  /\ \E s \in Slots :
       /\ \A b \in Writes : entry[b] = "open" => Owner[slot[b]] # Owner[s]
       /\ slot' = [slot EXCEPT ![a] = s]
  /\ UNCHANGED landed

Land(a) ==
  /\ entry[a] \in {"open", "done"}
  /\ a \notin landed
  /\ landed' = landed \cup {a}
  /\ UNCHANGED <<entry, slot>>

Confirm(a) ==
  /\ entry[a] = "open"
  /\ \E b \in landed : slot[b] = slot[a]
  /\ entry' = [entry EXCEPT ![a] = "done"]
  /\ UNCHANGED <<slot, landed>>

Void(a) ==
  /\ entry[a] = "open"
  /\ a \notin landed
  /\ entry' = [entry EXCEPT ![a] = "void"]
  /\ UNCHANGED <<slot, landed>>

Next == \E a \in Writes : Open(a) \/ Land(a) \/ Confirm(a) \/ Void(a)

Spec == Init /\ [][Next]_vars
=============================================================================
