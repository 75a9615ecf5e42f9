------------------------ MODULE SafeCopy_refinement ------------------------
(***************************************************************************)
(* The durable attempt ledger of SafeCopy implements CopyLedger: every     *)
(* step of the server, its handlers and the destination is one step of the *)
(* abstract ledger, or leaves it alone.                                    *)
(***************************************************************************)
EXTENDS SafeCopy_proofs

LEMMA LedgerInit == Init => Ledger!Init
<1> SUFFICES ASSUME Init  PROVE Ledger!Init
  OBVIOUS
<1>1. \A a \in Attempts : att[a] = NoAttempt /\ wire[a] = "unsent"
  BY DEF Init
<1>2. NoAttempt \in AttemptRecord /\ NoAttempt.state = "none"
  BY NoAttemptType DEF NoAttempt
<1>3. Entries = [a \in Attempts |-> "none"]
  BY <1>1, <1>2 DEF Entries, Active
<1>4. Copies \in [Attempts -> Targets \X Docs]
  BY <1>1, <1>2 DEF Copies, AttemptRecord
<1>5. LandedWrites = {}
  BY <1>1 DEF LandedWrites
<1> QED
  BY <1>3, <1>4, <1>5 DEF Ledger!Init

\* What the abstract ledger sees of a step that keeps an attempt's state and slot.
LEMMA SameEntries ==
  ASSUME \A a \in Attempts : /\ Active(a)' = Active(a)
                             /\ ~ Active(a) => att'[a].state = att[a].state
                             /\ att'[a].target = att[a].target /\ att'[a].doc = att[a].doc
  PROVE  Entries' = Entries /\ Copies' = Copies
BY DEF Entries, Copies

LEMMA SameLanded == wire' = wire => LandedWrites' = LandedWrites
BY DEF LandedWrites

LEMMA OpensRefines ==
  ASSUME TypeOK, NEW a \in Attempts, Opens(a)
  PROVE  Ledger!Open(a)
<1>1. /\ \A b \in Attempts \ {a} : att'[b] = att[b]
      /\ att[a].state = "none" /\ att'[a].state = "dispatched"
      /\ att'[a].target \in Targets /\ att'[a].doc \in Docs
      /\ NoOtherWriter(a, att'[a].target, "dispatched")
  BY OpensEffect
<1> DEFINE s == <<att'[a].target, att'[a].doc>>
<1>2. Entries[a] = "none"
  BY <1>1 DEF Entries, Active
<1>3. Entries' = [Entries EXCEPT ![a] = "open"]
  BY <1>1 DEF Entries, Active
<1>4. Copies' = [Copies EXCEPT ![a] = s]
  BY <1>1 DEF Copies
<1>5. ASSUME NEW b \in Attempts, Entries[b] = "open"
      PROVE  ModelOf[Copies[b][1]] # ModelOf[s[1]]
  <2>1. Active(b) /\ b # a
    BY <1>1, <1>5 DEF Entries, Active
  <2>2. ModelOf[att[b].target] # ModelOf[att'[a].target]
    BY <1>1, <2>1 DEF NoOtherWriter
  <2> QED  BY <2>2 DEF Copies
<1>6. \A b \in Attempts : Copies[b] \in Targets \X Docs
  BY DEF Copies, TypeOK, AttemptRecord
<1>7. s \in Targets \X Docs /\ LandedWrites' = LandedWrites
  BY <1>1, SameLanded DEF Opens
<1> HIDE DEF s
<1> QED
  BY <1>2, <1>3, <1>4, <1>5, <1>6, <1>7 DEF Ledger!Open

LEMMA SettlesRefines ==
  ASSUME TypeOK, EveryWriteIsAccounted, VerifiedIsProven, NEW a \in Attempts, Settles(a)
  PROVE  Ledger!Confirm(a) \/ Ledger!Void(a) \/ UNCHANGED <<Entries, Copies, LandedWrites>>
<1>1. PICK to \in AttemptStates \ {"none"}, cand \in 0..MaxAttempts, by \in Tasks \cup {Nobody} :
        /\ Persist(a, to, cand, by)
        /\ to = "failed_prewrite" => wire[a] \in {"unsent", "rejected"}
        /\ to = "verified" => cand \in Landed(att[a].target, att[a].doc)
  BY DEF Settles
<1>2. /\ \A b \in Attempts \ {a} : att'[b] = att[b]
      /\ att'[a].state = to /\ att'[a].target = att[a].target /\ att'[a].doc = att[a].doc
  BY <1>1, PersistEffect
<1>3. LandedWrites' = LandedWrites
  BY SameLanded DEF Settles
<1>4. Copies' = Copies
  BY <1>2 DEF Copies
<1>5. CASE att[a].state \in {"verified", "failed_prewrite"}
  <2>1. att' [a] = att[a]
    BY <1>5, SettledStays
  <2>2. \A b \in Attempts : att'[b] = att[b]
    BY <1>2, <2>1
  <2> QED  BY <1>3, <2>2, SameEntries DEF Active
<1>6. CASE att[a].state \notin {"verified", "failed_prewrite"}
  <2>1. Active(a)
    BY <1>6 DEF TypeOK, AttemptRecord, AttemptStates, Settles, Active
  <2>2. Entries[a] = "open"
    BY <2>1 DEF Entries
  <2>3. CASE to = "verified"
    <3>1. Entries' = [Entries EXCEPT ![a] = "done"]
      BY <1>2, <2>3 DEF Entries, Active
    <3>2. cand \in LandedWrites /\ Copies[cand] = Copies[a]
      BY <1>1, <2>3 DEF Landed, LandedWrites, Copies
    <3> QED  BY <1>3, <1>4, <2>2, <3>1, <3>2 DEF Ledger!Confirm
  <2>4. CASE to = "failed_prewrite"
    <3>1. Entries' = [Entries EXCEPT ![a] = "void"]
      BY <1>2, <2>4 DEF Entries, Active
    <3>2. a \notin LandedWrites
      BY <1>1, <2>4 DEF LandedWrites
    <3> QED  BY <1>3, <1>4, <2>2, <3>1, <3>2 DEF Ledger!Void
  <2>5. CASE to \in {"dispatched", "uncertain"}
    <3>1. Entries' = Entries
      BY <1>2, <2>1, <2>5 DEF Entries, Active
    <3> QED  BY <1>3, <1>4, <3>1
  <2> QED  BY <1>1, <2>3, <2>4, <2>5 DEF AttemptStates
<1> QED
  BY <1>5, <1>6

LEMMA AnswersRefines ==
  ASSUME TypeOK, EveryWriteIsAccounted, NEW a \in Attempts, Answers(a)
  PROVE  Ledger!Land(a) \/ UNCHANGED <<Entries, Copies, LandedWrites>>
<1>1. Entries' = Entries /\ Copies' = Copies
  BY SameEntries DEF Answers, Active
<1>2. wire[a] = "sent" /\ att[a].state \notin {"none", "failed_prewrite"}
  BY DEF Answers, EveryWriteIsAccounted
<1>3. Entries[a] \in {"open", "done"}
  BY <1>2 DEF Entries, Active, TypeOK, AttemptRecord, AttemptStates
<1>4. CASE wire' = [wire EXCEPT ![a] = "committed"]
  <2>1. LandedWrites' = LandedWrites \cup {a} /\ a \notin LandedWrites
    BY <1>2, <1>4 DEF LandedWrites, TypeOK
  <2> QED  BY <1>1, <1>3, <2>1 DEF Ledger!Land
<1>5. CASE wire' = [wire EXCEPT ![a] = "rejected"]
  <2>1. LandedWrites' = LandedWrites
    BY <1>2, <1>5 DEF LandedWrites, TypeOK
  <2> QED  BY <1>1, <2>1
<1> QED
  BY <1>4, <1>5 DEF Answers

LEMMA StepRefines ==
  ASSUME IInv, [Next]_vars
  PROVE  [Ledger!Next]_(Ledger!vars)
<1> USE DEF IInv
<1>1. CASE Quiet
  BY <1>1, SameEntries, SameLanded DEF Quiet, Active, Ledger!vars
<1>2. CASE Restarts
  <2>1. \A a \in Attempts : /\ Active(a)' = Active(a)
                            /\ ~ Active(a) => att'[a].state = att[a].state
                            /\ att'[a].target = att[a].target /\ att'[a].doc = att[a].doc
    BY <1>2, RestartsEffect DEF Active, RecoveredState
  <2> QED  BY <1>2, <2>1, SameEntries, SameLanded DEF Restarts, Ledger!vars
<1>3. ASSUME NEW a \in Attempts, Opens(a)  PROVE Ledger!Next
  BY <1>3, OpensRefines DEF Ledger!Next
<1>4. ASSUME NEW a \in Attempts, Settles(a)  PROVE [Ledger!Next]_(Ledger!vars)
  BY <1>4, SettlesRefines DEF Ledger!Next, Ledger!vars
<1>5. ASSUME NEW a \in Attempts, Sends(a)  PROVE [Ledger!Next]_(Ledger!vars)
  <2>1. LandedWrites' = LandedWrites
    BY <1>5 DEF Sends, LandedWrites, TypeOK
  <2>2. Entries' = Entries /\ Copies' = Copies
    BY <1>5, SameEntries DEF Sends, Active
  <2> QED  BY <2>1, <2>2 DEF Ledger!vars
<1>6. ASSUME NEW a \in Attempts, Answers(a)  PROVE [Ledger!Next]_(Ledger!vars)
  BY <1>6, AnswersRefines DEF Ledger!Next, Ledger!vars
<1> QED
  BY <1>1, <1>2, <1>3, <1>4, <1>5, <1>6, LedgerStep

\* The ledger of a safe-copy job implements the abstract ledger: a write is opened before it
\* can land, alone on its model, and closed once, on evidence.
THEOREM LedgerRefinement == Spec => LedgerSpec
<1>1. Init => Ledger!Init
  BY LedgerInit
<1>2. IInv /\ [Next]_vars => [Ledger!Next]_(Ledger!vars)
  BY StepRefines
<1> QED
  BY <1>1, <1>2, Invariance, PTL DEF Spec, LedgerSpec, Ledger!Spec
=============================================================================
