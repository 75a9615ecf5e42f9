------------------------ MODULE ModelLease_refinement ------------------------
(***************************************************************************)
(* The leases implement the lock of ModelLock, for every set of jobs and   *)
(* models: the invariant makes the job that occupies a model unique, so    *)
(* the holder of the abstract lock is determined by pc and lease.          *)
(***************************************************************************)
EXTENDS ModelLease_proofs

LEMMA HolderOccupies ==
  ASSUME IInv, NEW m \in Models
  PROVE  /\ HolderOf[m] = Nobody \/ HolderOf[m] \in Jobs
         /\ \A j \in Jobs : HolderOf[m] = j <=> ModelOf[j] = m /\ Occupies(j)
<1>1. CASE \E j \in Jobs : ModelOf[j] = m /\ Occupies(j)
  <2>1. PICK j \in Jobs : ModelOf[j] = m /\ Occupies(j)
    BY <1>1
  <2>2. \A i \in Jobs : ModelOf[i] = m /\ Occupies(i) => i = j
    BY <2>1, OccupantIsAlone DEF Clean
  <2>3. HolderOf[m] = CHOOSE i \in Jobs : ModelOf[i] = m /\ Occupies(i)
    BY <2>1 DEF HolderOf
  <2>4. HolderOf[m] \in Jobs /\ ModelOf[HolderOf[m]] = m /\ Occupies(HolderOf[m])
    BY <2>1, <2>3
  <2> QED BY <2>1, <2>2, <2>4
<1>2. CASE ~ \E j \in Jobs : ModelOf[j] = m /\ Occupies(j)
  BY <1>2, JobsAssumption DEF HolderOf
<1> QED BY <1>1, <1>2

(* The same after a step. *)
LEMMA HolderOccupiesNext ==
  ASSUME IInv', NEW m \in Models
  PROVE  /\ HolderOf'[m] = Nobody \/ HolderOf'[m] \in Jobs
         /\ \A j \in Jobs : HolderOf'[m] = j <=> ModelOf[j] = m /\ Occupies(j)'
<1>1. CASE \E j \in Jobs : ModelOf[j] = m /\ Occupies(j)'
  <2>1. PICK j \in Jobs : ModelOf[j] = m /\ Occupies(j)'
    BY <1>1
  <2>2. \A i \in Jobs : ModelOf[i] = m /\ Occupies(i)' => i = j
    BY <2>1 DEF IInv, OccupiesAlone
  <2>3. HolderOf'[m] = CHOOSE i \in Jobs : ModelOf[i] = m /\ Occupies(i)'
    BY <2>1 DEF HolderOf
  <2>4. HolderOf'[m] \in Jobs /\ ModelOf[HolderOf'[m]] = m /\ Occupies(HolderOf[m])'
    BY <2>1, <2>3
  <2> QED BY <2>1, <2>2, <2>4
<1>2. CASE ~ \E j \in Jobs : ModelOf[j] = m /\ Occupies(j)'
  BY <1>2, JobsAssumption DEF HolderOf
<1> QED BY <1>1, <1>2

(* A step that moves no job in or out of its model moves no holder. *)
LEMMA HoldersStay ==
  ASSUME IInv, IInv', \A j \in Jobs : Occupies(j)' = Occupies(j)
  PROVE  HolderOf' = HolderOf
<1>1. \A m \in Models : HolderOf'[m] = HolderOf[m]
  BY HolderOccupies, HolderOccupiesNext, JobsAssumption
<1> QED BY <1>1 DEF HolderOf

-----------------------------------------------------------------------------
(* A step of one job that sends and lands nothing takes its model, lets go of it, or is
   not seen by the lock. *)
LEMMA QuietStep ==
  ASSUME IInv, IInv', NEW j \in Jobs, OthersStay(j), remote' = remote
  PROVE  [Lock!LockNext]_(Lock!lockVars)
<1>1. Flying' = Flying
  BY DEF Flying
<1>2. \A i \in Jobs \ {j} : Occupies(i)' = Occupies(i)
  BY DEF OthersStay, Occupies, Stale, Live, Unresolved
<1>3. CASE Occupies(j)' = Occupies(j)
  <2>1. HolderOf' = HolderOf
    BY <1>2, <1>3, HoldersStay
  <2> QED BY <1>1, <2>1 DEF Lock!lockVars
<1>4. CASE ~ Occupies(j) /\ Occupies(j)'
  <2>1. HolderOf[ModelOf[j]] = Nobody
    <3> SUFFICES ASSUME HolderOf[ModelOf[j]] # Nobody
                 PROVE  FALSE
      OBVIOUS
    <3>1. PICK i \in Jobs : HolderOf[ModelOf[j]] = i
      BY HolderOccupies, JobsAssumption
    <3>2. Occupies(i) /\ ModelOf[i] = ModelOf[j] /\ i # j
      BY <3>1, <1>4, HolderOccupies, JobsAssumption
    <3>3. Occupies(i)'
      BY <1>2, <3>2
    <3> QED BY <1>4, <3>2, <3>3 DEF IInv, OccupiesAlone
  <2>2. HolderOf' = [HolderOf EXCEPT ![ModelOf[j]] = j]
    <3>1. \A m \in Models : HolderOf'[m] = IF m = ModelOf[j] THEN j ELSE HolderOf[m]
      BY <1>2, <1>4, HolderOccupies, HolderOccupiesNext, JobsAssumption
    <3> QED BY <3>1 DEF HolderOf
  <2>3. Lock!Acquire(j)
    BY <1>1, <2>1, <2>2 DEF Lock!Acquire
  <2> QED BY <2>3 DEF Lock!LockNext
<1>5. CASE Occupies(j) /\ ~ Occupies(j)'
  <2>1. ModelOf[j] \in Models /\ HolderOf[ModelOf[j]] = j /\ j # Nobody
    BY <1>5, HolderOccupies, JobsAssumption
  <2>2. j \notin Flying
    BY <1>5 DEF IInv, OneUnresolvedPerModel, WritesAreCovered, Occupies, Flying
  <2>3. HolderOf' = [m \in Models |-> IF m \in {ModelOf[j]} THEN Nobody ELSE HolderOf[m]]
    <3>1. \A m \in Models : HolderOf'[m] = IF m = ModelOf[j] THEN Nobody ELSE HolderOf[m]
      BY <1>2, <1>5, HolderOccupies, HolderOccupiesNext, JobsAssumption
    <3> QED BY <3>1 DEF HolderOf
  <2>4. Lock!Release({ModelOf[j]})
    BY <1>1, <2>1, <2>2, <2>3 DEF Lock!Release
  <2> QED BY <2>1, <2>4 DEF Lock!LockNext
<1> QED BY <1>3, <1>4, <1>5 DEF Occupies, Stale, Live, Unresolved

(* A request is sent by the holder of the model. *)
LEMMA SendIssues ==
  ASSUME IInv, IInv', NEW j \in Jobs, Send(j)
  PROVE  Lock!LockNext
<1>1. TypeOK
  BY DEF IInv
<1>2. \A i \in Jobs : Occupies(i)' = Occupies(i)
  BY <1>1 DEF Send, Occupies, Stale, Live, Unresolved, TypeOK
<1>3. HolderOf[ModelOf[j]] = j
  BY HolderOccupies, JobsAssumption DEF Send, Occupies, Stale, Live, IInv, HandlerInv,
                                 HandlerOK
<1>4. Flying' = Flying \cup {j}
  BY <1>1 DEF Send, Flying, TypeOK
<1>5. Lock!Issue(j)
  BY <1>2, <1>3, <1>4, HoldersStay DEF Lock!Issue
<1> QED BY <1>5 DEF Lock!LockNext

(* A write that takes effect is no longer on its way. *)
LEMMA SettlesLands ==
  ASSUME IInv, IInv', NEW j \in Jobs, Settles(j)
  PROVE  Lock!LockNext
<1>1. TypeOK
  BY DEF IInv
<1>2. \A i \in Jobs : Occupies(i)' = Occupies(i)
  BY DEF Settles, Occupies, Stale, Live, Unresolved
<1>3. j \in Flying /\ Flying' = Flying \ {j}
  BY <1>1 DEF Settles, Flying, TypeOK
<1>4. Lock!Land(j)
  BY <1>2, <1>3, HoldersStay DEF Lock!Land
<1> QED BY <1>4 DEF Lock!LockNext

(* A restart lets go of the models that were held without an unresolved write. *)
LEMMA RestartReleases ==
  ASSUME IInv, IInv', Restart
  PROVE  Lock!LockNext
<1> DEFINE free == {m \in Models : HolderOf[m] # Nobody /\ ~ Unresolved(HolderOf[m])}
<1>1. \A j \in Jobs : Occupies(j)' <=> j \notin reopened /\ Unresolved(j)
  BY DEF IInv, Restart, RecoveredLease, Occupies, Stale, Live, Unresolved, TypeOK, LeaseStates
<1>2. \A m \in free : HolderOf[m] # Nobody /\ HolderOf[m] \notin Flying
  BY HolderOccupies DEF IInv, WritesAreCovered, Flying
<1>3. HolderOf' = [m \in Models |-> IF m \in free THEN Nobody ELSE HolderOf[m]]
  <2>1. ASSUME NEW m \in Models
        PROVE  HolderOf'[m] = IF m \in free THEN Nobody ELSE HolderOf[m]
    BY <1>1, HolderOccupies, HolderOccupiesNext, JobsAssumption DEF Occupies
  <2> QED BY <2>1 DEF HolderOf
<1>4. Flying' = Flying
  BY DEF Restart, Flying
<1>5. Lock!Release(free)
  BY <1>2, <1>3, <1>4 DEF Lock!Release
<1> QED BY <1>5 DEF Lock!LockNext

-----------------------------------------------------------------------------
(* Every other step of a job leaves its requests where they are. *)
LEMMA OtherStepsAreQuiet ==
  ASSUME NEW j \in Jobs, JobStep(j)
  PROVE  Send(j) \/ Settles(j) \/ remote' = remote
BY DEF JobStep, Create, CreateFails, Creatable, ModelJobStep, Dispatch, StepFails, Answered,
       WriteLost, Verified, RefreshStart, RefreshStep, RefreshAccepted, RefreshOver, RefreshLost,
       Cancel, CopyOpen, CopyStep, CopySettled, CopyLeft, CopyReleased, CopyResumed, Reconciled,
       StillUnclear, Adjudicate

(* The leases implement the lock: one holder per model, a write on its way only for the
   holder, and no release under a write, for any jobs and models, with an unlock at any time. A
   model that an old poll blocks again has no holder. *)
THEOREM LeasesImplementLock ==
  Spec => LockSpec
<1>1. Init => Lock!LockInit
  BY DEF Init, Lock!LockInit, HolderOf, Flying, Occupies, Stale, Live, Unresolved
<1>2. IInv /\ IInv' /\ [Next]_vars => [Lock!LockNext]_(Lock!lockVars)
  <2> SUFFICES ASSUME IInv, IInv', [Next]_vars
               PROVE  [Lock!LockNext]_(Lock!lockVars)
    OBVIOUS
  <2>1. CASE \E j \in Jobs : JobStep(j)
    <3>1. PICK j \in Jobs : JobStep(j)
      BY <2>1
    <3>2. OthersStay(j)
      BY <3>1, JobStepOK DEF StepOK
    <3> QED BY <3>1, <3>2, OtherStepsAreQuiet, QuietStep, SendIssues, SettlesLands
  <2>2. CASE Unlock
    <3>1. \A j \in Jobs : Occupies(j)' = Occupies(j)
      BY <2>2 DEF Unlock, IInv, HandlerInv, HandlerOK, TypeOK, Occupies, Stale, Live, Unresolved
    <3>2. Flying' = Flying
      BY <2>2 DEF Unlock, Flying
    <3> QED BY <3>1, <3>2, HoldersStay DEF Lock!lockVars
  <2>3. CASE Restart
    BY <2>3, RestartReleases
  <2>4. CASE UNCHANGED vars
    BY <2>4 DEF vars, Lock!lockVars, HolderOf, Flying, Occupies, Stale, Live, Unresolved
  <2> QED BY <2>1, <2>2, <2>3, <2>4, NextIsStep
<1> QED BY <1>1, <1>2, Invariance, PTL DEF Spec, LockSpec, Lock!LockSpec
=============================================================================
