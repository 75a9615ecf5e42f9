-------------------------- MODULE ModelLease_proofs --------------------------
(***************************************************************************)
(* What holds of ModelLease for every set of jobs and models.              *)
(*                                                                         *)
(* Nearly every action moves one job j. LocalStep says what such a step    *)
(* owes to the others, and each action is then checked for j alone.        *)
(***************************************************************************)
EXTENDS ModelLease, TLAPS

\* The job may keep the model reserved.
MayReserve(j) == Live(j) \/ Unresolved(j)

\* No other job occupies the model of j.
Clean(j) == \A i \in Jobs \ {j} : Occupies(i) => ModelOf[i] # ModelOf[j]

\* The step leaves the other jobs as they are.
OthersStay(j) ==
  \A i \in Jobs \ {j} :
    /\ status'[i] = status[i] /\ lease'[i] = lease[i] /\ pc'[i] = pc[i]
    /\ step'[i] = step[i] /\ remote'[i] = remote[i]
    /\ (i \in tracked') = (i \in tracked)
    /\ (i \in recon') = (i \in recon)
    /\ (i \in reopened') = (i \in reopened)
    /\ \A m \in Models : (owner'[m] = i) = (owner[m] = i)

\* What a step of j owes.
StepOK(j) ==
  /\ TypeOK'
  /\ OthersStay(j)
  /\ HandlerOK(j)'
  /\ Occupies(j)' => Clean(j)
  /\ \A m \in Models : owner'[m] = j => m = ModelOf[j] /\ MayReserve(j)'
  /\ remote'[j] = "sent" => Unresolved(j)'
  /\ status'[j] = "succeeded" => remote'[j] = "settled" /\ lease'[j] = "resolved"

-----------------------------------------------------------------------------
(* A job that occupies its model is alone with it. *)
LEMMA OccupantIsAlone ==
  ASSUME IInv, NEW j \in Jobs, Occupies(j)
  PROVE  Clean(j)
BY DEF IInv, OccupiesAlone, Clean

(* A model that is reserved by nobody, and has no unresolved write, is free. *)
LEMMA FreeIsClean ==
  ASSUME IInv, NEW j \in Jobs, FreeOfWrites(j), owner[ModelOf[j]] = Nobody
  PROVE  Clean(j)
<1> SUFFICES ASSUME NEW i \in Jobs \ {j}, Occupies(i), ModelOf[i] = ModelOf[j]
             PROVE  FALSE
  BY DEF Clean
<1>1. ~ Unresolved(i)
  BY DEF FreeOfWrites
<1>2. Live(i) /\ ~ Stale(i) /\ HandlerOK(i)
  BY <1>1 DEF Occupies, IInv, HandlerInv
<1>3. CASE i \notin CopyJobs
  BY <1>2, <1>3, JobsAssumption DEF HandlerOK
<1>4. CASE i \in CopyJobs
  BY <1>1, <1>2, <1>4, JobsAssumption DEF HandlerOK, Live, IInv, TypeOK
<1> QED BY <1>3, <1>4

(* A step of one job that keeps what it owes preserves the invariant. *)
LEMMA LocalStep ==
  ASSUME IInv, NEW j \in Jobs, StepOK(j)
  PROVE  IInv'
<1> USE DEF StepOK
<1>1. \A i \in Jobs \ {j} : /\ Live(i)' = Live(i) /\ Unresolved(i)' = Unresolved(i)
                            /\ Stale(i)' = Stale(i) /\ Occupies(i)' = Occupies(i)
  BY DEF OthersStay, Live, Unresolved, Stale, Occupies
<1>2. HandlerInv'
  <2> SUFFICES ASSUME NEW i \in Jobs, i # j
               PROVE  HandlerOK(i)'
    BY DEF HandlerInv
  <2>1. HandlerOK(i) /\ ModelOf[i] \in Models
    BY JobsAssumption DEF IInv, HandlerInv
  <2> QED BY <1>1, <2>1 DEF HandlerOK, OthersStay
<1>3. OccupiesAlone'
  BY <1>1 DEF OccupiesAlone, IInv, Clean
<1>4. OneUnresolvedPerModel'
  BY <1>2, <1>3 DEF OneUnresolvedPerModel, OccupiesAlone, Occupies, HandlerInv, HandlerOK, TypeOK,
                    Jobs
<1>5. WritesAreCovered'
  BY <1>1 DEF WritesAreCovered, IInv, OthersStay
<1>6. ReservationsEnd'
  <2> SUFFICES ASSUME NEW m \in Models, owner'[m] # Nobody
               PROVE  ModelOf[owner'[m]] = m /\ MayReserve(owner[m])'
    BY DEF ReservationsEnd, MayReserve
  <2>1. owner'[m] \in Jobs
    BY DEF TypeOK
  <2>2. CASE owner'[m] = j
    BY <2>2 DEF MayReserve, Live, Unresolved
  <2>3. CASE owner'[m] # j
    <3>1. owner[m] = owner'[m]
      BY <2>1, <2>3 DEF OthersStay
    <3> QED BY <1>1, <2>1, <2>3, <3>1, JobsAssumption
            DEF ReservationsEnd, IInv, MayReserve, Live, Unresolved
  <2> QED BY <2>2, <2>3
<1>7. SucceededIsSettled'
  BY DEF SucceededIsSettled, IInv, OthersStay
<1> QED BY <1>2, <1>3, <1>4, <1>5, <1>6, <1>7 DEF IInv

-----------------------------------------------------------------------------
(* The branch preparations. *)
(* A branch preparation takes a model that is free. *)
LEMMA CreateOK ==
  ASSUME IInv, NEW j \in Jobs, Create(j)
  PROVE  StepOK(j)
<1> USE JobsAssumption DEF Create, Creatable
<1>1. TypeOK /\ HandlerOK(j)
  BY DEF IInv, HandlerInv
<1>2. TypeOK' /\ OthersStay(j)
  BY <1>1 DEF TypeOK, LeaseStates, OthersStay
<1>3. HandlerOK(j)'
  BY <1>1 DEF HandlerOK, TypeOK, Live, Unresolved, Stale
<1>4. /\ Occupies(j)' => Clean(j)
      /\ \A m \in Models : owner'[m] = j => m = ModelOf[j] /\ MayReserve(j)'
  BY <1>1, FreeIsClean DEF IInv, ReservationsEnd, MayReserve, Occupies, Stale, Live, Unresolved,
                               HandlerOK, TypeOK
<1>5. /\ remote'[j] = "sent" => Unresolved(j)'
      /\ status'[j] = "succeeded" => remote'[j] = "settled" /\ lease'[j] = "resolved"
  BY <1>1 DEF IInv, WritesAreCovered, SucceededIsSettled, HandlerOK, Live, Unresolved, Stale, TypeOK
<1> QED BY <1>2, <1>3, <1>4, <1>5 DEF StepOK

(* A branch preparation that fails at once takes nothing. *)
LEMMA CreateFailsOK ==
  ASSUME IInv, NEW j \in Jobs, CreateFails(j)
  PROVE  StepOK(j)
<1> USE JobsAssumption DEF CreateFails, Creatable
<1>1. TypeOK /\ HandlerOK(j)
  BY DEF IInv, HandlerInv
<1>2. TypeOK' /\ OthersStay(j)
  BY <1>1 DEF TypeOK, LeaseStates, OthersStay
<1>3. HandlerOK(j)'
  BY <1>1 DEF HandlerOK, TypeOK, Live, Unresolved, Stale
<1>4. /\ Occupies(j)' => Clean(j)
      /\ \A m \in Models : owner'[m] = j => m = ModelOf[j] /\ MayReserve(j)'
  BY <1>1, OccupantIsAlone DEF IInv, ReservationsEnd, MayReserve, Occupies, Stale, Live, Unresolved,
                               HandlerOK, TypeOK
<1>5. /\ remote'[j] = "sent" => Unresolved(j)'
      /\ status'[j] = "succeeded" => remote'[j] = "settled" /\ lease'[j] = "resolved"
  BY <1>1 DEF IInv, WritesAreCovered, SucceededIsSettled, HandlerOK, Live, Unresolved, Stale, TypeOK
<1> QED BY <1>2, <1>3, <1>4, <1>5 DEF StepOK

(* The job already holds the model when it dispatches a write. *)
LEMMA DispatchOK ==
  ASSUME IInv, NEW j \in Jobs, Dispatch(j)
  PROVE  StepOK(j)
<1> USE JobsAssumption DEF Dispatch
<1>1. TypeOK /\ HandlerOK(j)
  BY DEF IInv, HandlerInv
<1>2. TypeOK' /\ OthersStay(j)
  BY <1>1 DEF TypeOK, LeaseStates, OthersStay
<1>3. HandlerOK(j)'
  BY <1>1 DEF HandlerOK, TypeOK, Live, Unresolved, Stale
<1>4. /\ Occupies(j)' => Clean(j)
      /\ \A m \in Models : owner'[m] = j => m = ModelOf[j] /\ MayReserve(j)'
  BY <1>1, OccupantIsAlone DEF IInv, ReservationsEnd, MayReserve, Occupies, Stale, Live, Unresolved,
                               HandlerOK, TypeOK
<1>5. /\ remote'[j] = "sent" => Unresolved(j)'
      /\ status'[j] = "succeeded" => remote'[j] = "settled" /\ lease'[j] = "resolved"
  BY <1>1 DEF IInv, WritesAreCovered, SucceededIsSettled, HandlerOK, Live, Unresolved, Stale, TypeOK
<1> QED BY <1>2, <1>3, <1>4, <1>5 DEF StepOK

(* No write is on its way when a proof fails, so the model is let go. *)
LEMMA StepFailsOK ==
  ASSUME IInv, NEW j \in Jobs, StepFails(j)
  PROVE  StepOK(j)
<1> USE JobsAssumption DEF StepFails, Released, Ends
<1>1. TypeOK /\ HandlerOK(j)
  BY DEF IInv, HandlerInv
<1>2. TypeOK' /\ OthersStay(j)
  BY <1>1 DEF TypeOK, LeaseStates, OthersStay
<1>3. HandlerOK(j)'
  BY <1>1 DEF HandlerOK, TypeOK, Live, Unresolved, Stale
<1>4. /\ Occupies(j)' => Clean(j)
      /\ \A m \in Models : owner'[m] = j => m = ModelOf[j] /\ MayReserve(j)'
  BY <1>1, OccupantIsAlone DEF IInv, ReservationsEnd, MayReserve, Occupies, Stale, Live, Unresolved,
                               HandlerOK, TypeOK
<1>5. /\ remote'[j] = "sent" => Unresolved(j)'
      /\ status'[j] = "succeeded" => remote'[j] = "settled" /\ lease'[j] = "resolved"
  BY <1>1 DEF IInv, WritesAreCovered, SucceededIsSettled, HandlerOK, Live, Unresolved, Stale, TypeOK
<1> QED BY <1>2, <1>3, <1>4, <1>5 DEF StepOK

(* A request leaves under a dispatched lease. *)
LEMMA SendOK ==
  ASSUME IInv, NEW j \in Jobs, Send(j)
  PROVE  StepOK(j)
<1> USE JobsAssumption DEF Send
<1>1. TypeOK /\ HandlerOK(j)
  BY DEF IInv, HandlerInv
<1>2. TypeOK' /\ OthersStay(j)
  BY <1>1 DEF TypeOK, LeaseStates, OthersStay
<1>3. HandlerOK(j)'
  BY <1>1 DEF HandlerOK, TypeOK, Live, Unresolved, Stale
<1>4. /\ Occupies(j)' => Clean(j)
      /\ \A m \in Models : owner'[m] = j => m = ModelOf[j] /\ MayReserve(j)'
  BY <1>1, OccupantIsAlone DEF IInv, ReservationsEnd, MayReserve, Occupies, Stale, Live, Unresolved,
                               HandlerOK, TypeOK
<1>5. /\ remote'[j] = "sent" => Unresolved(j)'
      /\ status'[j] = "succeeded" => remote'[j] = "settled" /\ lease'[j] = "resolved"
  BY <1>1 DEF IInv, WritesAreCovered, SucceededIsSettled, HandlerOK, Live, Unresolved, Stale, TypeOK
<1> QED BY <1>2, <1>3, <1>4, <1>5 DEF StepOK

(* An answered write is resolved; only then the next step is proved. *)
LEMMA AnsweredOK ==
  ASSUME IInv, NEW j \in Jobs, Answered(j)
  PROVE  StepOK(j)
<1> USE JobsAssumption DEF Answered, Released, Ends
<1>1. TypeOK /\ HandlerOK(j)
  BY DEF IInv, HandlerInv
<1>2. TypeOK' /\ OthersStay(j)
  BY <1>1 DEF TypeOK, LeaseStates, OthersStay, HandlerOK, Unresolved
<1>3. HandlerOK(j)'
  BY <1>1 DEF HandlerOK, TypeOK, Live, Unresolved, Stale
<1>4. /\ Occupies(j)' => Clean(j)
      /\ \A m \in Models : owner'[m] = j => m = ModelOf[j] /\ MayReserve(j)'
  BY <1>1, OccupantIsAlone DEF IInv, ReservationsEnd, MayReserve, Occupies, Stale, Live, Unresolved,
                               HandlerOK, TypeOK
<1>5. /\ remote'[j] = "sent" => Unresolved(j)'
      /\ status'[j] = "succeeded" => remote'[j] = "settled" /\ lease'[j] = "resolved"
  BY <1>1 DEF IInv, WritesAreCovered, SucceededIsSettled, HandlerOK, Live, Unresolved, Stale, TypeOK
<1> QED BY <1>2, <1>3, <1>4, <1>5 DEF StepOK

(* A lost write keeps its lease, and its model. *)
LEMMA WriteLostOK ==
  ASSUME IInv, NEW j \in Jobs, WriteLost(j)
  PROVE  StepOK(j)
<1> USE JobsAssumption DEF WriteLost, Ends
<1>1. TypeOK /\ HandlerOK(j)
  BY DEF IInv, HandlerInv
<1>2. TypeOK' /\ OthersStay(j)
  BY <1>1 DEF TypeOK, LeaseStates, OthersStay
<1>3. HandlerOK(j)'
  BY <1>1 DEF HandlerOK, TypeOK, Live, Unresolved, Stale
<1>4. /\ Occupies(j)' => Clean(j)
      /\ \A m \in Models : owner'[m] = j => m = ModelOf[j] /\ MayReserve(j)'
  BY <1>1, OccupantIsAlone DEF IInv, ReservationsEnd, MayReserve, Occupies, Stale, Live, Unresolved,
                               HandlerOK, TypeOK
<1>5. /\ remote'[j] = "sent" => Unresolved(j)'
      /\ status'[j] = "succeeded" => remote'[j] = "settled" /\ lease'[j] = "resolved"
  BY <1>1 DEF IInv, WritesAreCovered, SucceededIsSettled, HandlerOK, Live, Unresolved, Stale, TypeOK
<1> QED BY <1>2, <1>3, <1>4, <1>5 DEF StepOK

(* The verification comes after two settled writes. *)
LEMMA VerifiedOK ==
  ASSUME IInv, NEW j \in Jobs, Verified(j)
  PROVE  StepOK(j)
<1> USE JobsAssumption DEF Verified, Released, Ends
<1>1. TypeOK /\ HandlerOK(j)
  BY DEF IInv, HandlerInv
<1>2. TypeOK' /\ OthersStay(j)
  BY <1>1 DEF TypeOK, LeaseStates, OthersStay
<1>3. HandlerOK(j)'
  BY <1>1 DEF HandlerOK, TypeOK, Live, Unresolved, Stale
<1>4. /\ Occupies(j)' => Clean(j)
      /\ \A m \in Models : owner'[m] = j => m = ModelOf[j] /\ MayReserve(j)'
  BY <1>1, OccupantIsAlone DEF IInv, ReservationsEnd, MayReserve, Occupies, Stale, Live, Unresolved,
                               HandlerOK, TypeOK
<1>5. /\ remote'[j] = "sent" => Unresolved(j)'
      /\ status'[j] = "succeeded" => remote'[j] = "settled" /\ lease'[j] = "resolved"
  BY <1>1 DEF IInv, WritesAreCovered, SucceededIsSettled, HandlerOK, Live, Unresolved, Stale, TypeOK
<1> QED BY <1>2, <1>3, <1>4, <1>5 DEF StepOK


-----------------------------------------------------------------------------
(* The schema refreshes. *)
(* A refresh takes a model that is free. *)
LEMMA RefreshStartOK ==
  ASSUME IInv, NEW j \in Jobs, RefreshStart(j)
  PROVE  StepOK(j)
<1> USE JobsAssumption DEF RefreshStart
<1>1. TypeOK /\ HandlerOK(j)
  BY DEF IInv, HandlerInv
<1>2. TypeOK' /\ OthersStay(j)
  BY <1>1 DEF TypeOK, LeaseStates, OthersStay
<1>3. HandlerOK(j)'
  BY <1>1 DEF HandlerOK, TypeOK, Live, Unresolved, Stale
<1>4. /\ Occupies(j)' => Clean(j)
      /\ \A m \in Models : owner'[m] = j => m = ModelOf[j] /\ MayReserve(j)'
  BY <1>1, FreeIsClean DEF IInv, ReservationsEnd, MayReserve, Occupies, Stale, Live, Unresolved,
                               HandlerOK, TypeOK
<1>5. /\ remote'[j] = "sent" => Unresolved(j)'
      /\ status'[j] = "succeeded" => remote'[j] = "settled" /\ lease'[j] = "resolved"
  BY <1>1 DEF IInv, WritesAreCovered, SucceededIsSettled, HandlerOK, Live, Unresolved, Stale, TypeOK
<1> QED BY <1>2, <1>3, <1>4, <1>5 DEF StepOK

(* The id of the remote job is attached to a live refresh. *)
LEMMA RefreshAcceptedOK ==
  ASSUME IInv, NEW j \in Jobs, RefreshAccepted(j)
  PROVE  StepOK(j)
<1> USE JobsAssumption DEF RefreshAccepted
<1>1. TypeOK /\ HandlerOK(j)
  BY DEF IInv, HandlerInv
<1>2. TypeOK' /\ OthersStay(j)
  BY <1>1 DEF TypeOK, LeaseStates, OthersStay
<1>3. HandlerOK(j)'
  BY <1>1 DEF HandlerOK, TypeOK, Live, Unresolved, Stale
<1>4. /\ Occupies(j)' => Clean(j)
      /\ \A m \in Models : owner'[m] = j => m = ModelOf[j] /\ MayReserve(j)'
  BY <1>1, OccupantIsAlone DEF IInv, ReservationsEnd, MayReserve, Occupies, Stale, Live, Unresolved,
                               HandlerOK, TypeOK
<1>5. /\ remote'[j] = "sent" => Unresolved(j)'
      /\ status'[j] = "succeeded" => remote'[j] = "settled" /\ lease'[j] = "resolved"
  BY <1>1 DEF IInv, WritesAreCovered, SucceededIsSettled, HandlerOK, Live, Unresolved, Stale, TypeOK
<1> QED BY <1>2, <1>3, <1>4, <1>5 DEF StepOK

(* A refresh ends when its remote job has ended. *)
LEMMA RefreshOverOK ==
  ASSUME IInv, NEW j \in Jobs, RefreshOver(j)
  PROVE  StepOK(j)
<1> USE JobsAssumption DEF RefreshOver, Released, Ends
<1>1. TypeOK /\ HandlerOK(j)
  BY DEF IInv, HandlerInv
<1>2. TypeOK' /\ OthersStay(j)
  BY <1>1 DEF TypeOK, LeaseStates, OthersStay
<1>3. HandlerOK(j)'
  BY <1>1 DEF HandlerOK, TypeOK, Live, Unresolved, Stale
<1>4. /\ Occupies(j)' => Clean(j)
      /\ \A m \in Models : owner'[m] = j => m = ModelOf[j] /\ MayReserve(j)'
  BY <1>1, OccupantIsAlone DEF IInv, ReservationsEnd, MayReserve, Occupies, Stale, Live, Unresolved,
                               HandlerOK, TypeOK
<1>5. /\ remote'[j] = "sent" => Unresolved(j)'
      /\ status'[j] = "succeeded" => remote'[j] = "settled" /\ lease'[j] = "resolved"
  BY <1>1 DEF IInv, WritesAreCovered, SucceededIsSettled, HandlerOK, Live, Unresolved, Stale, TypeOK
<1> QED BY <1>2, <1>3, <1>4, <1>5 DEF StepOK

(* A lost refresh keeps its lease, and its model. *)
LEMMA RefreshLostOK ==
  ASSUME IInv, NEW j \in Jobs, RefreshLost(j)
  PROVE  StepOK(j)
<1> USE JobsAssumption DEF RefreshLost, Ends
<1>1. TypeOK /\ HandlerOK(j)
  BY DEF IInv, HandlerInv
<1>2. TypeOK' /\ OthersStay(j)
  BY <1>1 DEF TypeOK, LeaseStates, OthersStay
<1>3. HandlerOK(j)'
  BY <1>1 DEF HandlerOK, TypeOK, Live, Unresolved, Stale
<1>4. /\ Occupies(j)' => Clean(j)
      /\ \A m \in Models : owner'[m] = j => m = ModelOf[j] /\ MayReserve(j)'
  BY <1>1, OccupantIsAlone DEF IInv, ReservationsEnd, MayReserve, Occupies, Stale, Live, Unresolved,
                               HandlerOK, TypeOK
<1>5. /\ remote'[j] = "sent" => Unresolved(j)'
      /\ status'[j] = "succeeded" => remote'[j] = "settled" /\ lease'[j] = "resolved"
  BY <1>1 DEF IInv, WritesAreCovered, SucceededIsSettled, HandlerOK, Live, Unresolved, Stale, TypeOK
<1> QED BY <1>2, <1>3, <1>4, <1>5 DEF StepOK

(* A cancellation moves no lease. *)
LEMMA CancelOK ==
  ASSUME IInv, NEW j \in Jobs, Cancel(j)
  PROVE  StepOK(j)
<1> USE JobsAssumption DEF Cancel
<1>1. TypeOK /\ HandlerOK(j)
  BY DEF IInv, HandlerInv
<1>2. TypeOK' /\ OthersStay(j)
  BY <1>1 DEF TypeOK, LeaseStates, OthersStay
<1>3. HandlerOK(j)'
  BY <1>1 DEF HandlerOK, TypeOK, Live, Unresolved, Stale
<1>4. /\ Occupies(j)' => Clean(j)
      /\ \A m \in Models : owner'[m] = j => m = ModelOf[j] /\ MayReserve(j)'
  BY <1>1, OccupantIsAlone DEF IInv, ReservationsEnd, MayReserve, Occupies, Stale, Live, Unresolved,
                               HandlerOK, TypeOK
<1>5. /\ remote'[j] = "sent" => Unresolved(j)'
      /\ status'[j] = "succeeded" => remote'[j] = "settled" /\ lease'[j] = "resolved"
  BY <1>1 DEF IInv, WritesAreCovered, SucceededIsSettled, HandlerOK, Live, Unresolved, Stale, TypeOK
<1> QED BY <1>2, <1>3, <1>4, <1>5 DEF StepOK


-----------------------------------------------------------------------------
(* The copy attempts. *)
(* A copy attempt takes a model that is free. *)
LEMMA CopyOpenOK ==
  ASSUME IInv, NEW j \in Jobs, CopyOpen(j)
  PROVE  StepOK(j)
<1> USE JobsAssumption DEF CopyOpen
<1>1. TypeOK /\ HandlerOK(j)
  BY DEF IInv, HandlerInv
<1>2. TypeOK' /\ OthersStay(j)
  BY <1>1 DEF TypeOK, LeaseStates, OthersStay
<1>3. HandlerOK(j)'
  BY <1>1 DEF HandlerOK, TypeOK, Live, Unresolved, Stale
<1>4. /\ Occupies(j)' => Clean(j)
      /\ \A m \in Models : owner'[m] = j => m = ModelOf[j] /\ MayReserve(j)'
  BY <1>1, FreeIsClean DEF IInv, ReservationsEnd, MayReserve, Occupies, Stale, Live, Unresolved,
                               HandlerOK, TypeOK
<1>5. /\ remote'[j] = "sent" => Unresolved(j)'
      /\ status'[j] = "succeeded" => remote'[j] = "settled" /\ lease'[j] = "resolved"
  BY <1>1 DEF IInv, WritesAreCovered, SucceededIsSettled, HandlerOK, Live, Unresolved, Stale, TypeOK
<1> QED BY <1>2, <1>3, <1>4, <1>5 DEF StepOK

(* A settled attempt lets its model go. *)
LEMMA CopySettledOK ==
  ASSUME IInv, NEW j \in Jobs, CopySettled(j)
  PROVE  StepOK(j)
<1> USE JobsAssumption DEF CopySettled, Released
<1>1. TypeOK /\ HandlerOK(j)
  BY DEF IInv, HandlerInv
<1>2. TypeOK' /\ OthersStay(j)
  BY <1>1 DEF TypeOK, LeaseStates, OthersStay
<1>3. HandlerOK(j)'
  BY <1>1 DEF HandlerOK, TypeOK, Live, Unresolved, Stale
<1>4. /\ Occupies(j)' => Clean(j)
      /\ \A m \in Models : owner'[m] = j => m = ModelOf[j] /\ MayReserve(j)'
  BY <1>1, OccupantIsAlone DEF IInv, ReservationsEnd, MayReserve, Occupies, Stale, Live, Unresolved,
                               HandlerOK, TypeOK
<1>5. /\ remote'[j] = "sent" => Unresolved(j)'
      /\ status'[j] = "succeeded" => remote'[j] = "settled" /\ lease'[j] = "resolved"
  BY <1>1 DEF IInv, WritesAreCovered, SucceededIsSettled, HandlerOK, Live, Unresolved, Stale, TypeOK
<1> QED BY <1>2, <1>3, <1>4, <1>5 DEF StepOK

(* An attempt left open gives up its reservation and keeps its model. *)
LEMMA CopyLeftOK ==
  ASSUME IInv, NEW j \in Jobs, CopyLeft(j)
  PROVE  StepOK(j)
<1> USE JobsAssumption DEF CopyLeft, Released
<1>1. TypeOK /\ HandlerOK(j)
  BY DEF IInv, HandlerInv
<1>2. TypeOK' /\ OthersStay(j)
  BY <1>1 DEF TypeOK, LeaseStates, OthersStay
<1>3. HandlerOK(j)'
  BY <1>1 DEF HandlerOK, TypeOK, Live, Unresolved, Stale
<1>4. /\ Occupies(j)' => Clean(j)
      /\ \A m \in Models : owner'[m] = j => m = ModelOf[j] /\ MayReserve(j)'
  BY <1>1, OccupantIsAlone DEF IInv, ReservationsEnd, MayReserve, Occupies, Stale, Live, Unresolved,
                               HandlerOK, TypeOK
<1>5. /\ remote'[j] = "sent" => Unresolved(j)'
      /\ status'[j] = "succeeded" => remote'[j] = "settled" /\ lease'[j] = "resolved"
  BY <1>1 DEF IInv, WritesAreCovered, SucceededIsSettled, HandlerOK, Live, Unresolved, Stale, TypeOK
<1> QED BY <1>2, <1>3, <1>4, <1>5 DEF StepOK

(* A live attempt may lose its reservation: its lease keeps the model. *)
LEMMA CopyReleasedOK ==
  ASSUME IInv, NEW j \in Jobs, CopyReleased(j)
  PROVE  StepOK(j)
<1> USE JobsAssumption DEF CopyReleased, Released
<1>1. TypeOK /\ HandlerOK(j)
  BY DEF IInv, HandlerInv
<1>2. TypeOK' /\ OthersStay(j)
  BY <1>1 DEF TypeOK, LeaseStates, OthersStay
<1>3. HandlerOK(j)'
  BY <1>1 DEF HandlerOK, TypeOK, Live, Unresolved, Stale
<1>4. /\ Occupies(j)' => Clean(j)
      /\ \A m \in Models : owner'[m] = j => m = ModelOf[j] /\ MayReserve(j)'
  BY <1>1, OccupantIsAlone DEF IInv, ReservationsEnd, MayReserve, Occupies, Stale, Live, Unresolved,
                               HandlerOK, TypeOK
<1>5. /\ remote'[j] = "sent" => Unresolved(j)'
      /\ status'[j] = "succeeded" => remote'[j] = "settled" /\ lease'[j] = "resolved"
  BY <1>1 DEF IInv, WritesAreCovered, SucceededIsSettled, HandlerOK, Live, Unresolved, Stale, TypeOK
<1> QED BY <1>2, <1>3, <1>4, <1>5 DEF StepOK

(* An open attempt already occupies its model. *)
LEMMA CopyResumedOK ==
  ASSUME IInv, NEW j \in Jobs, CopyResumed(j)
  PROVE  StepOK(j)
<1> USE JobsAssumption DEF CopyResumed
<1>1. TypeOK /\ HandlerOK(j)
  BY DEF IInv, HandlerInv
<1>2. TypeOK' /\ OthersStay(j)
  BY <1>1 DEF TypeOK, LeaseStates, OthersStay
<1>3. HandlerOK(j)'
  BY <1>1 DEF HandlerOK, TypeOK, Live, Unresolved, Stale
<1>4. /\ Occupies(j)' => Clean(j)
      /\ \A m \in Models : owner'[m] = j => m = ModelOf[j] /\ MayReserve(j)'
  BY <1>1, OccupantIsAlone DEF IInv, ReservationsEnd, MayReserve, Occupies, Stale, Live, Unresolved,
                               HandlerOK, TypeOK
<1>5. /\ remote'[j] = "sent" => Unresolved(j)'
      /\ status'[j] = "succeeded" => remote'[j] = "settled" /\ lease'[j] = "resolved"
  BY <1>1 DEF IInv, WritesAreCovered, SucceededIsSettled, HandlerOK, Live, Unresolved, Stale, TypeOK
<1> QED BY <1>2, <1>3, <1>4, <1>5 DEF StepOK


-----------------------------------------------------------------------------
(* Reconciliation, adjudication, and the destination. *)
(* A reconciled refresh has ended at the destination. *)
LEMMA ReconciledOK ==
  ASSUME IInv, NEW j \in Jobs, Reconciled(j)
  PROVE  StepOK(j)
<1> USE JobsAssumption DEF Reconciled, Released
<1>1. TypeOK /\ HandlerOK(j)
  BY DEF IInv, HandlerInv
<1>2. TypeOK' /\ OthersStay(j)
  BY <1>1 DEF TypeOK, LeaseStates, OthersStay
<1>3. HandlerOK(j)'
  BY <1>1 DEF HandlerOK, TypeOK, Live, Unresolved, Stale
<1>4. /\ Occupies(j)' => Clean(j)
      /\ \A m \in Models : owner'[m] = j => m = ModelOf[j] /\ MayReserve(j)'
  BY <1>1, OccupantIsAlone DEF IInv, ReservationsEnd, MayReserve, Occupies, Stale, Live, Unresolved,
                               HandlerOK, TypeOK
<1>5. /\ remote'[j] = "sent" => Unresolved(j)'
      /\ status'[j] = "succeeded" => remote'[j] = "settled" /\ lease'[j] = "resolved"
  BY <1>1 DEF IInv, WritesAreCovered, SucceededIsSettled, HandlerOK, Live, Unresolved, Stale, TypeOK
<1> QED BY <1>2, <1>3, <1>4, <1>5 DEF StepOK

(* A reconciliation without an answer leaves the lease unresolved. *)
LEMMA StillUnclearOK ==
  ASSUME IInv, NEW j \in Jobs, StillUnclear(j)
  PROVE  StepOK(j)
<1> USE JobsAssumption DEF StillUnclear
<1>1. TypeOK /\ HandlerOK(j)
  BY DEF IInv, HandlerInv
<1>2. TypeOK' /\ OthersStay(j)
  BY <1>1 DEF TypeOK, LeaseStates, OthersStay
<1>3. HandlerOK(j)'
  BY <1>1 DEF HandlerOK, TypeOK, Live, Unresolved, Stale
<1>4. /\ Occupies(j)' => Clean(j)
      /\ \A m \in Models : owner'[m] = j => m = ModelOf[j] /\ MayReserve(j)'
  BY <1>1, OccupantIsAlone DEF IInv, ReservationsEnd, MayReserve, Occupies, Stale, Live, Unresolved,
                               HandlerOK, TypeOK
<1>5. /\ remote'[j] = "sent" => Unresolved(j)'
      /\ status'[j] = "succeeded" => remote'[j] = "settled" /\ lease'[j] = "resolved"
  BY <1>1 DEF IInv, WritesAreCovered, SucceededIsSettled, HandlerOK, Live, Unresolved, Stale, TypeOK
<1> QED BY <1>2, <1>3, <1>4, <1>5 DEF StepOK

(* The operator settles a write that is not on its way. *)
LEMMA AdjudicateOK ==
  ASSUME IInv, NEW j \in Jobs, Adjudicate(j)
  PROVE  StepOK(j)
<1> USE JobsAssumption DEF Adjudicate, Adjudicable, Released
<1>1. TypeOK /\ HandlerOK(j)
  BY DEF IInv, HandlerInv
<1>2. TypeOK' /\ OthersStay(j)
  BY <1>1 DEF TypeOK, LeaseStates, OthersStay
<1>3. HandlerOK(j)'
  BY <1>1 DEF HandlerOK, TypeOK, Live, Unresolved, Stale
<1>4. /\ Occupies(j)' => Clean(j)
      /\ \A m \in Models : owner'[m] = j => m = ModelOf[j] /\ MayReserve(j)'
  BY <1>1, OccupantIsAlone DEF IInv, ReservationsEnd, MayReserve, Occupies, Stale, Live, Unresolved,
                               HandlerOK, TypeOK
<1>5. /\ remote'[j] = "sent" => Unresolved(j)'
      /\ status'[j] = "succeeded" => remote'[j] = "settled" /\ lease'[j] = "resolved"
  BY <1>1 DEF IInv, WritesAreCovered, SucceededIsSettled, HandlerOK, Live, Unresolved, Stale, TypeOK
<1> QED BY <1>2, <1>3, <1>4, <1>5 DEF StepOK

(* The destination moves no lease. *)
LEMMA SettlesOK ==
  ASSUME IInv, NEW j \in Jobs, Settles(j)
  PROVE  StepOK(j)
<1> USE JobsAssumption DEF Settles
<1>1. TypeOK /\ HandlerOK(j)
  BY DEF IInv, HandlerInv
<1>2. TypeOK' /\ OthersStay(j)
  BY <1>1 DEF TypeOK, LeaseStates, OthersStay
<1>3. HandlerOK(j)'
  BY <1>1 DEF HandlerOK, TypeOK, Live, Unresolved, Stale
<1>4. /\ Occupies(j)' => Clean(j)
      /\ \A m \in Models : owner'[m] = j => m = ModelOf[j] /\ MayReserve(j)'
  BY <1>1, OccupantIsAlone DEF IInv, ReservationsEnd, MayReserve, Occupies, Stale, Live, Unresolved,
                               HandlerOK, TypeOK
<1>5. /\ remote'[j] = "sent" => Unresolved(j)'
      /\ status'[j] = "succeeded" => remote'[j] = "settled" /\ lease'[j] = "resolved"
  BY <1>1 DEF IInv, WritesAreCovered, SucceededIsSettled, HandlerOK, Live, Unresolved, Stale, TypeOK
<1> QED BY <1>2, <1>3, <1>4, <1>5 DEF StepOK

-----------------------------------------------------------------------------
(* The steps that move several jobs, and the invariant. *)

(* A step of one job. *)
JobStep(j) ==
  \/ Create(j) \/ CreateFails(j) \/ ModelJobStep(j)
  \/ RefreshStart(j) \/ RefreshStep(j) \/ Cancel(j)
  \/ CopyOpen(j) \/ CopyStep(j)
  \/ Reconciled(j) \/ StillUnclear(j) \/ Adjudicate(j) \/ Settles(j)

(* Every step of one job keeps what it owes to the others. *)
LEMMA JobStepOK ==
  ASSUME IInv, NEW j \in Jobs, JobStep(j)
  PROVE  StepOK(j)
<1>1. CASE Create(j) \/ CreateFails(j) \/ ModelJobStep(j)
  BY <1>1, CreateOK, CreateFailsOK, DispatchOK, StepFailsOK, SendOK, AnsweredOK, WriteLostOK,
     VerifiedOK DEF ModelJobStep
<1>2. CASE RefreshStart(j) \/ RefreshStep(j) \/ Cancel(j)
  BY <1>2, RefreshStartOK, SendOK, RefreshAcceptedOK, RefreshOverOK, RefreshLostOK, CancelOK
     DEF RefreshStep
<1>3. CASE CopyOpen(j) \/ CopyStep(j)
  BY <1>3, CopyOpenOK, SendOK, CopySettledOK, CopyLeftOK, CopyReleasedOK, CopyResumedOK
     DEF CopyStep
<1>4. CASE Reconciled(j) \/ StillUnclear(j) \/ Adjudicate(j) \/ Settles(j)
  BY <1>4, ReconciledOK, StillUnclearOK, AdjudicateOK, SettlesOK
<1> QED BY <1>1, <1>2, <1>3, <1>4 DEF JobStep

(* An unlock reserves again models of unresolved refreshes that no other job reserves, and
   ends the session of the polls. *)
LEMMA UnlockOK ==
  ASSUME IInv, Unlock
  PROVE  IInv'
<1>1. PICK found \in SUBSET {j \in Jobs : Reconcilable(j)} :
        /\ recon' = recon \cup found
        /\ owner' = [m \in Models |->
             IF \E j \in found : ModelOf[j] = m
               THEN CHOOSE j \in found : ModelOf[j] = m ELSE owner[m]]
  BY DEF Unlock
<1>2. /\ UNCHANGED <<status, lease, tracked, step, canceled, remote, reopened, restarts>>
      /\ pc' = [j \in Jobs |-> IF pc[j] = "poll" THEN "expired" ELSE pc[j]]
  BY DEF Unlock
<1>3. TypeOK /\ \A j \in Jobs : HandlerOK(j)
  BY DEF IInv, HandlerInv
<1>4. \A j \in Jobs : /\ Live(j)' = Live(j) /\ Unresolved(j)' = Unresolved(j)
                      /\ Stale(j)' = Stale(j) /\ Occupies(j)' = Occupies(j)
  BY <1>2, <1>3 DEF HandlerOK, TypeOK, Live, Unresolved, Stale, Occupies
<1>5. \A j \in found : /\ Unresolved(j) /\ j \in tracked /\ pc'[j] \in {"off", "expired"}
                       /\ owner[ModelOf[j]] \in {Nobody, j}
  BY <1>2, <1>3 DEF Reconcilable, HandlerOK, Live
<1>6. \A m \in Models : \/ owner'[m] = owner[m]
                        \/ /\ owner'[m] \in found /\ ModelOf[owner'[m]] = m
                           /\ owner[m] \in {Nobody, owner'[m]}
  BY <1>1, <1>5
<1>7. TypeOK'
  <2>1. owner' \in [Models -> Jobs \cup {Nobody}]
    BY <1>1, <1>3, <1>6 DEF TypeOK
  <2>2. pc' \in [Jobs -> {"off", "prove", "send", "wait", "poll", "expired"}]
    BY <1>2, <1>3 DEF TypeOK
  <2> QED BY <1>1, <1>2, <1>3, <2>1, <2>2 DEF TypeOK
<1>8. HandlerInv'
  <2> SUFFICES ASSUME NEW i \in Jobs
               PROVE  HandlerOK(i)'
    BY DEF HandlerInv
  <2>1. owner[ModelOf[i]] = i => owner'[ModelOf[i]] = i
    BY <1>6, JobsAssumption
  <2>2. i \in recon' => Unresolved(i) /\ pc'[i] \in {"off", "expired"} /\ i \in tracked
    BY <1>1, <1>2, <1>3, <1>5 DEF HandlerOK
  <2>3. \/ pc'[i] = pc[i] /\ pc[i] # "poll"
        \/ pc[i] = "poll" /\ pc'[i] = "expired"
    BY <1>2
  <2> QED BY <1>2, <1>3, <1>4, <2>1, <2>2, <2>3 DEF HandlerOK
<1>9. ReservationsEnd'
  <2> SUFFICES ASSUME NEW m \in Models, owner'[m] # Nobody
               PROVE  ModelOf[owner'[m]] = m /\ MayReserve(owner[m])'
    BY DEF ReservationsEnd, MayReserve
  <2>1. owner'[m] \in Jobs /\ ModelOf[owner'[m]] = m /\ MayReserve(owner'[m])
    BY <1>3, <1>5, <1>6 DEF ReservationsEnd, IInv, MayReserve, TypeOK
  <2>2. ASSUME NEW j \in Jobs, MayReserve(j)
        PROVE  MayReserve(j)'
    BY <1>4, <2>2 DEF MayReserve
  <2> QED BY <2>1, <2>2 DEF MayReserve, Live, Unresolved
<1>10. SucceededIsSettled' /\ WritesAreCovered'
  BY <1>2, <1>4 DEF IInv, WritesAreCovered, SucceededIsSettled
<1>11. OccupiesAlone' /\ OneUnresolvedPerModel'
  BY <1>2, <1>4 DEF IInv, OccupiesAlone, OneUnresolvedPerModel
<1> QED BY <1>7, <1>8, <1>9, <1>10, <1>11 DEF IInv

(* A restart stops every handler and keeps as unresolved what was unresolved. *)
LEMMA RestartOK ==
  ASSUME IInv, Restart
  PROVE  IInv'
<1>1. TypeOK /\ \A j \in Jobs : HandlerOK(j)
  BY DEF IInv, HandlerInv
<1>2. \A j \in Jobs : /\ ~ Live(j)' /\ ~ Stale(j)' /\ Unresolved(j)' = Unresolved(j)
                      /\ Occupies(j)' => Occupies(j)
  BY <1>1 DEF Restart, RecoveredLease, Live, Stale, Unresolved, Occupies, TypeOK, LeaseStates
<1>3. TypeOK'
  <2>1. \A j \in Jobs : RecoveredLease(j) \in LeaseStates
    BY <1>1 DEF RecoveredLease, TypeOK, LeaseStates
  <2>2. lease' \in [Jobs -> LeaseStates]
    BY <2>1 DEF Restart
  <2>3. status' \in [Jobs -> {"none", "running", "succeeded", "partial", "failed", "canceled"}]
    BY <1>1 DEF Restart, TypeOK
  <2>4. restarts' \in 0..MaxRestarts
    BY <1>1, BoundsAssumption DEF Restart, TypeOK
  <2>5. /\ owner' \in [Models -> Jobs \cup {Nobody}]
        /\ pc' \in [Jobs -> {"off", "prove", "send", "wait", "poll", "expired"}]
        /\ canceled' \subseteq Jobs /\ recon' \subseteq Jobs
        /\ UNCHANGED <<tracked, step, remote, reopened>>
    BY DEF Restart
  <2> QED BY <1>1, <2>2, <2>3, <2>4, <2>5 DEF TypeOK
<1>4. HandlerInv'
  BY <1>1, <1>2 DEF HandlerInv, HandlerOK, Restart, RecoveredLease, Live, Stale, Unresolved
<1>5. ReservationsEnd'
  BY DEF ReservationsEnd, Restart
<1>6. SucceededIsSettled'
  BY <1>1 DEF SucceededIsSettled, IInv, Restart, RecoveredLease
<1> QED BY <1>2, <1>3, <1>4, <1>5, <1>6
        DEF IInv, OccupiesAlone, OneUnresolvedPerModel, WritesAreCovered, Restart

(* The next-state relation, by who moves. *)
LEMMA NextIsStep ==
  ASSUME Next
  PROVE  (\E j \in Jobs : JobStep(j)) \/ Unlock \/ Restart
BY DEF Next, JobStep

(* The invariant holds of the whole protocol, for any jobs and models, with an unlock at
   any time. *)
THEOREM Invariance ==
  Spec => []IInv
<1>1. Init => IInv
  BY JobsAssumption, BoundsAssumption
     DEF Init, IInv, TypeOK, LeaseStates, HandlerInv, HandlerOK, OccupiesAlone, OneUnresolvedPerModel,
         WritesAreCovered, ReservationsEnd, SucceededIsSettled, Occupies, Stale, Live,
         Unresolved
<1>2. IInv /\ [Next]_vars => IInv'
  <2> SUFFICES ASSUME IInv, [Next]_vars
               PROVE  IInv'
    OBVIOUS
  <2>1. CASE \E j \in Jobs : JobStep(j)
    BY <2>1, JobStepOK, LocalStep
  <2>2. CASE Unlock
    BY <2>2, UnlockOK
  <2>3. CASE Restart
    BY <2>3, RestartOK
  <2>4. CASE UNCHANGED vars
    BY <2>4 DEF vars, IInv, TypeOK, HandlerInv, HandlerOK, OccupiesAlone, OneUnresolvedPerModel,
                WritesAreCovered, ReservationsEnd, SucceededIsSettled, Occupies, Stale, Live,
         Unresolved
  <2> QED BY <2>1, <2>2, <2>3, <2>4, NextIsStep
<1> QED BY <1>1, <1>2, PTL DEF Spec

-----------------------------------------------------------------------------
(* What follows. *)

(* The variables of the lease protocol keep their types. *)
THEOREM LeaseTypeCorrect ==
  Spec => []TypeOK
<1>1. IInv => TypeOK
  BY DEF IInv
<1> QED BY <1>1, Invariance, PTL

(* Two jobs of any kinds never both have an unresolved write on a model, save one that an old
   poll opened again, and that has nothing on its way. *)
THEOREM OneUnresolvedWrite ==
  Spec => []OneUnresolvedPerModel
<1>1. IInv => OneUnresolvedPerModel
  BY DEF IInv
<1> QED BY <1>1, Invariance, PTL

(* A write that is on its way is unresolved in the ledger. *)
THEOREM WritesCovered ==
  Spec => []WritesAreCovered
<1>1. IInv => WritesAreCovered
  BY DEF IInv
<1> QED BY <1>1, Invariance, PTL

(* A model is reserved only for a job that runs or has a write to settle. *)
THEOREM ReservationsComeBack ==
  Spec => []ReservationsEnd
<1>1. IInv => ReservationsEnd
  BY DEF IInv
<1> QED BY <1>1, Invariance, PTL

(* Success is reported of a write that has taken effect. *)
THEOREM SuccessIsSettled ==
  Spec => []SucceededIsSettled
<1>1. IInv => SucceededIsSettled
  BY DEF IInv
<1> QED BY <1>1, Invariance, PTL

(* The outcome of a write of a job that ended is decided once, save by a poll that outlived
   its session: whoever else runs, is reconciled or is adjudicated has an unresolved lease. *)
THEOREM SettledForGood ==
  Spec => OnlyOldPollsReopen
<1> DEFINE Final(j) == lease[j] \in {"resolved", "failed_prewrite"} /\ status[j] # "running"
                         => \/ lease'[j] = lease[j]
                            \/ pc[j] = "expired" /\ j \in tracked /\ remote[j] = "settled"
<1>1. ASSUME IInv, NEW j \in Jobs, JobStep(j)
      PROVE  \A i \in Jobs : Final(i)
  <2>1. \A i \in Jobs \ {j} : Final(i)
    BY <1>1, JobStepOK DEF StepOK, OthersStay
  <2>2. TypeOK /\ HandlerOK(j)
    BY <1>1 DEF IInv, HandlerInv
  <2>3. Final(j)
    <3> USE JobsAssumption, <2>2 DEF HandlerOK, TypeOK, Live, Stale, Unresolved
    <3>1. CASE Create(j) \/ CreateFails(j) \/ ModelJobStep(j)
      BY <3>1 DEF Create, CreateFails, Creatable, ModelJobStep, Dispatch, StepFails, Send, Answered,
                  WriteLost, Verified, Ends
    <3>2. CASE RefreshStart(j) \/ RefreshStep(j) \/ Cancel(j)
      BY <3>2 DEF RefreshStart, RefreshStep, Send, RefreshAccepted, RefreshOver, RefreshLost,
                  Ends, Cancel
    <3>3. CASE CopyOpen(j) \/ CopyStep(j)
      BY <3>3 DEF CopyOpen, CopyStep, Send, CopySettled, CopyLeft, CopyReleased, CopyResumed
    <3>4. CASE Reconciled(j) \/ StillUnclear(j) \/ Adjudicate(j) \/ Settles(j)
      BY <3>4 DEF Reconciled, StillUnclear, Adjudicate, Adjudicable, Settles
    <3> QED BY <1>1, <3>1, <3>2, <3>3, <3>4 DEF JobStep
  <2> QED BY <2>1, <2>3
<1>2. IInv /\ [Next]_vars => [\A j \in Jobs : Final(j)]_vars
  <2> SUFFICES ASSUME IInv, Next
               PROVE  \A j \in Jobs : Final(j)
    OBVIOUS
  <2>1. CASE \E j \in Jobs : JobStep(j)
    BY <1>1, <2>1
  <2>2. CASE Unlock
    BY <2>2 DEF Unlock
  <2>3. CASE Restart
    BY <2>3 DEF Restart, RecoveredLease
  <2> QED BY <2>1, <2>2, <2>3, NextIsStep
<1> QED BY <1>2, Invariance, PTL DEF Spec, OnlyOldPollsReopen
=============================================================================
