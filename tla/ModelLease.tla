----------------------------- MODULE ModelLease -----------------------------
(***************************************************************************)
(* Who may write to a destination model: the branch-preparation jobs, the  *)
(* tracked schema refreshes and the write attempts of safe-copy jobs share *)
(* it through two records. The lease of a job is durable and survives a    *)
(* restart; the reservation of a model (scopeOwners) lives in the memory   *)
(* of the process. A write whose outcome is not known keeps its model      *)
(* blocked until a reconciliation or the operator settles it.              *)
(*                                                                         *)
(* Every action is one synchronous stretch of a handler. A job store that  *)
(* fails, and the validation of scratch branches, which does not count as  *)
(* an owner of the model, are left out.                                    *)
(***************************************************************************)
EXTENDS Naturals, FiniteSets

CONSTANTS
  ModelJobs,     \* branch preparations: create a branch, write its YAML, verify it
  RefreshJobs,   \* schema refreshes: one request, and a remote job to poll
  CopyJobs,      \* safe-copy attempts (SafeCopy models their own ledger)
  Models,
  ModelOf,       \* [Jobs -> Models]
  MaxRestarts,   \* bound: restarts of the server in a behaviour
  Nobody

Jobs == ModelJobs \cup RefreshJobs \cup CopyJobs

ASSUME JobsAssumption ==
  /\ ModelJobs \cap RefreshJobs = {} /\ ModelJobs \cap CopyJobs = {}
  /\ RefreshJobs \cap CopyJobs = {} /\ Nobody \notin Jobs
  /\ ModelOf \in [Jobs -> Models]
ASSUME BoundsAssumption == MaxRestarts \in Nat

VARIABLES
  status,    \* job.status; "none" until the job is created
  lease,     \* the state of the job's lease, or of its safe-copy attempt
  tracked,   \* the leases with the id of the remote job
  owner,     \* scopeOwners
  pc,        \* where the handler of the job is; "off" when none runs
  step,      \* the item of a branch preparation: 1, 2 the writes, 3 the verification
  canceled,  \* canceledJobs
  recon,     \* activeSchemaRefreshReconciliations
  remote,    \* the last request of the job, as the destination sees it
  reopened,  \* history: the refreshes whose lease was settled, and opened again
  restarts

vars == <<status, lease, tracked, owner, pc, step, canceled, recon, remote, reopened, restarts>>

LeaseStates ==
  {"none", "claimed", "dispatched", "remote_pending", "uncertain", "resolved", "failed_prewrite"}

Live(j) == pc[j] # "off"

\* A poll that is over, though its handler does not know: the lease is settled already.
Stale(j) == pc[j] = "expired" /\ lease[j] = "resolved"

Unresolved(j) == lease[j] \in {"dispatched", "remote_pending", "uncertain"}

\* (Mutant: what a restart left uncertain is not looked at.)
FreeOfRunningWrites(j) ==
  \A i \in Jobs \ {j} :
    lease[i] \in {"dispatched", "remote_pending"} => ModelOf[i] # ModelOf[j]

\* hasUnresolvedMigrationDestinationModelMutation: the other jobs leave the model alone.
FreeOfWrites(j) == \A i \in Jobs \ {j} : Unresolved(i) => ModelOf[i] # ModelOf[j]

\* releaseMigrationDestinationModels: only the owner lets go.
Released(j) == [m \in Models |-> IF owner[m] = j THEN Nobody ELSE owner[m]]

\* The handler ends: the status it persists, unless the job was canceled.
Ends(j, end) ==
  /\ status' = [status EXCEPT ![j] = IF j \in ModelJobs \cap canceled THEN "canceled" ELSE end]
  /\ pc' = [pc EXCEPT ![j] = "off"]
  /\ canceled' = canceled \ (ModelJobs \cap {j})

-----------------------------------------------------------------------------
(* createModelMigrationJob and runMigrationJob. *)

Creatable(j) == j \in ModelJobs /\ status[j] = "none" /\ FreeOfWrites(j)

\* Reserve the model, claim the lease, run up to the first await.
Create(j) ==
  /\ Creatable(j)
  /\ owner[ModelOf[j]] = Nobody
  /\ status' = [status EXCEPT ![j] = "running"]
  /\ lease' = [lease EXCEPT ![j] = "claimed"]
  /\ owner' = [owner EXCEPT ![ModelOf[j]] = j]
  /\ pc' = [pc EXCEPT ![j] = "prove"]
  /\ step' = [step EXCEPT ![j] = 1]
  /\ UNCHANGED <<tracked, canceled, recon, remote, reopened, restarts>>

\* The model is reserved by another job, or an authority is gone.
CreateFails(j) ==
  /\ Creatable(j)
  /\ status' = [status EXCEPT ![j] = "failed"]
  /\ \/ UNCHANGED lease
     \/ owner[ModelOf[j]] = Nobody /\ lease' = [lease EXCEPT ![j] = "failed_prewrite"]
  /\ UNCHANGED <<tracked, owner, pc, step, canceled, recon, remote, reopened, restarts>>

\* The proofs before a write hold: the lease is dispatched before the request is queued.
Dispatch(j) ==
  /\ pc[j] = "prove" /\ step[j] \in {1, 2}
  /\ j \notin canceled
  /\ lease[j] \in {"claimed", "resolved"}
  /\ lease' = [lease EXCEPT ![j] = "dispatched"]
  /\ pc' = [pc EXCEPT ![j] = "send"]
  /\ UNCHANGED <<status, tracked, owner, step, canceled, recon, remote, reopened, restarts>>

\* (Mutant: a job that fails after its first write is left as it is.)
StepFailsBeforeAnyWrite(j) ==
  /\ pc[j] = "prove"
  /\ lease[j] = "claimed"
  /\ lease' = [lease EXCEPT ![j] = "failed_prewrite"]
  /\ owner' = Released(j)
  /\ \E end \in {"partial", "failed"} : Ends(j, end)
  /\ UNCHANGED <<tracked, step, recon, remote, reopened, restarts>>

\* A proof fails, or the job was canceled: no write is on its way.
StepFails(j) ==
  /\ pc[j] = "prove"
  /\ lease' = [lease EXCEPT ![j] = IF @ = "claimed" THEN "failed_prewrite" ELSE @]
  /\ owner' = Released(j)
  /\ \E end \in {"partial", "failed"} : Ends(j, end)
  /\ UNCHANGED <<tracked, step, recon, remote, reopened, restarts>>

\* The request has its slot and its write guard agrees.
Send(j) ==
  /\ pc[j] = "send"
  /\ j \in ModelJobs => (status[j] = "running" /\ j \notin canceled)
  /\ remote' = [remote EXCEPT ![j] = "sent"]
  /\ pc' = [pc EXCEPT ![j] = "wait"]
  /\ UNCHANGED <<status, lease, tracked, owner, step, canceled, recon, reopened, restarts>>

\* A write of a branch preparation is answered.
Answered(j) ==
  /\ j \in ModelJobs /\ pc[j] = "wait" /\ remote[j] = "settled"
  /\ lease' = [lease EXCEPT ![j] = "resolved"]
  /\ IF j \in canceled
       THEN Ends(j, "canceled") /\ owner' = Released(j) /\ UNCHANGED step
       ELSE /\ step' = [step EXCEPT ![j] = @ + 1]
            /\ pc' = [pc EXCEPT ![j] = "prove"]
            /\ UNCHANGED <<status, owner, canceled>>
  /\ UNCHANGED <<tracked, recon, remote, reopened, restarts>>

\* (Mutant: an error of the request counts as an outcome.)
ErrorResolves(j) ==
  /\ j \in ModelJobs /\ pc[j] \in {"send", "wait"}
  /\ lease' = [lease EXCEPT ![j] = "resolved"]
  /\ owner' = Released(j)
  /\ Ends(j, "partial")
  /\ UNCHANGED <<tracked, step, recon, remote, reopened, restarts>>

\* The guard stops the request, or no usable answer comes: the model stays reserved.
WriteLost(j) ==
  /\ j \in ModelJobs /\ pc[j] \in {"send", "wait"}
  /\ lease' = [lease EXCEPT ![j] = "uncertain"]
  /\ Ends(j, "partial")
  /\ UNCHANGED <<tracked, owner, step, recon, remote, reopened, restarts>>

\* The branch is what the plan approved.
Verified(j) ==
  /\ pc[j] = "prove" /\ step[j] = 3 /\ j \notin canceled
  /\ owner' = Released(j)
  /\ Ends(j, "succeeded")
  /\ UNCHANGED <<lease, tracked, step, recon, remote, reopened, restarts>>

ModelJobStep(j) ==
  \/ Dispatch(j) \/ StepFails(j) \/ (j \in ModelJobs /\ Send(j))
  \/ Answered(j) \/ WriteLost(j) \/ Verified(j)

-----------------------------------------------------------------------------
(* runTrackedSchemaRefresh. *)

RefreshStart(j) ==
  /\ j \in RefreshJobs /\ status[j] = "none"
  /\ FreeOfWrites(j)
  /\ owner[ModelOf[j]] = Nobody
  /\ status' = [status EXCEPT ![j] = "running"]
  /\ lease' = [lease EXCEPT ![j] = "dispatched"]
  /\ owner' = [owner EXCEPT ![ModelOf[j]] = j]
  /\ pc' = [pc EXCEPT ![j] = "send"]
  /\ UNCHANGED <<tracked, step, canceled, recon, remote, reopened, restarts>>

\* The refresh is accepted with the id of a remote job.
RefreshAccepted(j) ==
  /\ j \in RefreshJobs /\ pc[j] = "wait"
  /\ lease' = [lease EXCEPT ![j] = "remote_pending"]
  /\ tracked' = tracked \cup {j}
  /\ pc' = [pc EXCEPT ![j] = "poll"]
  /\ UNCHANGED <<status, owner, step, canceled, recon, remote, reopened, restarts>>

\* (Mutant: the end of the polling is taken for the end of the remote job.)
RefreshPolled(j) ==
  /\ j \in RefreshJobs /\ pc[j] \in {"wait", "poll"}
  /\ lease' = [lease EXCEPT ![j] = "resolved"]
  /\ owner' = Released(j)
  /\ \E end \in {"succeeded", "failed"} : Ends(j, end)
  /\ UNCHANGED <<tracked, step, recon, remote, reopened, restarts>>

\* The first answer, or a poll, says that the refresh is over.
RefreshOver(j) ==
  /\ j \in RefreshJobs /\ pc[j] \in {"wait", "poll"} /\ remote[j] = "settled"
  /\ lease' = [lease EXCEPT ![j] = "resolved"]
  /\ owner' = Released(j)
  /\ \E end \in {"succeeded", "failed"} : Ends(j, end)
  /\ UNCHANGED <<tracked, step, recon, remote, reopened, restarts>>

\* No answer, an answer without an id, 120 polls without an end, or a session of the
\* vault that is over. The lease is written whatever it says by now.
RefreshLost(j) ==
  /\ j \in RefreshJobs /\ Live(j)
  /\ lease' = [lease EXCEPT ![j] = "uncertain"]
  /\ reopened' = IF Stale(j) THEN reopened \cup {j} ELSE reopened
  /\ Ends(j, "failed")
  /\ UNCHANGED <<tracked, owner, step, recon, remote, restarts>>

RefreshStep(j) ==
  \/ (j \in RefreshJobs /\ Send(j))
  \/ RefreshAccepted(j) \/ RefreshOver(j) \/ RefreshLost(j)

\* cancelMigrationJob: a running branch preparation looks at canceledJobs; a refresh is
\* not in runningJobs, and is marked at once.
Cancel(j) ==
  /\ j \in ModelJobs \cup RefreshJobs
  /\ status[j] = "running"
  /\ canceled' = canceled \cup {j}
  /\ status' = [status EXCEPT ![j] = IF j \in RefreshJobs THEN "canceled" ELSE @]
  /\ UNCHANGED <<lease, tracked, owner, pc, step, recon, remote, reopened, restarts>>

-----------------------------------------------------------------------------
(* A write attempt of a safe-copy job, as it meets the other jobs. *)

\* persistAttempt: the durable check, the reservation, the dispatched attempt.
CopyOpen(j) ==
  /\ j \in CopyJobs /\ lease[j] = "none"
  /\ FreeOfWrites(j)
  /\ owner[ModelOf[j]] = Nobody
  /\ lease' = [lease EXCEPT ![j] = "dispatched"]
  /\ owner' = [owner EXCEPT ![ModelOf[j]] = j]
  /\ pc' = [pc EXCEPT ![j] = "send"]
  /\ UNCHANGED <<status, tracked, step, canceled, recon, remote, reopened, restarts>>

\* The attempt is verified, or is known not to have written.
CopySettled(j) ==
  /\ j \in CopyJobs
  /\ pc[j] = "send" \/ (pc[j] = "wait" /\ remote[j] = "settled")
  /\ lease' = [lease EXCEPT ![j] = IF pc[j] = "send" THEN "failed_prewrite" ELSE "resolved"]
  /\ owner' = Released(j)
  /\ pc' = [pc EXCEPT ![j] = "off"]
  /\ UNCHANGED <<status, tracked, step, canceled, recon, remote, reopened, restarts>>

\* The run or the retry ends with the attempt open: it lets go of every model of its job.
CopyLeft(j) ==
  /\ j \in CopyJobs /\ Live(j)
  /\ lease' \in {lease, [lease EXCEPT ![j] = "uncertain"]}
  /\ owner' = Released(j)
  /\ pc' = [pc EXCEPT ![j] = "off"]
  /\ UNCHANGED <<status, tracked, step, canceled, recon, remote, reopened, restarts>>

\* Another run or retry of the job ends: its release by prefix takes this reservation too.
CopyReleased(j) ==
  /\ j \in CopyJobs /\ Live(j)
  /\ owner' = Released(j)
  /\ UNCHANGED <<status, lease, tracked, pc, step, canceled, recon, remote, reopened, restarts>>

\* A retry finds the copy of an open attempt; only a dispatched one is reserved again.
CopyResumed(j) ==
  /\ j \in CopyJobs /\ ~ Live(j) /\ Unresolved(j) /\ remote[j] = "settled"
  /\ IF lease[j] = "dispatched"
       THEN FreeOfWrites(j) /\ owner[ModelOf[j]] = Nobody
            /\ owner' = [owner EXCEPT ![ModelOf[j]] = j]
       ELSE UNCHANGED owner
  /\ pc' = [pc EXCEPT ![j] = "wait"]
  /\ UNCHANGED <<status, lease, tracked, step, canceled, recon, remote, reopened, restarts>>

CopyStep(j) ==
  j \in CopyJobs /\ (Send(j) \/ CopySettled(j) \/ CopyLeft(j) \/ CopyReleased(j) \/ CopyResumed(j))

-----------------------------------------------------------------------------
(* What settles an uncertain lease. *)

Reconcilable(j) ==
  j \in tracked /\ Unresolved(j) /\ j \notin recon /\ owner[ModelOf[j]] \in {Nobody, j}

\* The vault is unlocked, also while a refresh polls; this ends the session that the live
\* clients belong to. resumeDestinationModelMutationReconciliation.
Unlock ==
  /\ \E found \in SUBSET {j \in Jobs : Reconcilable(j)} :
       /\ found # {}
       /\ \A j \in Jobs : Reconcilable(j) => \E i \in found : ModelOf[i] = ModelOf[j]
       /\ \A i, j \in found : ModelOf[i] = ModelOf[j] => i = j
       /\ recon' = recon \cup found
       /\ owner' = [m \in Models |->
            IF \E j \in found : ModelOf[j] = m
              THEN CHOOSE j \in found : ModelOf[j] = m ELSE owner[m]]
  /\ pc' = [j \in Jobs |-> IF pc[j] = "poll" THEN "expired" ELSE pc[j]]
  /\ UNCHANGED <<status, lease, tracked, step, canceled, remote, reopened, restarts>>

\* The remote job is over.
Reconciled(j) ==
  /\ j \in recon /\ remote[j] = "settled"
  /\ lease' = [lease EXCEPT ![j] = "resolved"]
  /\ \E end \in {"succeeded", "failed"} : status' = [status EXCEPT ![j] = end]
  /\ owner' = Released(j)
  /\ recon' = recon \ {j}
  /\ UNCHANGED <<tracked, pc, step, canceled, remote, reopened, restarts>>

\* A read fails, or the polls end: the reservation is kept.
StillUnclear(j) ==
  /\ j \in recon
  /\ lease' = [lease EXCEPT ![j] = "uncertain"]
  /\ recon' = recon \ {j}
  /\ UNCHANGED <<status, tracked, owner, pc, step, canceled, remote, reopened, restarts>>

\* The operator looks at the destination, where no operation is in flight. The job is at
\* its end: a refresh is not in runningJobs, but its item is running while its handler is.
Adjudicable(j) ==
  /\ j \in ModelJobs \cup RefreshJobs
  /\ status[j] \in {"succeeded", "partial", "failed", "canceled"}
  /\ ~ Live(j)
  /\ lease[j] = "uncertain"
  /\ remote[j] # "sent"

\* (Mutant: an automatic reconciliation is not waited for.)
AdjudicateAnyTime(j) ==
  /\ Adjudicable(j)
  /\ lease' = [lease EXCEPT ![j] = "resolved"]
  /\ owner' = Released(j)
  /\ UNCHANGED <<status, tracked, pc, step, canceled, recon, remote, reopened, restarts>>

\* (Mutant: the model stays reserved.)
AdjudicateKeeping(j) ==
  /\ Adjudicable(j) /\ j \notin recon
  /\ lease' = [lease EXCEPT ![j] = "resolved"]
  /\ UNCHANGED <<status, tracked, owner, pc, step, canceled, recon, remote, reopened, restarts>>

\* adjudicateDestinationModelMutation
Adjudicate(j) ==
  /\ Adjudicable(j) /\ j \notin recon
  /\ lease' = [lease EXCEPT ![j] = "resolved"]
  /\ owner' = Released(j)
  /\ UNCHANGED <<status, tracked, pc, step, canceled, recon, remote, reopened, restarts>>

-----------------------------------------------------------------------------
(* The destination, and the restart of the server. *)

Settles(j) ==
  /\ remote[j] = "sent"
  /\ remote' = [remote EXCEPT ![j] = "settled"]
  /\ UNCHANGED <<status, lease, tracked, owner, pc, step, canceled, recon, reopened, restarts>>

\* (Mutant: a dispatched write is taken for one that was not sent.)
RecoveredUnsent(j) ==
  CASE lease[j] \in {"claimed", "dispatched"} -> "failed_prewrite"
    [] lease[j] = "remote_pending" -> "uncertain"
    [] OTHER -> lease[j]

RecoveredLease(j) ==
  CASE lease[j] = "claimed" -> "failed_prewrite"
    [] lease[j] \in {"dispatched", "remote_pending"} -> "uncertain"
    [] OTHER -> lease[j]

\* recoverInterruptedJobs; the reservations and the handlers are gone.
Restart ==
  /\ restarts < MaxRestarts
  /\ restarts' = restarts + 1
  /\ lease' = [j \in Jobs |-> RecoveredLease(j)]
  /\ status' = [j \in Jobs |->
       IF status[j] = "running"
            \/ (status[j] # "none" /\ lease[j] \in {"dispatched", "remote_pending"})
         THEN "failed" ELSE status[j]]
  /\ owner' = [m \in Models |-> Nobody]
  /\ pc' = [j \in Jobs |-> "off"]
  /\ canceled' = {}
  /\ recon' = {}
  /\ UNCHANGED <<tracked, step, remote, reopened>>

-----------------------------------------------------------------------------
Init ==
  /\ status = [j \in Jobs |-> "none"]
  /\ lease = [j \in Jobs |-> "none"]
  /\ tracked = {}
  /\ owner = [m \in Models |-> Nobody]
  /\ pc = [j \in Jobs |-> "off"]
  /\ step = [j \in Jobs |-> 1]
  /\ canceled = {}
  /\ recon = {}
  /\ remote = [j \in Jobs |-> "idle"]
  /\ reopened = {}
  /\ restarts = 0

Next ==
  \/ \E j \in Jobs :
       \/ Create(j) \/ CreateFails(j) \/ ModelJobStep(j)
       \/ RefreshStart(j) \/ RefreshStep(j) \/ Cancel(j)
       \/ CopyOpen(j) \/ CopyStep(j)
       \/ Reconciled(j) \/ StillUnclear(j) \/ Adjudicate(j) \/ Settles(j)
  \/ Unlock \/ Restart

Spec == Init /\ [][Next]_vars

\* Requests and polls end, with an answer or at their deadline, and their handlers go on.
Fairness ==
  \A j \in Jobs :
    /\ WF_vars(ModelJobStep(j)) /\ WF_vars(RefreshStep(j))
    /\ WF_vars(Reconciled(j) \/ StillUnclear(j))

FairSpec == Spec /\ Fairness

-----------------------------------------------------------------------------
(* Properties. *)

TypeOK ==
  /\ status \in [Jobs -> {"none", "running", "succeeded", "partial", "failed", "canceled"}]
  /\ lease \in [Jobs -> LeaseStates]
  /\ tracked \subseteq Jobs
  /\ owner \in [Models -> Jobs \cup {Nobody}]
  /\ pc \in [Jobs -> {"off", "prove", "send", "wait", "poll", "expired"}]
  /\ step \in [Jobs -> 1..3]
  /\ canceled \subseteq Jobs
  /\ recon \subseteq Jobs
  /\ remote \in [Jobs -> {"idle", "sent", "settled"}]
  /\ reopened \subseteq RefreshJobs
  /\ restarts \in 0..MaxRestarts

\* Two jobs never both have an unresolved write on a model, of whatever kinds, across
\* restarts, cancellations and reconciliations. A lease that an old poll opened again is the
\* exception, and nothing of it is on its way.
OneUnresolvedPerModel ==
  /\ \A i, j \in Jobs \ reopened :
       Unresolved(i) /\ Unresolved(j) /\ ModelOf[i] = ModelOf[j] => i = j
  /\ \A j \in reopened : remote[j] = "settled"

\* A write that may still take effect is in the ledger as unresolved, so that no job, no
\* reset and no restart takes its model for free.
WritesAreCovered == \A j \in Jobs : remote[j] = "sent" => Unresolved(j)

\* A reserved model is released: its owner still runs, is being reconciled, or has a write
\* to settle.
ReservationsEnd ==
  \A m \in Models : owner[m] # Nobody =>
    ModelOf[owner[m]] = m /\ (Live(owner[m]) \/ Unresolved(owner[m]))

\* A job is reported as succeeded only when what it wrote has taken effect.
SucceededIsSettled ==
  \A j \in Jobs : status[j] = "succeeded" => remote[j] = "settled" /\ lease[j] = "resolved"

\* The outcome of a write of a job that ended is decided once: no late answer and no other
\* reconciliation opens the lease again.
SettledLeaseIsFinal ==
  [][\A j \in Jobs :
       lease[j] \in {"resolved", "failed_prewrite"} /\ status[j] # "running"
         => lease'[j] = lease[j]]_vars

\* It is opened again by nothing but a poll that outlived its session, of a refresh that
\* another session found to be over.
OnlyOldPollsReopen ==
  [][\A j \in Jobs :
       lease[j] \in {"resolved", "failed_prewrite"} /\ status[j] # "running"
         => \/ lease'[j] = lease[j]
            \/ pc[j] = "expired" /\ j \in tracked /\ remote[j] = "settled"]_vars

\* What the handler of a job relies on between its awaits.
HandlerOK(j) ==
  /\ Live(j) /\ ~ Stale(j) /\ j \notin CopyJobs => owner[ModelOf[j]] = j
  /\ Live(j) /\ j \in ModelJobs => status[j] = "running"
  /\ Live(j) /\ j \in RefreshJobs => Unresolved(j) \/ Stale(j)
  /\ j \in CopyJobs => status[j] = "none"
  /\ status[j] = "none" /\ j \notin CopyJobs => lease[j] = "none"
  /\ status[j] = "succeeded" => ~ Live(j) \/ Stale(j)
  /\ lease[j] = "none" => ~ Live(j) /\ remote[j] = "idle" /\ j \notin tracked
  /\ lease[j] = "claimed" => pc[j] = "prove"
  /\ pc[j] = "prove" => j \in ModelJobs /\ lease[j] \in {"claimed", "resolved"}
  /\ pc[j] = "prove" /\ step[j] > 1 => lease[j] = "resolved" /\ remote[j] = "settled"
  /\ pc[j] \in {"send", "wait", "poll"} => Unresolved(j)
  /\ pc[j] \in {"send", "wait"} /\ j \in ModelJobs => step[j] < 3
  /\ pc[j] \in {"prove", "send"} => remote[j] # "sent"
  /\ pc[j] \in {"poll", "expired"} => j \in RefreshJobs /\ j \in tracked
  /\ Stale(j) => remote[j] = "settled" /\ status[j] # "running"
  /\ j \in tracked /\ Live(j) => pc[j] \in {"poll", "expired"}
  /\ j \in tracked => j \in RefreshJobs
  /\ j \in recon => Unresolved(j) /\ pc[j] \in {"off", "expired"} /\ j \in tracked
  /\ j \in reopened => /\ ~ Live(j) /\ j \in tracked /\ remote[j] = "settled"
                       /\ lease[j] \in {"uncertain", "resolved"}

HandlerInv == \A j \in Jobs : HandlerOK(j)

\* The job occupies its model: it runs, or its lease is not settled.
Occupies(j) == j \notin reopened /\ ((Live(j) /\ ~ Stale(j)) \/ Unresolved(j))

\* Who occupies a model is alone with it.
OccupiesAlone ==
  \A i, j \in Jobs : Occupies(i) /\ Occupies(j) /\ ModelOf[i] = ModelOf[j] => i = j

\* The inductive invariant behind the properties above.
IInv ==
  /\ TypeOK
  /\ HandlerInv
  /\ OccupiesAlone
  /\ OneUnresolvedPerModel
  /\ WritesAreCovered
  /\ ReservationsEnd
  /\ SucceededIsSettled

\* The models as their lock sees them.
HolderOf ==
  [m \in Models |->
     IF \E j \in Jobs : ModelOf[j] = m /\ Occupies(j)
       THEN CHOOSE j \in Jobs : ModelOf[j] = m /\ Occupies(j) ELSE Nobody]
Flying == {j \in Jobs : remote[j] = "sent"}

Lock == INSTANCE ModelLock WITH
  Holders <- Jobs, HeldModel <- ModelOf, holder <- HolderOf, flying <- Flying

\* A model has one holder at a time, from before its first write until nothing of it is on
\* its way any more.
LockSpec == Lock!LockSpec

\* A branch preparation and a schema refresh end.
JobsEnd == \A j \in ModelJobs \cup RefreshJobs : Live(j) ~> ~ Live(j)
=============================================================================
