------------------------------ MODULE SafeCopy ------------------------------
(***************************************************************************)
(* One dashboard safe-copy job: the durable attempt ledger, the run and    *)
(* the retries that write through it, the destination that commits or      *)
(* rejects their creates, cancellation, and the restart of the server.     *)
(*                                                                         *)
(* A safe copy creates every selected dashboard in every selected          *)
(* destination. The create is not idempotent and its answer can be lost,   *)
(* so an attempt is persisted before the request is sent and is settled    *)
(* only by evidence.                                                       *)
(*                                                                         *)
(* Every action is one synchronous stretch of a handler, from one await to *)
(* the next: between two awaits no other handler of the process runs. A    *)
(* failed read, a passed deadline and a failed store are choices: a write  *)
(* that the ledger took can still end in an exception, since the deadline  *)
(* is looked at after the write.                                           *)
(*                                                                         *)
(* The preparation ledger is complete, and the destinations need no model  *)
(* change (semanticChange.mode is "none").                                 *)
(***************************************************************************)
EXTENDS Naturals, FiniteSets

CONSTANTS
  Targets,      \* destinations of the job, each one folder of one model
  ModelOf,      \* [Targets -> model]: two targets may share a model
  Ready,        \* targets whose preparation succeeded (the others need attention)
  NumDocs,      \* selected dashboards 1..NumDocs, copied in this order
  RetryIds,     \* retry request ids; the same request can arrive again
  MaxAttempts,  \* MAX_CLIENT_EVIDENCE_ATTEMPTS
  MaxCrashes,   \* bound: restarts of the server in a behaviour
  Nobody        \* no task

Docs == 1..NumDocs
Attempts == 1..MaxAttempts
Tasks == Targets \cup RetryIds     \* the run's task for a target, or one retry
TargetConcurrency == 2

ASSUME TasksAssumption ==
  /\ Targets # {} /\ Targets \cap RetryIds = {} /\ Nobody \notin Tasks
  /\ Ready \subseteq Targets
ASSUME BoundsAssumption ==
  NumDocs \in Nat \ {0} /\ MaxAttempts \in Nat \ {0} /\ MaxCrashes \in Nat

VARIABLES
  job,       \* [status, reconcile]: reconcile is executionState = reconciliation_required
  att,       \* the attempt ledger: [state, target, doc, name, cand, by]
  prov,      \* attempts whose verified provenance is recorded
  result,    \* the target results of the ledger
  claims,    \* the retry request that last claimed a target
  run,       \* runDashboardSafeCopyJob: idle, starting, setup, executing
  task,      \* the run's per-target tasks and the retries
  wire,      \* the create request of an attempt, as the destination sees it
  crashes

durable == <<job, att, prov, result, claims>>
vars == <<job, att, prov, result, claims, run, task, wire, crashes>>

AttemptStates == {"none", "dispatched", "uncertain", "verified", "failed_prewrite"}
JobStatuses == {"pending", "running", "succeeded", "partial", "failed", "canceled"}
Pcs == {"idle", "setup", "queued", "reprove", "next", "named", "intent",
        "sent", "look", "verify", "prove", "end", "done"}

\* cand is the dashboard found for the attempt, as the attempt that created it,
\* and by the task whose clock stamped the start of its verification.
AttemptRecord ==
  [state : AttemptStates, target : Targets, doc : Docs, name : 0..MaxAttempts,
   cand : 0..MaxAttempts, by : Tasks \cup {Nobody}]

\* What a handler keeps in its locals: the documents left, whether one failed, and
\* its copy of the attempt it works on (rec: a persisted one it reconciles; own: the
\* create was answered, with the id of the new dashboard).
TaskRecord ==
  [pc : Pcs, target : Targets, todo : SUBSET Docs, bad : BOOLEAN, rec : BOOLEAN,
   att : 0..MaxAttempts, st : {"none", "dispatched", "uncertain"},
   cand : 0..MaxAttempts, by : Tasks \cup {Nobody}, own : BOOLEAN, name : 0..MaxAttempts]

AnyTarget == CHOOSE t \in Targets : TRUE
NoAttempt == [state |-> "none", target |-> AnyTarget, doc |-> 1, name |-> 0,
              cand |-> 0, by |-> Nobody]
Idle == [pc |-> "idle", target |-> AnyTarget, todo |-> {}, bad |-> FALSE, rec |-> FALSE,
         att |-> 0, st |-> "none", cand |-> 0, by |-> Nobody, own |-> FALSE, name |-> 0]

-----------------------------------------------------------------------------
(* What the ledger says. *)

Active(a) == att[a].state \in {"dispatched", "uncertain"}
AnyActive == \E a \in Attempts : Active(a)
Used == {a \in Attempts : att[a].state # "none"}
IsVerified(a, t, d) == att[a].state = "verified" /\ att[a].target = t /\ att[a].doc = d
VerifiedDocs(t) == {d \in Docs : \E a \in Attempts : IsVerified(a, t, d)}

\* The copies of a document that a complete inventory of the target's folder shows.
Landed(t, d) ==
  {a \in Attempts : wire[a] = "committed" /\ att[a].target = t /\ att[a].doc = d}

\* jobTargetStatus
TargetState(res, t) ==
  IF res[t] # "none" THEN res[t]
  ELSE IF t \in Ready THEN "pending" ELSE "needs_attention"

Verdict(res) ==
  IF \A t \in Targets : TargetState(res, t) = "succeeded" THEN "succeeded"
  ELSE IF \E t \in Targets : TargetState(res, t) = "succeeded" THEN "partial" ELSE "failed"

\* finalizeJob
Finalized(res) ==
  IF job.status = "canceled" THEN job
  ELSE IF AnyActive THEN [status |-> "pending", reconcile |-> TRUE]
  ELSE IF \E t \in Targets : TargetState(res, t) = "pending" THEN job
  ELSE [status |-> Verdict(res), reconcile |-> FALSE]

\* (Mutant: unresolved writes are forgotten.)
RuntimeFailedForGood ==
  IF job.status = "canceled" THEN job ELSE [status |-> "failed", reconcile |-> FALSE]

\* recordRuntimeFailure
RuntimeFailed ==
  IF job.status = "canceled" THEN job
  ELSE [status |-> IF AnyActive THEN "pending" ELSE "failed", reconcile |-> AnyActive]

\* persistTargetResult: a canceled job takes no result
Recorded(res, t, failed) ==
  IF job.status = "canceled" THEN res
  ELSE [res EXCEPT ![t] = IF failed THEN "needs_attention" ELSE "succeeded"]

\* verifiedAttemptRecoveryState: a target without a result gets the one its attempts prove
Materialized ==
  IF job.status = "canceled" THEN result
  ELSE [t \in Targets |->
     IF result[t] # "none" THEN result[t]
     ELSE IF \/ \E a \in Attempts : Active(a) /\ att[a].target = t
             \/ \E a, b \in Attempts, d \in Docs :
                  a # b /\ IsVerified(a, t, d) /\ IsVerified(b, t, d)
       THEN "needs_attention"
     ELSE IF VerifiedDocs(t) = Docs THEN "succeeded" ELSE "none"]

-----------------------------------------------------------------------------
(* persistAttempt: what the ledger accepts for an attempt. *)

\* (Mutant: the order of the two first lines is lost.)
TransitionAnyFromSettled(from, to) ==
  from = "uncertain" => to \in {"uncertain", "verified", "failed_prewrite"}

TransitionAllowed(from, to) ==
  CASE from = "verified" -> to = "verified"
    [] from = "failed_prewrite" -> to = "failed_prewrite"
    [] from = "uncertain" -> to \in {"uncertain", "verified", "failed_prewrite"}
    [] OTHER -> TRUE

\* (Mutant: folders of one model are taken for separate scopes.)
NoOtherWriterOnTarget(a, t, to) ==
  \A b \in Attempts \ {a} : Active(b) => att[b].target # t

\* No other attempt is open on the target and, for a dispatch, on its model.
NoOtherWriter(a, t, to) ==
  \A b \in Attempts \ {a} :
    Active(b) => /\ att[b].target # t
                 /\ to = "dispatched" => ModelOf[att[b].target] # ModelOf[t]

CanPersist(a, to, cand, by) ==
  /\ job.status # "canceled"
  /\ NoOtherWriter(a, att[a].target, to)
  /\ TransitionAllowed(att[a].state, to)
  /\ att[a].cand # 0 => cand = att[a].cand /\ by = att[a].by

Persist(a, to, cand, by) ==
  /\ CanPersist(a, to, cand, by)
  /\ att' = [att EXCEPT ![a] = [@ EXCEPT !.state = to, !.cand = cand, !.by = by]]
  /\ job' = [status |-> "running", reconcile |-> to = "uncertain"]

\* A task settles its attempt, with the evidence it holds.
Settle(w, to) == Persist(task[w].att, to, task[w].cand, task[w].by)

-----------------------------------------------------------------------------
(* The tasks of executeTarget. *)

FirstTodo(w, d) == d \in task[w].todo /\ \A e \in task[w].todo : d <= e

\* (Mutant: the last document decides.)
AdvanceForgetting(w, d, failed) ==
  task' = [task EXCEPT ![w] = [Idle EXCEPT !.pc = "next", !.target = task[w].target,
             !.todo = task[w].todo \ {d}, !.bad = failed]]

\* executeDocument is done with a document.
Advance(w, d, failed) ==
  task' = [task EXCEPT ![w] = [Idle EXCEPT !.pc = "next", !.target = task[w].target,
             !.todo = task[w].todo \ {d}, !.bad = task[w].bad \/ failed]]

\* An exception, or a reconciliation without proof, ends the target.
GiveUp(w) == task' = [task EXCEPT ![w] = [Idle EXCEPT !.pc = "end",
                        !.target = task[w].target, !.bad = TRUE]]

\* The document failed; or the write to the ledger outlived the deadline.
FailDocument(w) ==
  \/ ~ task[w].rec /\ Advance(w, att[task[w].att].doc, TRUE)
  \/ GiveUp(w)

\* reproveTarget: the destination is what the intent says. A retry goes on with
\* the open attempt it loaded, if there is one.
Reprove(w) ==
  /\ task[w].pc = "reprove"
  /\ task' = [task EXCEPT ![w].pc = IF task[w].att # 0 THEN "look" ELSE "next"]
  /\ UNCHANGED <<durable, run, wire, crashes>>

\* A read fails, the deadline has passed, or the ledger does not take the write:
\* the exception leaves executeDocument, and its attempt as the ledger has it.
Throw(w) ==
  /\ task[w].pc \in {"reprove", "intent", "sent", "look", "verify"}
  /\ GiveUp(w)
  /\ UNCHANGED <<durable, run, wire, crashes>>

\* prepareDocument, the baseline inventory or the persist of the intent fails, or
\* the deadline has passed: nothing is sent.
DocumentNotReady(w) ==
  /\ task[w].pc \in {"next", "named"}
  /\ \E d \in task[w].todo : FirstTodo(w, d) /\ Advance(w, d, TRUE)
  /\ UNCHANGED <<durable, run, wire, crashes>>

\* The baseline inventory: the copy takes the first name that is not occupied.
ReadBaseline(w) ==
  /\ task[w].pc = "next"
  /\ \E d \in task[w].todo, n \in 0..MaxAttempts :
       LET occupied == {att[a].name : a \in Landed(task[w].target, d)}
       IN /\ FirstTodo(w, d)
          /\ n \notin occupied
          /\ \A m \in 0..MaxAttempts : m < n => m \in occupied
          /\ task' = [task EXCEPT ![w] = [@ EXCEPT !.pc = "named", !.name = n]]
  /\ UNCHANGED <<durable, run, wire, crashes>>

\* The intent is durable before anything is sent.
PersistIntent(w) ==
  /\ task[w].pc = "named"
  /\ job.status \notin {"canceled", "succeeded", "failed"}
  /\ \E d \in task[w].todo, a \in Attempts :
       /\ FirstTodo(w, d)
       /\ Used = 1..(a - 1)
       /\ NoOtherWriter(a, task[w].target, "dispatched")
       /\ att' = [att EXCEPT ![a] = [NoAttempt EXCEPT !.state = "dispatched",
                    !.target = task[w].target, !.doc = d, !.name = task[w].name]]
       /\ \/ task' = [task EXCEPT ![w] = [@ EXCEPT !.pc = "intent", !.att = a, !.st = "dispatched"]]
          \/ Advance(w, d, TRUE)
  /\ job' = [status |-> "running", reconcile |-> FALSE]
  /\ UNCHANGED <<prov, result, claims, run, wire, crashes>>

\* assertDispatchIsCurrent passes and the request leaves.
Send(w) ==
  /\ task[w].pc = "intent"
  /\ job.status # "canceled"
  /\ wire' = [wire EXCEPT ![task[w].att] = "sent"]
  /\ task' = [task EXCEPT ![w].pc = "sent"]
  /\ UNCHANGED <<durable, run, crashes>>

\* (Mutant: every error of the create counts as a refusal.)
AnyErrorNotCommitted(w) ==
  /\ task[w].pc \in {"intent", "sent"}
  /\ Settle(w, "failed_prewrite")
  /\ FailDocument(w)
  /\ UNCHANGED <<prov, result, claims, run, wire, crashes>>

\* Reproof, drift or authority stops the write before it leaves, or the
\* destination answers 400, 401, 403, 404, 409, 412 or 422.
DefinitelyNotCommitted(w) ==
  /\ \/ task[w].pc = "intent"
     \/ task[w].pc = "sent" /\ wire[task[w].att] = "rejected"
  /\ Settle(w, "failed_prewrite")
  /\ FailDocument(w)
  /\ UNCHANGED <<prov, result, claims, run, wire, crashes>>

\* The deadline passes before the request leaves (its guard then keeps it from
\* leaving), or the answer is lost.
WriteOutcomeLost(w) ==
  /\ task[w].pc \in {"intent", "sent"}
  /\ Settle(w, "uncertain")
  /\ \/ task' = [task EXCEPT ![w] = [@ EXCEPT !.pc = "look", !.st = "uncertain"]]
     \/ GiveUp(w)
  /\ UNCHANGED <<prov, result, claims, run, wire, crashes>>

CreateAnswered(w) ==
  /\ task[w].pc = "sent"
  /\ wire[task[w].att] = "committed"
  /\ task' = [task EXCEPT ![w] = [@ EXCEPT !.pc = "look", !.own = TRUE]]
  /\ UNCHANGED <<durable, run, wire, crashes>>

\* (Mutant: the name is not compared.)
CandidatesOfAnyName(w) ==
  LET a == task[w].att
  IN {c \in Landed(att[a].target, att[a].doc) :
        (task[w].own => c = a) /\ (task[w].cand # 0 => c = task[w].cand)}

\* matchingCandidates: the dashboards of a fresh inventory that match the attempt.
Candidates(w) ==
  LET a == task[w].att
  IN {c \in Landed(att[a].target, att[a].doc) :
        /\ att[c].name = att[a].name
        /\ task[w].own => c = a
        /\ task[w].cand # 0 => c = task[w].cand}

\* Exactly one candidate, recorded before it is verified.
RecordCandidate(w) ==
  /\ task[w].pc = "look"
  /\ \E c \in Candidates(w) :
       LET by == IF task[w].by = Nobody THEN w ELSE task[w].by
       IN /\ Candidates(w) = {c}
          /\ Persist(task[w].att, task[w].st, c, by)
          /\ \/ task' = [task EXCEPT ![w] = [@ EXCEPT !.pc = "verify", !.cand = c, !.by = by]]
             \/ GiveUp(w)
  /\ UNCHANGED <<prov, result, claims, run, wire, crashes>>

\* No inventory, no candidate, or more than one; the candidate could not be
\* recorded; or it does not verify.
OutcomeUnclear(w) ==
  /\ task[w].pc \in {"look", "verify"}
  /\ Settle(w, "uncertain")
  /\ FailDocument(w)
  /\ UNCHANGED <<prov, result, claims, run, wire, crashes>>

\* The candidate verifies: its provenance is recorded, once.
RecordProvenance(w) ==
  /\ task[w].pc = "verify"
  /\ task[w].att \notin prov
  /\ prov' = prov \cup {task[w].att}
  /\ task' = [task EXCEPT ![w].pc = "prove"]
  /\ UNCHANGED <<job, att, result, claims, run, wire, crashes>>

RecordVerified(w) ==
  /\ task[w].pc = "prove"
  /\ Settle(w, "verified")
  /\ \/ Advance(w, att[task[w].att].doc, FALSE)
     \/ IF task[w].rec THEN GiveUp(w) ELSE Advance(w, att[task[w].att].doc, TRUE)
  /\ UNCHANGED <<prov, result, claims, run, wire, crashes>>

\* The proof could not be recorded (a provenance of another verification is
\* there, the ledger refuses, the store fails): the attempt becomes uncertain,
\* when that can be recorded and the attempt is not one being reconciled.
ProofNotRecorded(w) ==
  /\ task[w].pc \in {"verify", "prove"}
  /\ \/ ~ task[w].rec /\ Settle(w, "uncertain") /\ Advance(w, att[task[w].att].doc, TRUE)
     \/ ~ task[w].rec /\ UNCHANGED <<att, job>> /\ Advance(w, att[task[w].att].doc, TRUE)
     \/ task[w].rec /\ UNCHANGED <<att, job>> /\ GiveUp(w)
  /\ UNCHANGED <<prov, result, claims, run, wire, crashes>>

\* (Mutant: a target without exceptions is not closed.)
EndedInFailure(w) == task[w].pc = "end"

Ended(w) == task[w].pc = "end" \/ (task[w].pc = "next" /\ task[w].todo = {})

TaskStep(w) ==
  \/ Reprove(w) \/ Throw(w) \/ DocumentNotReady(w) \/ ReadBaseline(w) \/ PersistIntent(w)
  \/ Send(w) \/ DefinitelyNotCommitted(w) \/ WriteOutcomeLost(w) \/ CreateAnswered(w)
  \/ RecordCandidate(w) \/ OutcomeUnclear(w) \/ RecordProvenance(w) \/ RecordVerified(w)
  \/ ProofNotRecorded(w)

-----------------------------------------------------------------------------
(* runDashboardSafeCopyJob. *)

\* isPreparedForExecution
Resumable ==
  /\ job = [status |-> "pending", reconcile |-> FALSE]
  /\ ~ AnyActive
  /\ \A t \in Targets : claims[t] = Nobody
  /\ \E t \in Ready : result[t] = "none"

\* The create request is replayed, or the vault is unlocked after a restart.
RunStart ==
  /\ run = "idle"
  /\ Resumable
  /\ run' = "starting"
  /\ UNCHANGED <<durable, task, wire, crashes>>

RunEnds(newTask) == run' = "idle" /\ task' = newTask

NoRunTasks == [w \in Tasks |-> IF w \in Targets THEN Idle ELSE task[w]]

\* The workbook boundary cannot be proved: every target needs attention.
RunBoundaryFails ==
  /\ run = "starting"
  /\ result' = IF job.status = "canceled" THEN result ELSE [t \in Targets |-> "needs_attention"]
  /\ job' = Finalized(result')
  /\ RunEnds(task)
  /\ UNCHANGED <<att, prov, claims, wire, crashes>>

\* The job was decided while the run was reading.
RunNotNeeded ==
  /\ run = "starting"
  /\ job.status \in {"canceled", "succeeded", "partial"} \/ job.reconcile
  /\ RunEnds(task)
  /\ UNCHANGED <<durable, wire, crashes>>

\* markExecutionStarting, materializeVerifiedAttemptResults and the choice of
\* executableTargets, whose skip lists are fixed here.
RunBegin ==
  /\ run = "starting"
  /\ job.status \notin {"canceled", "succeeded", "partial"} /\ ~ job.reconcile
  /\ result' = Materialized
  /\ LET chosen == {t \in Targets : TargetState(Materialized, t) = "pending"}
     IN IF chosen = {}
          THEN job' = Finalized(result') /\ RunEnds(task)
          ELSE /\ job' = [status |-> "running", reconcile |-> FALSE]
               /\ run' = "setup"
               /\ task' = [w \in Tasks |->
                    IF w \in chosen
                      THEN [Idle EXCEPT !.pc = "queued", !.target = w, !.todo = Docs \ VerifiedDocs(w)]
                      ELSE task[w]]
  /\ UNCHANGED <<att, prov, claims, wire, crashes>>

\* executableTargets answers; the targets whose setup failed need attention.
RunSetUp ==
  /\ run = "setup"
  /\ \E ok \in SUBSET {t \in Targets : task[t].pc = "queued"} :
       LET failed == {t \in Targets : task[t].pc = "queued"} \ ok
       IN /\ result' = IF job.status = "canceled" THEN result
                       ELSE [t \in Targets |-> IF t \in failed THEN "needs_attention" ELSE result[t]]
          /\ IF ok = {}
               THEN job' = Finalized(result') /\ RunEnds(NoRunTasks)
               ELSE /\ run' = "executing"
                    /\ task' = [w \in Tasks |-> IF w \in failed THEN Idle ELSE task[w]]
                    /\ UNCHANGED job
  /\ UNCHANGED <<att, prov, claims, wire, crashes>>

\* executeDashboardSafeCopy: targets of one model one after the other.
TargetStart(t) ==
  LET working == {u \in Targets : task[u].pc \notin {"idle", "queued", "done"}}
  IN /\ run = "executing"
     /\ task[t].pc = "queued"
     /\ Cardinality(working) < TargetConcurrency
     /\ \A u \in working : ModelOf[u] # ModelOf[t]
     /\ task' = [task EXCEPT ![t].pc = "reprove"]
     /\ UNCHANGED <<durable, run, wire, crashes>>

\* onTargetResult; a result that the ledger does not take waits for RunFinish.
TargetEnd(t) ==
  /\ Ended(t)
  /\ result' \in {result, Recorded(result, t, task[t].bad)}
  /\ task' = [task EXCEPT ![t] = [Idle EXCEPT !.pc = "done", !.target = t, !.bad = task[t].bad]]
  /\ UNCHANGED <<job, att, prov, claims, run, wire, crashes>>

\* The final pass writes every outcome that the ledger does not show, and finalizes.
RunFinish ==
  /\ run = "executing"
  /\ \A t \in Targets : task[t].pc \in {"idle", "done"}
  /\ result' = IF job.status = "canceled" THEN result
               ELSE [t \in Targets |->
                       IF task[t].pc # "done" THEN result[t]
                       ELSE IF task[t].bad THEN "needs_attention" ELSE "succeeded"]
  /\ job' = Finalized(result')
  /\ RunEnds(NoRunTasks)
  /\ UNCHANGED <<att, prov, claims, wire, crashes>>

\* The store fails, or a read throws: recordRuntimeFailure.
RunFails ==
  /\ \/ run \in {"starting", "setup"}
     \/ run = "executing" /\ \A t \in Targets : task[t].pc \in {"idle", "done"}
  /\ job' = RuntimeFailed
  /\ RunEnds(NoRunTasks)
  /\ UNCHANGED <<att, prov, result, claims, wire, crashes>>

RunStep ==
  \/ RunBoundaryFails \/ RunNotNeeded \/ RunBegin \/ RunSetUp \/ RunFinish \/ RunFails

-----------------------------------------------------------------------------
(* retryDashboardSafeCopyJobTarget. *)

\* retryCanReconcileAtAttemptCapacity
WithinCapacity(t) ==
  \/ Used # Attempts
  \/ \A d \in Docs : \E a \in Attempts :
       att[a].target = t /\ att[a].doc = d /\ (Active(a) \/ att[a].state = "verified")

\* The request arrives; its first await is the setup of the target.
RetryArrives(w, t) ==
  /\ task[w] = Idle
  /\ job.status # "canceled"
  /\ TargetState(result, t) # "succeeded"

\* No attempt is left for it, or the store takes only some of the results.
RetryRefused(w, t) ==
  /\ RetryArrives(w, t)
  /\ \/ ~ WithinCapacity(t) /\ result' = Materialized /\ UNCHANGED job
     \/ /\ \E taken \in SUBSET Targets :
             result' = [u \in Targets |-> IF u \in taken THEN Materialized[u] ELSE result[u]]
        /\ job' = RuntimeFailed
  /\ UNCHANGED <<att, prov, claims, run, task, wire, crashes>>

Executable(t) == t \in Ready /\ TargetState(Materialized, t) # "succeeded"

\* executableTargets skips the target: it is recorded as failed.
RetryNotExecutable(w, t) ==
  /\ RetryArrives(w, t)
  /\ WithinCapacity(t)
  /\ ~ Executable(t)
  /\ result' = Recorded(Materialized, t, TRUE)
  /\ job' = Finalized(result')
  /\ UNCHANGED <<att, prov, claims, run, task, wire, crashes>>

RetryAdmitted(w, t) ==
  /\ RetryArrives(w, t)
  /\ WithinCapacity(t)
  /\ Executable(t)
  /\ result' = Materialized
  /\ task' = [task EXCEPT ![w] = [Idle EXCEPT !.pc = "setup", !.target = t]]
  /\ UNCHANGED <<job, att, prov, claims, run, wire, crashes>>

RetrySetupFails(w) ==
  /\ task[w].pc = "setup"
  /\ result' = Recorded(result, task[w].target, TRUE)
  /\ job' = Finalized(result')
  /\ task' = [task EXCEPT ![w] = Idle]
  /\ UNCHANGED <<att, prov, claims, run, wire, crashes>>

\* claimRetryRequest
Claimable(w) ==
  /\ job.status \notin {"canceled", "running"}
  /\ \A t \in Targets : claims[t] # w
  /\ TargetState(result, task[w].target) # "succeeded"

RetryConflicts(w) ==
  /\ task[w].pc = "setup"
  /\ ~ Claimable(w)
  /\ task' = [task EXCEPT ![w] = Idle]
  /\ UNCHANGED <<durable, run, wire, crashes>>

\* The claim is granted and the target's attempts are loaded: the verified
\* documents are skipped, an open attempt is reconciled first.
RetryClaim(w) ==
  /\ task[w].pc = "setup"
  /\ Claimable(w)
  /\ claims' = [claims EXCEPT ![task[w].target] = w]
  /\ job' = [status |-> "running", reconcile |-> FALSE]
  /\ LET t == task[w].target
         open == {a \in Attempts : Active(a) /\ att[a].target = t}
         claimed == [Idle EXCEPT !.pc = "reprove", !.target = t, !.todo = Docs \ VerifiedDocs(t)]
     IN IF open = {} THEN task' = [task EXCEPT ![w] = claimed]
        ELSE \E a \in open :
          task' = [task EXCEPT ![w] = [claimed EXCEPT !.rec = TRUE, !.att = a,
                     !.st = att[a].state, !.cand = att[a].cand, !.by = att[a].by]]
  /\ UNCHANGED <<att, prov, result, run, wire, crashes>>

RetryEnd(w) ==
  /\ Ended(w)
  /\ \/ /\ result' = Recorded(result, task[w].target, task[w].bad)
        /\ job' = Finalized(result')
     \/ result' = result /\ job' = RuntimeFailed
  /\ task' = [task EXCEPT ![w] = Idle]
  /\ UNCHANGED <<att, prov, claims, run, wire, crashes>>

RetryStep(w) ==
  \/ RetrySetupFails(w) \/ RetryConflicts(w) \/ RetryClaim(w) \/ RetryEnd(w)

-----------------------------------------------------------------------------
(* The destination, cancellation, restart. *)

DestinationCommits(a) ==
  /\ wire[a] = "sent"
  /\ wire' = [wire EXCEPT ![a] = "committed"]
  /\ UNCHANGED <<durable, run, task, crashes>>

DestinationRejects(a) ==
  /\ wire[a] = "sent"
  /\ wire' = [wire EXCEPT ![a] = "rejected"]
  /\ UNCHANGED <<durable, run, task, crashes>>

\* cancelDashboardSafeCopyJob
Cancel ==
  /\ ~ AnyActive
  /\ job.status \in {"pending", "running"}
  /\ job' = [job EXCEPT !.status = "canceled"]
  /\ UNCHANGED <<att, prov, result, claims, run, task, wire, crashes>>

\* (Mutant: an interrupted write is taken for one that was never sent.)
RecoveredAsUnsent(a) == IF Active(a) THEN "failed_prewrite" ELSE att[a].state

RecoveredState(a) == IF Active(a) THEN "uncertain" ELSE att[a].state

\* recoverInterruptedJobs. A job that waits with settled items is left alone.
Recovered ==
  IF AnyActive THEN [status |-> "pending", reconcile |-> TRUE]
  ELSE IF \A t \in Targets : TargetState(result, t) # "pending"
    THEN [status |-> Verdict(result), reconcile |-> FALSE]
  ELSE [status |-> "pending", reconcile |-> FALSE]

Interrupted ==
  \/ job.status = "running"
  \/ job.status = "pending" /\ \E a \in Attempts : att[a].state = "dispatched"

Restart ==
  /\ crashes < MaxCrashes
  /\ crashes' = crashes + 1
  /\ IF Interrupted
       THEN /\ job' = Recovered
            /\ att' = [a \in Attempts |-> [att[a] EXCEPT !.state = RecoveredState(a)]]
       ELSE UNCHANGED <<job, att>>
  /\ run' = "idle"
  /\ task' = [w \in Tasks |-> Idle]
  /\ UNCHANGED <<prov, result, claims, wire>>

-----------------------------------------------------------------------------
Init ==
  /\ job = [status |-> "pending", reconcile |-> FALSE]
  /\ att = [a \in Attempts |-> NoAttempt]
  /\ prov = {}
  /\ result = [t \in Targets |-> "none"]
  /\ claims = [t \in Targets |-> Nobody]
  /\ run = "idle"
  /\ task = [w \in Tasks |-> Idle]
  /\ wire = [a \in Attempts |-> "unsent"]
  /\ crashes = 0

Next ==
  \/ RunStart \/ RunStep \/ Cancel \/ Restart
  \/ \E w \in Tasks : TaskStep(w)
  \/ \E t \in Targets : TargetStart(t) \/ TargetEnd(t)
  \/ \E w \in RetryIds : RetryStep(w)
  \/ \E w \in RetryIds, t \in Targets :
       RetryRefused(w, t) \/ RetryNotExecutable(w, t) \/ RetryAdmitted(w, t)
  \/ \E a \in Attempts : DestinationCommits(a) \/ DestinationRejects(a)

Spec == Init /\ [][Next]_vars

\* Every handler keeps running: its reads and writes end, with an answer or at the deadline.
Fairness ==
  /\ WF_vars(RunStep)
  /\ \A w \in Tasks : WF_vars(TaskStep(w))
  /\ \A t \in Targets : WF_vars(TargetStart(t)) /\ WF_vars(TargetEnd(t))
  /\ \A w \in RetryIds : WF_vars(RetryStep(w))

FairSpec == Spec /\ Fairness

-----------------------------------------------------------------------------
(* Properties. *)

\* Every variable has its type (the records of the job store, the locals of the handlers).
TypeOK ==
  /\ job \in [status : JobStatuses, reconcile : BOOLEAN]
  /\ att \in [Attempts -> AttemptRecord]
  /\ prov \subseteq Attempts
  /\ result \in [Targets -> {"none", "succeeded", "needs_attention"}]
  /\ claims \in [Targets -> RetryIds \cup {Nobody}]
  /\ run \in {"idle", "starting", "setup", "executing"}
  /\ task \in [Tasks -> TaskRecord]
  /\ wire \in [Attempts -> {"unsent", "sent", "rejected", "committed"}]
  /\ crashes \in 0..MaxCrashes

\* At most one unresolved write per destination model, whoever issues it: the run, a
\* retry, or what a crash left behind (persistAttempt's competing-attempt checks).
SingleWriterPerModel ==
  \A a, b \in Attempts :
    Active(a) /\ Active(b) /\ ModelOf[att[a].target] = ModelOf[att[b].target] => a = b

\* A request that left the server, and may have been or may yet be committed, is in the
\* ledger, and never as an attempt that is known not to have written.
EveryWriteIsAccounted ==
  \A a \in Attempts :
    wire[a] \in {"sent", "committed"} => att[a].state \notin {"none", "failed_prewrite"}

\* A verified attempt has a recorded provenance and names a dashboard that the destination
\* holds, of its own document and target, under the name it chose.
VerifiedIsProven ==
  \A a \in Attempts : att[a].state = "verified" =>
    /\ a \in prov
    /\ att[a].cand \in Landed(att[a].target, att[a].doc)
    /\ att[att[a].cand].name = att[a].name

\* A target is reported as succeeded, and a job as succeeded, only when every selected
\* dashboard has a verified attempt there: through resumes, retries that race the run and
\* late results of either.
SucceededIsBacked ==
  /\ \A t \in Targets : result[t] = "succeeded" => VerifiedDocs(t) = Docs
  /\ job.status = "succeeded" => \A t \in Targets : VerifiedDocs(t) = Docs

\* A job that ended, by itself or by cancellation, owns no unresolved write.
EndedJobOwnsNoWrite == job.status \in {"succeeded", "partial", "failed", "canceled"} => ~ AnyActive

\* The outcome of a write is decided once: verified and failed_prewrite are final, with the
\* evidence they were decided on, and a restart keeps them.
SettledIsFinal ==
  [][\A a \in Attempts :
       att[a].state \in {"verified", "failed_prewrite"} => att'[a] = att[a]]_vars

\* The ledger as its abstract promise sees it.
Entries == [a \in Attempts |->
  IF Active(a) THEN "open"
  ELSE CASE att[a].state = "verified" -> "done"
         [] att[a].state = "failed_prewrite" -> "void"
         [] OTHER -> "none"]
Copies == [a \in Attempts |-> <<att[a].target, att[a].doc>>]
LandedWrites == {a \in Attempts : wire[a] = "committed"}

Ledger == INSTANCE CopyLedger WITH
  Writes <- Attempts, Slots <- Targets \X Docs,
  Owner <- [s \in Targets \X Docs |-> ModelOf[s[1]]],
  entry <- Entries, slot <- Copies, landed <- LandedWrites

\* Every write is opened before it can take effect, alone on its model, and is closed once:
\* as done on the evidence of a landed copy, or as void when it never lands.
LedgerSpec == Ledger!Spec

\* What the locals of the handlers say about the ledger: a request is sent by the one task
\* that opened its attempt, evidence names a landed copy, and a task without a failure has
\* verified every document that it does not have left.
Accords(w, k) ==
  /\ w \in Targets => k.pc # "setup" /\ (k.pc # "idle" => k.target = w)
  /\ k.att # 0 => k.st # "none" /\ att[k.att].state # "none" /\ att[k.att].target = k.target
  /\ k.pc \in {"intent", "sent", "look", "verify", "prove"} => k.att # 0
  /\ k.pc \in {"intent", "sent"} => att[k.att].state # "failed_prewrite"
  /\ k.pc = "intent" => wire[k.att] = "unsent"
  /\ k.pc \in {"verify", "prove"} =>
       /\ k.cand \in Landed(k.target, att[k.att].doc)
       /\ att[k.cand].name = att[k.att].name
  /\ k.pc = "prove" => k.att \in prov
  /\ k.pc \in {"end", "done"} /\ ~ k.bad => k.todo = {}
  /\ k.pc \notin {"idle", "setup"} /\ ~ k.bad => Docs \ k.todo \subseteq VerifiedDocs(k.target)

TaskOK(w) == Accords(w, task[w])

TaskInv == \A w \in Tasks : TaskOK(w)

OneSender ==
  \A v, w \in Tasks :
    /\ task[v].pc \in {"intent", "sent"}
    /\ task[w].pc \in {"intent", "sent"}
    /\ task[v].att = task[w].att
    => v = w

UnusedIsUnsent == \A a \in Attempts : att[a].state = "none" => wire[a] = "unsent"

\* The inductive invariant behind the safety properties above.
IInv ==
  /\ TypeOK
  /\ TaskInv
  /\ OneSender
  /\ UnusedIsUnsent
  /\ EveryWriteIsAccounted
  /\ SingleWriterPerModel
  /\ VerifiedIsProven
  /\ SucceededIsBacked
  /\ EndedJobOwnsNoWrite

\* Each dashboard lands at most once in each destination.
CopiedAtMostOnce ==
  \A t \in Targets, d \in Docs : \A a, b \in Landed(t, d) : a = b

\* A destination has one task at work on it. (OneRetryPerTarget finds that it may have more.)
Owns(k) == k.pc \notin {"idle", "setup", "done"}
OneOwner ==
  \A v, w \in Tasks :
    Owns(task[v]) /\ Owns(task[w]) /\ task[v].target = task[w].target => v = w

\* What keeps copies apart while a destination has one owner: of all the attempts at a
\* document one at most may have written, and for a document that the owner has left it is
\* the one it holds.
Live(a) == att[a].state \notin {"none", "failed_prewrite"}
OneLiveAttempt ==
  \A a, b \in Attempts :
    Live(a) /\ Live(b) /\ att[a].target = att[b].target /\ att[a].doc = att[b].doc => a = b
StillTodo(k) ==
  Owns(k) =>
    /\ k.pc \in {"queued", "next", "named"} => k.att = 0
    /\ \A a \in Attempts :
         Live(a) /\ att[a].target = k.target /\ att[a].doc \in k.todo => a = k.att
CopyInv == OneLiveAttempt /\ \A w \in Tasks : StillTodo(task[w])

\* A run ends, whatever the destination, the retries, a cancel or a restart do.
RunEndsEventually == run # "idle" ~> run = "idle"

\* An accepted retry ends.
RetryEndsEventually == \A w \in RetryIds : task[w] # Idle ~> task[w] = Idle

\* "Successful destinations are immutable and are not retried."
SucceededIsImmutable ==
  [][\A t \in Targets : result[t] = "succeeded" => result'[t] = "succeeded"]_vars

\* "distinct retry requests cannot concurrently own the same target write scope"
OneRetryPerTarget ==
  \A v, w \in RetryIds :
    /\ task[v].pc \notin {"idle", "setup"}
    /\ task[w].pc \notin {"idle", "setup"}
    /\ task[v].target = task[w].target
    => v = w

\* "The durable dispatched attempt remains the reconciliation authority": an attempt that no
\* handler is settling can still be proved, so no provenance stands in the way of its proof.
OpenAttemptsCanBeProved ==
  \A a \in Attempts : Active(a) /\ a \in prov => \E w \in Tasks : task[w].att = a
=============================================================================
