-------------------------- MODULE SafeCopy_proofs --------------------------
(***************************************************************************)
(* What holds of SafeCopy for every set of targets, retries and documents, *)
(* every assignment of targets to models and every bound.                  *)
(***************************************************************************)
EXTENDS SafeCopy, TLAPS

USE DEF Tasks, Docs, Attempts

LEMMA TargetExists == AnyTarget \in Targets
BY TasksAssumption DEF AnyTarget

\* The locals of a handler that starts, goes on or gives up have their type.
LEMMA IdleType == Idle \in TaskRecord
BY TargetExists, BoundsAssumption DEF Idle, TaskRecord, Pcs

LEMMA NoAttemptType == NoAttempt \in AttemptRecord
BY TargetExists, BoundsAssumption DEF NoAttempt, AttemptRecord, AttemptStates

LEMMA AdvanceType ==
  ASSUME task \in [Tasks -> TaskRecord], NEW w \in Tasks, NEW d,
         NEW failed \in BOOLEAN, Advance(w, d, failed)
  PROVE  task' \in [Tasks -> TaskRecord]
<1>1. task[w] \in TaskRecord  OBVIOUS
<1>2. [Idle EXCEPT !.pc = "next", !.target = task[w].target,
         !.todo = task[w].todo \ {d}, !.bad = task[w].bad \/ failed] \in TaskRecord
  BY <1>1, IdleType DEF TaskRecord, Pcs
<1> QED
  BY <1>2 DEF Advance

LEMMA GiveUpType ==
  ASSUME task \in [Tasks -> TaskRecord], NEW w \in Tasks, GiveUp(w)
  PROVE  task' \in [Tasks -> TaskRecord]
<1>1. task[w] \in TaskRecord  OBVIOUS
<1>2. [Idle EXCEPT !.pc = "end", !.target = task[w].target, !.bad = TRUE] \in TaskRecord
  BY <1>1, IdleType DEF TaskRecord, Pcs
<1> QED
  BY <1>2 DEF GiveUp

LEMMA FailDocumentType ==
  ASSUME task \in [Tasks -> TaskRecord], NEW w \in Tasks, FailDocument(w)
  PROVE  task' \in [Tasks -> TaskRecord]
BY AdvanceType, GiveUpType DEF FailDocument

LEMMA PersistType ==
  ASSUME TypeOK, NEW a \in 0..MaxAttempts, NEW to \in AttemptStates, NEW cand \in 0..MaxAttempts,
         NEW by \in Tasks \cup {Nobody}, Persist(a, to, cand, by)
  PROVE  /\ att' \in [Attempts -> AttemptRecord]
         /\ job' \in [status : JobStatuses, reconcile : BOOLEAN]
<1>1. a \in Attempts => [att[a] EXCEPT !.state = to, !.cand = cand, !.by = by] \in AttemptRecord
  <2>1. a \in Attempts => att[a] \in AttemptRecord
    BY DEF TypeOK
  <2> QED  BY <2>1 DEF AttemptRecord
<1>2. att' \in [Attempts -> AttemptRecord]
  BY <1>1 DEF TypeOK, Persist
<1>3. job' \in [status : JobStatuses, reconcile : BOOLEAN]
  BY DEF Persist, JobStatuses
<1> QED
  BY <1>2, <1>3

LEMMA SettleType ==
  ASSUME TypeOK, NEW w \in Tasks, NEW to \in AttemptStates, Settle(w, to)
  PROVE  /\ att' \in [Attempts -> AttemptRecord]
         /\ job' \in [status : JobStatuses, reconcile : BOOLEAN]
<1>1. task[w] \in TaskRecord
  BY DEF TypeOK
<1> QED
  BY <1>1, PersistType DEF Settle, TaskRecord

LEMMA VerdictType == \A res : Verdict(res) \in JobStatuses
BY DEF Verdict, JobStatuses

LEMMA JobTypes ==
  ASSUME TypeOK
  PROVE  /\ \A res : Finalized(res) \in [status : JobStatuses, reconcile : BOOLEAN]
         /\ RuntimeFailed \in [status : JobStatuses, reconcile : BOOLEAN]
         /\ Recovered \in [status : JobStatuses, reconcile : BOOLEAN]
<1>1. AnyActive \in BOOLEAN
  BY DEF AnyActive
<1>2. \A res : Finalized(res) \in [status : JobStatuses, reconcile : BOOLEAN]
  BY VerdictType DEF TypeOK, Finalized, JobStatuses
<1>3. RuntimeFailed \in [status : JobStatuses, reconcile : BOOLEAN]
  BY <1>1 DEF TypeOK, RuntimeFailed, JobStatuses
<1>4. Recovered \in [status : JobStatuses, reconcile : BOOLEAN]
  BY VerdictType DEF Recovered, JobStatuses
<1> QED
  BY <1>2, <1>3, <1>4

LEMMA ResultTypes ==
  ASSUME TypeOK
  PROVE  /\ Materialized \in [Targets -> {"none", "succeeded", "needs_attention"}]
         /\ \A res \in [Targets -> {"none", "succeeded", "needs_attention"}], t \in Targets,
               failed \in BOOLEAN :
              Recorded(res, t, failed) \in [Targets -> {"none", "succeeded", "needs_attention"}]
BY DEF TypeOK, Materialized, Recorded

(* A refused retry stores some of the results that the attempts prove, and no others. *)
LEMMA RefusedResult ==
  ASSUME TypeOK, NEW w, NEW t, RetryRefused(w, t)
  PROVE  /\ result' \in [Targets -> {"none", "succeeded", "needs_attention"}]
         /\ \A u \in Targets : result'[u] \in {result[u], Materialized[u]}
         /\ job' = job \/ job' = RuntimeFailed
<1>1. CASE result' = Materialized /\ UNCHANGED job
  BY <1>1, ResultTypes
<1>2. ASSUME NEW taken \in SUBSET Targets, job' = RuntimeFailed,
             result' = [u \in Targets |-> IF u \in taken THEN Materialized[u] ELSE result[u]]
      PROVE  /\ result' \in [Targets -> {"none", "succeeded", "needs_attention"}]
             /\ \A u \in Targets : result'[u] \in {result[u], Materialized[u]}
  BY <1>2, ResultTypes DEF TypeOK
<1> QED BY <1>1, <1>2 DEF RetryRefused

-----------------------------------------------------------------------------
(* The ledger's actions keep the types. *)

LEMMA TaskStepType ==
  ASSUME TypeOK, TaskInv, NEW w \in Tasks, TaskStep(w)
  PROVE  TypeOK'
<1> DEFINE k == task[w]
           At(pc) == [k EXCEPT !.pc = pc]
<1>k. k \in TaskRecord
  BY DEF TypeOK
<1>s. {"dispatched", "uncertain", "verified", "failed_prewrite"} \subseteq AttemptStates
  BY DEF AttemptStates
<1>p. \A pc \in Pcs : At(pc) \in TaskRecord
  BY <1>k DEF TaskRecord
<1> USE DEF TypeOK, durable
<1>1. CASE Reprove(w)
  BY <1>1, <1>p DEF Reprove, Pcs
<1>2. CASE Throw(w)
  BY <1>2, GiveUpType DEF Throw
<1>3. CASE DocumentNotReady(w)
  BY <1>3, AdvanceType DEF DocumentNotReady
<1>4. CASE ReadBaseline(w)
  <2>1. PICK n \in 0..MaxAttempts : task' = [task EXCEPT ![w] = [@ EXCEPT !.pc = "named", !.name = n]]
    BY <1>4 DEF ReadBaseline
  <2>2. [k EXCEPT !.pc = "named", !.name = n] \in TaskRecord
    BY <1>k DEF TaskRecord, Pcs
  <2> QED  BY <1>4, <2>1, <2>2 DEF ReadBaseline
<1>5. CASE PersistIntent(w)
  <2>1. PICK d \in k.todo, a \in Attempts :
          /\ att' = [att EXCEPT ![a] = [NoAttempt EXCEPT !.state = "dispatched",
                       !.target = k.target, !.doc = d, !.name = k.name]]
          /\ \/ task' = [task EXCEPT ![w] = [@ EXCEPT !.pc = "intent", !.att = a, !.st = "dispatched"]]
             \/ Advance(w, d, TRUE)
    BY <1>5 DEF PersistIntent
  <2>2. [NoAttempt EXCEPT !.state = "dispatched", !.target = k.target, !.doc = d, !.name = k.name]
          \in AttemptRecord
    BY <1>k, NoAttemptType DEF AttemptRecord, TaskRecord, AttemptStates
  <2>a. a \in 0..MaxAttempts
    BY <2>1, BoundsAssumption
  <2>3. [k EXCEPT !.pc = "intent", !.att = a, !.st = "dispatched"] \in TaskRecord
    BY <1>k, <2>a DEF TaskRecord, Pcs
  <2>4. task' \in [Tasks -> TaskRecord]
    BY <2>1, <2>3, AdvanceType
  <2> QED  BY <1>5, <2>1, <2>2, <2>4 DEF PersistIntent, JobStatuses
<1>6. CASE Send(w)
  BY <1>6, <1>p DEF Send, Pcs
<1>7. CASE DefinitelyNotCommitted(w)
  BY <1>7, <1>s, SettleType, FailDocumentType DEF DefinitelyNotCommitted
<1>8. CASE WriteOutcomeLost(w)
  <2>1. [k EXCEPT !.pc = "look", !.st = "uncertain"] \in TaskRecord
    BY <1>k DEF TaskRecord, Pcs
  <2> QED  BY <1>8, <1>s, <2>1, SettleType, GiveUpType DEF WriteOutcomeLost
<1>9. CASE CreateAnswered(w)
  <2>1. [k EXCEPT !.pc = "look", !.own = TRUE] \in TaskRecord
    BY <1>k DEF TaskRecord, Pcs
  <2> QED  BY <1>9, <2>1 DEF CreateAnswered
<1>10. CASE RecordCandidate(w)
  <2> DEFINE by == IF k.by = Nobody THEN w ELSE k.by
  <2>1. PICK c \in Candidates(w) :
          /\ Persist(k.att, k.st, c, by)
          /\ \/ task' = [task EXCEPT ![w] = [@ EXCEPT !.pc = "verify", !.cand = c, !.by = by]]
             \/ GiveUp(w)
    BY <1>10 DEF RecordCandidate
  <2>2. c \in 0..MaxAttempts /\ by \in Tasks \cup {Nobody} /\ k.st \in {"none", "dispatched", "uncertain"}
    BY <1>k DEF Candidates, Landed, TaskRecord
  <2>3. [k EXCEPT !.pc = "verify", !.cand = c, !.by = by] \in TaskRecord
    BY <1>k, <2>2 DEF TaskRecord, Pcs
  <2>4. k.att \in 0..MaxAttempts /\ k.st \in AttemptStates
    BY <1>k, <2>2 DEF TaskRecord, AttemptStates
  <2>5. att' \in [Attempts -> AttemptRecord] /\ job' \in [status : JobStatuses, reconcile : BOOLEAN]
    BY <2>1, <2>2, <2>4, PersistType
  <2>6. task' \in [Tasks -> TaskRecord]
    BY <2>1, <2>3, GiveUpType
  <2> QED  BY <1>10, <2>5, <2>6 DEF RecordCandidate
<1>11. CASE OutcomeUnclear(w)
  BY <1>11, <1>s, SettleType, FailDocumentType DEF OutcomeUnclear
<1>12. CASE RecordProvenance(w)
  <2>1. k.pc = "verify" /\ k.att # 0
    BY <1>12 DEF RecordProvenance, TaskInv, TaskOK, Accords
  <2>2. k.att \in Attempts
    BY <1>k, <2>1, BoundsAssumption DEF TaskRecord
  <2> QED  BY <1>12, <1>p, <2>2 DEF RecordProvenance, Pcs
<1>13. CASE RecordVerified(w)
  BY <1>13, <1>s, SettleType, AdvanceType, GiveUpType DEF RecordVerified
<1>14. CASE ProofNotRecorded(w)
  BY <1>14, <1>s, SettleType, AdvanceType, GiveUpType DEF ProofNotRecorded
<1> QED
  BY <1>1, <1>2, <1>3, <1>4, <1>5, <1>6, <1>7, <1>8, <1>9, <1>10, <1>11, <1>12, <1>13, <1>14
  DEF TaskStep

LEMMA NoRunTasksType ==
  ASSUME TypeOK
  PROVE  NoRunTasks \in [Tasks -> TaskRecord]
BY IdleType DEF TypeOK, NoRunTasks

LEMMA NextType ==
  ASSUME TypeOK, TaskInv, [Next]_vars
  PROVE  TypeOK'
<1> USE DEF TypeOK, durable
<1> DEFINE Running == [status |-> "running", reconcile |-> FALSE]
<1>j. Running \in [status : JobStatuses, reconcile : BOOLEAN]
  BY DEF JobStatuses
<1>1. CASE RunStart
  BY <1>1 DEF RunStart
<1>2. CASE RunBoundaryFails
  BY <1>2, JobTypes DEF RunBoundaryFails, RunEnds
<1>3. CASE RunNotNeeded
  BY <1>3 DEF RunNotNeeded, RunEnds
<1>4. CASE RunBegin
  <2> DEFINE chosen == {t \in Targets : TargetState(Materialized, t) = "pending"}
             queued(w) == [Idle EXCEPT !.pc = "queued", !.target = w, !.todo = Docs \ VerifiedDocs(w)]
  <2>1. \A w \in Targets : queued(w) \in TaskRecord
    BY IdleType DEF TaskRecord, Pcs
  <2>2. CASE chosen = {}
    BY <1>4, <2>2, JobTypes, ResultTypes DEF RunBegin, RunEnds
  <2>3. CASE chosen # {}
    <3>1. /\ job' = Running
          /\ run' = "setup"
          /\ task' = [w \in Tasks |-> IF w \in chosen THEN queued(w) ELSE task[w]]
      BY <1>4, <2>3 DEF RunBegin
    <3>2. task' \in [Tasks -> TaskRecord]
      BY <3>1, <2>1
    <3> QED  BY <1>4, <1>j, <3>1, <3>2, ResultTypes DEF RunBegin
  <2> QED  BY <2>2, <2>3
<1>5. CASE RunSetUp
  BY <1>5, JobTypes, NoRunTasksType, IdleType DEF RunSetUp, RunEnds
<1>6. CASE RunFinish
  BY <1>6, JobTypes, NoRunTasksType DEF RunFinish, RunEnds
<1>7. CASE RunFails
  BY <1>7, JobTypes, NoRunTasksType DEF RunFails, RunEnds
<1>8. CASE Cancel
  BY <1>8 DEF Cancel, JobStatuses
<1>9. CASE Restart
  <2>1. \A a \in Attempts : [att[a] EXCEPT !.state = RecoveredState(a)] \in AttemptRecord
    <3>1. \A a \in Attempts : att[a] \in AttemptRecord
      OBVIOUS
    <3>2. \A a \in Attempts : RecoveredState(a) \in AttemptStates
      BY <3>1 DEF RecoveredState, AttemptRecord, AttemptStates
    <3> QED  BY <3>1, <3>2 DEF AttemptRecord
  <2>2. crashes' \in 0..MaxCrashes
    BY <1>9, BoundsAssumption DEF Restart
  <2>3. att' \in [Attempts -> AttemptRecord] /\ job' \in [status : JobStatuses, reconcile : BOOLEAN]
    <3>1. CASE Interrupted
      BY <1>9, <2>1, <3>1, JobTypes DEF Restart
    <3>2. CASE ~ Interrupted
      BY <1>9, <3>2 DEF Restart
    <3> QED  BY <3>1, <3>2
  <2> QED  BY <1>9, <2>2, <2>3, IdleType DEF Restart
<1>10. CASE \E w \in Tasks : TaskStep(w)
  BY <1>10, TaskStepType
<1>11. CASE \E t \in Targets : TargetStart(t) \/ TargetEnd(t)
  <2>1. PICK t \in Targets : TargetStart(t) \/ TargetEnd(t)
    BY <1>11
  <2>2. task[t] \in TaskRecord
    BY <2>1
  <2>3. CASE TargetStart(t)
    <3>1. [task[t] EXCEPT !.pc = "reprove"] \in TaskRecord
      BY <2>2 DEF TaskRecord, Pcs
    <3> QED  BY <2>1, <2>3, <3>1 DEF TargetStart
  <2>4. CASE TargetEnd(t)
    <3>1. [Idle EXCEPT !.pc = "done", !.target = t, !.bad = task[t].bad] \in TaskRecord
      BY <2>1, <2>2, IdleType DEF TaskRecord, Pcs
    <3>2. task[t].bad \in BOOLEAN
      BY <2>2 DEF TaskRecord
    <3> QED  BY <2>1, <2>4, <3>1, <3>2, ResultTypes DEF TargetEnd
  <2> QED  BY <2>1, <2>3, <2>4
<1>12. CASE \E w \in RetryIds : RetryStep(w)
  <2>1. PICK w \in RetryIds : RetryStep(w)
    BY <1>12
  <2>2. task[w] \in TaskRecord
    BY <2>1
  <2>3. task[w].target \in Targets /\ task[w].bad \in BOOLEAN
    BY <2>2 DEF TaskRecord
  <2>4. CASE RetrySetupFails(w)
    BY <2>3, <2>4, JobTypes, ResultTypes, IdleType DEF RetrySetupFails
  <2>5. CASE RetryConflicts(w)
    BY <2>5, IdleType DEF RetryConflicts
  <2>6. CASE RetryClaim(w)
    <3> DEFINE t == task[w].target
               claimed == [Idle EXCEPT !.pc = "reprove", !.target = t, !.todo = Docs \ VerifiedDocs(t)]
               open == {a \in Attempts : Active(a) /\ att[a].target = t}
               loaded(a) == [claimed EXCEPT !.rec = TRUE, !.att = a,
                               !.st = att[a].state, !.cand = att[a].cand, !.by = att[a].by]
    <3>1. claimed \in TaskRecord
      BY <2>3, IdleType DEF TaskRecord, Pcs
    <3>2. \A a \in open : loaded(a) \in TaskRecord
      <4>1. \A a \in open : /\ att[a] \in AttemptRecord
                            /\ att[a].state \in {"dispatched", "uncertain"}
                            /\ a \in 0..MaxAttempts
        BY BoundsAssumption DEF Active
      <4> QED  BY <3>1, <4>1 DEF TaskRecord, AttemptRecord
    <3>3. task' \in [Tasks -> TaskRecord]
      <4>1. CASE open = {}
        BY <2>6, <3>1, <4>1 DEF RetryClaim
      <4>2. CASE open # {}
        <5>1. PICK a \in open : task' = [task EXCEPT ![w] = loaded(a)]
          BY <2>6, <4>2 DEF RetryClaim
        <5> QED  BY <3>2, <5>1
      <4> QED  BY <4>1, <4>2
    <3> QED  BY <2>1, <2>3, <2>6, <1>j, <3>3 DEF RetryClaim
  <2>7. CASE RetryEnd(w)
    <3>1. job' \in [status : JobStatuses, reconcile : BOOLEAN]
      BY <2>7, JobTypes DEF RetryEnd
    <3>2. result' \in [Targets -> {"none", "succeeded", "needs_attention"}]
      BY <2>3, <2>7, ResultTypes DEF RetryEnd
    <3> QED  BY <2>7, <3>1, <3>2, IdleType DEF RetryEnd
  <2> QED  BY <2>1, <2>4, <2>5, <2>6, <2>7 DEF RetryStep
<1>13. CASE \E w \in RetryIds, t \in Targets :
              RetryRefused(w, t) \/ RetryNotExecutable(w, t) \/ RetryAdmitted(w, t)
  <2>1. PICK w \in RetryIds, t \in Targets :
              RetryRefused(w, t) \/ RetryNotExecutable(w, t) \/ RetryAdmitted(w, t)
    BY <1>13
  <2>2. [Idle EXCEPT !.pc = "setup", !.target = t] \in TaskRecord
    BY <2>1, IdleType DEF TaskRecord, Pcs
  <2>3. CASE RetryRefused(w, t)
    BY <2>3, RefusedResult, JobTypes DEF RetryRefused
  <2>4. CASE RetryNotExecutable(w, t)
    BY <2>1, <2>4, JobTypes, ResultTypes DEF RetryNotExecutable
  <2>5. CASE RetryAdmitted(w, t)
    BY <2>1, <2>2, <2>5, ResultTypes DEF RetryAdmitted
  <2> QED  BY <2>1, <2>3, <2>4, <2>5
<1>14. CASE \E a \in Attempts : DestinationCommits(a) \/ DestinationRejects(a)
  BY <1>14 DEF DestinationCommits, DestinationRejects
<1>15. CASE UNCHANGED vars
  BY <1>15 DEF vars
<1> QED
  BY <1>1, <1>2, <1>3, <1>4, <1>5, <1>6, <1>7, <1>8, <1>9, <1>10, <1>11, <1>12, <1>13, <1>14, <1>15
  DEF Next, RunStep

LEMMA InitType == Init => TypeOK
BY IdleType, NoAttemptType, BoundsAssumption DEF Init, TypeOK, JobStatuses

-----------------------------------------------------------------------------
(* What a step does to the ledger and to the destination. Each of the      *)
(* actions is one of five ledger steps, or leaves both alone.              *)

Opens(a) ==
  /\ att[a].state = "none"
  /\ \E t \in Targets, d \in Docs, n \in 0..MaxAttempts :
       /\ NoOtherWriter(a, t, "dispatched")
       /\ att' = [att EXCEPT ![a] = [NoAttempt EXCEPT !.state = "dispatched",
                                       !.target = t, !.doc = d, !.name = n]]
  /\ job' = [status |-> "running", reconcile |-> FALSE]
  /\ UNCHANGED <<wire, prov>>

Settles(a) ==
  /\ att[a].state # "none"
  /\ \E to \in AttemptStates \ {"none"}, cand \in 0..MaxAttempts, by \in Tasks \cup {Nobody} :
       /\ Persist(a, to, cand, by)
       /\ to = "failed_prewrite" =>
            att[a].state # "failed_prewrite" /\ wire[a] \in {"unsent", "rejected"}
       /\ to = "verified" => /\ a \in prov
                             /\ cand \in Landed(att[a].target, att[a].doc)
                             /\ att[cand].name = att[a].name
  /\ UNCHANGED <<wire, prov>>

Sends(a) ==
  /\ wire[a] = "unsent"
  /\ att[a].state \notin {"none", "failed_prewrite"}
  /\ wire' = [wire EXCEPT ![a] = "sent"]
  /\ UNCHANGED <<att, prov, job>>

Answers(a) ==
  /\ wire[a] = "sent"
  /\ wire' \in {[wire EXCEPT ![a] = "committed"], [wire EXCEPT ![a] = "rejected"]}
  /\ UNCHANGED <<att, prov, job>>

Restarts ==
  /\ att' = [a \in Attempts |-> [att[a] EXCEPT !.state = RecoveredState(a)]]
  /\ job' = Recovered
  /\ UNCHANGED <<wire, prov>>

Quiet == UNCHANGED <<att, wire>> /\ prov \subseteq prov'

\* The attempt a task holds is in the ledger.
LEMMA HeldAttempt ==
  ASSUME TypeOK, TaskInv, NEW w \in Tasks,
         task[w].pc \in {"intent", "sent", "look", "verify", "prove"}
  PROVE  /\ task[w] \in TaskRecord
         /\ task[w].att \in Attempts
         /\ att[task[w].att].state # "none"
         /\ att[task[w].att].target = task[w].target
         /\ att[task[w].att].doc \in Docs
         /\ att[task[w].att].cand \in 0..MaxAttempts
<1>1. task[w] \in TaskRecord /\ task[w].att # 0
  BY DEF TypeOK, TaskInv, TaskOK, Accords
<1>2. task[w].att \in Attempts
  BY <1>1, BoundsAssumption DEF TaskRecord
<1>3. att[task[w].att] \in AttemptRecord
  BY <1>2 DEF TypeOK
<1> QED
  BY <1>1, <1>2, <1>3 DEF TaskInv, TaskOK, Accords, AttemptRecord

LEMMA SettleStep ==
  ASSUME TypeOK, TaskInv, NEW w \in Tasks,
         task[w].pc \in {"intent", "sent", "look", "verify", "prove"},
         NEW to \in AttemptStates \ {"none"}, Settle(w, to),
         to = "failed_prewrite" => /\ att[task[w].att].state # "failed_prewrite"
                                   /\ wire[task[w].att] \in {"unsent", "rejected"},
         to = "verified" => task[w].pc = "prove",
         UNCHANGED <<wire, prov>>
  PROVE  \E a \in Attempts : Settles(a)
<1> DEFINE a == task[w].att
<1>1. /\ a \in Attempts
      /\ att[a].state # "none" /\ att[a].target = task[w].target
      /\ task[w].cand \in 0..MaxAttempts /\ task[w].by \in Tasks \cup {Nobody}
  BY HeldAttempt DEF TaskRecord
<1>2. Persist(a, to, task[w].cand, task[w].by)
  BY DEF Settle
<1>3. to = "verified" => /\ a \in prov
                         /\ task[w].cand \in Landed(att[a].target, att[a].doc)
                         /\ att[task[w].cand].name = att[a].name
  BY <1>1 DEF TaskInv, TaskOK, Accords
<1>4. Settles(a)
  BY <1>1, <1>2, <1>3 DEF Settles
<1> QED
  BY <1>1, <1>4

\* A step of a task opens attempts only as it persists an intent.
LEMMA TaskLedgerStep ==
  ASSUME TypeOK, TaskInv, NEW w \in Tasks, TaskStep(w)
  PROVE  \/ Quiet
         \/ PersistIntent(w) /\ \E a \in Attempts : Opens(a)
         \/ \E a \in Attempts : Settles(a) \/ Sends(a)
<1> USE DEF durable
<1>1. CASE Reprove(w) \/ Throw(w) \/ DocumentNotReady(w) \/ ReadBaseline(w) \/ CreateAnswered(w)
  BY <1>1 DEF Reprove, Throw, DocumentNotReady, ReadBaseline, CreateAnswered, Quiet
<1>2. CASE PersistIntent(w)
  <2>1. task[w] \in TaskRecord
    BY DEF TypeOK
  <2>2. PICK d \in task[w].todo, a \in Attempts :
          /\ Used = 1..(a - 1)
          /\ NoOtherWriter(a, task[w].target, "dispatched")
          /\ att' = [att EXCEPT ![a] = [NoAttempt EXCEPT !.state = "dispatched",
                       !.target = task[w].target, !.doc = d, !.name = task[w].name]]
    BY <1>2 DEF PersistIntent
  <2>3. a \notin Used
    BY <2>2, BoundsAssumption
  <2>4. att[a].state = "none" /\ d \in Docs
    BY <2>1, <2>2, <2>3 DEF Used, TaskRecord
  <2>5. Opens(a)
    BY <1>2, <2>1, <2>2, <2>4 DEF Opens, PersistIntent, TaskRecord
  <2> QED  BY <1>2, <2>2, <2>5
<1>3. CASE Send(w)
  <2>1. Sends(task[w].att)
    BY <1>3, HeldAttempt DEF Sends, Send, TaskInv, TaskOK, Accords
  <2> QED  BY <1>3, <2>1, HeldAttempt DEF Send
<1>4. CASE DefinitelyNotCommitted(w)
  BY <1>4, SettleStep DEF DefinitelyNotCommitted, TaskInv, TaskOK, Accords, AttemptStates
<1>5. CASE WriteOutcomeLost(w)
  BY <1>5, SettleStep DEF WriteOutcomeLost, AttemptStates
<1>6. CASE RecordCandidate(w)
  <2> DEFINE a == task[w].att
             by == IF task[w].by = Nobody THEN w ELSE task[w].by
  <2>1. PICK c \in Candidates(w) : Persist(a, task[w].st, c, by)
    BY <1>6 DEF RecordCandidate
  <2>2. /\ a \in Attempts /\ att[a].state # "none" /\ c \in 0..MaxAttempts
        /\ by \in Tasks \cup {Nobody} /\ task[w].st \in {"none", "dispatched", "uncertain"}
    BY <1>6, <2>1, HeldAttempt DEF RecordCandidate, Candidates, Landed, TaskRecord
  <2>3. task[w].st # "none"
    BY <1>6, <2>2, BoundsAssumption DEF TaskInv, TaskOK, Accords
  <2>4. Settles(a)
    BY <1>6, <2>1, <2>2, <2>3 DEF RecordCandidate, Settles, AttemptStates
  <2> QED  BY <2>2, <2>4
<1>7. CASE OutcomeUnclear(w)
  BY <1>7, SettleStep DEF OutcomeUnclear, AttemptStates
<1>8. CASE RecordProvenance(w)
  BY <1>8 DEF RecordProvenance, Quiet
<1>9. CASE RecordVerified(w)
  BY <1>9, SettleStep DEF RecordVerified, AttemptStates
<1>10. CASE ProofNotRecorded(w)
  <2>1. CASE Settle(w, "uncertain")
    BY <1>10, <2>1, SettleStep DEF ProofNotRecorded, AttemptStates
  <2>2. CASE UNCHANGED <<att, job>>
    BY <1>10, <2>2 DEF ProofNotRecorded, Quiet
  <2> QED  BY <1>10, <2>1, <2>2 DEF ProofNotRecorded
<1> QED
  BY <1>1, <1>2, <1>3, <1>4, <1>5, <1>6, <1>7, <1>8, <1>9, <1>10 DEF TaskStep

LEMMA LedgerStep ==
  ASSUME TypeOK, TaskInv, [Next]_vars
  PROVE  Quiet \/ Restarts \/ \E a \in Attempts : Opens(a) \/ Settles(a) \/ Sends(a) \/ Answers(a)
<1>1. ASSUME NEW w \in Tasks, TaskStep(w)
      PROVE  Quiet \/ \E a \in Attempts : Opens(a) \/ Settles(a) \/ Sends(a)
  BY <1>1, TaskLedgerStep
<1>2. CASE RunStep \/ RunStart
  BY <1>2 DEF RunStep, RunStart, RunBoundaryFails, RunNotNeeded, RunBegin, RunSetUp, RunFinish, RunFails,
              durable, Quiet
<1>3. CASE \E t \in Targets : TargetStart(t) \/ TargetEnd(t)
  BY <1>3 DEF TargetStart, TargetEnd, durable, Quiet
<1>4. CASE \E w \in RetryIds : RetryStep(w)
  BY <1>4 DEF RetryStep, RetrySetupFails, RetryConflicts, RetryClaim, RetryEnd, durable, Quiet
<1>5. CASE \E w \in RetryIds, t \in Targets :
             RetryRefused(w, t) \/ RetryNotExecutable(w, t) \/ RetryAdmitted(w, t)
  BY <1>5 DEF RetryRefused, RetryNotExecutable, RetryAdmitted, Quiet
<1>6. CASE \E a \in Attempts : DestinationCommits(a) \/ DestinationRejects(a)
  BY <1>6 DEF DestinationCommits, DestinationRejects, durable, Answers
<1>7. CASE Cancel
  BY <1>7 DEF Cancel, Quiet
<1>8. CASE Restart
  BY <1>8 DEF Restart, Restarts, Quiet
<1>9. CASE UNCHANGED vars
  BY <1>9 DEF vars, Quiet
<1> QED
  BY <1>1, <1>2, <1>3, <1>4, <1>5, <1>6, <1>7, <1>8, <1>9 DEF Next

\* What every step keeps: a used attempt keeps its slot and its name, a settled one
\* keeps everything, and what landed or is recorded as provenance stays.
Frame ==
  /\ \A a \in Attempts : att[a].state # "none" =>
       /\ att'[a].state # "none"
       /\ att'[a].target = att[a].target
       /\ att'[a].doc = att[a].doc
       /\ att'[a].name = att[a].name
  /\ \A a \in Attempts : att[a].state \in {"verified", "failed_prewrite"} => att'[a] = att[a]
  /\ \A a \in Attempts : wire[a] = "committed" => wire'[a] = "committed"
  /\ prov \subseteq prov'

LEMMA PersistEffect ==
  ASSUME TypeOK, NEW a \in Attempts, NEW to, NEW cand, NEW by, Persist(a, to, cand, by)
  PROVE  /\ \A b \in Attempts \ {a} : att'[b] = att[b]
         /\ att'[a].state = to /\ att'[a].cand = cand /\ att'[a].by = by
         /\ att'[a].target = att[a].target /\ att'[a].doc = att[a].doc
         /\ att'[a].name = att[a].name
         /\ to = att[a].state /\ cand = att[a].cand /\ by = att[a].by => att'[a] = att[a]
<1>1. att \in [Attempts -> AttemptRecord] /\ att[a] \in AttemptRecord
  BY DEF TypeOK
<1>2. att' = [att EXCEPT ![a] = [@ EXCEPT !.state = to, !.cand = cand, !.by = by]]
  BY DEF Persist
<1>3. att'[a] = [att[a] EXCEPT !.state = to, !.cand = cand, !.by = by]
  BY <1>1, <1>2
<1> QED
  BY <1>1, <1>2, <1>3 DEF AttemptRecord

\* An attempt that is verified again is left as it is: its evidence cannot change.
LEMMA SettledStays ==
  ASSUME TypeOK, VerifiedIsProven, NEW a \in Attempts, Settles(a),
         att[a].state \in {"verified", "failed_prewrite"}
  PROVE  att'[a] = att[a]
<1>1. att[a] \in AttemptRecord
  BY DEF TypeOK
<1>2. PICK to \in AttemptStates \ {"none"}, cand \in 0..MaxAttempts, by \in Tasks \cup {Nobody} :
        /\ Persist(a, to, cand, by)
        /\ to = "failed_prewrite" => att[a].state # "failed_prewrite"
  BY DEF Settles
<1>3. att[a].state = "verified" /\ to = "verified"
  BY <1>2 DEF Persist, CanPersist, TransitionAllowed
<1>4. att[a].cand \in Attempts
  BY <1>3 DEF VerifiedIsProven, Landed
<1>5. cand = att[a].cand /\ by = att[a].by
  BY <1>2, <1>4, BoundsAssumption DEF Persist, CanPersist
<1> QED
  BY <1>2, <1>3, <1>5, PersistEffect

LEMMA OpensEffect ==
  ASSUME TypeOK, NEW a \in Attempts, Opens(a)
  PROVE  /\ \A b \in Attempts \ {a} : att'[b] = att[b]
         /\ att[a].state = "none" /\ att'[a].state = "dispatched"
         /\ att'[a].target \in Targets /\ att'[a].doc \in Docs
         /\ NoOtherWriter(a, att'[a].target, "dispatched")
<1>1. PICK t \in Targets, d \in Docs, n \in 0..MaxAttempts :
        /\ NoOtherWriter(a, t, "dispatched")
        /\ att' = [att EXCEPT ![a] = [NoAttempt EXCEPT !.state = "dispatched",
                                        !.target = t, !.doc = d, !.name = n]]
  BY DEF Opens
<1>2. att \in [Attempts -> AttemptRecord]
  BY DEF TypeOK
<1>3. att'[a] = [NoAttempt EXCEPT !.state = "dispatched", !.target = t, !.doc = d, !.name = n]
  BY <1>1, <1>2
<1> QED
  BY <1>1, <1>2, <1>3, NoAttemptType DEF Opens, AttemptRecord

LEMMA RestartsEffect ==
  ASSUME TypeOK, Restarts
  PROVE  \A a \in Attempts :
           /\ att'[a].state = RecoveredState(a)
           /\ att'[a].target = att[a].target /\ att'[a].doc = att[a].doc
           /\ att'[a].name = att[a].name
           /\ att'[a].cand = att[a].cand
           /\ att[a].state \in {"none", "verified", "failed_prewrite"} => att'[a] = att[a]
<1> SUFFICES ASSUME NEW a \in Attempts
             PROVE  /\ att'[a].state = RecoveredState(a)
                    /\ att'[a].target = att[a].target /\ att'[a].doc = att[a].doc
                    /\ att'[a].name = att[a].name
                    /\ att'[a].cand = att[a].cand
                    /\ att[a].state \in {"none", "verified", "failed_prewrite"} => att'[a] = att[a]
  OBVIOUS
<1>1. att[a] \in AttemptRecord
  BY DEF TypeOK
<1>2. att'[a] = [att[a] EXCEPT !.state = RecoveredState(a)]
  BY DEF Restarts
<1> QED
  BY <1>1, <1>2 DEF AttemptRecord, RecoveredState, Active

LEMMA FrameStep ==
  ASSUME TypeOK, TaskInv, VerifiedIsProven, [Next]_vars
  PROVE  Frame
<1>1. CASE Quiet
  BY <1>1 DEF Quiet, Frame
<1>2. CASE Restarts
  BY <1>2, RestartsEffect DEF Restarts, RecoveredState, Frame
<1>3. ASSUME NEW a \in Attempts, Opens(a)  PROVE Frame
  BY <1>3, OpensEffect DEF Opens, Frame
<1>4. ASSUME NEW a \in Attempts, Settles(a)  PROVE Frame
  <2>1. PICK to \in AttemptStates \ {"none"}, cand \in 0..MaxAttempts, by \in Tasks \cup {Nobody} :
          Persist(a, to, cand, by)
    BY <1>4 DEF Settles
  <2>2. /\ \A b \in Attempts \ {a} : att'[b] = att[b]
        /\ att'[a].state # "none" /\ att'[a].target = att[a].target
        /\ att'[a].doc = att[a].doc /\ att'[a].name = att[a].name
    BY <2>1, PersistEffect
  <2>3. att[a].state \in {"verified", "failed_prewrite"} => att'[a] = att[a]
    BY <1>4, SettledStays
  <2>4. UNCHANGED <<wire, prov>>
    BY <1>4 DEF Settles
  <2> QED  BY <2>2, <2>3, <2>4 DEF Frame
<1>5. ASSUME NEW a \in Attempts, Sends(a)  PROVE Frame
  <2>1. wire \in [Attempts -> {"unsent", "sent", "rejected", "committed"}]
    BY DEF TypeOK
  <2> QED  BY <1>5, <2>1 DEF Sends, Frame
<1>6. ASSUME NEW a \in Attempts, Answers(a)  PROVE Frame
  <2>1. wire \in [Attempts -> {"unsent", "sent", "rejected", "committed"}]
    BY DEF TypeOK
  <2> QED  BY <1>6, <2>1 DEF Answers, Frame
<1> QED
  BY <1>1, <1>2, <1>3, <1>4, <1>5, <1>6, LedgerStep

\* Verified documents and landed copies are never lost.
LEMMA EvidenceGrows ==
  ASSUME TypeOK, Frame, UnusedIsUnsent
  PROVE  /\ \A t \in Targets : VerifiedDocs(t) \subseteq VerifiedDocs(t)'
         /\ \A t \in Targets, d \in Docs : Landed(t, d) \subseteq Landed(t, d)'
         /\ \A a \in Attempts : wire[a] = "committed" => att[a].state # "none" /\ att'[a].name = att[a].name
<1>1. \A a \in Attempts : wire[a] = "committed" => att[a].state # "none"
  BY DEF UnusedIsUnsent
<1>2. \A t \in Targets : VerifiedDocs(t) \subseteq VerifiedDocs(t)'
  BY DEF Frame, VerifiedDocs, IsVerified
<1>3. \A t \in Targets, d \in Docs : Landed(t, d) \subseteq Landed(t, d)'
  BY <1>1 DEF Frame, Landed
<1> QED
  BY <1>1, <1>2, <1>3 DEF Frame

-----------------------------------------------------------------------------
(* The invariants of the ledger. *)

LEMMA UnusedStep ==
  ASSUME TypeOK, TaskInv, UnusedIsUnsent, [Next]_vars
  PROVE  UnusedIsUnsent'
<1> USE DEF UnusedIsUnsent
<1>t. wire \in [Attempts -> {"unsent", "sent", "rejected", "committed"}]
  BY DEF TypeOK
<1>1. CASE Quiet
  BY <1>1 DEF Quiet
<1>2. CASE Restarts
  BY <1>2, RestartsEffect DEF Restarts, RecoveredState
<1>3. ASSUME NEW a \in Attempts, Opens(a)  PROVE UnusedIsUnsent'
  BY <1>3, OpensEffect DEF Opens
<1>4. ASSUME NEW a \in Attempts, Settles(a)  PROVE UnusedIsUnsent'
  <2>1. PICK to \in AttemptStates \ {"none"}, cand \in 0..MaxAttempts, by \in Tasks \cup {Nobody} :
          Persist(a, to, cand, by)
    BY <1>4 DEF Settles
  <2>2. att'[a].state # "none" /\ \A b \in Attempts \ {a} : att'[b] = att[b]
    BY <2>1, PersistEffect
  <2> QED  BY <1>4, <2>2 DEF Settles
<1>5. ASSUME NEW a \in Attempts, Sends(a)  PROVE UnusedIsUnsent'
  BY <1>5, <1>t DEF Sends
<1>6. ASSUME NEW a \in Attempts, Answers(a)  PROVE UnusedIsUnsent'
  BY <1>6, <1>t DEF Answers
<1> QED
  BY <1>1, <1>2, <1>3, <1>4, <1>5, <1>6, LedgerStep

LEMMA AccountedStep ==
  ASSUME TypeOK, TaskInv, EveryWriteIsAccounted, [Next]_vars
  PROVE  EveryWriteIsAccounted'
<1> USE DEF EveryWriteIsAccounted
<1>t. wire \in [Attempts -> {"unsent", "sent", "rejected", "committed"}]
  BY DEF TypeOK
<1>1. CASE Quiet
  BY <1>1 DEF Quiet
<1>2. CASE Restarts
  <2>1. \A a \in Attempts : wire'[a] = wire[a] /\ att'[a].state = RecoveredState(a)
    BY <1>2, RestartsEffect DEF Restarts
  <2>2. \A a \in Attempts : RecoveredState(a) \in {"none", "failed_prewrite"} => RecoveredState(a) = att[a].state
    BY DEF RecoveredState
  <2> QED  BY <2>1, <2>2
<1>3. ASSUME NEW a \in Attempts, Opens(a)  PROVE EveryWriteIsAccounted'
  BY <1>3, OpensEffect DEF Opens
<1>4. ASSUME NEW a \in Attempts, Settles(a)  PROVE EveryWriteIsAccounted'
  <2>1. PICK to \in AttemptStates \ {"none"}, cand \in 0..MaxAttempts, by \in Tasks \cup {Nobody} :
          /\ Persist(a, to, cand, by)
          /\ to = "failed_prewrite" => wire[a] \in {"unsent", "rejected"}
    BY <1>4 DEF Settles
  <2>2. att'[a].state = to /\ \A b \in Attempts \ {a} : att'[b] = att[b]
    BY <2>1, PersistEffect
  <2>3. wire' = wire
    BY <1>4 DEF Settles
  <2> QED  BY <2>1, <2>2, <2>3
<1>5. ASSUME NEW a \in Attempts, Sends(a)  PROVE EveryWriteIsAccounted'
  BY <1>5, <1>t DEF Sends
<1>6. ASSUME NEW a \in Attempts, Answers(a)  PROVE EveryWriteIsAccounted'
  BY <1>6, <1>t DEF Answers
<1> QED
  BY <1>1, <1>2, <1>3, <1>4, <1>5, <1>6, LedgerStep

LEMMA SingleWriterStep ==
  ASSUME TypeOK, TaskInv, VerifiedIsProven, SingleWriterPerModel, [Next]_vars
  PROVE  SingleWriterPerModel'
<1> USE DEF SingleWriterPerModel, Active
<1>1. CASE Quiet
  BY <1>1 DEF Quiet
<1>2. CASE Restarts
  BY <1>2, RestartsEffect DEF RecoveredState
<1>3. ASSUME NEW a \in Attempts, Opens(a)  PROVE SingleWriterPerModel'
  <2>1. \A b \in Attempts \ {a} : att'[b] = att[b]
    BY <1>3, OpensEffect
  <2>2. \A b \in Attempts \ {a} : Active(b) => ModelOf[att[b].target] # ModelOf[att'[a].target]
    BY <1>3, OpensEffect DEF NoOtherWriter
  <2> QED  BY <2>1, <2>2
<1>4. ASSUME NEW a \in Attempts, Settles(a)  PROVE SingleWriterPerModel'
  <2>1. PICK to \in AttemptStates \ {"none"}, cand \in 0..MaxAttempts, by \in Tasks \cup {Nobody} :
          Persist(a, to, cand, by)
    BY <1>4 DEF Settles
  <2>2. /\ att'[a].target = att[a].target
        /\ \A b \in Attempts \ {a} : att'[b] = att[b]
    BY <2>1, PersistEffect
  <2>3. att'[a].state \in {"dispatched", "uncertain"} => att[a].state \in {"dispatched", "uncertain"}
    <3>1. att[a].state \in AttemptStates \ {"none"}
      BY <1>4 DEF TypeOK, AttemptRecord, Settles
    <3>2. att[a].state \in {"verified", "failed_prewrite"} => att'[a] = att[a]
      BY <1>4, SettledStays
    <3> QED  BY <3>1, <3>2 DEF AttemptStates
  <2> QED  BY <2>2, <2>3
<1>5. ASSUME NEW a \in Attempts, Sends(a) \/ Answers(a)  PROVE SingleWriterPerModel'
  BY <1>5 DEF Sends, Answers
<1> QED
  BY <1>1, <1>2, <1>3, <1>4, <1>5, LedgerStep

LEMMA ProvenStep ==
  ASSUME TypeOK, TaskInv, UnusedIsUnsent, VerifiedIsProven, [Next]_vars
  PROVE  VerifiedIsProven'
<1> DEFINE Proven(b, c) == /\ b \in prov
                           /\ c \in Landed(att[b].target, att[b].doc)
                           /\ att[c].name = att[b].name
<1> SUFFICES ASSUME NEW a \in Attempts, att'[a].state = "verified"
             PROVE  Proven(a, att[a].cand)'
  BY DEF VerifiedIsProven
<1>f. Frame
  BY FrameStep
<1>d. att[a].target \in Targets /\ att[a].doc \in Docs
  BY DEF TypeOK, AttemptRecord
<1>1. ASSUME NEW c, Proven(a, c), att'[a].cand = c,
             att'[a].target = att[a].target, att'[a].doc = att[a].doc, att'[a].name = att[a].name
      PROVE  Proven(a, att[a].cand)'
  <2>1. c \in Attempts /\ wire[c] = "committed"
    BY <1>1 DEF Landed
  <2>2. att[c].state # "none"
    BY <2>1 DEF UnusedIsUnsent
  <2>3. /\ wire'[c] = "committed" /\ att'[c].target = att[a].target /\ att'[c].doc = att[a].doc
        /\ att'[c].name = att[a].name
    BY <1>f, <1>1, <2>1, <2>2 DEF Frame, Landed
  <2>4. c \in Landed(att[a].target, att[a].doc)'
    BY <1>1, <2>1, <2>3 DEF Landed
  <2> QED  BY <1>1, <1>f, <2>3, <2>4 DEF Frame
<1>2. CASE att[a].state = "verified"
  <2>1. att'[a] = att[a] /\ Proven(a, att[a].cand)
    BY <1>2, <1>f DEF Frame, VerifiedIsProven
  <2> QED  BY <1>1, <2>1
<1>3. CASE att[a].state # "verified"
  <2>1. Settles(a)
    <3>1. att'[a] # att[a]
      BY <1>3
    <3>2. ~ Quiet /\ \A b \in Attempts : ~ Sends(b) /\ ~ Answers(b)
      BY <3>1 DEF Quiet, Sends, Answers
    <3>3. ~ Restarts
      BY <1>3, RestartsEffect DEF RecoveredState
    <3>4. \A b \in Attempts : ~ Opens(b)
      BY <3>1, OpensEffect
    <3>5. ASSUME NEW b \in Attempts \ {a}  PROVE ~ Settles(b)
      BY <3>1, PersistEffect DEF Settles
    <3> QED  BY <3>2, <3>3, <3>4, <3>5, LedgerStep
  <2>2. PICK to \in AttemptStates \ {"none"}, cand \in 0..MaxAttempts, by \in Tasks \cup {Nobody} :
          Persist(a, to, cand, by) /\ (to = "verified" => Proven(a, cand))
    BY <2>1 DEF Settles
  <2>3. /\ att'[a].state = to /\ att'[a].cand = cand
        /\ att'[a].target = att[a].target /\ att'[a].doc = att[a].doc /\ att'[a].name = att[a].name
    BY <2>2, PersistEffect
  <2>4. Proven(a, cand)
    BY <2>2, <2>3
  <2> HIDE DEF Proven
  <2> QED  BY <1>1, <2>3, <2>4
<1> QED
  BY <1>2, <1>3

-----------------------------------------------------------------------------
(* The locals of the handlers keep to the ledger. *)

\* A record that accords with the ledger still does after a step, unless another task
\* touches the request it is about to send.
LEMMA AccordsKept ==
  ASSUME TypeOK, UnusedIsUnsent, Frame, NEW w \in Tasks, NEW k \in TaskRecord, task'[w] = k,
         Accords(w, k),
         k.pc \in {"intent", "sent"} => att'[k.att].state # "failed_prewrite",
         k.pc = "intent" => wire'[k.att] = "unsent"
  PROVE  TaskOK(w)'
<1>1. k.att # 0 => k.att \in Attempts
  BY BoundsAssumption DEF TaskRecord
<1>2. k.att # 0 => /\ k.st # "none" /\ att'[k.att].state # "none"
                   /\ att'[k.att].target = k.target
                   /\ att'[k.att].doc = att[k.att].doc /\ att'[k.att].name = att[k.att].name
  BY <1>1 DEF Accords, Frame
<1>3. ASSUME k.pc \in {"verify", "prove"}
      PROVE  /\ k.cand \in Landed(k.target, att[k.att].doc)'
             /\ att'[k.cand].name = att'[k.att].name
  <2>1. k.att # 0 /\ k.cand \in Landed(k.target, att[k.att].doc) /\ att[k.cand].name = att[k.att].name
    BY <1>3 DEF Accords
  <2>2. k.cand \in Attempts /\ wire[k.cand] = "committed" /\ att[k.cand].state # "none"
    BY <2>1 DEF Landed, UnusedIsUnsent
  <2>3. /\ wire'[k.cand] = "committed" /\ att'[k.cand].target = att[k.cand].target
        /\ att'[k.cand].doc = att[k.cand].doc /\ att'[k.cand].name = att[k.cand].name
    BY <2>2 DEF Frame
  <2> QED  BY <1>2, <2>1, <2>2, <2>3 DEF Landed
<1>4. k.pc = "prove" => k.att \in prov'
  BY DEF Accords, Frame
<1>5. k.pc \notin {"idle", "setup"} /\ ~ k.bad => Docs \ k.todo \subseteq VerifiedDocs(k.target)'
  <2>1. k.target \in Targets
    BY DEF TaskRecord
  <2>2. VerifiedDocs(k.target) \subseteq VerifiedDocs(k.target)'
    BY <2>1, EvidenceGrows
  <2> QED  BY <2>2 DEF Accords
<1> QED
  BY <1>2, <1>3, <1>4, <1>5 DEF TaskOK, Accords

Sending(w) == task[w].pc \in {"intent", "sent"}

\* What a task's step does to the other tasks: only the sender of an attempt declares it
\* unwritten or sends its request.
LEMMA TaskStepEffect ==
  ASSUME TypeOK, TaskInv, NEW w \in Tasks, TaskStep(w)
  PROVE  /\ \A v \in Tasks \ {w} : task'[v] = task[v]
         /\ \A a \in Attempts : att'[a].state = "failed_prewrite" =>
              att[a].state = "failed_prewrite" \/ (Sending(w) /\ a = task[w].att)
         /\ \A a \in Attempts : wire'[a] = wire[a] \/ (Sending(w) /\ a = task[w].att)
<1> USE DEF durable
<1>t. task \in [Tasks -> TaskRecord] /\ att \in [Attempts -> AttemptRecord]
      /\ wire \in [Attempts -> {"unsent", "sent", "rejected", "committed"}]
  BY DEF TypeOK
<1>1. \A v \in Tasks \ {w} : task'[v] = task[v]
  BY <1>t DEF TaskStep, Reprove, Throw, DocumentNotReady, ReadBaseline, PersistIntent, Send,
         DefinitelyNotCommitted, WriteOutcomeLost, CreateAnswered, RecordCandidate, OutcomeUnclear,
         RecordProvenance, RecordVerified, ProofNotRecorded, FailDocument, GiveUp, Advance
<1>2. \A a \in Attempts : wire'[a] = wire[a] \/ (Sending(w) /\ a = task[w].att)
  BY <1>t DEF TaskStep, Reprove, Throw, DocumentNotReady, ReadBaseline, PersistIntent, Send,
         DefinitelyNotCommitted, WriteOutcomeLost, CreateAnswered, RecordCandidate, OutcomeUnclear,
         RecordProvenance, RecordVerified, ProofNotRecorded, Sending
<1>3. ASSUME NEW a \in Attempts, att'[a].state = "failed_prewrite"
      PROVE  att[a].state = "failed_prewrite" \/ (Sending(w) /\ a = task[w].att)
  <2>1. ASSUME NEW b \in 0..MaxAttempts, NEW to, NEW cand, NEW by, Persist(b, to, cand, by),
               to # "failed_prewrite"
        PROVE  att[a].state = "failed_prewrite"
    <3>1. CASE a = b
      BY <1>3, <2>1, <3>1, PersistEffect
    <3>2. CASE a # b
      BY <1>3, <1>t, <2>1, <3>2 DEF Persist
    <3> QED  BY <3>1, <3>2
  <2>2. task[w].att \in 0..MaxAttempts /\ task[w].st # "failed_prewrite"
    BY <1>t DEF TaskRecord
  <2>3. ASSUME NEW to, Settle(w, to), to # "failed_prewrite"
        PROVE  att[a].state = "failed_prewrite"
    BY <2>1, <2>2, <2>3 DEF Settle
  <2>4. CASE UNCHANGED att
    BY <1>3, <2>4
  <2>5. CASE PersistIntent(w)
    <3>1. PICK d \in task[w].todo, b \in Attempts :
            att' = [att EXCEPT ![b] = [NoAttempt EXCEPT !.state = "dispatched",
                      !.target = task[w].target, !.doc = d, !.name = task[w].name]]
      BY <2>5 DEF PersistIntent
    <3> QED  BY <1>3, <1>t, <3>1, NoAttemptType DEF AttemptRecord
  <2>6. CASE DefinitelyNotCommitted(w)
    <3>1. CASE a = task[w].att
      BY <2>6, <3>1 DEF DefinitelyNotCommitted, Sending
    <3>2. CASE a # task[w].att
      BY <1>3, <1>t, <2>6, <3>2 DEF DefinitelyNotCommitted, Settle, Persist
    <3> QED  BY <3>1, <3>2
  <2>7. CASE WriteOutcomeLost(w) \/ OutcomeUnclear(w) \/ RecordVerified(w)
    BY <2>3, <2>4, <2>7 DEF WriteOutcomeLost, OutcomeUnclear, RecordVerified
  <2>8. CASE RecordCandidate(w)
    BY <2>1, <2>2, <2>8 DEF RecordCandidate
  <2>9. CASE ProofNotRecorded(w)
    BY <2>3, <2>4, <2>9 DEF ProofNotRecorded
  <2> QED
    BY <2>4, <2>5, <2>6, <2>7, <2>8, <2>9
    DEF TaskStep, Reprove, Throw, DocumentNotReady, ReadBaseline, Send, CreateAnswered, RecordProvenance
<1> QED
  BY <1>1, <1>2, <1>3

\* A handler that goes on after a failed document, or gives up, holds nothing.
LEMMA FailedAccords ==
  ASSUME TypeOK, TaskInv, UnusedIsUnsent, Frame, NEW w \in Tasks, task[w].pc \notin {"idle", "setup"},
         GiveUp(w) \/ (\E d \in Docs : Advance(w, d, TRUE))
  PROVE  TaskOK(w)'
<1>1. task[w] \in TaskRecord /\ Accords(w, task[w])
  BY DEF TypeOK, TaskInv, TaskOK
<1>2. CASE GiveUp(w)
  <2> DEFINE k == [Idle EXCEPT !.pc = "end", !.target = task[w].target, !.bad = TRUE]
  <2>1. k \in TaskRecord
    BY <1>1, IdleType DEF TaskRecord, Pcs
  <2>2. task'[w] = k
    BY <1>2 DEF TypeOK, GiveUp
  <2>3. Accords(w, k) /\ k.pc = "end"
    BY <1>1 DEF Accords, Idle
  <2> HIDE DEF k
  <2> QED  BY <2>1, <2>2, <2>3, AccordsKept
<1>3. ASSUME NEW d \in Docs, Advance(w, d, TRUE)  PROVE TaskOK(w)'
  <2> DEFINE k == [Idle EXCEPT !.pc = "next", !.target = task[w].target,
                     !.todo = task[w].todo \ {d}, !.bad = task[w].bad \/ TRUE]
  <2>1. k \in TaskRecord
    BY <1>1, IdleType DEF TaskRecord, Pcs
  <2>2. task'[w] = k
    BY <1>3 DEF TypeOK, Advance
  <2>3. Accords(w, k) /\ k.pc = "next"
    BY <1>1 DEF Accords, Idle
  <2> HIDE DEF k
  <2> QED  BY <2>1, <2>2, <2>3, AccordsKept
<1> QED
  BY <1>2, <1>3

LEMMA FailDocumentAccords ==
  ASSUME TypeOK, TaskInv, UnusedIsUnsent, Frame, NEW w \in Tasks,
         task[w].pc \in {"intent", "sent", "look", "verify"}, FailDocument(w)
  PROVE  TaskOK(w)'
BY HeldAttempt, FailedAccords DEF FailDocument

\* A step of a task keeps its own locals in accord.
LEMMA OwnTaskStep ==
  ASSUME TypeOK, TaskInv, UnusedIsUnsent, Frame, NEW w \in Tasks, TaskStep(w)
  PROVE  TaskOK(w)'
<1> DEFINE k == task[w]
<1>k. k \in TaskRecord /\ Accords(w, k) /\ task \in [Tasks -> TaskRecord]
      /\ att \in [Attempts -> AttemptRecord]
      /\ wire \in [Attempts -> {"unsent", "sent", "rejected", "committed"}]
  BY DEF TypeOK, TaskInv, TaskOK
<1>g. \A d \in k.todo : d \in Docs
  BY <1>k DEF TaskRecord
<1>h. PICK t \in Targets : t = k.target
  BY <1>k DEF TaskRecord
<1>v. VerifiedDocs(t) \subseteq VerifiedDocs(t)'
  BY EvidenceGrows
<1> USE DEF durable
<1>1. CASE Reprove(w)
  <2> DEFINE n == [k EXCEPT !.pc = IF k.att # 0 THEN "look" ELSE "next"]
  <2>1. n \in TaskRecord /\ n.pc \in {"look", "next"} /\ task'[w] = n
    BY <1>1, <1>k DEF TaskRecord, Pcs, Reprove
  <2>2. Accords(w, n)
    BY <1>1, <1>k DEF TaskRecord, Accords, Reprove
  <2> HIDE DEF n
  <2> QED  BY <2>1, <2>2, AccordsKept
<1>2. CASE Throw(w)
  BY <1>2, FailedAccords DEF Throw
<1>3. CASE DocumentNotReady(w)
  BY <1>3, <1>g, FailedAccords DEF DocumentNotReady
<1>4. CASE ReadBaseline(w)
  <2>1. PICK n \in 0..MaxAttempts : task' = [task EXCEPT ![w] = [@ EXCEPT !.pc = "named", !.name = n]]
    BY <1>4 DEF ReadBaseline
  <2> DEFINE m == [k EXCEPT !.pc = "named", !.name = n]
  <2>2. m \in TaskRecord /\ m.pc = "named" /\ task'[w] = m
    BY <1>k, <2>1 DEF TaskRecord, Pcs
  <2>3. Accords(w, m)
    BY <1>4, <1>k DEF TaskRecord, Accords, ReadBaseline
  <2> HIDE DEF m
  <2> QED  BY <2>2, <2>3, AccordsKept
<1>5. CASE PersistIntent(w)
  <2>1. PICK d \in k.todo, a \in Attempts :
          /\ Used = 1..(a - 1)
          /\ att' = [att EXCEPT ![a] = [NoAttempt EXCEPT !.state = "dispatched",
                       !.target = k.target, !.doc = d, !.name = k.name]]
          /\ \/ task' = [task EXCEPT ![w] = [@ EXCEPT !.pc = "intent", !.att = a, !.st = "dispatched"]]
             \/ Advance(w, d, TRUE)
    BY <1>5 DEF PersistIntent
  <2>2. CASE Advance(w, d, TRUE)
    BY <1>5, <1>g, <2>2, FailedAccords DEF PersistIntent
  <2>3. CASE task' = [task EXCEPT ![w] = [@ EXCEPT !.pc = "intent", !.att = a, !.st = "dispatched"]]
    <3>1. /\ task'[w].pc = "intent" /\ task'[w].att = a /\ task'[w].st = "dispatched"
          /\ task'[w].target = k.target /\ task'[w].bad = k.bad /\ task'[w].todo = k.todo
      BY <1>k, <2>3 DEF TaskRecord
    <3>2. att'[a].state = "dispatched" /\ att'[a].target = k.target
      BY <1>k, <2>1, NoAttemptType DEF AttemptRecord
    <3>3. wire'[a] = "unsent"
      <4>1. a \notin Used
        BY <2>1, BoundsAssumption
      <4> QED  BY <1>5, <4>1 DEF PersistIntent, UnusedIsUnsent, Used
    <3>4. k.pc = "named"
      BY <1>5 DEF PersistIntent
    <3>5. /\ w \in Targets => k.target = w
          /\ ~ k.bad => Docs \ k.todo \subseteq VerifiedDocs(t)'
      BY <1>k, <1>h, <1>v, <3>4 DEF Accords
    <3>6. a # 0
      BY BoundsAssumption
    <3> QED  BY <1>h, <3>1, <3>2, <3>3, <3>5, <3>6 DEF TaskOK, Accords, VerifiedDocs, IsVerified
  <2> QED  BY <2>1, <2>2, <2>3
<1>6. CASE Send(w)
  <2> DEFINE n == [k EXCEPT !.pc = "sent"]
  <2>1. n \in TaskRecord /\ n.pc = "sent" /\ n.att = k.att /\ task'[w] = n
    BY <1>6, <1>k DEF TaskRecord, Pcs, Send
  <2>2. Accords(w, n)
    BY <1>6, <1>k DEF TaskRecord, Accords, Send
  <2>3. att'[k.att].state # "failed_prewrite"
    BY <1>6, <1>k DEF Send, Accords
  <2> HIDE DEF n
  <2> QED  BY <2>1, <2>2, <2>3, AccordsKept
<1>7. CASE DefinitelyNotCommitted(w)
  BY <1>7, FailDocumentAccords DEF DefinitelyNotCommitted
<1>8. CASE WriteOutcomeLost(w)
  <2>1. CASE GiveUp(w)
    BY <1>8, <2>1, FailedAccords DEF WriteOutcomeLost
  <2>2. CASE ~ GiveUp(w)
    <3> DEFINE n == [k EXCEPT !.pc = "look", !.st = "uncertain"]
    <3>1. n \in TaskRecord /\ n.pc = "look" /\ task'[w] = n
      BY <1>8, <1>k, <2>2 DEF TaskRecord, Pcs, WriteOutcomeLost
    <3>2. Accords(w, n)
      BY <1>8, <1>k DEF TaskRecord, Accords, WriteOutcomeLost
    <3> HIDE DEF n
    <3> QED  BY <3>1, <3>2, AccordsKept
  <2> QED  BY <2>1, <2>2
<1>9. CASE CreateAnswered(w)
  <2> DEFINE n == [k EXCEPT !.pc = "look", !.own = TRUE]
  <2>1. n \in TaskRecord /\ n.pc = "look" /\ task'[w] = n
    BY <1>9, <1>k DEF TaskRecord, Pcs, CreateAnswered
  <2>2. Accords(w, n)
    BY <1>9, <1>k DEF TaskRecord, Accords, CreateAnswered
  <2> HIDE DEF n
  <2> QED  BY <2>1, <2>2, AccordsKept
<1>10. CASE RecordCandidate(w)
  <2> DEFINE by == IF k.by = Nobody THEN w ELSE k.by
  <2>1. PICK c \in Candidates(w) :
          \/ task' = [task EXCEPT ![w] = [@ EXCEPT !.pc = "verify", !.cand = c, !.by = by]]
          \/ GiveUp(w)
    BY <1>10 DEF RecordCandidate
  <2>2. CASE GiveUp(w)
    BY <1>10, <2>2, FailedAccords DEF RecordCandidate
  <2>3. CASE task' = [task EXCEPT ![w] = [@ EXCEPT !.pc = "verify", !.cand = c, !.by = by]]
    <3> DEFINE n == [k EXCEPT !.pc = "verify", !.cand = c, !.by = by]
    <3>1. /\ c \in Landed(att[k.att].target, att[k.att].doc) /\ att[c].name = att[k.att].name
          /\ c \in 0..MaxAttempts /\ by \in Tasks \cup {Nobody}
      BY <1>k, <2>1, BoundsAssumption DEF Candidates, Landed, TaskRecord
    <3>2. n \in TaskRecord /\ n.pc = "verify" /\ task'[w] = n
      BY <1>k, <2>3, <3>1 DEF TaskRecord, Pcs
    <3>3. /\ n.att = k.att /\ n.st = k.st /\ n.target = k.target /\ n.cand = c
          /\ n.bad = k.bad /\ n.todo = k.todo
      BY <1>k DEF TaskRecord
    <3> HIDE DEF n
    <3>4. k.pc = "look" /\ k.att # 0 /\ att[k.att].target = k.target
      BY <1>10, <1>k DEF RecordCandidate, Accords
    <3>5. Accords(w, n)
      BY <1>k, <3>1, <3>2, <3>3, <3>4 DEF Accords
    <3> QED  BY <3>2, <3>5, AccordsKept
  <2> QED  BY <2>1, <2>2, <2>3
<1>11. CASE OutcomeUnclear(w)
  BY <1>11, FailDocumentAccords DEF OutcomeUnclear
<1>12. CASE RecordProvenance(w)
  <2>1. /\ task'[w].pc = "prove" /\ task'[w].att = k.att /\ task'[w].st = k.st
        /\ task'[w].target = k.target /\ task'[w].cand = k.cand
        /\ task'[w].bad = k.bad /\ task'[w].todo = k.todo
    BY <1>12, <1>k DEF TaskRecord, RecordProvenance
  <2>2. k.pc = "verify" /\ att' = att /\ wire' = wire /\ k.att \in prov'
    BY <1>12 DEF RecordProvenance
  <2>3. \A d \in Docs : Landed(t, d)' = Landed(t, d)
    BY <2>2 DEF Landed
  <2> QED  BY <1>k, <1>h, <1>v, <2>1, <2>2, <2>3 DEF TaskOK, Accords, Landed, VerifiedDocs, IsVerified
<1>13. CASE RecordVerified(w)
  <2> DEFINE d == att[k.att].doc
  <2>1. /\ k.pc = "prove" /\ k.att \in Attempts /\ att[k.att].target = k.target /\ d \in Docs
        /\ k.target \in Targets
    BY <1>13, HeldAttempt DEF RecordVerified, TaskRecord
  <2>2. CASE GiveUp(w) \/ Advance(w, d, TRUE)
    BY <2>1, <2>2, FailedAccords
  <2>3. CASE Advance(w, d, FALSE)
    <3>1. att'[k.att].state = "verified" /\ att'[k.att].target = k.target /\ att'[k.att].doc = d
      BY <1>13, <2>1, PersistEffect DEF RecordVerified, Settle
    <3>2. d \in VerifiedDocs(t)'
      BY <1>h, <2>1, <3>1 DEF VerifiedDocs, IsVerified
    <3>3. /\ task'[w].pc = "next" /\ task'[w].att = 0 /\ task'[w].target = k.target
          /\ task'[w].todo = k.todo \ {d} /\ (~ task'[w].bad => ~ k.bad)
      BY <1>k, <2>3 DEF Advance, Idle
    <3>4. ~ k.bad => Docs \ (k.todo \ {d}) \subseteq VerifiedDocs(t)'
      <4>1. ~ k.bad => Docs \ k.todo \subseteq VerifiedDocs(t)
        BY <1>k, <1>h, <2>1 DEF Accords
      <4> QED  BY <1>v, <3>2, <4>1
    <3>5. w \in Targets => k.target = w
      BY <1>k, <2>1 DEF Accords
    <3> HIDE DEF d
    <3> QED  BY <1>h, <3>3, <3>4, <3>5 DEF TaskOK, Accords, VerifiedDocs, IsVerified
  <2> QED  BY <1>13, <2>2, <2>3 DEF RecordVerified
<1>14. CASE ProofNotRecorded(w)
  <2>1. att[k.att].doc \in Docs
    BY <1>14, HeldAttempt DEF ProofNotRecorded
  <2> QED  BY <1>14, <2>1, FailedAccords DEF ProofNotRecorded
<1> QED
  BY <1>1, <1>2, <1>3, <1>4, <1>5, <1>6, <1>7, <1>8, <1>9, <1>10, <1>11, <1>12, <1>13, <1>14
  DEF TaskStep

\* What a step leaves in the locals of a task, when the step is not one of the task: what
\* was there, or a record that holds no attempt or looks for the one it loaded.
Restful(w, k) ==
  /\ k \in TaskRecord
  /\ k.pc \notin {"intent", "sent", "look", "verify", "prove"}
  /\ Accords(w, k)

LEMMA IdleAccords == \A w \in Tasks : Restful(w, Idle)
BY IdleType DEF Restful, Accords, Idle

LEMMA OtherStepTasks ==
  ASSUME TypeOK, TaskInv, [Next]_vars, ~ \E w \in Tasks : TaskStep(w), NEW w \in Tasks
  PROVE  task'[w] = task[w] \/ Restful(w, task'[w])
<1> USE DEF durable
<1> DEFINE k == task[w]
<1>k. k \in TaskRecord /\ Accords(w, k) /\ task \in [Tasks -> TaskRecord]
  BY DEF TypeOK, TaskInv, TaskOK
<1>i. Restful(w, Idle)
  BY IdleAccords
<1>n. \A u \in Tasks : NoRunTasks[u] = IF u \in Targets THEN Idle ELSE task[u]
  BY DEF NoRunTasks
<1>1. CASE RunStart \/ RunBoundaryFails \/ RunNotNeeded \/ Cancel \/ UNCHANGED vars
  BY <1>1 DEF RunStart, RunBoundaryFails, RunNotNeeded, RunEnds, Cancel, vars
<1>2. CASE RunBegin
  <2> DEFINE chosen == {t \in Targets : TargetState(Materialized, t) = "pending"}
             queued(u) == [Idle EXCEPT !.pc = "queued", !.target = u, !.todo = Docs \ VerifiedDocs(u)]
  <2>1. CASE chosen = {}
    BY <1>2, <2>1 DEF RunBegin, RunEnds
  <2>2. CASE chosen # {}
    <3>1. task' = [u \in Tasks |-> IF u \in chosen THEN queued(u) ELSE task[u]]
      BY <1>2, <2>2 DEF RunBegin
    <3>2. ASSUME NEW u \in Targets  PROVE Restful(u, queued(u))
      <4> DEFINE n == queued(u)
      <4>1. n \in TaskRecord /\ n.pc = "queued" /\ n.target = u /\ n.att = 0 /\ n.todo = Docs \ VerifiedDocs(u)
        BY <3>2, IdleType DEF TaskRecord, Pcs, Idle
      <4> HIDE DEF n
      <4>2. Restful(u, n)
        BY <4>1 DEF Restful, Accords
      <4> QED  BY <4>2 DEF n
    <3> QED  BY <3>1, <3>2
  <2> QED  BY <2>1, <2>2
<1>3. CASE RunSetUp \/ RunFinish \/ RunFails
  <2>1. task' = task \/ task' = NoRunTasks \/ \E failed : task' = [u \in Tasks |-> IF u \in failed THEN Idle ELSE task[u]]
    BY <1>3 DEF RunSetUp, RunFinish, RunFails, RunEnds
  <2> QED  BY <1>i, <1>n, <2>1
<1>4. CASE Restart
  BY <1>4, <1>i DEF Restart
<1>5. ASSUME NEW t \in Targets, TargetStart(t)  PROVE task'[w] = task[w] \/ Restful(w, task'[w])
  <2>1. CASE w = t
    <3> DEFINE n == [k EXCEPT !.pc = "reprove"]
    <3>1. task'[w] = n
      BY <1>5, <1>k, <2>1 DEF TargetStart
    <3>2. Restful(w, n)
      BY <1>5, <1>k, <2>1 DEF TargetStart, Restful, Accords, TaskRecord, Pcs
    <3> QED  BY <3>1, <3>2
  <2>2. CASE w # t
    BY <1>5, <1>k, <2>2 DEF TargetStart
  <2> QED  BY <2>1, <2>2
<1>6. ASSUME NEW t \in Targets, TargetEnd(t)  PROVE task'[w] = task[w] \/ Restful(w, task'[w])
  <2>1. CASE w = t
    <3> DEFINE n == [Idle EXCEPT !.pc = "done", !.target = t, !.bad = task[t].bad]
    <3>1. task'[w] = n
      BY <1>6, <1>k, <2>1 DEF TargetEnd
    <3>a. task[t].bad \in BOOLEAN
      BY <1>k, <2>1 DEF TaskRecord
    <3>b. n \in TaskRecord
      BY <3>a, IdleType DEF TaskRecord, Pcs
    <3>c. n.pc = "done" /\ n.target = t /\ n.bad = k.bad /\ n.att = 0 /\ n.todo = {}
      BY <2>1 DEF Idle
    <3>2. n \in TaskRecord /\ n.pc = "done" /\ n.target = t /\ n.bad = k.bad /\ n.att = 0 /\ n.todo = {}
      BY <3>b, <3>c
    <3> HIDE DEF n
    <3>3. k.pc \in {"next", "end"} /\ (~ k.bad => k.todo = {})
      BY <1>6, <1>k, <2>1 DEF TargetEnd, Ended, Accords
    <3>4. ~ k.bad => Docs \subseteq VerifiedDocs(t)
      BY <1>k, <2>1, <3>3 DEF Accords
    <3>5. Restful(w, n)
      BY <2>1, <3>2, <3>4 DEF Restful, Accords
    <3> QED  BY <3>1, <3>5
  <2>2. CASE w # t
    BY <1>6, <1>k, <2>2 DEF TargetEnd
  <2> QED  BY <2>1, <2>2
<1>7. ASSUME NEW r \in RetryIds, RetryStep(r)  PROVE task'[w] = task[w] \/ Restful(w, task'[w])
  <2>1. CASE w # r
    BY <1>7, <1>k, <2>1 DEF RetryStep, RetrySetupFails, RetryConflicts, RetryClaim, RetryEnd
  <2>2. CASE w = r /\ ~ RetryClaim(r)
    BY <1>7, <1>k, <1>i, <2>2 DEF RetryStep, RetrySetupFails, RetryConflicts, RetryEnd
  <2>3. CASE w = r /\ RetryClaim(r)
    <3> DEFINE t == k.target
               claimed == [Idle EXCEPT !.pc = "reprove", !.target = t, !.todo = Docs \ VerifiedDocs(t)]
               open == {a \in Attempts : Active(a) /\ att[a].target = t}
               loaded(a) == [claimed EXCEPT !.rec = TRUE, !.att = a,
                               !.st = att[a].state, !.cand = att[a].cand, !.by = att[a].by]
    <3>t. t \in Targets /\ w \notin Targets
      BY <1>k, <2>3, TasksAssumption DEF TaskRecord
    <3>1. /\ claimed \in TaskRecord
          /\ claimed.pc = "reprove" /\ claimed.target = t /\ claimed.att = 0
          /\ claimed.bad = FALSE /\ claimed.todo = Docs \ VerifiedDocs(t)
      BY <3>t, IdleType DEF TaskRecord, Pcs, Idle
    <3> HIDE DEF claimed
    <3>2. CASE open = {}
      <4>1. task'[w] = claimed
        BY <1>k, <2>3, <3>2 DEF RetryClaim, claimed
      <4>2. Restful(w, claimed)
        BY <3>t, <3>1 DEF Restful, Accords
      <4> QED  BY <4>1, <4>2
    <3>3. CASE open # {}
      <4>1. PICK a \in open : task' = [task EXCEPT ![w] = loaded(a)]
        BY <2>3, <3>3 DEF RetryClaim, claimed
      <4>2. /\ att[a] \in AttemptRecord /\ att[a].target = t
            /\ att[a].state \in {"dispatched", "uncertain"} /\ a \in 0..MaxAttempts
        BY BoundsAssumption DEF Active, TypeOK
      <4>3. /\ loaded(a) \in TaskRecord
            /\ loaded(a).pc = "reprove" /\ loaded(a).target = t /\ loaded(a).att = a
            /\ loaded(a).st = att[a].state /\ loaded(a).bad = FALSE
            /\ loaded(a).todo = Docs \ VerifiedDocs(t)
        BY <3>1, <4>2 DEF TaskRecord, AttemptRecord
      <4>4. task'[w] = loaded(a)
        BY <1>k, <4>1
      <4> HIDE DEF loaded
      <4>5. Restful(w, loaded(a))
        BY <3>t, <4>2, <4>3 DEF Restful, Accords
      <4> QED  BY <4>4, <4>5
    <3> QED  BY <3>2, <3>3
  <2> QED  BY <2>1, <2>2, <2>3
<1>8. ASSUME NEW r \in RetryIds, NEW t \in Targets,
             RetryRefused(r, t) \/ RetryNotExecutable(r, t) \/ RetryAdmitted(r, t)
      PROVE  task'[w] = task[w] \/ Restful(w, task'[w])
  <2>1. CASE task' = task
    BY <2>1
  <2>2. CASE task' = [task EXCEPT ![r] = [Idle EXCEPT !.pc = "setup", !.target = t]]
    <3> DEFINE n == [Idle EXCEPT !.pc = "setup", !.target = t]
    <3>1. Restful(r, n)
      BY <1>8, IdleType, TasksAssumption DEF Restful, Accords, TaskRecord, Pcs, Idle
    <3> QED  BY <1>k, <2>2, <3>1
  <2> QED  BY <1>8, <2>1, <2>2 DEF RetryRefused, RetryNotExecutable, RetryAdmitted
<1>9. ASSUME NEW a \in Attempts, DestinationCommits(a) \/ DestinationRejects(a)
      PROVE  task'[w] = task[w]
  BY <1>9 DEF DestinationCommits, DestinationRejects
<1> QED
  BY <1>1, <1>2, <1>3, <1>4, <1>5, <1>6, <1>7, <1>8, <1>9 DEF Next, RunStep

\* The other steps declare no attempt unwritten and send no request.
LEMMA OtherStepLedger ==
  ASSUME TypeOK, TaskInv, [Next]_vars, ~ \E w \in Tasks : TaskStep(w), NEW a \in Attempts
  PROVE  /\ att'[a].state = "failed_prewrite" => att[a].state = "failed_prewrite"
         /\ wire[a] = "unsent" => wire'[a] = "unsent"
<1> USE DEF durable
<1>1. CASE Restart
  <2>1. wire' = wire
    BY <1>1 DEF Restart
  <2>2. att' = att \/ Restarts
    BY <1>1 DEF Restart, Restarts
  <2>3. Restarts => (att'[a].state = "failed_prewrite" => att[a].state = "failed_prewrite")
    BY RestartsEffect DEF RecoveredState
  <2> QED  BY <2>1, <2>2, <2>3
<1>2. ASSUME NEW b \in Attempts, DestinationCommits(b) \/ DestinationRejects(b)
      PROVE  att' = att /\ (wire[a] = "unsent" => wire'[a] = "unsent")
  BY <1>2 DEF DestinationCommits, DestinationRejects, TypeOK
<1>3. CASE ~ Restart /\ ~ \E b \in Attempts : DestinationCommits(b) \/ DestinationRejects(b)
  BY <1>3 DEF Next, RunStep, RunStart, RunBoundaryFails, RunNotNeeded, RunBegin, RunSetUp, RunFinish,
    RunFails, TargetStart, TargetEnd, RetryStep, RetrySetupFails, RetryConflicts, RetryClaim, RetryEnd,
    RetryRefused, RetryNotExecutable, RetryAdmitted, Cancel, vars
<1> QED
  BY <1>1, <1>2, <1>3

LEMMA TaskInvStep ==
  ASSUME TypeOK, TaskInv, OneSender, UnusedIsUnsent, VerifiedIsProven, [Next]_vars
  PROVE  TaskInv'
<1>f. Frame
  BY FrameStep
<1> SUFFICES ASSUME NEW w \in Tasks  PROVE TaskOK(w)'
  BY DEF TaskInv
<1> DEFINE k == task[w]
<1>k. k \in TaskRecord /\ Accords(w, k)
  BY DEF TypeOK, TaskInv, TaskOK
<1>s. Sending(w) => /\ k.att \in Attempts /\ att[k.att].state # "failed_prewrite"
                    /\ k.pc = "intent" => wire[k.att] = "unsent"
  BY <1>k, BoundsAssumption DEF Sending, Accords, TaskRecord
<1>1. ASSUME NEW v \in Tasks, TaskStep(v)  PROVE TaskOK(w)'
  <2>1. CASE v = w
    BY <1>1, <1>f, <2>1, OwnTaskStep
  <2>2. CASE v # w
    <3>1. task'[w] = k
      BY <1>1, <2>2, TaskStepEffect
    <3>2. Sending(w) => ~ (Sending(v) /\ k.att = task[v].att)
      BY <2>2 DEF OneSender, Sending
    <3>3. Sending(w) => att'[k.att].state # "failed_prewrite" /\ wire'[k.att] = wire[k.att]
      BY <1>1, <1>s, <3>2, TaskStepEffect
    <3>4. /\ k.pc \in {"intent", "sent"} => att'[k.att].state # "failed_prewrite"
          /\ k.pc = "intent" => wire'[k.att] = "unsent"
      BY <1>s, <3>3 DEF Sending
    <3> HIDE DEF k
    <3> QED  BY <1>f, <1>k, <3>1, <3>4, AccordsKept
  <2> QED  BY <2>1, <2>2
<1>2. CASE ~ \E v \in Tasks : TaskStep(v)
  <2>1. CASE Restful(w, task'[w])
    <3>1. PICK n \in TaskRecord : n = task'[w]
      BY <2>1 DEF Restful
    <3>2. n \in TaskRecord /\ Accords(w, n) /\ n.pc \notin {"intent", "sent"}
      BY <2>1, <3>1 DEF Restful
    <3> QED  BY <1>f, <3>1, <3>2, AccordsKept
  <2>2. CASE task'[w] = k
    <3>1. /\ k.pc \in {"intent", "sent"} => att'[k.att].state # "failed_prewrite"
          /\ k.pc = "intent" => wire'[k.att] = "unsent"
      BY <1>2, <1>s, OtherStepLedger DEF Sending
    <3> HIDE DEF k
    <3> QED  BY <1>f, <1>k, <2>2, <3>1, AccordsKept
  <2> QED  BY <1>2, <2>1, <2>2, OtherStepTasks
<1> QED
  BY <1>1, <1>2

\* A task becomes the sender of an attempt only when it opens it.
LEMMA NewSender ==
  ASSUME TypeOK, TaskInv, NEW w \in Tasks, TaskStep(w), Sending(w)'
  PROVE  \/ Sending(w) /\ task'[w].att = task[w].att
         \/ task'[w].att \in Attempts /\ att[task'[w].att].state = "none"
<1>k. task[w] \in TaskRecord /\ task \in [Tasks -> TaskRecord]
  BY DEF TypeOK
<1>1. \A d, failed : ~ Advance(w, d, failed) /\ ~ GiveUp(w)
  BY <1>k DEF Advance, GiveUp, Sending, Idle
<1>2. CASE Send(w)
  BY <1>2, <1>k DEF Send, Sending, TaskRecord
<1>3. CASE PersistIntent(w)
  <2>1. PICK a \in Attempts :
          /\ Used = 1..(a - 1)
          /\ task' = [task EXCEPT ![w] = [@ EXCEPT !.pc = "intent", !.att = a, !.st = "dispatched"]]
    BY <1>1, <1>3 DEF PersistIntent
  <2>2. a \notin Used
    BY <2>1, BoundsAssumption
  <2>3. task'[w].att = a
    BY <1>k, <2>1 DEF TaskRecord
  <2> QED  BY <2>2, <2>3 DEF Used
<1>4. CASE Reprove(w)
  BY <1>4, <1>k DEF Reprove, Sending, TaskRecord
<1>5. CASE ReadBaseline(w)
  <2>1. PICK n \in 0..MaxAttempts : task' = [task EXCEPT ![w] = [@ EXCEPT !.pc = "named", !.name = n]]
    BY <1>5 DEF ReadBaseline
  <2> QED  BY <1>k, <2>1 DEF Sending, TaskRecord
<1>6. CASE WriteOutcomeLost(w) \/ CreateAnswered(w) \/ RecordProvenance(w)
  <2>1. WriteOutcomeLost(w) => task'[w].pc = "look"
    <3>1. WriteOutcomeLost(w) => task' = [task EXCEPT ![w] = [@ EXCEPT !.pc = "look", !.st = "uncertain"]]
      BY <1>1 DEF WriteOutcomeLost
    <3> QED  BY <1>k, <3>1 DEF TaskRecord
  <2>2. CreateAnswered(w) => task'[w].pc = "look"
    BY <1>k DEF CreateAnswered, TaskRecord
  <2>3. RecordProvenance(w) => task'[w].pc = "prove"
    BY <1>k DEF RecordProvenance, TaskRecord
  <2> QED  BY <1>6, <2>1, <2>2, <2>3 DEF Sending
<1>7. CASE RecordCandidate(w)
  <2> DEFINE by == IF task[w].by = Nobody THEN w ELSE task[w].by
  <2>1. PICK c \in Candidates(w) :
          task' = [task EXCEPT ![w] = [@ EXCEPT !.pc = "verify", !.cand = c, !.by = by]]
    BY <1>1, <1>7 DEF RecordCandidate
  <2> QED  BY <1>k, <2>1 DEF Sending, TaskRecord
<1> QED
  BY <1>1, <1>2, <1>3, <1>4, <1>5, <1>6, <1>7
  DEF TaskStep, Throw, DocumentNotReady, DefinitelyNotCommitted, OutcomeUnclear, RecordVerified,
      ProofNotRecorded, FailDocument

LEMMA OneSenderStep ==
  ASSUME TypeOK, TaskInv, OneSender, [Next]_vars
  PROVE  OneSender'
<1>1. \A v, w \in Tasks : Sending(v) /\ Sending(w) /\ task[v].att = task[w].att => v = w
  BY DEF OneSender, Sending
<1>2. \A v \in Tasks : Sending(v) => att[task[v].att].state # "none"
  BY HeldAttempt DEF Sending
<1>3. ASSUME NEW u \in Tasks, TaskStep(u), NEW v \in Tasks, NEW w \in Tasks,
             Sending(v)', Sending(w)', task'[v].att = task'[w].att
      PROVE  v = w
  <2>1. \A x \in Tasks \ {u} : task'[x] = task[x]
    BY <1>3, TaskStepEffect
  <2>2. \A x \in Tasks \ {u} : Sending(x)' => Sending(x) /\ task'[x].att = task[x].att
    BY <2>1 DEF Sending
  <2>3. Sending(u)' => \/ Sending(u) /\ task'[u].att = task[u].att
                       \/ att[task'[u].att].state = "none"
    BY <1>3, NewSender
  <2> QED  BY <1>1, <1>2, <1>3, <2>2, <2>3
<1>4. ASSUME ~ \E u \in Tasks : TaskStep(u), NEW v \in Tasks, NEW w \in Tasks,
             Sending(v)', Sending(w)', task'[v].att = task'[w].att
      PROVE  v = w
  <2>1. \A x \in Tasks : Sending(x)' => task'[x] = task[x]
    BY <1>4, OtherStepTasks DEF Restful, Sending
  <2>2. Sending(v) /\ Sending(w) /\ task[v].att = task[w].att
    BY <1>4, <2>1 DEF Sending
  <2> QED  BY <1>1, <2>2
<1> QED
  BY <1>3, <1>4 DEF OneSender, Sending

-----------------------------------------------------------------------------
(* What the job and its targets report. *)

\* A target is recorded as succeeded only when it was, or its documents are verified.
Honest(res) ==
  \A t \in Targets : res[t] = "succeeded" => VerifiedDocs(t) = Docs

LEMMA ResultStep ==
  ASSUME TypeOK, TaskInv, SucceededIsBacked, [Next]_vars
  PROVE  Honest(result')
<1> USE DEF durable
<1>0. Honest(result)
  BY DEF SucceededIsBacked, Honest
<1>m. Honest(Materialized)
  BY <1>0 DEF Honest, Materialized
<1>r. ASSUME NEW res \in [Targets -> {"none", "succeeded", "needs_attention"}], Honest(res),
             NEW w \in Tasks, NEW t, t = task[w].target, Ended(w)
      PROVE  Honest(Recorded(res, t, task[w].bad))
  <2>1. task[w] \in TaskRecord /\ Accords(w, task[w])
    BY DEF TypeOK, TaskInv, TaskOK
  <2>2. ~ task[w].bad => task[w].todo = {} /\ Docs \subseteq VerifiedDocs(t)
    BY <1>r, <2>1 DEF Ended, Accords
  <2>3. VerifiedDocs(t) \subseteq Docs
    BY DEF VerifiedDocs
  <2> QED  BY <1>r, <2>2, <2>3 DEF Honest, Recorded
<1>b. ASSUME NEW res \in [Targets -> {"none", "succeeded", "needs_attention"}], Honest(res), NEW t
      PROVE  Honest(Recorded(res, t, TRUE))
  BY <1>b DEF Honest, Recorded
<1>1. CASE result' = result
  BY <1>0, <1>1
<1>2. CASE RunBoundaryFails
  BY <1>0, <1>2 DEF RunBoundaryFails, Honest
<1>3. CASE RunBegin
  BY <1>m, <1>3 DEF RunBegin
<1>4. CASE RunSetUp
  BY <1>0, <1>4 DEF RunSetUp, Honest
<1>5. CASE RunFinish
  <2>1. CASE job.status = "canceled"
    BY <1>0, <1>5, <2>1 DEF RunFinish
  <2>2. CASE job.status # "canceled"
    <3>1. result' = [t \in Targets |-> IF task[t].pc # "done" THEN result[t]
                       ELSE IF task[t].bad THEN "needs_attention" ELSE "succeeded"]
      BY <1>5, <2>2 DEF RunFinish
    <3>2. ASSUME NEW t \in Targets, task[t].pc = "done", ~ task[t].bad
          PROVE  VerifiedDocs(t) = Docs
      <4>1. Accords(t, task[t])
        BY DEF TaskInv, TaskOK
      <4>2. task[t].target = t /\ task[t].todo = {} /\ Docs \subseteq VerifiedDocs(t)
        BY <3>2, <4>1 DEF Accords
      <4> QED  BY <4>2 DEF VerifiedDocs
    <3> QED  BY <1>0, <3>1, <3>2 DEF Honest
  <2> QED  BY <2>1, <2>2
<1>6. ASSUME NEW t \in Targets, TargetEnd(t)  PROVE Honest(result')
  <2>1. task[t].target = t
    BY <1>6 DEF TargetEnd, Ended, TaskInv, TaskOK, Accords
  <2> QED  BY <1>0, <1>6, <1>r, <2>1 DEF TargetEnd, TypeOK
<1>7. ASSUME NEW w \in RetryIds, RetrySetupFails(w) \/ RetryEnd(w)  PROVE Honest(result')
  <2>t. result \in [Targets -> {"none", "succeeded", "needs_attention"}]
    BY DEF TypeOK
  <2>1. CASE RetrySetupFails(w)
    BY <1>0, <1>b, <2>t, <2>1 DEF RetrySetupFails
  <2>2. CASE RetryEnd(w)
    <3>1. Honest(Recorded(result, task[w].target, task[w].bad))
      BY <1>0, <1>r, <2>t, <2>2 DEF RetryEnd
    <3> QED  BY <1>0, <2>2, <3>1 DEF RetryEnd
  <2> QED  BY <1>7, <2>1, <2>2
<1>8. ASSUME NEW w \in RetryIds, NEW t \in Targets,
             RetryRefused(w, t) \/ RetryNotExecutable(w, t) \/ RetryAdmitted(w, t)
      PROVE  Honest(result')
  <2>1. CASE RetryRefused(w, t)
    BY <1>0, <1>m, <2>1, RefusedResult DEF Honest
  <2>2. CASE RetryNotExecutable(w, t) \/ RetryAdmitted(w, t)
    BY <1>b, <1>m, <2>2, ResultTypes DEF RetryNotExecutable, RetryAdmitted
  <2> QED BY <1>8, <2>1, <2>2
<1>9. \A w \in Tasks : TaskStep(w) => result' = result
  BY DEF TaskStep, Reprove, Throw, DocumentNotReady, ReadBaseline, PersistIntent, Send,
    DefinitelyNotCommitted, WriteOutcomeLost, CreateAnswered, RecordCandidate, OutcomeUnclear,
    RecordProvenance, RecordVerified, ProofNotRecorded
<1>10. RunStart \/ RunNotNeeded \/ RunFails \/ Cancel \/ Restart \/ UNCHANGED vars => result' = result
  BY DEF RunStart, RunNotNeeded, RunFails, Cancel, Restart, vars
<1>11. \A t \in Targets : TargetStart(t) => result' = result
  BY DEF TargetStart
<1>12. \A w \in RetryIds : RetryConflicts(w) \/ RetryClaim(w) => result' = result
  BY DEF RetryConflicts, RetryClaim
<1>13. \A a \in Attempts : DestinationCommits(a) \/ DestinationRejects(a) => result' = result
  BY DEF DestinationCommits, DestinationRejects
<1> QED
  BY <1>1, <1>2, <1>3, <1>4, <1>5, <1>6, <1>7, <1>8, <1>9, <1>10, <1>11, <1>12, <1>13
  DEF Next, RunStep, RetryStep

\* The status of the job: kept, back to running, canceled without an open write, or computed.
LEMMA StatusStep ==
  ASSUME TypeOK, [Next]_vars
  PROVE  \/ job' = job /\ AnyActive' = AnyActive
         \/ job'.status = "running"
         \/ job'.status = "canceled" /\ ~ AnyActive /\ att' = att
         \/ job' \in {Finalized(result'), RuntimeFailed} /\ att' = att
         \/ job' = Recovered /\ AnyActive' = AnyActive
<1> USE DEF durable
<1>a. att' = att => AnyActive' = AnyActive
  BY DEF AnyActive, Active
<1>1. ASSUME NEW w \in Tasks, TaskStep(w)  PROVE (job' = job /\ att' = att) \/ job'.status = "running"
  <2>1. \A a, to, cand, by : Persist(a, to, cand, by) => job'.status = "running"
    BY DEF Persist
  <2>2. \A to : Settle(w, to) => job'.status = "running"
    BY <2>1 DEF Settle
  <2>3. ASSUME RecordCandidate(w) \/ PersistIntent(w)  PROVE job'.status = "running"
    <3>1. RecordCandidate(w) => \E c, by : Persist(task[w].att, task[w].st, c, by)
      BY DEF RecordCandidate
    <3>2. PersistIntent(w) => job' = [status |-> "running", reconcile |-> FALSE]
      BY DEF PersistIntent
    <3> QED  BY <2>1, <2>3, <3>1, <3>2
  <2>4. /\ DefinitelyNotCommitted(w) => Settle(w, "failed_prewrite")
        /\ WriteOutcomeLost(w) \/ OutcomeUnclear(w) => Settle(w, "uncertain")
        /\ RecordVerified(w) => Settle(w, "verified")
    BY DEF DefinitelyNotCommitted, WriteOutcomeLost, OutcomeUnclear, RecordVerified
  <2>5. ProofNotRecorded(w) => Settle(w, "uncertain") \/ UNCHANGED <<att, job>>
    BY DEF ProofNotRecorded
  <2> QED
    BY <1>1, <2>2, <2>3, <2>4, <2>5 DEF TaskStep, Reprove, Throw, DocumentNotReady, ReadBaseline, Send,
      CreateAnswered, RecordProvenance
<1>2. CASE Restart
  <2>1. Restarts => AnyActive' = AnyActive
    BY RestartsEffect DEF AnyActive, Active, RecoveredState
  <2> QED  BY <1>2, <1>a, <2>1 DEF Restart, Restarts
<1>3. CASE Cancel
  BY <1>3 DEF Cancel, TypeOK
<1>4. CASE RunStart \/ RunStep \/ UNCHANGED vars
  <2>1. CASE RunStart \/ RunNotNeeded \/ UNCHANGED vars
    BY <1>a, <2>1 DEF RunStart, RunNotNeeded, vars
  <2>2. CASE RunBoundaryFails \/ RunFinish \/ RunFails
    BY <2>2 DEF RunBoundaryFails, RunFinish, RunFails
  <2>3. CASE RunBegin
    <3> DEFINE chosen == {t \in Targets : TargetState(Materialized, t) = "pending"}
    <3>0. IF chosen = {} THEN job' = Finalized(result')
          ELSE job' = [status |-> "running", reconcile |-> FALSE]
      BY <2>3 DEF RunBegin
    <3> HIDE DEF chosen
    <3>1. job' = Finalized(result') \/ job'.status = "running"
      BY <3>0
    <3>2. att' = att
      BY <2>3 DEF RunBegin
    <3> QED  BY <3>1, <3>2
  <2>4. CASE RunSetUp
    <3>1. job' = Finalized(result') \/ job' = job
      BY <2>4 DEF RunSetUp
    <3> QED  BY <1>a, <2>4, <3>1 DEF RunSetUp
  <2> QED  BY <1>4, <2>1, <2>2, <2>3, <2>4 DEF RunStep
<1>5. CASE \E t \in Targets : TargetStart(t) \/ TargetEnd(t)
  BY <1>5, <1>a DEF TargetStart, TargetEnd
<1>6. ASSUME NEW w \in RetryIds, RetryStep(w)
      PROVE  \/ job' = job /\ att' = att
             \/ job'.status = "running"
             \/ job' \in {Finalized(result'), RuntimeFailed} /\ att' = att
  <2>1. CASE RetryClaim(w)
    BY <2>1 DEF RetryClaim
  <2>2. CASE RetrySetupFails(w) \/ RetryConflicts(w) \/ RetryEnd(w)
    BY <2>2 DEF RetrySetupFails, RetryConflicts, RetryEnd
  <2> QED  BY <1>6, <2>1, <2>2 DEF RetryStep
<1>7. CASE \E w \in RetryIds, t \in Targets :
             RetryRefused(w, t) \/ RetryNotExecutable(w, t) \/ RetryAdmitted(w, t)
  BY <1>7, <1>a DEF RetryRefused, RetryNotExecutable, RetryAdmitted
<1>8. CASE \E a \in Attempts : DestinationCommits(a) \/ DestinationRejects(a)
  BY <1>8, <1>a DEF DestinationCommits, DestinationRejects
<1> QED
  BY <1>1, <1>2, <1>3, <1>4, <1>5, <1>6, <1>7, <1>8, <1>a DEF Next

LEMMA EndedStep ==
  ASSUME TypeOK, EndedJobOwnsNoWrite, [Next]_vars
  PROVE  EndedJobOwnsNoWrite'
<1>1. att' = att => AnyActive' = AnyActive
  BY DEF AnyActive, Active
<1>2. AnyActive /\ job.status # "canceled" => Finalized(result').status = "pending"
  BY DEF Finalized
<1>3. AnyActive /\ job.status # "canceled" => RuntimeFailed.status = "pending"
  BY DEF RuntimeFailed
<1>4. AnyActive => Recovered.status = "pending"
  BY DEF Recovered
<1> QED
  BY <1>1, <1>2, <1>3, <1>4, StatusStep DEF EndedJobOwnsNoWrite

LEMMA BackedStep ==
  ASSUME TypeOK, TaskInv, UnusedIsUnsent, VerifiedIsProven, SucceededIsBacked, [Next]_vars
  PROVE  SucceededIsBacked'
<1>f. Frame
  BY FrameStep
<1>g. ASSUME NEW t \in Targets, VerifiedDocs(t) = Docs  PROVE VerifiedDocs(t)' = Docs
  <2>1. VerifiedDocs(t) \subseteq VerifiedDocs(t)'
    BY <1>f, EvidenceGrows
  <2>2. VerifiedDocs(t)' \subseteq Docs
    BY DEF VerifiedDocs
  <2> QED  BY <1>g, <2>1, <2>2
<1>1. Honest(result')
  BY ResultStep
<1>2. ASSUME NEW res, Honest(res), Verdict(res) = "succeeded"
      PROVE  \A t \in Targets : VerifiedDocs(t) = Docs
  BY <1>2 DEF Honest, Verdict, TargetState
<1>3. Honest(result)
  BY DEF SucceededIsBacked, Honest
<1>4. ASSUME job'.status = "succeeded"  PROVE \A t \in Targets : VerifiedDocs(t) = Docs
  <2>1. CASE job'.status = job.status
    BY <1>4, <2>1 DEF SucceededIsBacked
  <2>2. CASE job' = Finalized(result') /\ job' # job
    BY <1>1, <1>2, <1>4, <2>2 DEF Finalized
  <2>3. CASE job' = RuntimeFailed /\ job' # job
    BY <1>4, <2>3 DEF RuntimeFailed
  <2>4. CASE job' = Recovered
    BY <1>2, <1>3, <1>4, <2>4 DEF Recovered
  <2> QED  BY <1>4, <2>1, <2>2, <2>3, <2>4, StatusStep
<1>5. \A t \in Targets : result'[t] = "succeeded" => VerifiedDocs(t)' = Docs
  BY <1>1, <1>g DEF Honest
<1>6. job'.status = "succeeded" => \A t \in Targets : VerifiedDocs(t)' = Docs
  BY <1>4, <1>g
<1> QED
  BY <1>5, <1>6 DEF SucceededIsBacked

-----------------------------------------------------------------------------
(* One copy of a document, while a destination has one owner. *)

\* An attempt that may have written is one that did before, or whose intent a task persists.
LEMMA SettlesLive ==
  ASSUME TypeOK, VerifiedIsProven, NEW b \in Attempts, Settles(b), NEW a \in Attempts, Live(a)'
  PROVE  Live(a)
<1>1. CASE a = b
  <2>1. att[a].state # "none"
    BY <1>1 DEF Settles
  <2>2. att[a].state = "failed_prewrite" => att'[a] = att[a]
    BY <1>1, SettledStays
  <2> QED BY <2>1, <2>2 DEF Live
<1>2. CASE a # b
  BY <1>2, PersistEffect DEF Settles, Live
<1> QED BY <1>1, <1>2

LEMMA TaskLive ==
  ASSUME TypeOK, TaskInv, VerifiedIsProven, NEW w \in Tasks, TaskStep(w), ~ PersistIntent(w),
         NEW a \in Attempts, Live(a)'
  PROVE  Live(a)
<1>1. CASE UNCHANGED att
  BY <1>1 DEF Live
<1>2. ASSUME NEW b \in Attempts, Settles(b)
      PROVE  Live(a)
  BY <1>2, SettlesLive
<1> QED BY <1>1, <1>2, TaskLedgerStep DEF Quiet, Sends

LEMMA OtherLive ==
  ASSUME TypeOK, [Next]_vars, ~ \E w \in Tasks : TaskStep(w), NEW a \in Attempts, Live(a)'
  PROVE  Live(a)
<1>1. CASE UNCHANGED att
  BY <1>1 DEF Live
<1>2. CASE Restarts
  BY <1>2, RestartsEffect DEF RecoveredState, Live, Active
<1>3. CASE Restart
  BY <1>1, <1>2, <1>3 DEF Restart, Restarts
<1>4. CASE ~ Restart
  BY <1>1, <1>4 DEF Next, RunStep, RunStart, RunBoundaryFails, RunNotNeeded, RunBegin,
    RunSetUp, RunFinish, RunFails, TargetStart, TargetEnd, RetryStep, RetrySetupFails, RetryConflicts,
    RetryClaim, RetryEnd, RetryRefused, RetryNotExecutable, RetryAdmitted, Cancel,
    DestinationCommits, DestinationRejects, durable, vars
<1> QED BY <1>3, <1>4

\* The attempt of a new intent is the first that may have written its document.
LEMMA IntentIsFirst ==
  ASSUME TypeOK, TaskInv, CopyInv, NEW w \in Tasks, PersistIntent(w)
  PROVE  \E a \in Attempts, d \in task[w].todo :
           /\ ~ Live(a) /\ Live(a)' /\ \A b \in Attempts \ {a} : att'[b] = att[b]
           /\ att'[a].target = task[w].target /\ att'[a].doc = d
           /\ \A b \in Attempts : Live(b) => ~ (att[b].target = task[w].target /\ att[b].doc = d)
           /\ \/ task'[w] = [task[w] EXCEPT !.pc = "intent", !.att = a, !.st = "dispatched"]
              \/ Advance(w, d, TRUE)
<1>1. /\ task[w] \in TaskRecord /\ task[w].pc = "named" /\ task \in [Tasks -> TaskRecord]
      /\ att \in [Attempts -> AttemptRecord]
  BY DEF TypeOK, PersistIntent
<1>2. PICK d \in task[w].todo, a \in Attempts :
        /\ Used = 1..(a - 1)
        /\ att' = [att EXCEPT ![a] = [NoAttempt EXCEPT !.state = "dispatched",
                     !.target = task[w].target, !.doc = d, !.name = task[w].name]]
        /\ \/ task' = [task EXCEPT ![w] = [@ EXCEPT !.pc = "intent", !.att = a, !.st = "dispatched"]]
           \/ Advance(w, d, TRUE)
  BY DEF PersistIntent
<1>3. a \notin Used
  BY <1>2, BoundsAssumption
<1>4. att[a].state = "none"
  BY <1>3 DEF Used
<1>5. /\ att'[a].state = "dispatched" /\ att'[a].target = task[w].target /\ att'[a].doc = d
      /\ \A b \in Attempts \ {a} : att'[b] = att[b]
  BY <1>1, <1>2, NoAttemptType DEF AttemptRecord
<1>6. \A b \in Attempts : Live(b) => ~ (att[b].target = task[w].target /\ att[b].doc = d)
  <2>1. task[w].att = 0 /\ StillTodo(task[w])
    BY <1>1 DEF CopyInv, StillTodo, Owns
  <2>2. \A b \in Attempts : b # 0
    BY BoundsAssumption
  <2> QED BY <1>1, <1>2, <2>1, <2>2 DEF StillTodo, Owns
<1>7. ~ Live(a) /\ Live(a)'
  BY <1>4, <1>5 DEF Live
<1>8. \/ task'[w] = [task[w] EXCEPT !.pc = "intent", !.att = a, !.st = "dispatched"]
      \/ Advance(w, d, TRUE)
  BY <1>1, <1>2
<1> QED BY <1>2, <1>5, <1>6, <1>7, <1>8

LEMMA OneLiveStep ==
  ASSUME TypeOK, TaskInv, VerifiedIsProven, CopyInv, [Next]_vars
  PROVE  OneLiveAttempt'
<1>f. Frame
  BY FrameStep
<1>s. \A a \in Attempts : Live(a) => att'[a].target = att[a].target /\ att'[a].doc = att[a].doc
  BY <1>f DEF Frame, Live
<1>1. CASE \A a \in Attempts : Live(a)' => Live(a)
  BY <1>1, <1>s DEF CopyInv, OneLiveAttempt
<1>2. ASSUME NEW w \in Tasks, PersistIntent(w)
      PROVE  OneLiveAttempt'
  <2>1. PICK a \in Attempts, d \in task[w].todo :
          /\ \A b \in Attempts \ {a} : att'[b] = att[b]
          /\ att'[a].target = task[w].target /\ att'[a].doc = d
          /\ \A b \in Attempts : Live(b) => ~ (att[b].target = task[w].target /\ att[b].doc = d)
    BY <1>2, IntentIsFirst
  <2> QED BY <2>1 DEF CopyInv, OneLiveAttempt, Live
<1> QED BY <1>1, <1>2, TaskLive, OtherLive

\* A task that has no new document left, and no new attempt that may have written, has left
\* what the attempt it holds is for.
LEMMA TodoKept ==
  ASSUME Frame, NEW k, NEW n, StillTodo(k), Owns(k),
         n.target = k.target, n.todo \subseteq k.todo,
         n.att = k.att \/ k.att = 0 \/ (n.att = 0 /\ att[k.att].doc \notin n.todo),
         n.pc \in {"queued", "next", "named"} => n.att = 0,
         k.att = 0 => n.att = 0,
         \A a \in Attempts : Live(a)' => Live(a)
  PROVE  StillTodo(n)'
<1> SUFFICES ASSUME NEW a \in Attempts, Live(a)', att'[a].target = n.target, att'[a].doc \in n.todo
             PROVE  a = n.att
  BY DEF StillTodo
<1>1. Live(a) /\ att'[a].target = att[a].target /\ att'[a].doc = att[a].doc
  BY DEF Frame, Live
<1>2. a = k.att /\ a # 0
  BY <1>1, BoundsAssumption DEF StillTodo
<1> QED BY <1>1, <1>2

\* A task that gives up, or is done with the document it works on, keeps the others.
LEMMA TodoShrinks ==
  ASSUME TypeOK, Frame, NEW w \in Tasks, StillTodo(task[w]), Owns(task[w]),
         \A a \in Attempts : Live(a)' => Live(a),
         \/ GiveUp(w)
         \/ \E d \in Docs, failed \in BOOLEAN :
              /\ Advance(w, d, failed)
              /\ task[w].att = 0 \/ d = att[task[w].att].doc
  PROVE  StillTodo(task[w])'
<1>t. task \in [Tasks -> TaskRecord]
  BY DEF TypeOK
<1>1. CASE GiveUp(w)
  <2>1. task'[w].todo = {} /\ task'[w].pc = "end"
    BY <1>1, <1>t DEF GiveUp, Idle
  <2> QED BY <2>1 DEF StillTodo
<1>2. ASSUME NEW d \in Docs, NEW failed \in BOOLEAN, Advance(w, d, failed),
             task[w].att = 0 \/ d = att[task[w].att].doc
      PROVE  StillTodo(task[w])'
  <2>1. /\ task'[w].att = 0 /\ task'[w].target = task[w].target
        /\ task'[w].todo = task[w].todo \ {d}
    BY <1>2, <1>t DEF Advance, Idle
  <2>2. PICK n : n = task'[w]
    OBVIOUS
  <2>3. StillTodo(n)'
    BY <1>2, <2>1, <2>2, TodoKept
  <2> QED BY <2>2, <2>3 DEF StillTodo, Owns
<1> QED BY <1>1, <1>2

\* A task keeps what is said of the documents it has left.
LEMMA OwnTodoStep ==
  ASSUME TypeOK, TaskInv, VerifiedIsProven, CopyInv, Frame, NEW w \in Tasks, TaskStep(w)
  PROVE  StillTodo(task[w])'
<1> DEFINE k == task[w]
<1>k. k \in TaskRecord /\ task \in [Tasks -> TaskRecord] /\ StillTodo(k) /\ Accords(w, k)
  BY DEF TypeOK, TaskInv, TaskOK, CopyInv
<1>o. Owns(k)
  BY DEF TaskStep, Reprove, Throw, DocumentNotReady, ReadBaseline, PersistIntent, Send,
    DefinitelyNotCommitted, WriteOutcomeLost, CreateAnswered, RecordCandidate, OutcomeUnclear,
    RecordProvenance, RecordVerified, ProofNotRecorded, Owns
<1>d. k.todo \subseteq Docs
  BY <1>k DEF TaskRecord
<1>h. k.pc \in {"intent", "sent", "look", "verify", "prove"} => att[k.att].doc \in Docs
  BY HeldAttempt
<1>1. CASE PersistIntent(w)
  <2>1. PICK a \in Attempts, d \in k.todo :
          /\ ~ Live(a) /\ Live(a)' /\ \A b \in Attempts \ {a} : att'[b] = att[b]
          /\ att'[a].target = k.target /\ att'[a].doc = d
          /\ \A b \in Attempts : Live(b) => ~ (att[b].target = k.target /\ att[b].doc = d)
          /\ \/ task'[w] = [k EXCEPT !.pc = "intent", !.att = a, !.st = "dispatched"]
             \/ Advance(w, d, TRUE)
    BY <1>1, IntentIsFirst
  <2>2. k.att = 0 /\ \A b \in Attempts : b # 0
    BY <1>1, <1>k, <1>o, BoundsAssumption DEF PersistIntent, StillTodo
  <2>3. \A b \in Attempts : Live(b) => ~ (att[b].target = k.target /\ att[b].doc \in k.todo)
    BY <1>k, <1>o, <2>2 DEF StillTodo
  <2>4. \A b \in Attempts \ {a} : Live(b)' => Live(b)
    BY <2>1 DEF Live
  <2>5. CASE task'[w] = [k EXCEPT !.pc = "intent", !.att = a, !.st = "dispatched"]
    <3>1. task'[w].pc = "intent" /\ task'[w].att = a /\ task'[w].target = k.target /\ task'[w].todo = k.todo
      BY <1>k, <2>5 DEF TaskRecord
    <3> QED BY <2>1, <2>3, <2>4, <3>1 DEF StillTodo
  <2>6. CASE Advance(w, d, TRUE)
    <3>1. task'[w].att = 0 /\ task'[w].target = k.target /\ task'[w].todo = k.todo \ {d}
      BY <1>k, <2>6 DEF Advance, Idle
    <3> QED BY <2>1, <2>3, <2>4, <3>1 DEF StillTodo
  <2> QED BY <2>1, <2>5, <2>6
<1>2. CASE ~ PersistIntent(w)
  <2>l. \A a \in Attempts : Live(a)' => Live(a)
    BY <1>2, TaskLive
  <2>1. ASSUME GiveUp(w) \/ (\E d \in Docs, failed \in BOOLEAN : Advance(w, d, failed) /\
                                                       (k.att = 0 \/ d = att[k.att].doc))
        PROVE  StillTodo(task[w])'
    BY <1>k, <1>o, <2>l, <2>1, TodoShrinks
  <2>2. ASSUME /\ task'[w].target = k.target /\ task'[w].todo = k.todo /\ task'[w].att = k.att
               /\ task'[w].pc \in {"queued", "next", "named"} => k.att = 0
        PROVE  StillTodo(task[w])'
    <3>1. PICK n : n = task'[w]
      OBVIOUS
    <3>2. StillTodo(n)'
      BY <1>k, <1>o, <2>l, <2>2, <3>1, TodoKept
    <3> QED BY <3>1, <3>2 DEF StillTodo, Owns
  <2>3. CASE Throw(w)
    BY <2>1, <2>3 DEF Throw
  <2>4. CASE DocumentNotReady(w)
    <3>1. k.att = 0
      BY <1>k, <1>o, <2>4 DEF DocumentNotReady, StillTodo
    <3> QED BY <1>d, <2>1, <2>4, <3>1 DEF DocumentNotReady
  <2>5. CASE DefinitelyNotCommitted(w) \/ OutcomeUnclear(w)
    <3>1. FailDocument(w) /\ k.pc \in {"intent", "sent", "look", "verify", "prove"}
      BY <2>5 DEF DefinitelyNotCommitted, OutcomeUnclear
    <3> QED BY <1>h, <2>1, <3>1 DEF FailDocument
  <2>6. CASE RecordVerified(w) \/ ProofNotRecorded(w)
    <3>1. /\ k.pc \in {"intent", "sent", "look", "verify", "prove"}
          /\ GiveUp(w) \/ \E failed \in BOOLEAN : Advance(w, att[k.att].doc, failed)
      BY <2>6 DEF RecordVerified, ProofNotRecorded
    <3> QED BY <1>h, <2>1, <3>1
  <2>7. CASE ReadBaseline(w)
    <3>1. k.pc = "next" /\ \E n : task' = [task EXCEPT ![w] = [@ EXCEPT !.pc = "named", !.name = n]]
      BY <2>7 DEF ReadBaseline
    <3>2. k.att = 0
      BY <1>k, <1>o, <3>1 DEF StillTodo
    <3> QED BY <1>k, <2>2, <3>1, <3>2 DEF TaskRecord
  <2>8. CASE Reprove(w) \/ Send(w) \/ CreateAnswered(w) \/ RecordProvenance(w)
    <3>1. /\ task'[w].target = k.target /\ task'[w].todo = k.todo /\ task'[w].att = k.att
          /\ task'[w].pc = "next" => k.att = 0
          /\ task'[w].pc \in {"look", "next", "sent", "prove"}
      <4>1. CASE Reprove(w)
        BY <1>k, <4>1 DEF Reprove, TaskRecord
      <4>2. CASE CreateAnswered(w)
        BY <1>k, <4>2 DEF CreateAnswered, TaskRecord
      <4>3. CASE Send(w) \/ RecordProvenance(w)
        BY <1>k, <4>3 DEF Send, RecordProvenance, TaskRecord
      <4> QED BY <2>8, <4>1, <4>2, <4>3
    <3> QED BY <2>2, <3>1
  <2>9. CASE WriteOutcomeLost(w)
    <3>1. CASE GiveUp(w)
      BY <2>1, <3>1
    <3>2. CASE task' = [task EXCEPT ![w] = [@ EXCEPT !.pc = "look", !.st = "uncertain"]]
      <4>1. /\ task'[w].target = k.target /\ task'[w].todo = k.todo /\ task'[w].att = k.att
            /\ task'[w].pc = "look"
        BY <1>k, <3>2 DEF TaskRecord
      <4> QED BY <2>2, <4>1
    <3> QED BY <2>9, <3>1, <3>2 DEF WriteOutcomeLost
  <2>10. CASE RecordCandidate(w)
    <3>1. CASE GiveUp(w)
      BY <2>1, <3>1
    <3>2. ASSUME NEW c, NEW by,
                 task' = [task EXCEPT ![w] = [@ EXCEPT !.pc = "verify", !.cand = c, !.by = by]]
          PROVE  StillTodo(task[w])'
      <4>1. /\ task'[w].target = k.target /\ task'[w].todo = k.todo /\ task'[w].att = k.att
            /\ task'[w].pc = "verify"
        BY <1>k, <3>2 DEF TaskRecord
      <4> QED BY <2>2, <4>1
    <3> QED BY <2>10, <3>1, <3>2 DEF RecordCandidate
  <2> QED BY <1>2, <2>3, <2>4, <2>5, <2>6, <2>7, <2>8, <2>9, <2>10 DEF TaskStep
<1> QED BY <1>1, <1>2

\* Another task does not touch them: the destination has one owner.
LEMMA ForeignTodoStep ==
  ASSUME TypeOK, TaskInv, VerifiedIsProven, CopyInv, OneOwner, Frame,
         NEW v \in Tasks, TaskStep(v), NEW w \in Tasks \ {v}
  PROVE  StillTodo(task[w])'
<1>1. task'[w] = task[w] /\ StillTodo(task[w])
  BY TaskStepEffect DEF CopyInv
<1>2. ASSUME NEW a \in Attempts, Owns(task[w]), Live(a)', att'[a].target = task[w].target
      PROVE  Live(a)
  <2>1. CASE PersistIntent(v)
    <3>1. PICK b \in Attempts :
            (\A c \in Attempts \ {b} : att'[c] = att[c]) /\ att'[b].target = task[v].target
      BY <2>1, IntentIsFirst
    <3>2. task[v].target # task[w].target
      BY <1>2, <2>1 DEF OneOwner, Owns, PersistIntent
    <3>3. a # b
      BY <1>2, <3>1, <3>2
    <3> QED BY <1>2, <3>1, <3>3 DEF Live
  <2>2. CASE ~ PersistIntent(v)
    BY <1>2, <2>2, TaskLive
  <2> QED BY <2>1, <2>2
<1>3. \A a \in Attempts : Live(a) => att'[a].target = att[a].target /\ att'[a].doc = att[a].doc
  BY DEF Frame, Live
<1> QED BY <1>1, <1>2, <1>3 DEF StillTodo, Owns

\* The task of a run, or a retry, begins with the documents that have no verified copy, and
\* holds the open attempt at one of them, if there is any.
LEMMA OtherTodoStep ==
  ASSUME TypeOK, TaskInv, SingleWriterPerModel, CopyInv, Frame, [Next]_vars,
         ~ \E w \in Tasks : TaskStep(w), NEW w \in Tasks
  PROVE  StillTodo(task[w])'
<1> USE DEF durable
<1> DEFINE k == task[w]
<1>k. k \in TaskRecord /\ task \in [Tasks -> TaskRecord] /\ StillTodo(k) /\ att \in [Attempts -> AttemptRecord]
  BY DEF TypeOK, CopyInv
<1>l. \A a \in Attempts : Live(a)' => Live(a)
  BY OtherLive
<1>s. \A a \in Attempts : Live(a) => att'[a].target = att[a].target /\ att'[a].doc = att[a].doc
  BY DEF Frame, Live
<1>0. ASSUME ~ Owns(task[w])'
      PROVE  StillTodo(task[w])'
  BY <1>0 DEF StillTodo
<1>i. ~ Owns(Idle)
  BY DEF Owns, Idle
<1>1. ASSUME task'[w] = k \/ task'[w] = Idle
      PROVE  StillTodo(task[w])'
  <2>1. CASE task'[w] = k
    BY <1>k, <1>l, <1>s, <2>1 DEF StillTodo, Owns
  <2>2. CASE task'[w] = Idle
    BY <1>0, <1>i, <2>2 DEF Owns
  <2> QED BY <1>1, <2>1, <2>2
<1>2. ASSUME NEW t \in Targets, task'[w].target = t, task'[w].todo = Docs \ VerifiedDocs(t),
             task'[w].pc \in {"queued", "next", "named"} => task'[w].att = 0,
             \A a \in Attempts : Active(a) /\ att[a].target = t => a = task'[w].att
      PROVE  StillTodo(task[w])'
  <2>1. ASSUME NEW a \in Attempts, Live(a)', att'[a].target = t, att'[a].doc \in Docs \ VerifiedDocs(t)
        PROVE  a = task'[w].att
    <3>1. Live(a) /\ att[a].target = t /\ att[a].doc \in Docs \ VerifiedDocs(t)
      BY <1>l, <1>s, <2>1
    <3>2. att[a].state # "verified"
      BY <3>1 DEF VerifiedDocs, IsVerified
    <3>3. Active(a)
      BY <1>k, <3>1, <3>2 DEF Live, Active, AttemptRecord, AttemptStates
    <3> QED BY <1>2, <3>1, <3>3
  <2> QED BY <1>2, <2>1 DEF StillTodo
<1>3. CASE RunStart \/ RunBoundaryFails \/ RunNotNeeded \/ Cancel \/ UNCHANGED vars
  BY <1>1, <1>3 DEF RunStart, RunBoundaryFails, RunNotNeeded, RunEnds, Cancel, vars
<1>4. CASE RunBegin
  <2> DEFINE chosen == {t \in Targets : TargetState(Materialized, t) = "pending"}
             queued == [Idle EXCEPT !.pc = "queued", !.target = w, !.todo = Docs \ VerifiedDocs(w)]
  <2>1. CASE w \notin chosen \/ chosen = {}
    <3>1. task'[w] = k
      BY <1>4, <2>1 DEF RunBegin, RunEnds
    <3> QED BY <1>1, <3>1
  <2>2. CASE w \in chosen
    <3>1. task'[w] = queued /\ job.status # "canceled"
      BY <1>4, <2>2 DEF RunBegin
    <3>2. /\ task'[w].pc = "queued" /\ task'[w].target = w /\ task'[w].att = 0
          /\ task'[w].todo = Docs \ VerifiedDocs(w)
      BY <3>1 DEF Idle
    <3>3. Materialized[w] = "none"
      <4>1. Materialized[w] \in {"none", "succeeded", "needs_attention"}
        BY <2>2, ResultTypes
      <4> QED BY <2>2, <4>1 DEF TargetState
    <3>4. \A a \in Attempts : ~ (Active(a) /\ att[a].target = w)
      BY <2>2, <3>1, <3>3 DEF Materialized
    <3> QED BY <1>2, <2>2, <3>2, <3>4
  <2> QED BY <2>1, <2>2
<1>5. CASE RunSetUp \/ RunFinish \/ RunFails
  <2>1. task' = task \/ task' = NoRunTasks
        \/ \E failed : task' = [u \in Tasks |-> IF u \in failed THEN Idle ELSE task[u]]
    BY <1>5 DEF RunSetUp, RunFinish, RunFails, RunEnds
  <2>2. task'[w] = k \/ task'[w] = Idle
    BY <2>1 DEF NoRunTasks
  <2> QED BY <1>1, <2>2
<1>6. CASE Restart
  BY <1>1, <1>6 DEF Restart
<1>7. ASSUME NEW t \in Targets, TargetStart(t)
      PROVE  StillTodo(task[w])'
  <2>1. CASE w = t
    <3>1. /\ k.pc = "queued" /\ task'[w].pc = "reprove" /\ task'[w].target = k.target
          /\ task'[w].att = k.att /\ task'[w].todo = k.todo
      BY <1>7, <1>k, <2>1 DEF TargetStart, TaskRecord
    <3> QED BY <1>k, <1>l, <1>s, <3>1 DEF StillTodo, Owns
  <2>2. CASE w # t
    BY <1>1, <1>7, <1>k, <2>2 DEF TargetStart
  <2> QED BY <2>1, <2>2
<1>8. ASSUME NEW t \in Targets, TargetEnd(t)
      PROVE  StillTodo(task[w])'
  <2>1. CASE w = t
    <3>1. task'[w].pc = "done"
      BY <1>8, <1>k, <2>1 DEF TargetEnd, Idle
    <3> QED BY <1>0, <3>1 DEF Owns
  <2>2. CASE w # t
    BY <1>1, <1>8, <1>k, <2>2 DEF TargetEnd
  <2> QED BY <2>1, <2>2
<1>9. ASSUME NEW r \in RetryIds, RetryStep(r)
      PROVE  StillTodo(task[w])'
  <2>1. CASE w # r \/ ~ RetryClaim(r)
    <3>1. task'[w] = k \/ task'[w] = Idle
      BY <1>9, <1>k, <2>1 DEF RetryStep, RetrySetupFails, RetryConflicts, RetryClaim, RetryEnd
    <3> QED BY <1>1, <3>1
  <2>2. CASE w = r /\ RetryClaim(r)
    <3> DEFINE t == k.target
               claimed == [Idle EXCEPT !.pc = "reprove", !.target = t, !.todo = Docs \ VerifiedDocs(t)]
               open == {a \in Attempts : Active(a) /\ att[a].target = t}
               loaded(a) == [claimed EXCEPT !.rec = TRUE, !.att = a,
                               !.st = att[a].state, !.cand = att[a].cand, !.by = att[a].by]
    <3>t. t \in Targets
      BY <1>k DEF TaskRecord
    <3>1. /\ claimed \in TaskRecord
          /\ claimed.pc = "reprove" /\ claimed.target = t /\ claimed.att = 0
          /\ claimed.todo = Docs \ VerifiedDocs(t)
      BY <3>t, IdleType DEF TaskRecord, Pcs, Idle
    <3> HIDE DEF claimed
    <3>2. CASE open = {}
      <4>1. task'[w] = claimed
        BY <1>k, <2>2, <3>2 DEF RetryClaim, claimed
      <4> QED BY <1>2, <3>t, <3>1, <3>2, <4>1
    <3>3. CASE open # {}
      <4>1. PICK a \in open : task' = [task EXCEPT ![w] = loaded(a)]
        BY <2>2, <3>3 DEF RetryClaim, claimed
      <4>2. /\ loaded(a).pc = "reprove" /\ loaded(a).target = t /\ loaded(a).att = a
            /\ loaded(a).todo = Docs \ VerifiedDocs(t)
        BY <3>1 DEF TaskRecord
      <4>3. task'[w] = loaded(a)
        BY <1>k, <4>1
      <4> HIDE DEF loaded
      <4>4. \A b \in open : b = a
        BY <4>1 DEF SingleWriterPerModel
      <4> QED BY <1>2, <3>t, <4>2, <4>3, <4>4
    <3> QED BY <3>2, <3>3
  <2> QED BY <2>1, <2>2
<1>10. ASSUME NEW r \in RetryIds, NEW t \in Targets,
              RetryRefused(r, t) \/ RetryNotExecutable(r, t) \/ RetryAdmitted(r, t)
       PROVE  StillTodo(task[w])'
  <2>1. task'[w] = k \/ task'[w] = [Idle EXCEPT !.pc = "setup", !.target = t]
    BY <1>10, <1>k DEF RetryRefused, RetryNotExecutable, RetryAdmitted
  <2>2. CASE task'[w] = [Idle EXCEPT !.pc = "setup", !.target = t]
    <3>1. task'[w].pc = "setup"
      BY <2>2 DEF Idle
    <3> QED BY <1>0, <3>1 DEF Owns
  <2> QED BY <1>1, <2>1, <2>2
<1>11. ASSUME NEW a \in Attempts, DestinationCommits(a) \/ DestinationRejects(a)
       PROVE  StillTodo(task[w])'
  BY <1>1, <1>11 DEF DestinationCommits, DestinationRejects
<1> QED
  BY <1>3, <1>4, <1>5, <1>6, <1>7, <1>8, <1>9, <1>10, <1>11 DEF Next, RunStep

LEMMA CopyStep ==
  ASSUME IInv, CopyInv, OneOwner, [Next]_vars
  PROVE  CopyInv'
<1>i. TypeOK /\ TaskInv /\ VerifiedIsProven /\ SingleWriterPerModel
  BY DEF IInv
<1>f. Frame
  BY <1>i, FrameStep
<1>1. OneLiveAttempt'
  BY <1>i, OneLiveStep
<1>2. ASSUME NEW w \in Tasks
      PROVE  StillTodo(task[w])'
  <2>1. ASSUME NEW v \in Tasks, TaskStep(v)
        PROVE  StillTodo(task[w])'
    BY <1>i, <1>f, <2>1, OwnTodoStep, ForeignTodoStep
  <2>2. CASE ~ \E v \in Tasks : TaskStep(v)
    BY <1>i, <1>f, <2>2, OtherTodoStep
  <2> QED BY <2>1, <2>2
<1> QED BY <1>1, <1>2 DEF CopyInv

-----------------------------------------------------------------------------
(* The theorems. *)

LEMMA InitInvariant == Init => IInv
<1> SUFFICES ASSUME Init  PROVE IInv
  OBVIOUS
<1>1. TypeOK
  BY InitType
<1>2. \A a \in Attempts : att[a].state = "none" /\ wire[a] = "unsent"
  BY DEF Init, NoAttempt
<1>3. \A w \in Tasks : task[w] = Idle
  BY DEF Init
<1>4. TaskInv
  BY <1>3, IdleAccords DEF TaskInv, TaskOK, Restful
<1>5. OneSender
  BY <1>3 DEF OneSender, Idle
<1>6. UnusedIsUnsent /\ EveryWriteIsAccounted /\ SingleWriterPerModel /\ VerifiedIsProven /\ EndedJobOwnsNoWrite
  BY <1>2 DEF UnusedIsUnsent, EveryWriteIsAccounted, SingleWriterPerModel, VerifiedIsProven,
    EndedJobOwnsNoWrite, AnyActive, Active
<1>7. SucceededIsBacked
  BY DEF Init, SucceededIsBacked
<1> QED
  BY <1>1, <1>4, <1>5, <1>6, <1>7 DEF IInv

LEMMA NextInvariant == IInv /\ [Next]_vars => IInv'
BY NextType, TaskInvStep, OneSenderStep, UnusedStep, AccountedStep, SingleWriterStep, ProvenStep,
   BackedStep, EndedStep
DEF IInv

\* The inductive invariant holds: types, the accord of the handlers' locals with the
\* ledger, and the ledger's own invariants.
THEOREM Invariance == Spec => []IInv
<1>1. Init => IInv
  BY InitInvariant
<1>2. IInv /\ [Next]_vars => IInv'
  BY NextInvariant
<1> QED
  BY <1>1, <1>2, PTL DEF Spec

\* Every variable keeps its type (records of the job store, locals of the handlers).
THEOREM TypeCorrect == Spec => []TypeOK
<1>1. IInv => TypeOK
  BY DEF IInv
<1> QED
  BY <1>1, Invariance, PTL

\* However runs, retries, cancels and restarts interleave, one model has one open write.
THEOREM OneWriterPerModel == Spec => []SingleWriterPerModel
<1>1. IInv => SingleWriterPerModel
  BY DEF IInv
<1> QED
  BY <1>1, Invariance, PTL

\* A create that was sent and not refused is in the ledger as a write that may have happened.
THEOREM WritesAreAccounted == Spec => []EveryWriteIsAccounted
<1>1. IInv => EveryWriteIsAccounted
  BY DEF IInv
<1> QED
  BY <1>1, Invariance, PTL

\* A verified attempt has its provenance and a landed copy of its own document and name.
THEOREM VerifiedMeansProven == Spec => []VerifiedIsProven
<1>1. IInv => VerifiedIsProven
  BY DEF IInv
<1> QED
  BY <1>1, Invariance, PTL

\* Succeeded is reported only of targets and jobs with a verified attempt for every document.
THEOREM SuccessIsBacked == Spec => []SucceededIsBacked
<1>1. IInv => SucceededIsBacked
  BY DEF IInv
<1> QED
  BY <1>1, Invariance, PTL

\* A job that ended or was canceled has no open write.
THEOREM EndedOwnsNoWrite == Spec => []EndedJobOwnsNoWrite
<1>1. IInv => EndedJobOwnsNoWrite
  BY DEF IInv
<1> QED
  BY <1>1, Invariance, PTL

\* A decided attempt never changes again.
THEOREM DecisionsAreFinal == Spec => SettledIsFinal
<1>1. IInv /\ [Next]_vars =>
        [\A a \in Attempts : att[a].state \in {"verified", "failed_prewrite"} => att'[a] = att[a]]_vars
  BY FrameStep DEF IInv, Frame
<1> QED
  BY <1>1, Invariance, PTL DEF Spec, SettledIsFinal

\* While every destination has one task at work on it, each dashboard lands there at most
\* once: through lost answers, restarts, resumes and retries.
THEOREM OneOwnerOneCopy == Spec /\ []OneOwner => []CopiedAtMostOnce
<1>1. Init => CopyInv
  BY DEF Init, CopyInv, OneLiveAttempt, StillTodo, Live, Owns, NoAttempt, Idle
<1>2. IInv /\ CopyInv /\ OneOwner /\ [Next]_vars => CopyInv'
  BY CopyStep
<1>3. IInv /\ CopyInv => CopiedAtMostOnce
  BY DEF IInv, EveryWriteIsAccounted, CopyInv, OneLiveAttempt, Live, CopiedAtMostOnce, Landed
<1> QED
  BY <1>1, <1>2, <1>3, Invariance, PTL DEF Spec

\* A job that is not retried copies each dashboard at most once: a run has one task for each
\* destination.
THEOREM RunCopiesOnce ==
  ASSUME RetryIds = {}
  PROVE  Spec => []CopiedAtMostOnce
<1>1. IInv => OneOwner
  BY DEF IInv, TaskInv, TaskOK, Accords, OneOwner, Owns
<1> QED
  BY <1>1, Invariance, OneOwnerOneCopy, PTL
=============================================================================
