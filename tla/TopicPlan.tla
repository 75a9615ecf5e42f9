------------------------------ MODULE TopicPlan ------------------------------
(***************************************************************************)
(* topicMigrationPlans.ts: a reviewed plan is approved once; its one job   *)
(* creates a branch and writes the approved YAML to it, each write under   *)
(* the authority of the submitted plan. A plan that was used stands in the *)
(* way of a new review of the same topics, models and evidence, unless its *)
(* YAML provably did not arrive. ModelLease has the steps of the job; here *)
(* it makes its two writes (1 the branch, 2 the YAML) and ends.            *)
(***************************************************************************)
EXTENDS DestinationModel

CONSTANT
  Evidence   \* what the source and the target may look like (sourceHash, targetHash)

ASSUME EvidenceAssumption == Nobody \notin Evidence

VARIABLES
  plan,      \* the durable plans, of one pair of models and one set of topics
  noWrite,   \* the plans whose YAML the operator has adjudicated as not applied
  review,    \* the reviews that are being prepared: what persistPlan holds
  passed     \* history: the used plans that a review was saved over

planVars == <<plan, noWrite, review, passed>>

\* claim: the one-use claim; linked: status submitted, with the id of the job; evidence: what
\* was reviewed; supersedes: the adjudicated plans that this review replaces.
PlanRows == [ready : BOOLEAN, claim : BOOLEAN, linked : BOOLEAN,
             evidence : Evidence \cup {Nobody}, supersedes : SUBSET Plans]
NoPlan == [ready |-> FALSE, claim |-> FALSE, linked |-> FALSE,
           evidence |-> Nobody, supersedes |-> {}]

\* reconciled: the adjudicated plans whose branch was read again.
Reviews == [evidence : Evidence \cup {Nobody}, reconciled : SUBSET Plans]
NoReview == [evidence |-> Nobody, reconciled |-> {}]

Create == 1
Yaml == 2

JobEnds(p, state) ==
  /\ lease' = [lease EXCEPT ![p] = state]
  /\ pc' = [pc EXCEPT ![p] = "off"]

-----------------------------------------------------------------------------
(* persistPlan. The models are no part of the server and change at any time, so each read of
   the evidence may find any. Plans for the same topics may also differ in their mappings, or
   have expired, so an unused plan does not stop a second one. *)

\* candidatesFor: a used plan that has a job counts only while the evidence is the same.
Candidates(v) == {q \in Plans : plan[q].claim /\ (plan[q].linked => plan[q].evidence = v)}

JobIsOver(q) == plan[q].linked /\ pc[q] = "off"

\* verifiedStandalonePrewriteFailure
FailedPrewrite(q) == JobIsOver(q) /\ lease[q] = "failed_prewrite"

\* reconciledStandaloneNoWrite: a resolved lease alone is not proof that no YAML arrived.
ReconciledNoWrite(q) == JobIsOver(q) /\ lease[q] = "resolved" /\ q \in noWrite

\* The retained branch is as it was reviewed.
BranchUnchanged(q) == net[q][Yaml] # "landed"

\* A used plan whose job failed before it wrote does not stand in the way. Of the others, the
\* operator must have said that they wrote nothing, and their branches are read.
PrepareChecks(p) ==
  /\ ~ plan[p].ready /\ review[p] = NoReview
  /\ \E v \in Evidence :
       LET adjudicated == {q \in Candidates(v) : ~ FailedPrewrite(q)} IN
       /\ adjudicated # {}
       /\ \A q \in adjudicated : ReconciledNoWrite(q) /\ BranchUnchanged(q)
       /\ review' = [review EXCEPT ![p] = [evidence |-> v, reconciled |-> adjudicated]]
  /\ UNCHANGED <<sharedVars, plan, noWrite, passed>>

\* (Mutant: the word of the operator is enough, no branch was read.)
UnwrittenInAnyEvent(p, q) == FailedPrewrite(q) \/ ReconciledNoWrite(q)

\* The second look: an adjudicated plan is the one, row and job, whose branch was read.
StillUnwritten(p, q) ==
  FailedPrewrite(q) \/ (ReconciledNoWrite(q) /\ q \in review[p].reconciled)

\* The used plans are looked at again, when the branches were read, or at once when there is
\* none to read. The review is saved.
PrepareSaves(p) ==
  /\ ~ plan[p].ready
  /\ \E v \in Evidence :
       /\ review[p] # NoReview => review[p].evidence = v
       /\ \A q \in Candidates(v) : StillUnwritten(p, q)
       /\ plan' = [plan EXCEPT ![p] = [NoPlan EXCEPT !.ready = TRUE, !.evidence = v,
                     !.supersedes = Candidates(v) \cap review[p].reconciled]]
       /\ passed' = [passed EXCEPT ![p] = Candidates(v)]
  /\ review' = [review EXCEPT ![p] = NoReview]
  /\ UNCHANGED <<sharedVars, noWrite>>

\* A used plan is returned instead, or one that exists already, or a read fails.
PrepareEnds(p) ==
  /\ review[p] # NoReview
  /\ review' = [review EXCEPT ![p] = NoReview]
  /\ UNCHANGED <<sharedVars, plan, noWrite, passed>>

-----------------------------------------------------------------------------
Stageable(p) == plan[p].ready /\ ~ plan[p].claim /\ pc[p] = "off"

\* stageTopicMigrationPlan, createModelMigrationJob and the start of runMigrationJob: the
\* claim, the job, the link, then the reservation and the lease. The evidence is read again,
\* as it is before every write, and is again what was reviewed.
Stage(p) ==
  /\ Stageable(p)
  /\ NothingOpen(p)
  /\ plan' = [plan EXCEPT ![p].claim = TRUE, ![p].linked = TRUE]
  /\ \/ /\ Reserved(p)
        /\ lease' = [lease EXCEPT ![p] = "claimed"]
        /\ pc' = [pc EXCEPT ![p] = "proving"]
     \/ /\ owner # Nobody      \* the job fails at once
        /\ lease' = [lease EXCEPT ![p] = "failed_prewrite"]
        /\ UNCHANGED <<owner, pc>>
  /\ UNCHANGED <<content, base, net, sends, edits, restarts, noWrite, review, passed>>

\* The claim is stored and the job is refused, or not stored.
StageUnrecorded(p) ==
  /\ Stageable(p)
  /\ plan' = [plan EXCEPT ![p].claim = TRUE]
  /\ UNCHANGED <<sharedVars, noWrite, review, passed>>

NextWrite(p) == IF net[p][Create] = "none" THEN Create ELSE Yaml

\* assertTopicMigrationWriteAuthority and the proofs hold: the next write is sent.
PlanSends(p) ==
  /\ pc[p] = "proving" /\ plan[p].linked
  /\ net[p][Yaml] = "none"
  /\ lease' = [lease EXCEPT ![p] = "dispatched"]
  /\ Sends(p, NextWrite(p))
  /\ pc' = [pc EXCEPT ![p] = "wire"]
  /\ UNCHANGED <<owner, content, base, edits, restarts, planVars>>

\* A write is answered.
PlanAnswered(p) ==
  /\ pc[p] = "wire"
  /\ net[p][IF net[p][Yaml] = "none" THEN Create ELSE Yaml] = "landed"
  /\ lease' = [lease EXCEPT ![p] = "resolved"]
  /\ pc' = [pc EXCEPT ![p] = "proving"]
  /\ UNCHANGED <<owner, content, base, net, sends, edits, restarts, planVars>>

\* The job ends: the branch is verified, a proof fails, or it was canceled.
PlanEnds(p) ==
  /\ pc[p] = "proving"
  /\ JobEnds(p, IF lease[p] = "claimed" THEN "failed_prewrite" ELSE lease[p])
  /\ owner' = Released(p)
  /\ UNCHANGED <<content, base, net, sends, edits, restarts, planVars>>

\* No usable answer: the model stays reserved.
PlanLost(p) ==
  /\ pc[p] = "wire"
  /\ JobEnds(p, "uncertain")
  /\ UNCHANGED <<owner, content, base, net, sends, edits, restarts, planVars>>

PlanStep(p) == PlanSends(p) \/ PlanAnswered(p) \/ PlanEnds(p) \/ PlanLost(p)

\* adjudicateDestinationModelMutation: the operator has looked at the destination, where
\* no request of the job is in flight, and says what became of it, rightly or wrongly.
Adjudicate(p) ==
  /\ pc[p] = "off" /\ lease[p] = "uncertain"
  /\ ~ MayLand(p)
  /\ lease' = [lease EXCEPT ![p] = "resolved"]
  /\ owner' = Released(p)
  /\ \/ UNCHANGED noWrite
     \/ net[p][Yaml] # "none" /\ noWrite' = noWrite \cup {p}
  /\ UNCHANGED <<pc, content, base, net, sends, edits, restarts, plan, review, passed>>

\* The server dies between the claim and the link: the job, if there is one, has no authority.
TornPlan(p) ==
  /\ Stageable(p)
  /\ plan' = [plan EXCEPT ![p].claim = TRUE]

PlanInit ==
  /\ plan = [p \in Plans |-> NoPlan]
  /\ noWrite = {}
  /\ review = [p \in Plans |-> NoReview]
  /\ passed = [p \in Plans |-> {}]

PlanNext(p) ==
  \/ PrepareChecks(p) \/ PrepareSaves(p) \/ PrepareEnds(p)
  \/ Stage(p) \/ StageUnrecorded(p) \/ PlanStep(p) \/ Adjudicate(p)
=============================================================================
