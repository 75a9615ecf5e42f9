----------------------------- MODULE TopicBranch -----------------------------
(***************************************************************************)
(* The work on the review branches of one destination model, together: the *)
(* jobs of topic plans, the corrections of a branch, its AI repairs, the   *)
(* destination, and restarts of the server. An approval, once used, may    *)
(* send what it approved once; whatever may still arrive keeps the model   *)
(* closed to the others.                                                   *)
(***************************************************************************)
EXTENDS TopicPlan, BranchCorrection, BlobbyRepair

vars == <<sharedVars, planVars, correctionVars, repairVars>>

\* The process stops, also in the middle of a stretch that stores two records. What starts
\* again knows the stored rows and the recovered leases.
Restart ==
  /\ restarts < MaxRestarts
  /\ restarts' = restarts + 1
  /\ \/ UNCHANGED <<plan, row, repair>>
     \/ (\E p \in Plans : TornPlan(p)) /\ UNCHANGED <<row, repair>>
     \/ (\E c \in Corrections : TornCorrection(c)) /\ UNCHANGED <<plan, repair>>
     \/ (\E d \in Repairs : TornRepair(d)) /\ UNCHANGED <<plan, row>>
  /\ \/ lease' = [j \in Jobs |-> RecoveredLease(j)]
     \/ \E d \in Repairs :      \* the job of a start was stored too, as claimed
          /\ TornStart(d)
          /\ lease' = [j \in Jobs |-> IF j = d THEN "failed_prewrite" ELSE RecoveredLease(j)]
  /\ owner' = Nobody
  /\ pc' = [j \in Jobs |-> "off"]
  /\ heldCancel' = [c \in Corrections |-> FALSE]
  /\ heldRow' = [d \in Repairs |-> NoRepair]
  /\ cancelRow' = [d \in Repairs |-> NoRepair]
  /\ stopped' = {} /\ canceling' = {} /\ aborted' = {}
  /\ review' = [p \in Plans |-> NoReview]
  /\ UNCHANGED <<content, base, net, sends, edits, noWrite, passed, latest>>

Init == SharedInit /\ PlanInit /\ CorrectionInit /\ RepairInit

Next ==
  \/ (\E p \in Plans : PlanNext(p)) /\ UNCHANGED <<correctionVars, repairVars>>
  \/ (\E c \in Corrections : CorrectionNext(c)) /\ UNCHANGED <<planVars, repairVars>>
  \/ (\E d \in Repairs : RepairNext(d)) /\ UNCHANGED <<planVars, correctionVars>>
  \/ Destination /\ UNCHANGED <<planVars, correctionVars, repairVars>>
  \/ Restart

Spec == Init /\ [][Next]_vars

\* The handlers of plans and corrections go on: their requests have a deadline, and what they
\* do in between is synchronous. The destination, the operator and the repairs owe nothing.
Fairness ==
  /\ \A p \in Plans : WF_vars(PlanStep(p) /\ UNCHANGED <<correctionVars, repairVars>>)
  /\ \A c \in Corrections : WF_vars(CorrectionStep(c) /\ UNCHANGED <<planVars, repairVars>>)

FairSpec == Spec /\ Fairness

-----------------------------------------------------------------------------
(* Properties. *)

PlanPcs == {"off", "proving", "wire"}
CorrectionPcs == {"off", "checking", "reading", "queued", "wire", "verifying", "validating"}
RepairPcs == {"off", "queued", "wire", "inspecting", "validating", "revalidating", "accepting"}

TypeOK ==
  /\ lease \in [Jobs -> LeaseStates]
  /\ owner \in Jobs \cup {Nobody}
  /\ pc \in [Jobs -> PlanPcs \cup CorrectionPcs \cup RepairPcs]
  /\ \A p \in Plans : pc[p] \in PlanPcs
  /\ \A c \in Corrections : pc[c] \in CorrectionPcs
  /\ \A d \in Repairs : pc[d] \in RepairPcs
  /\ content \in Contents
  /\ base \in [Jobs -> Contents]
  /\ net \in [Jobs -> [Files -> NetStates]]
  /\ sends \in [Jobs -> Nat]
  /\ edits \in Nat /\ restarts \in Nat
  /\ plan \in [Plans -> PlanRows] /\ noWrite \subseteq Plans
  /\ review \in [Plans -> Reviews] /\ passed \in [Plans -> SUBSET Plans]
  /\ row \in [Corrections -> Rows]
  /\ heldCancel \in [Corrections -> BOOLEAN] /\ stopped \subseteq Corrections
  /\ repair \in [Repairs -> RepairRows]
  /\ heldRow \in [Repairs -> RepairRows] /\ cancelRow \in [Repairs -> RepairRows]
  /\ canceling \subseteq Repairs /\ aborted \subseteq Repairs
  /\ latest \in Repairs \cup {Nobody}

\* No write that an approval allows is requested twice, whatever was retried, canceled, lost
\* or restarted in between: "Same approval never dispatches twice".
SentOnce ==
  \A j \in Jobs : sends[j] = Cardinality({f \in Files : net[j][f] # "none"})

\* A request that may still change the destination is covered by an open lease, over
\* restarts, cancellations and reconciliations that read the branch too early.
LateWritesAreCovered == \A j \in Jobs : MayLand(j) => Open(j)

\* The requests of two approvals are never on their way, or at work, at the same time.
OneWriterPerModel == \A j, k \in Jobs : MayLand(j) /\ MayLand(k) => j = k

\* A used plan of the same evidence, that a new review was saved over, wrote no YAML and will
\* not, though the operator may have been wrong, and though it may have been used, and
\* adjudicated, while the review was prepared.
ReplacedPlanWroteNothing ==
  \A q \in Plans : \A r \in passed[q] : net[r][Yaml] \notin {"wire", "landed"}

\* An accepted repair was validated on the very branch that was accepted, and its AI job
\* can no longer write.
AcceptedIsFinal ==
  \A d \in Repairs : repair[d].status = "accepted" =>
    /\ repair[d].valid = repair[d].hash
    /\ ~ MayLand(d)

\* What is known of the end of an AI job is not forgotten, though a cancellation stores the
\* row it loaded before.
EndIsNotForgotten == [][\A d \in Repairs : repair[d].over => repair'[d].over]_vars

\* "The destination-model operation stopped before an external write was dispatched": what
\* the recovery or a handler settled with these words blocks the model no more.
PrewriteFailureStaysSettled ==
  [][\A j \in Jobs : lease[j] = "failed_prewrite" => ~ Open(j)']_vars

\* Every handler of a plan or a correction ends, from whichever step fails or is never
\* answered, between the files of a correction too.
HandlersEnd == \A j \in Plans \cup Corrections : pc[j] # "off" ~> pc[j] = "off"
-----------------------------------------------------------------------------
(* The inductive invariant. *)

\* A request on its way is covered, and a handler owns the model while it works.
SharedInv ==
  /\ LateWritesAreCovered
  /\ OneWriterPerModel
  /\ \A j \in Jobs : pc[j] # "off" => owner = j

\* The handlers that may still send: nobody else's request is on its way.
MayStillSend(j) == pc[j] \in {"proving", "reading", "queued", "wire", "verifying"}
AloneInv == \A j, k \in Jobs : MayStillSend(j) /\ MayLand(k) => j = k

\* The requests of a plan follow its lease.
PlanInv(p) ==
  /\ plan[p].linked => plan[p].claim
  /\ plan[p].claim => plan[p].ready
  /\ ~ plan[p].claim => lease[p] = "none"
  /\ lease[p] \in {"none", "claimed", "failed_prewrite"} => \A f \in Files : net[p][f] = "none"
  /\ \A f \in Files \ {Create, Yaml} : net[p][f] = "none"
  /\ net[p][Yaml] # "none" => net[p][Create] = "landed"
  /\ \A f \in Files : net[p][f] # "running"
  /\ pc[p] = "proving" => /\ lease[p] \in {"claimed", "resolved"}
                          /\ net[p][Create] \in {"none", "landed"}
                          /\ net[p][Yaml] \in {"none", "landed"}
  /\ pc[p] = "wire" => lease[p] = "dispatched"
  /\ p \in noWrite => /\ pc[p] = "off" /\ lease[p] = "resolved"
                      /\ net[p][Yaml] \in {"landed", "refused"}

\* A plan that a review was saved over, or was proved not to have written, is done.
Unwritten(p) == FailedPrewrite(p) \/ (ReconciledNoWrite(p) /\ BranchUnchanged(p))
ReplacedInv == \A q \in Plans : \A r \in passed[q] \cup review[q].reconciled : Unwritten(r)

\* The row of a correction is ahead of its requests, and its acknowledgments behind them.
CorrectionInv(c) ==
  /\ row[c].acked <= row[c].sent
  /\ row[c].rejected => row[c].sent > 0
  /\ \A f \in Files :
       /\ net[c][f] # "running"
       /\ net[c][f] # "none" => f <= row[c].sent
       /\ f <= row[c].acked => net[c][f] = "landed"
       /\ net[c][f] = "wire" => f = row[c].sent /\ ~ row[c].rejected
       /\ content[f] = c => net[c][f] = "landed"
  /\ lease[c] = "none" => row[c].sent = 0
  /\ row[c].status \in {"none", "ready"} => ~ row[c].claim
  /\ ~ row[c].claim => lease[c] = "none"
  /\ pc[c] = "checking" => lease[c] = "none" /\ row[c].status = "ready"
  /\ pc[c] \in {"reading", "queued", "validating", "verifying"} => row[c].acked = row[c].sent
  /\ pc[c] \in {"reading", "queued"} => row[c].sent < NumFiles
  /\ pc[c] = "wire" => row[c].sent = row[c].acked + 1
  /\ pc[c] \in {"reading", "queued", "wire", "verifying", "validating"} =>
       lease[c] \in {"claimed", "dispatched"} /\ ~ row[c].rejected
  /\ pc[c] \in {"wire", "verifying", "validating"} => lease[c] = "dispatched"

\* What the copies of a row have in common.
Core(r) == <<r.api, r.started, r.intent, r.sent, r.known>>

\* A request of a repair is on record in every copy of its row until its end is.
RepairInv(d) ==
  /\ \A f \in Files \ {1} : net[d][f] = "none"
  /\ net[d][1] # "none" => repair[d].sent
  /\ repair[d].known => repair[d].sent
  /\ repair[d].sent => repair[d].intent /\ repair[d].api
  /\ repair[d].intent => repair[d].started
  /\ repair[d].started => repair[d].status # "none"
  /\ ~ repair[d].started => ~ repair[d].over /\ lease[d] = "none"
  /\ repair[d].over => ~ MayLand(d)
  /\ pc[d] # "off" => /\ Core(heldRow[d]) = Core(repair[d])
                      /\ heldRow[d].over = repair[d].over
                      /\ repair[d].started
  /\ d \in canceling => /\ Core(cancelRow[d]) = Core(repair[d])
                         /\ repair[d].known /\ ~ cancelRow[d].over
                         /\ cancelRow[d].status = "uncertain"
  /\ pc[d] \in {"queued", "wire"} => /\ repair[d].intent /\ repair[d].api
                                     /\ ~ repair[d].over /\ ~ repair[d].known
                                     /\ heldRow[d].status = "running"
  /\ pc[d] = "queued" => ~ repair[d].sent
  /\ pc[d] \in {"validating", "revalidating", "accepting"} => ~ Unresolved(heldRow[d])
  /\ repair[d].status = "accepted" => repair[d].valid = repair[d].hash /\ ~ Unresolved(repair[d])

LatestInv == latest = Nobody => \A d \in Repairs : repair[d].status = "none"

IInv ==
  /\ TypeOK
  /\ SentOnce
  /\ SharedInv
  /\ AloneInv
  /\ \A p \in Plans : PlanInv(p)
  /\ ReplacedInv
  /\ \A c \in Corrections : CorrectionInv(c)
  /\ \A d \in Repairs : RepairInv(d)
  /\ LatestInv

-----------------------------------------------------------------------------
(* The approvals as their gate sees them. *)

TurnOf == IF owner # Nobody /\ MayStillSend(owner) THEN owner ELSE Nobody
Used ==
  {p \in Plans : plan[p].claim} \cup {c \in Corrections : row[c].claim}
    \cup {d \in Repairs : repair[d].started}
Unsettled == {j \in Jobs : Open(j)}
RequestState ==
  [none |-> "none", wire |-> "open", running |-> "open", landed |-> "over", refused |-> "over"]
Requests == [j \in Jobs |-> [f \in Files |-> RequestState[net[j][f]]]]

Gate == INSTANCE WriteGate WITH
  Approvals <- Jobs, Writes <- Files,
  turn <- TurnOf, used <- Used, unsettled <- Unsettled, request <- Requests, author <- content

\* An approval acts in one turn, which a crash or a cancellation ends for good and no read or
\* reconciliation gives back; it sends each write once, the next when the one before is over;
\* whatever of it may still come keeps every other turn from beginning, over restarts; and
\* the branch changes only by what was sent, or by people.
GateSpec == Gate!GateSpec
=============================================================================
