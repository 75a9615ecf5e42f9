-------------------------- MODULE DestinationModel --------------------------
(***************************************************************************)
(* One destination model, as the work on its review branches shares it:    *)
(* topic plans, whose jobs create a branch and write its YAML, corrections *)
(* of an existing branch file by file, and repairs of that branch by a     *)
(* remote AI job. Each approval has at most one job. The lease in the job  *)
(* is durable; the reservation of the model and the handlers are not. What *)
(* the destination does with the requests it was sent is modelled here.    *)
(***************************************************************************)
EXTENDS Naturals, FiniteSets

CONSTANTS
  Plans, Corrections, Repairs,   \* the approvals, each named by its job
  NumFiles,    \* files of a correction; a plan has two writes, a repair one request
  AgentFiles,  \* the files that the remote AI job may change
  MaxEdits,    \* bound: edits of the branch by people in Omni
  MaxRestarts, \* bound: restarts of the server in a behaviour
  Original, Edited, Nobody

Jobs == Plans \cup Corrections \cup Repairs
Files == 1 .. NumFiles
Authors == {Original, Edited} \cup Corrections \cup Repairs

ASSUME ApprovalsAssumption ==
  /\ Plans \cap Corrections = {} /\ Plans \cap Repairs = {} /\ Corrections \cap Repairs = {}
  /\ Original # Edited
  /\ {Original, Edited, Nobody} \cap Jobs = {}
ASSUME BoundsAssumption ==
  /\ NumFiles \in Nat /\ NumFiles >= 2 /\ AgentFiles \subseteq 1 .. NumFiles
  /\ MaxEdits \in Nat /\ MaxRestarts \in Nat

VARIABLES
  lease,    \* the lease in the job of an approval; "none" before insertJob
  owner,    \* scopeOwners, for this model
  pc,       \* where the handler that holds the approval is; "off" when none runs
  content,  \* who wrote each file of the review branch last
  base,     \* the branch as an approval saw it
  net,      \* the requests of an approval, as the destination sees them
  sends,    \* history: how many requests left the process for an approval
  edits, restarts

sharedVars == <<lease, owner, pc, content, base, net, sends, edits, restarts>>

LeaseStates ==
  {"none", "claimed", "dispatched", "remote_pending", "uncertain", "resolved", "failed_prewrite"}
NetStates == {"none", "wire", "running", "landed", "refused"}
Contents == [Files -> Authors]

Open(j) == lease[j] \in {"dispatched", "remote_pending", "uncertain"}
Settled(j) == lease[j] \in {"none", "resolved", "failed_prewrite"}

\* The destination may still change something for this approval.
MayLand(j) == \E f \in Files : net[j][f] \in {"wire", "running"}

\* assertTopicBranchCorrectionScopeIdle: nothing of another job is unsettled.
Idle(j) == \A k \in Jobs \ {j} : Settled(k)

\* hasUnresolvedMigrationDestinationModelMutation, the check of a new branch preparation.
NothingOpen(j) == \A k \in Jobs \ {j} : ~ Open(k)

Reserved(j) == owner = Nobody /\ owner' = j
Released(j) == IF owner = j THEN Nobody ELSE owner

\* (Mutant: what was dispatched is taken for not written.)
RecoveredAsPrewrite(j) ==
  CASE lease[j] \in {"claimed", "dispatched"} -> "failed_prewrite"
    [] lease[j] = "remote_pending" -> "uncertain"
    [] OTHER -> lease[j]

\* recoverInterruptedJobs.
RecoveredLease(j) ==
  CASE lease[j] = "claimed" -> "failed_prewrite"
    [] lease[j] \in {"dispatched", "remote_pending"} -> "uncertain"
    [] OTHER -> lease[j]

\* A request leaves the process.
Sends(j, f) ==
  /\ net' = [net EXCEPT ![j][f] = "wire"]
  /\ sends' = [sends EXCEPT ![j] = @ + 1]

-----------------------------------------------------------------------------
(* The destination. *)

\* A write of a correction names the checksum that its approval saw.
Lands(j, f) ==
  /\ net[j][f] = "wire"
  /\ CASE j \in Corrections -> /\ content[f] = base[j][f]
                               /\ content' = [content EXCEPT ![f] = j]
                               /\ net' = [net EXCEPT ![j][f] = "landed"]
       [] j \in Repairs -> net' = [net EXCEPT ![j][f] = "running"] /\ UNCHANGED content
       [] OTHER -> net' = [net EXCEPT ![j][f] = "landed"] /\ UNCHANGED content
  /\ UNCHANGED <<lease, owner, pc, base, sends, edits, restarts>>

\* The request is refused, or never arrives.
IsRefused(j, f) ==
  /\ net[j][f] = "wire"
  /\ net' = [net EXCEPT ![j][f] = "refused"]
  /\ UNCHANGED <<lease, owner, pc, content, base, sends, edits, restarts>>

\* The remote AI job writes a file of the branch it works on.
AgentWrites(d, f) ==
  /\ d \in Repairs /\ f \in AgentFiles /\ net[d][1] = "running"
  /\ content[f] # d
  /\ content' = [content EXCEPT ![f] = d]
  /\ UNCHANGED <<lease, owner, pc, base, net, sends, edits, restarts>>

\* The remote AI job is complete, failed or canceled.
AgentEnds(d) ==
  /\ d \in Repairs /\ net[d][1] = "running"
  /\ net' = [net EXCEPT ![d][1] = "landed"]
  /\ UNCHANGED <<lease, owner, pc, content, base, sends, edits, restarts>>

\* Somebody edits the branch in Omni.
Edit(f) ==
  /\ edits < MaxEdits
  /\ content[f] # Edited
  /\ content' = [content EXCEPT ![f] = Edited]
  /\ edits' = edits + 1
  /\ UNCHANGED <<lease, owner, pc, base, net, sends, restarts>>

Destination ==
  \/ \E j \in Jobs, f \in Files : Lands(j, f) \/ IsRefused(j, f)
  \/ \E d \in Repairs : AgentEnds(d) \/ \E f \in Files : AgentWrites(d, f)
  \/ \E f \in Files : Edit(f)

SharedInit ==
  /\ lease = [j \in Jobs |-> "none"]
  /\ owner = Nobody
  /\ pc = [j \in Jobs |-> "off"]
  /\ content = [f \in Files |-> Original]
  /\ base = [j \in Jobs |-> [f \in Files |-> Original]]
  /\ net = [j \in Jobs |-> [f \in Files |-> "none"]]
  /\ sends = [j \in Jobs |-> 0]
  /\ edits = 0 /\ restarts = 0
=============================================================================
