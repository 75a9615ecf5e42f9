---------------------------- MODULE BlobbyRepair ----------------------------
(***************************************************************************)
(* topicBlobbyRepairs.ts: a remote AI job is asked, once per approval, to  *)
(* repair a review branch; the program then observes the job and the       *)
(* branch, validates what it finds and lets the operator accept it. A      *)
(* native repair is done by people in Omni and sends nothing. Handlers     *)
(* hold a copy of the row they loaded and store it back whole. Findings    *)
(* and validation results are any: `blocked` and `passes` are inputs.      *)
(***************************************************************************)
EXTENDS DestinationModel

VARIABLES
  repair,     \* the durable rows of the repairs
  heldRow,    \* the row that a start or an observation holds
  cancelRow,  \* the row that a cancellation holds until its request leaves
  canceling,  \* the repairs with a cancellation on its way to the destination
  aborted,    \* the repairs whose AbortController has fired
  latest      \* the last repair that was prepared for the branch

repairVars == <<repair, heldRow, cancelRow, canceling, aborted, latest>>

RepairStatuses ==
  {"none", "ready", "running", "uncertain", "review", "needs_input", "accepted", "canceled"}
NoHash == [f \in Files |-> Nobody]
Hashes == Contents \cup {NoHash}

\* started: startRevision; intent: submitIntent; over: remoteTerminal; known: remoteJobId;
\* hash: branchHash; valid: the branchHash of a validation that passed; cancelSent:
\* cancelIntent, cancelGone: cancelDispatched.
RepairRows ==
  [status : RepairStatuses, api : BOOLEAN, started : BOOLEAN, intent : BOOLEAN,
   sent : BOOLEAN, over : BOOLEAN, known : BOOLEAN, cancel : BOOLEAN,
   cancelSent : BOOLEAN, cancelGone : BOOLEAN, inspected : BOOLEAN,
   hash : Hashes, valid : Hashes]

NoRepair ==
  [status |-> "none", api |-> FALSE, started |-> FALSE, intent |-> FALSE, sent |-> FALSE,
   over |-> FALSE, known |-> FALSE, cancel |-> FALSE, cancelSent |-> FALSE,
   cancelGone |-> FALSE, inspected |-> FALSE, hash |-> NoHash, valid |-> NoHash]

\* `active` has a controller: the request is queued or on its way.
Posting(d) == pc[d] \in {"queued", "wire"}

\* The AI job was asked for and is not known to be over.
Unresolved(r) == r.api /\ r.intent /\ ~ r.over

\* load refuses a row whose job is missing.
Loadable(d) == repair[d].started => lease[d] # "none"

\* mirror.
RepairMirrored(d, state) ==
  lease' = [lease EXCEPT ![d] = IF @ = "none" THEN @ ELSE state]

\* The handler of d gives the model back; the row it held is gone.
RepairOff(d) ==
  /\ pc' = [pc EXCEPT ![d] = "off"]
  /\ owner' = Released(d)
  /\ heldRow' = [heldRow EXCEPT ![d] = NoRepair]

-----------------------------------------------------------------------------
\* prepareTopicBlobbyRepair: the first repair of the branch, a fresh context for one that
\* was not started, or the pass after the latest one, which must be inspected and over.
PrepareRepair(d) ==
  /\ \/ latest = Nobody
     \/ latest = d /\ ~ repair[d].started
     \/ /\ latest \in Repairs \ {d} /\ Loadable(latest)
        /\ LET prior == repair[latest]
           IN /\ repair[d].status = "none"
              /\ ~ Unresolved(prior) /\ prior.inspected
              /\ prior.status \notin {"running", "uncertain"}
              /\ prior.hash = content
  /\ owner = Nobody /\ Idle(Nobody)
  /\ \E api \in BOOLEAN : repair' = [repair EXCEPT ![d] =
       [NoRepair EXCEPT !.status = "ready", !.api = api, !.hash = content]]
  /\ base' = [base EXCEPT ![d] = content]
  /\ latest' = d
  /\ UNCHANGED <<lease, owner, pc, content, net, sends, edits, restarts,
                 heldRow, cancelRow, canceling, aborted>>

\* The guards of startTopicBlobbyRepair.
Startable(d) ==
  /\ pc[d] = "off" /\ Loadable(d)
  /\ ~ repair[d].started /\ repair[d].status = "ready"
  /\ lease[d] = "none"

\* startTopicBlobbyRepair: the claim, the job with its lease and, for an API repair, the
\* intent, before the request is queued. The evidence it awaits is as approved.
StartRepair(d) ==
  /\ Startable(d)
  /\ owner = Nobody /\ Idle(d)
  /\ content = base[d]
  /\ lease' = [lease EXCEPT ![d] = "claimed"]
  /\ LET started == [repair[d] EXCEPT !.started = TRUE, !.status = "running",
                                      !.intent = repair[d].api]
     IN /\ repair' = [repair EXCEPT ![d] = started]
        /\ IF repair[d].api
             THEN /\ owner' = d
                  /\ pc' = [pc EXCEPT ![d] = "queued"]
                  /\ heldRow' = [heldRow EXCEPT ![d] = started]
             ELSE UNCHANGED <<owner, pc, heldRow>>
  /\ UNCHANGED <<content, base, net, sends, edits, restarts, cancelRow, canceling, aborted, latest>>

\* insertJob fails after the row is stored: the row can no longer be loaded.
StartUnrecorded(d) ==
  /\ Startable(d)
  /\ owner = Nobody /\ Idle(d)
  /\ content = base[d]
  /\ repair' = [repair EXCEPT ![d].started = TRUE, ![d].status = "running"]
  /\ UNCHANGED <<sharedVars, heldRow, cancelRow, canceling, aborted, latest>>

\* assertCanDispatch, on the row as stored by now, and the request.
RepairSends(d) ==
  /\ pc[d] = "queued"
  /\ d \notin aborted
  /\ ~ repair[d].cancel /\ repair[d].intent /\ ~ repair[d].sent
  /\ Idle(d) /\ lease[d] = "claimed"
  /\ heldRow' = [heldRow EXCEPT ![d].sent = TRUE]
  /\ repair' = [repair EXCEPT ![d] = heldRow'[d]]
  /\ RepairMirrored(d, "dispatched")
  /\ Sends(d, 1)
  /\ pc' = [pc EXCEPT ![d] = "wire"]
  /\ UNCHANGED <<owner, content, base, edits, restarts, cancelRow, canceling, aborted, latest>>

\* The guard, the queue or the deadline stops the request.
RepairNotSent(d) ==
  /\ pc[d] = "queued"
  /\ repair' = [repair EXCEPT ![d] = [heldRow[d] EXCEPT
       !.cancel = repair[d].cancel, !.over = TRUE, !.status = "needs_input"]]
  /\ RepairMirrored(d, "failed_prewrite")
  /\ RepairOff(d)
  /\ aborted' = aborted \ {d}
  /\ UNCHANGED <<content, base, net, sends, edits, restarts, cancelRow, canceling, latest>>

\* The destination answers with the id of the AI job.
RepairAnswered(d) ==
  /\ pc[d] = "wire" /\ net[d][1] \in {"running", "landed"}
  /\ LET cancel == repair[d].cancel
     IN /\ repair' = [repair EXCEPT ![d] = [heldRow[d] EXCEPT
             !.cancel = cancel, !.known = TRUE,
             !.status = IF cancel THEN "uncertain" ELSE "running"]]
        /\ RepairMirrored(d, IF cancel THEN "uncertain" ELSE "remote_pending")
  /\ RepairOff(d)
  /\ aborted' = aborted \ {d}
  /\ UNCHANGED <<content, base, net, sends, edits, restarts, cancelRow, canceling, latest>>

\* (Mutant: without an answer, nothing is thought to have been sent.)
RepairLostAsNotSent(d) ==
  /\ pc[d] = "wire"
  /\ repair' = [repair EXCEPT ![d] = [heldRow[d] EXCEPT
       !.cancel = repair[d].cancel, !.over = TRUE, !.status = "needs_input"]]
  /\ RepairMirrored(d, "failed_prewrite")
  /\ RepairOff(d)
  /\ aborted' = aborted \ {d}
  /\ UNCHANGED <<content, base, net, sends, edits, restarts, cancelRow, canceling, latest>>

\* No answer, or one without a usable id.
RepairLost(d) ==
  /\ pc[d] = "wire"
  /\ repair' = [repair EXCEPT ![d] = [heldRow[d] EXCEPT
       !.cancel = repair[d].cancel, !.status = "uncertain"]]
  /\ RepairMirrored(d, "uncertain")
  /\ RepairOff(d)
  /\ aborted' = aborted \ {d}
  /\ UNCHANGED <<content, base, net, sends, edits, restarts, cancelRow, canceling, latest>>

-----------------------------------------------------------------------------
(* withObservation: inspect, validate and accept exclude each other. *)

\* applyReadback: another branch voids the validation; the findings decide the rest.
ReadBack(r, found, blocked, at) ==
  [r EXCEPT !.hash = found,
            !.valid = IF r.hash = found THEN @ ELSE NoHash,
            !.inspected = TRUE,
            !.status = IF Unresolved(r) THEN "uncertain"
                       ELSE IF blocked \/ found = at THEN "needs_input" ELSE "review"]

Observes(d, kind) ==
  /\ pc[d] = "off" /\ Loadable(d) /\ repair[d].started
  /\ Reserved(d) /\ Idle(d)
  /\ heldRow' = [heldRow EXCEPT ![d] = repair[d]]
  /\ pc' = [pc EXCEPT ![d] = kind]
  /\ UNCHANGED <<lease, content, base, net, sends, edits, restarts,
                 repair, cancelRow, canceling, aborted, latest>>

InspectBegins(d) == Observes(d, "inspecting")

ValidateBegins(d) == ~ Unresolved(repair[d]) /\ repair[d].inspected /\ Observes(d, "validating")

AcceptBegins(d) ==
  /\ repair[d].status = "review" /\ ~ Unresolved(repair[d]) /\ repair[d].inspected
  /\ Observes(d, "accepting")

\* The observation ends with a row stored and a lease mirrored.
Stored(d, new) ==
  /\ repair' = [repair EXCEPT ![d] = new]
  /\ RepairOff(d)
  /\ UNCHANGED <<content, base, net, sends, edits, restarts, cancelRow, canceling, aborted, latest>>

\* A read fails or the client leaves: nothing is stored.
ObservationFails(d) ==
  /\ pc[d] \in {"inspecting", "validating", "revalidating", "accepting"}
  /\ RepairOff(d)
  /\ UNCHANGED <<lease, content, base, net, sends, edits, restarts,
                 repair, cancelRow, canceling, aborted, latest>>

\* The AI job is still queued or at work.
InspectPending(d) ==
  /\ pc[d] = "inspecting"
  /\ Unresolved(heldRow[d]) /\ heldRow[d].known /\ net[d][1] = "running"
  /\ LET state == IF heldRow[d].cancel THEN "uncertain" ELSE "running"
     IN /\ Stored(d, [heldRow[d] EXCEPT !.status = state])
        /\ RepairMirrored(d, IF state = "running" THEN "remote_pending" ELSE "uncertain")

\* The AI job is over or cannot be read; the branch is read either way.
InspectRead(d) ==
  /\ pc[d] = "inspecting"
  /\ \E over, blocked \in BOOLEAN :
       /\ over => heldRow[d].known /\ net[d][1] = "landed"
       /\ LET seen == [heldRow[d] EXCEPT !.over = @ \/ over]
              new == ReadBack(seen, content, blocked, base[d])
          IN Stored(d, new) /\ RepairMirrored(d, IF Unresolved(new) THEN "uncertain" ELSE "resolved")

\* validateTopicBlobbyRepair: the branch is read before the validation ...
ValidateReads(d) ==
  /\ pc[d] = "validating"
  /\ \E blocked \in BOOLEAN :
       heldRow' = [heldRow EXCEPT ![d] = ReadBack(@, content, blocked, base[d])]
  /\ pc' = [pc EXCEPT ![d] = "revalidating"]
  /\ UNCHANGED <<lease, owner, content, base, net, sends, edits, restarts,
                 repair, cancelRow, canceling, aborted, latest>>

\* ... and after it; the result counts only if the branch stayed the same.
Validated(d) ==
  /\ pc[d] = "revalidating"
  /\ \E blocked, passes \in BOOLEAN :
       LET new == ReadBack(heldRow[d], content, blocked, base[d])
       IN Stored(d, IF content # heldRow[d].hash THEN new
                    ELSE [new EXCEPT !.valid = IF passes THEN content ELSE NoHash,
                                     !.status = IF passes /\ ~ blocked THEN "review" ELSE @])
  /\ UNCHANGED lease

\* (Mutant: the branch is not compared with what was validated and approved.)
AcceptsAnyBranch(d) ==
  /\ pc[d] = "accepting"
  /\ Stored(d, [ReadBack(heldRow[d], content, FALSE, base[d]) EXCEPT !.status = "accepted"])
  /\ RepairMirrored(d, "resolved")

\* acceptTopicBlobbyRepair: what was reviewed, what was validated and what is there agree.
Accepts(d) ==
  /\ pc[d] = "accepting"
  /\ LET new == ReadBack(heldRow[d], content, FALSE, base[d])
     IN /\ new.hash = heldRow[d].hash /\ heldRow[d].valid = heldRow[d].hash
        /\ Stored(d, [new EXCEPT !.status = "accepted"])
  /\ RepairMirrored(d, "resolved")

\* They do not: what was read is stored.
AcceptRefused(d) ==
  /\ pc[d] = "accepting"
  /\ \E blocked \in BOOLEAN :
       LET new == ReadBack(heldRow[d], content, blocked, base[d])
       IN /\ blocked \/ new.hash # heldRow[d].hash \/ heldRow[d].valid # heldRow[d].hash
          /\ Stored(d, new)
  /\ UNCHANGED lease

RepairStep(d) ==
  \/ RepairSends(d) \/ RepairNotSent(d) \/ RepairAnswered(d) \/ RepairLost(d)
  \/ InspectPending(d) \/ InspectRead(d) \/ ValidateReads(d) \/ Validated(d)
  \/ Accepts(d) \/ AcceptRefused(d) \/ ObservationFails(d)

-----------------------------------------------------------------------------
\* getTopicBlobbyRepair finds a submission without a handler and without an answer.
ObserveRepair(d) ==
  /\ Loadable(d)
  /\ repair[d].status = "running" /\ repair[d].api /\ ~ Posting(d) /\ ~ repair[d].known
  /\ repair' = [repair EXCEPT ![d].status = "uncertain"]
  /\ RepairMirrored(d, "uncertain")
  /\ UNCHANGED <<owner, pc, content, base, net, sends, edits, restarts,
                 heldRow, cancelRow, canceling, aborted, latest>>

\* cancelTopicBlobbyRepair up to its request: an observation is waited for, a submission is
\* not. The request is sent at most once, and only for a job whose id is known.
CancelRepair(d) ==
  /\ Loadable(d)
  /\ repair[d].status # "none"
  /\ pc[d] = "off" \/ Posting(d)
  /\ LET open == Unresolved(repair[d])
         asks == open /\ repair[d].known /\ ~ repair[d].cancelSent
         new == [repair[d] EXCEPT !.cancel = TRUE, !.cancelSent = @ \/ asks,
                                  !.status = IF open THEN "uncertain" ELSE "canceled"]
     IN /\ repair' = [repair EXCEPT ![d] = new]
        /\ RepairMirrored(d, IF open THEN "uncertain" ELSE "resolved")
        /\ IF asks THEN canceling' = canceling \cup {d} /\ cancelRow' = [cancelRow EXCEPT ![d] = new]
           ELSE UNCHANGED <<canceling, cancelRow>>
  /\ aborted' = IF Posting(d) THEN aborted \cup {d} ELSE aborted
  /\ UNCHANGED <<owner, pc, content, base, net, sends, edits, restarts, heldRow, latest>>

\* (Mutant: the last check before the request does not ask whether the AI job is over.)
CancelSendsAnyway(d) ==
  /\ d \in canceling
  /\ canceling' = canceling \ {d}
  /\ repair' = [repair EXCEPT ![d] = [cancelRow[d] EXCEPT !.cancelGone = TRUE]]
  /\ cancelRow' = [cancelRow EXCEPT ![d] = NoRepair]
  /\ UNCHANGED <<sharedVars, heldRow, aborted, latest>>

\* Its last check, on the stored row; then the row it holds is stored.
CancelSends(d) ==
  /\ d \in canceling
  /\ Loadable(d)
  /\ repair[d].cancel /\ ~ repair[d].cancelGone /\ ~ repair[d].over
  /\ canceling' = canceling \ {d}
  /\ repair' = [repair EXCEPT ![d] = [cancelRow[d] EXCEPT !.cancelGone = TRUE]]
  /\ cancelRow' = [cancelRow EXCEPT ![d] = NoRepair]
  /\ UNCHANGED <<sharedVars, heldRow, aborted, latest>>

\* The check, the queue or the deadline stops it; nobody asks again.
CancelNotSent(d) ==
  /\ d \in canceling
  /\ canceling' = canceling \ {d}
  /\ cancelRow' = [cancelRow EXCEPT ![d] = NoRepair]
  /\ UNCHANGED <<sharedVars, repair, heldRow, aborted, latest>>

\* The server dies within the stretch of StartRepair, after the row is stored: before or
\* after the job is, and before the intent.
TornStart(d) ==
  /\ Startable(d) /\ owner = Nobody /\ Idle(d) /\ content = base[d]
  /\ repair' = [repair EXCEPT ![d].started = TRUE, ![d].status = "running"]

\* It dies there, or within the stretch of RepairSends, before the lease says so.
TornRepair(d) ==
  \/ TornStart(d)
  \/ /\ pc[d] = "queued" /\ d \notin aborted
     /\ ~ repair[d].cancel /\ ~ repair[d].sent /\ lease[d] = "claimed"
     /\ repair' = [repair EXCEPT ![d] = [heldRow[d] EXCEPT !.sent = TRUE]]

RepairInit ==
  /\ repair = [d \in Repairs |-> NoRepair]
  /\ heldRow = [d \in Repairs |-> NoRepair]
  /\ cancelRow = [d \in Repairs |-> NoRepair]
  /\ canceling = {} /\ aborted = {} /\ latest = Nobody

RepairNext(d) ==
  \/ PrepareRepair(d) \/ StartRepair(d) \/ StartUnrecorded(d) \/ RepairStep(d)
  \/ InspectBegins(d) \/ ValidateBegins(d) \/ AcceptBegins(d)
  \/ ObserveRepair(d) \/ CancelRepair(d) \/ CancelSends(d) \/ CancelNotSent(d)
=============================================================================
