-------------------------- MODULE BranchCorrection --------------------------
(***************************************************************************)
(* topicBranchCorrections.ts: a reviewed set of file changes to one branch *)
(* is approved once and written file by file, each write checked, read     *)
(* back and recorded before the next. The row of a correction is durable;  *)
(* its handler keeps the row it loaded and writes it back whole, so that   *)
(* what another handler stored in between is lost: heldCancel is the       *)
(* handler's copy of cancelRequested, the one field this can happen to.    *)
(* The validation of an applied branch changes no state modelled here.     *)
(***************************************************************************)
EXTENDS DestinationModel

VARIABLES
  row,         \* the durable rows of the corrections
  heldCancel,  \* cancelRequested in the row that a handler holds
  stopped      \* the corrections whose AbortController has fired

correctionVars == <<row, heldCancel, stopped>>

CorrectionStatuses ==
  {"none", "ready", "running", "applied", "partial", "canceled", "uncertain"}

\* Files 1..sent were dispatched, 1..acked acknowledged; rejected speaks of file sent.
Rows == [status : CorrectionStatuses, claim : BOOLEAN, cancel : BOOLEAN,
         sent : 0 .. NumFiles, acked : 0 .. NumFiles, rejected : BOOLEAN]

NoRow == [status |-> "none", claim |-> FALSE, cancel |-> FALSE,
          sent |-> 0, acked |-> 0, rejected |-> FALSE]

\* `active` has a controller for it.
Executing(c) == pc[c] \in {"reading", "queued", "wire", "verifying", "validating"}

\* The branch as the handler expects it after the files it has verified.
Expected(c, done) == [f \in Files |-> IF f <= done THEN c ELSE base[c][f]]

\* save(row): the handler's row replaces the stored one.
Saved(c, new) == row' = [row EXCEPT ![c] = [new EXCEPT !.cancel = heldCancel[c]]]

\* mirror throws when the job is not there.
Mirrored(c, state) ==
  lease' = [lease EXCEPT ![c] = IF @ = "none" THEN @ ELSE state]

-----------------------------------------------------------------------------
\* prepareTopicBranchCorrection, for a review with changes and without a blocker.
PrepareCorrection(c) ==
  /\ row[c].status = "none"
  /\ owner = Nobody /\ Idle(c)
  /\ row' = [row EXCEPT ![c].status = "ready"]
  /\ base' = [base EXCEPT ![c] = content]
  /\ UNCHANGED <<lease, owner, pc, content, net, sends, edits, restarts, heldCancel, stopped>>

\* (Mutant: an approval is not used up.)
ApprovableAgain(c) == pc[c] = "off" /\ row[c].status \notin {"none", "running"}

\* The guards of applyTopicBranchCorrection; `lease` stands for the job that exists.
Approvable(c) ==
  /\ pc[c] = "off"
  /\ row[c].status = "ready" /\ ~ row[c].claim
  /\ lease[c] = "none"

\* applyTopicBranchCorrection up to its first await.
ApplyChecks(c) ==
  /\ Approvable(c)
  /\ Reserved(c) /\ Idle(c)
  /\ heldCancel' = [heldCancel EXCEPT ![c] = row[c].cancel]
  /\ pc' = [pc EXCEPT ![c] = "checking"]
  /\ UNCHANGED <<lease, content, base, net, sends, edits, restarts, row, stopped>>

\* The evidence is as approved: the one-use claim, the job with its lease, the handler.
Applies(c) ==
  /\ pc[c] = "checking"
  /\ content = base[c] /\ Idle(c)
  /\ Saved(c, [row[c] EXCEPT !.claim = TRUE, !.status = "running"])
  /\ lease' = [lease EXCEPT ![c] = "claimed"]
  /\ pc' = [pc EXCEPT ![c] = "reading"]
  /\ UNCHANGED <<owner, content, base, net, sends, edits, restarts, heldCancel, stopped>>

\* The evidence is not as approved or cannot be read.
ApplyRefused(c) ==
  /\ pc[c] = "checking"
  /\ pc' = [pc EXCEPT ![c] = "off"]
  /\ owner' = Released(c)
  /\ heldCancel' = [heldCancel EXCEPT ![c] = FALSE]
  /\ UNCHANGED <<lease, content, base, net, sends, edits, restarts, row, stopped>>

\* insertJob fails after the claim: the claim is used, and nothing was written.
ApplyUnrecorded(c) ==
  /\ pc[c] = "checking"
  /\ content = base[c] /\ Idle(c)
  /\ Saved(c, [row[c] EXCEPT !.claim = TRUE, !.status = "partial"])
  /\ pc' = [pc EXCEPT ![c] = "off"]
  /\ owner' = Released(c)
  /\ heldCancel' = [heldCancel EXCEPT ![c] = FALSE]
  /\ UNCHANGED <<lease, content, base, net, sends, edits, restarts, stopped>>

-----------------------------------------------------------------------------
(* execute. *)

\* stillAuthorized, with the abort of the controller.
Authorized(c) ==
  /\ row[c].claim /\ row[c].status = "running"
  /\ ~ row[c].cancel /\ c \notin stopped
  /\ lease[c] \in {"claimed", "dispatched"}

\* The branch is as expected: the file is queued.
CorrectionQueues(c) ==
  /\ pc[c] = "reading"
  /\ Authorized(c)
  /\ content = Expected(c, row[c].acked)
  /\ Saved(c, row[c])
  /\ pc' = [pc EXCEPT ![c] = "queued"]
  /\ UNCHANGED <<lease, owner, content, base, net, sends, edits, restarts, heldCancel, stopped>>

\* assertCanDispatch, and the request: one synchronous stretch.
CorrectionSends(c) ==
  /\ pc[c] = "queued"
  /\ Authorized(c)
  /\ Saved(c, [row[c] EXCEPT !.sent = @ + 1])
  /\ Mirrored(c, "dispatched")
  /\ Sends(c, row[c].sent + 1)
  /\ pc' = [pc EXCEPT ![c] = "wire"]
  /\ UNCHANGED <<owner, content, base, edits, restarts, heldCancel, stopped>>

\* The write is answered.
CorrectionAcked(c) ==
  /\ pc[c] = "wire" /\ net[c][row[c].sent] = "landed"
  /\ Saved(c, [row[c] EXCEPT !.acked = row[c].sent])
  /\ pc' = [pc EXCEPT ![c] = "verifying"]
  /\ UNCHANGED <<lease, owner, content, base, net, sends, edits, restarts, heldCancel, stopped>>

\* The branch reads back as approved so far: the next file, or the validation.
CorrectionVerified(c) ==
  /\ pc[c] = "verifying"
  /\ content = Expected(c, row[c].acked)
  /\ Saved(c, row[c])
  /\ pc' = [pc EXCEPT ![c] = IF row[c].acked = NumFiles THEN "validating" ELSE "reading"]
  /\ UNCHANGED <<lease, owner, content, base, net, sends, edits, restarts, heldCancel, stopped>>

\* Every file is there, and the branch did not change while it was validated.
CorrectionApplied(c) ==
  /\ pc[c] = "validating"
  /\ content = Expected(c, NumFiles)
  /\ Saved(c, [row[c] EXCEPT !.status = "applied"])
  /\ Mirrored(c, "resolved")
  /\ pc' = [pc EXCEPT ![c] = "off"]
  /\ owner' = Released(c)
  /\ heldCancel' = [heldCancel EXCEPT ![c] = FALSE]
  /\ stopped' = stopped \ {c}
  /\ UNCHANGED <<content, base, net, sends, edits, restarts>>

\* The catch of execute: status and lease follow from what is known of the last request.
CorrectionEnds(c, unknown, rejected) ==
  /\ Saved(c, [row[c] EXCEPT
       !.status = IF unknown THEN "uncertain" ELSE IF c \in stopped THEN "canceled" ELSE "partial",
       !.rejected = rejected])
  /\ Mirrored(c, IF unknown THEN "uncertain"
                 ELSE IF row[c].sent > 0 THEN "resolved" ELSE "failed_prewrite")
  /\ pc' = [pc EXCEPT ![c] = "off"]
  /\ owner' = Released(c)
  /\ heldCancel' = [heldCancel EXCEPT ![c] = FALSE]
  /\ stopped' = stopped \ {c}
  /\ UNCHANGED <<content, base, net, sends, edits, restarts>>

\* (Mutant: an error of the validation escapes the handler.)
CorrectionStopsBetweenFiles(c) ==
  pc[c] \in {"reading", "queued"} /\ CorrectionEnds(c, FALSE, row[c].rejected)

\* A read fails or differs, the deadline passes, or the work is no longer authorized,
\* while no request of this correction is without an outcome.
CorrectionStops(c) ==
  pc[c] \in {"reading", "queued", "validating"} /\ CorrectionEnds(c, FALSE, row[c].rejected)

\* The destination refuses the write with a status that says so.
CorrectionRejected(c) ==
  pc[c] = "wire" /\ net[c][row[c].sent] = "refused" /\ CorrectionEnds(c, FALSE, TRUE)

\* No usable answer to the write, or a readback that fails or differs.
CorrectionLost(c) == pc[c] \in {"wire", "verifying"} /\ CorrectionEnds(c, TRUE, FALSE)

CorrectionStep(c) ==
  \/ Applies(c) \/ ApplyRefused(c) \/ ApplyUnrecorded(c)
  \/ CorrectionQueues(c) \/ CorrectionSends(c) \/ CorrectionAcked(c) \/ CorrectionVerified(c)
  \/ CorrectionApplied(c) \/ CorrectionStops(c) \/ CorrectionRejected(c) \/ CorrectionLost(c)

-----------------------------------------------------------------------------
(* What others ask of a correction while its handler runs, or after. *)

\* getTopicBranchCorrection finds it running without a handler.
Interrupted(c) == row[c].status = "running" /\ ~ Executing(c)

ObserveCorrection(c) ==
  /\ Interrupted(c)
  /\ row' = [row EXCEPT ![c].status = "uncertain"]
  /\ Mirrored(c, "uncertain")
  /\ UNCHANGED <<owner, pc, content, base, net, sends, edits, restarts, heldCancel, stopped>>

\* cancelTopicBranchCorrection: it waits for nobody, and ends with the read above.
CancelCorrection(c) ==
  /\ row[c].status # "none" /\ ~ row[c].cancel
  /\ row' = [row EXCEPT ![c].cancel = TRUE,
                        ![c].status = IF Interrupted(c) THEN "uncertain" ELSE @]
  /\ IF Interrupted(c) THEN Mirrored(c, "uncertain") ELSE UNCHANGED lease
  /\ stopped' = IF Executing(c) THEN stopped \cup {c} ELSE stopped
  /\ UNCHANGED <<owner, pc, content, base, net, sends, edits, restarts, heldCancel>>

\* (Mutant: a file that is not on the branch is taken for a write that will not come.)
NoneOutstanding(c) == FALSE

\* A negative read cannot prove that a request that timed out will never arrive.
Outstanding(c) ==
  \E f \in Files :
    /\ row[c].acked < f /\ f <= row[c].sent
    /\ ~ (row[c].rejected /\ f = row[c].sent)
    /\ content[f] # c

\* reconcileTopicBranchCorrection.
ReconcileCorrection(c) ==
  /\ pc[c] = "off"
  /\ row[c].claim /\ lease[c] # "none"
  /\ owner = Nobody /\ Idle(c)
  /\ row' = [row EXCEPT ![c].status =
       IF Outstanding(c) THEN "uncertain"
       ELSE IF content = Expected(c, NumFiles) THEN "applied" ELSE "partial"]
  /\ Mirrored(c, IF Outstanding(c) THEN "uncertain" ELSE "resolved")
  /\ UNCHANGED <<owner, pc, content, base, net, sends, edits, restarts, heldCancel, stopped>>

\* The server dies within the stretch of Applies, after the claim is stored, or within
\* that of CorrectionSends, after the row is stored.
TornCorrection(c) ==
  \/ /\ pc[c] = "checking"
     /\ Saved(c, [row[c] EXCEPT !.claim = TRUE, !.status = "running"])
  \/ /\ pc[c] = "queued" /\ Authorized(c)
     /\ Saved(c, [row[c] EXCEPT !.sent = @ + 1])

CorrectionInit ==
  /\ row = [c \in Corrections |-> NoRow]
  /\ heldCancel = [c \in Corrections |-> FALSE]
  /\ stopped = {}

CorrectionNext(c) ==
  \/ PrepareCorrection(c) \/ ApplyChecks(c) \/ CorrectionStep(c)
  \/ ObserveCorrection(c) \/ CancelCorrection(c) \/ ReconcileCorrection(c)
=============================================================================
