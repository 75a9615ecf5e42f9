------------------------- MODULE TopicBranch_proofs -------------------------
(***************************************************************************)
(* What holds of TopicBranch for every set of plans, corrections and       *)
(* repairs, and for every number of files, edits and restarts.             *)
(*                                                                         *)
(* Nearly every action is the step of one approval j. StepOK says what     *)
(* such a step owes to the other approvals; each action is then checked    *)
(* for j alone, against the part of the invariant that is about its kind.  *)
(*                                                                         *)
(* At the end, the refinement: each action begins a turn, uses an approval *)
(* up, sends a request, or only judges what is known (WriteGate).          *)
(***************************************************************************)
EXTENDS TopicBranch, FiniteSetTheorems, TLAPS

\* The other approvals are left as they are.
OthersStay(j) ==
  \A k \in Jobs \ {j} :
    /\ lease'[k] = lease[k] /\ pc'[k] = pc[k] /\ net'[k] = net[k]
    /\ owner = k => owner' = k

\* The others have no request on its way.
Alone(j) == \A k \in Jobs \ {j} : ~ MayLand(k)

\* What a step of j owes.
StepOK(j) ==
  /\ TypeOK' /\ SentOnce'
  /\ OthersStay(j)
  /\ MayLand(j)' => Open(j)' /\ (MayLand(j) \/ MayStillSend(j))
  /\ pc'[j] # "off" => owner' = j
  /\ MayStillSend(j)' => MayStillSend(j) \/ Alone(j)

-----------------------------------------------------------------------------
(* The three kinds of approvals differ, and none is Nobody. *)
LEMMA Kinds ==
  /\ \A p \in Plans : p \in Jobs /\ p \notin Corrections /\ p \notin Repairs /\ p # Nobody
  /\ \A c \in Corrections : c \in Jobs /\ c \notin Plans /\ c \notin Repairs /\ c # Nobody
  /\ \A d \in Repairs : d \in Jobs /\ d \notin Plans /\ d \notin Corrections /\ d # Nobody
  /\ Edited \notin Jobs /\ Original \notin Jobs
BY ApprovalsAssumption DEF Jobs

(* Nobody names no approval. *)
LEMMA NobodyIsNoJob == Nobody \notin Jobs
BY ApprovalsAssumption

(* The files are the first numbers, and there are two at least. *)
LEMMA FilesAreNumbers ==
  /\ \A f \in Files : f \in Nat /\ f >= 1 /\ f <= NumFiles
  /\ NumFiles \in Nat /\ 1 \in Files /\ 2 \in Files /\ NumFiles \in Files
  /\ IsFiniteSet(Files)
<1>1. IsFiniteSet(1 .. NumFiles)
  BY BoundsAssumption, FS_Interval
<1> QED BY <1>1, BoundsAssumption DEF Files

(* A step of one approval that keeps what it owes preserves what is shared. *)
LEMMA SharedStep ==
  ASSUME IInv, NEW j \in Jobs, StepOK(j)
  PROVE  SharedInv' /\ AloneInv'
<1>1. ASSUME NEW k \in Jobs \ {j} PROVE /\ MayLand(k)' = MayLand(k)
                                        /\ Open(k)' = Open(k)
                                        /\ MayStillSend(k)' = MayStillSend(k)
  BY <1>1 DEF StepOK, OthersStay, MayLand, Open, MayStillSend
<1>2. LateWritesAreCovered'
  BY <1>1 DEF StepOK, LateWritesAreCovered, IInv, SharedInv
<1>3. ASSUME MayLand(j)' PROVE Alone(j) /\ \A k \in Jobs \ {j} : ~ MayStillSend(k)
  <2>1. CASE MayLand(j)
    BY <2>1 DEF IInv, SharedInv, OneWriterPerModel, AloneInv, Alone
  <2>2. CASE MayStillSend(j)
    <3>1. owner = j
      BY <2>2 DEF IInv, SharedInv, MayStillSend
    <3>2. \A k \in Jobs \ {j} : ~ MayStillSend(k)
      BY <3>1 DEF IInv, SharedInv, MayStillSend
    <3> QED BY <2>2, <3>2 DEF IInv, AloneInv, Alone
  <2> QED BY <1>3, <2>1, <2>2 DEF StepOK
<1>4. OneWriterPerModel'
  BY <1>1, <1>3 DEF OneWriterPerModel, IInv, SharedInv, Alone
<1>5. \A k \in Jobs : pc'[k] # "off" => owner' = k
  BY DEF StepOK, OthersStay, IInv, SharedInv
<1>6. ASSUME MayStillSend(j)' PROVE Alone(j)
  BY <1>6 DEF StepOK, IInv, AloneInv, Alone
<1>7. AloneInv'
  BY <1>1, <1>3, <1>6 DEF AloneInv, IInv, Alone
<1> QED BY <1>2, <1>4, <1>5, <1>7 DEF SharedInv

(* Nothing open elsewhere: the others have no request on its way. *)
LEMMA IdleIsAlone ==
  ASSUME IInv, NEW j, Idle(j) \/ NothingOpen(j)
  PROVE  Alone(j)
<1>1. \A k \in Jobs \ {j} : ~ Open(k)
  BY DEF Idle, NothingOpen, Settled, Open
<1> QED BY <1>1 DEF Alone, IInv, SharedInv, LateWritesAreCovered

(* Only the job that ends gives its reservation back. *)
LEMMA ReleasedKeeps ==
  ASSUME NEW j, owner' = Released(j)
  PROVE  \A k \in Jobs \ {j} : owner = k => owner' = k
BY DEF Released

(* A request that was not sent before is counted. *)
LEMMA OneSend ==
  ASSUME TypeOK, SentOnce, NEW j \in Jobs, NEW f \in Files, net[j][f] = "none", Sends(j, f)
  PROVE  SentOnce'
<1> SUFFICES ASSUME NEW k \in Jobs
             PROVE  sends'[k] = Cardinality({g \in Files : net'[k][g] # "none"})
  BY DEF SentOnce
<1>1. sends[k] = Cardinality({g \in Files : net[k][g] # "none"})
  BY DEF SentOnce
<1>2. CASE k # j
  <2>1. net'[k] = net[k] /\ sends'[k] = sends[k]
    BY <1>2 DEF Sends, TypeOK
  <2> QED BY <1>1, <2>1
<1>3. CASE k = j
  <2>1. IsFiniteSet({g \in Files : net[j][g] # "none"})
    BY FS_Subset, FilesAreNumbers
  <2>2. {g \in Files : net'[j][g] # "none"} = {g \in Files : net[j][g] # "none"} \cup {f}
    BY DEF Sends, TypeOK
  <2>3. f \notin {g \in Files : net[j][g] # "none"}
    OBVIOUS
  <2>4. Cardinality({g \in Files : net[j][g] # "none"} \cup {f})
          = Cardinality({g \in Files : net[j][g] # "none"}) + 1
    BY <2>1, <2>3, FS_AddElement
  <2>5. sends'[j] = sends[j] + 1
    BY DEF Sends, TypeOK
  <2> QED BY <1>1, <1>3, <2>2, <2>4, <2>5
<1> QED BY <1>2, <1>3

(* Requests that change at the destination stay counted. *)
LEMMA NoSend ==
  ASSUME SentOnce, UNCHANGED sends,
         \A k \in Jobs, f \in Files : (net'[k][f] = "none") = (net[k][f] = "none")
  PROVE  SentOnce'
<1> SUFFICES ASSUME NEW k \in Jobs
             PROVE  sends'[k] = Cardinality({g \in Files : net'[k][g] # "none"})
  BY DEF SentOnce
<1>1. {g \in Files : net'[k][g] # "none"} = {g \in Files : net[k][g] # "none"}
  OBVIOUS
<1> QED BY <1>1 DEF SentOnce

-----------------------------------------------------------------------------
(* The approvals of a kind that a step does not move. *)

PlansStay(p) ==
  \A q \in Plans \ {p} : plan'[q] = plan[q] /\ (q \in noWrite') = (q \in noWrite)

(* A plan that a step does not move keeps its part of the invariant. *)
LEMMA PlanFrame ==
  ASSUME NEW q \in Plans, PlanInv(q),
         plan'[q] = plan[q], (q \in noWrite') = (q \in noWrite),
         lease'[q] = lease[q], pc'[q] = pc[q], net'[q] = net[q]
  PROVE  PlanInv(q)'
BY DEF PlanInv

(* So does a correction, when nobody else can write a file in its name. *)
LEMMA CorrectionFrame ==
  ASSUME NEW c \in Corrections, CorrectionInv(c), row'[c] = row[c],
         lease'[c] = lease[c], pc'[c] = pc[c], net'[c] = net[c],
         \A f \in Files : content'[f] = c => content[f] = c
  PROVE  CorrectionInv(c)'
BY DEF CorrectionInv

(* And a repair. *)
LEMMA RepairFrame ==
  ASSUME NEW d \in Repairs, RepairInv(d), repair'[d] = repair[d],
         heldRow'[d] = heldRow[d], cancelRow'[d] = cancelRow[d],
         (d \in canceling') = (d \in canceling),
         lease'[d] = lease[d], pc'[d] = pc[d], net'[d] = net[d]
  PROVE  RepairInv(d)'
BY DEF RepairInv, MayLand, Core, Unresolved

(* What has its lease, its requests and its row stays unwritten. *)
LEMMA UnwrittenFrame ==
  ASSUME NEW r \in Plans, Unwritten(r), plan'[r].linked = plan[r].linked,
         (r \in noWrite') = (r \in noWrite),
         lease'[r] = lease[r], pc'[r] = pc[r], net'[r] = net[r]
  PROVE  Unwritten(r)'
BY DEF Unwritten, FailedPrewrite, ReconciledNoWrite, JobIsOver, BranchUnchanged

(* A plan that a review was saved over stays unwritten when only another one moves, or when it
   moves so. *)
LEMMA ReplacedStep ==
  ASSUME IInv, NEW p \in Jobs, OthersStay(p), PlansStay(p), UNCHANGED <<review, passed>>,
         p \in Plans /\ Unwritten(p) => Unwritten(p)'
  PROVE  ReplacedInv'
<1> SUFFICES ASSUME NEW q \in Plans, NEW r \in passed[q] \cup review[q].reconciled
             PROVE  Unwritten(r)'
  BY DEF ReplacedInv
<1>1. r \in Plans /\ Unwritten(r)
  BY DEF IInv, ReplacedInv, TypeOK, Reviews
<1>2. CASE r = p
  BY <1>1, <1>2
<1>3. CASE r # p
  <2>1. plan'[r] = plan[r] /\ lease'[r] = lease[r] /\ pc'[r] = pc[r] /\ net'[r] = net[r]
        /\ (r \in noWrite') = (r \in noWrite)
    BY <1>1, <1>3, Kinds DEF PlansStay, OthersStay
  <2> QED BY <2>1, <1>1, UnwrittenFrame
<1> QED BY <1>2, <1>3

-----------------------------------------------------------------------------
(* The steps of a plan. *)

\* What a step of a plan owes.
PlanOK(p) == StepOK(p) /\ PlansStay(p) /\ PlanInv(p)' /\ ReplacedInv'

(* It preserves the invariant. *)
LEMMA PlanStepPreserves ==
  ASSUME IInv, NEW p \in Plans, PlanOK(p), UNCHANGED <<content, correctionVars, repairVars>>
  PROVE  IInv'
<1>1. p \in Jobs
  BY Kinds
<1>2. SharedInv' /\ AloneInv'
  BY <1>1, SharedStep DEF PlanOK
<1>3. ASSUME NEW q \in Plans PROVE PlanInv(q)'
  <2>1. CASE q # p
    BY <2>1, Kinds, PlanFrame DEF PlanOK, StepOK, OthersStay, PlansStay, IInv
  <2> QED BY <2>1 DEF PlanOK
<1>4. ASSUME NEW c \in Corrections PROVE CorrectionInv(c)'
  <2>1. c \in Jobs \ {p}
    BY Kinds
  <2> QED BY <2>1, CorrectionFrame DEF PlanOK, StepOK, OthersStay, IInv, correctionVars
<1>5. ASSUME NEW d \in Repairs PROVE RepairInv(d)'
  <2>1. d \in Jobs \ {p}
    BY Kinds
  <2> QED BY <2>1, RepairFrame DEF PlanOK, StepOK, OthersStay, IInv, repairVars
<1>6. LatestInv'
  BY DEF IInv, LatestInv, repairVars
<1> QED BY <1>2, <1>3, <1>4, <1>5, <1>6 DEF IInv, PlanOK, StepOK

(* The types that a step of a plan can change. *)
LEMMA PlanTypes ==
  ASSUME TypeOK, UNCHANGED <<content, base, edits, restarts, correctionVars, repairVars>>,
         NEW p \in Plans,
         lease' \in [Jobs -> LeaseStates], owner' \in Jobs \cup {Nobody},
         pc' = pc \/ \E x \in PlanPcs : pc' = [pc EXCEPT ![p] = x],
         net' \in [Jobs -> [Files -> NetStates]], sends' \in [Jobs -> Nat],
         plan' \in [Plans -> PlanRows], noWrite' \subseteq Plans,
         review' \in [Plans -> Reviews], passed' \in [Plans -> SUBSET Plans]
  PROVE  TypeOK'
<1>1. /\ pc' \in [Jobs -> PlanPcs \cup CorrectionPcs \cup RepairPcs]
      /\ \A q \in Plans : pc'[q] \in PlanPcs
      /\ \A c \in Corrections : pc'[c] \in CorrectionPcs
      /\ \A d \in Repairs : pc'[d] \in RepairPcs
  <2>1. CASE pc' = pc
    BY <2>1 DEF TypeOK
  <2>2. CASE \E x \in PlanPcs : pc' = [pc EXCEPT ![p] = x]
    BY <2>2, Kinds DEF TypeOK
  <2> QED BY <2>1, <2>2
<1> QED BY <1>1 DEF TypeOK, correctionVars, repairVars

(* Each lease state is one. *)
LEMMA SendsTypes ==
  ASSUME TypeOK, NEW j \in Jobs, NEW f \in Files, Sends(j, f)
  PROVE  net' \in [Jobs -> [Files -> NetStates]] /\ sends' \in [Jobs -> Nat]
BY DEF Sends, TypeOK, NetStates

(* No review is one. *)
LEMMA NoReviewIsOne == NoReview \in Reviews
BY DEF NoReview, Reviews

(* A step of a review moves nothing that is shared. *)
LEMMA ReviewOK ==
  ASSUME IInv, NEW p \in Plans, UNCHANGED <<sharedVars, noWrite, correctionVars, repairVars>>,
         plan' \in [Plans -> PlanRows], PlansStay(p),
         review' \in [Plans -> Reviews], passed' \in [Plans -> SUBSET Plans],
         PlanInv(p)', ReplacedInv'
  PROVE  PlanOK(p)
<1>1. TypeOK'
  BY PlanTypes DEF IInv, sharedVars, TypeOK
<1>2. SentOnce'
  BY NoSend DEF IInv, sharedVars
<1>3. StepOK(p)
  BY <1>1, <1>2, Kinds DEF StepOK, OthersStay, sharedVars, IInv, SharedInv, LateWritesAreCovered,
                           MayLand, Open, MayStillSend
<1> QED BY <1>3 DEF PlanOK

(* The branches of adjudicated plans are read. *)
LEMMA PrepareChecksOK ==
  ASSUME IInv, NEW p \in Plans, PrepareChecks(p), UNCHANGED <<correctionVars, repairVars>>
  PROVE  PlanOK(p)
<1>1. PICK v \in Evidence, reconciled \in SUBSET Plans :
        /\ \A q \in reconciled : ReconciledNoWrite(q) /\ BranchUnchanged(q)
        /\ review' = [review EXCEPT ![p] = [evidence |-> v, reconciled |-> reconciled]]
  BY DEF PrepareChecks, Candidates
<1>2. UNCHANGED <<sharedVars, plan, noWrite, passed>>
  BY DEF PrepareChecks
<1>3. review' \in [Plans -> Reviews]
  BY <1>1 DEF IInv, TypeOK, Reviews
<1>4. ReplacedInv'
  <2> SUFFICES ASSUME NEW q \in Plans, NEW r \in passed'[q] \cup review'[q].reconciled
               PROVE  Unwritten(r)'
    BY DEF ReplacedInv
  <2>1. r \in passed[q] \cup review[q].reconciled \/ r \in reconciled
    BY <1>1, <1>2 DEF IInv, TypeOK
  <2>2. r \in Plans /\ Unwritten(r)
    BY <1>1, <2>1 DEF IInv, ReplacedInv, Unwritten, TypeOK, Reviews
  <2> QED BY <1>2, <2>2, UnwrittenFrame DEF sharedVars
<1>5. PlanInv(p)'
  BY <1>2, PlanFrame DEF IInv, sharedVars
<1>6. plan' \in [Plans -> PlanRows] /\ PlansStay(p) /\ passed' \in [Plans -> SUBSET Plans]
  BY <1>2 DEF IInv, TypeOK, PlansStay
<1> QED BY <1>2, <1>3, <1>4, <1>5, <1>6, ReviewOK

(* The new review, over used plans that were proved not to have written. *)
LEMMA PrepareSavesOK ==
  ASSUME IInv, NEW p \in Plans, PrepareSaves(p), UNCHANGED <<correctionVars, repairVars>>
  PROVE  PlanOK(p) /\ \A q \in Plans : plan'[q].claim = plan[q].claim
<1>1. PICK v \in Evidence :
        /\ \A q \in Candidates(v) : StillUnwritten(p, q)
        /\ plan' = [plan EXCEPT ![p] = [NoPlan EXCEPT !.ready = TRUE, !.evidence = v,
                      !.supersedes = Candidates(v) \cap review[p].reconciled]]
        /\ passed' = [passed EXCEPT ![p] = Candidates(v)]
  BY DEF PrepareSaves
<1>2. /\ ~ plan[p].ready /\ UNCHANGED <<sharedVars, noWrite>>
      /\ review' = [review EXCEPT ![p] = NoReview]
  BY DEF PrepareSaves
<1>3. PlanInv(p) /\ plan[p] \in PlanRows
  BY DEF IInv, TypeOK
<1>4. plan[p].claim = FALSE /\ plan[p].linked = FALSE
  BY <1>2, <1>3 DEF PlanInv, PlanRows
<1>5. Candidates(v) \subseteq Plans \ {p}
  BY <1>4 DEF Candidates
<1>6. plan'[p] = [ready |-> TRUE, claim |-> FALSE, linked |-> FALSE, evidence |-> v,
                  supersedes |-> Candidates(v) \cap review[p].reconciled]
  BY <1>1 DEF NoPlan, IInv, TypeOK
<1>7. plan' \in [Plans -> PlanRows] /\ \A q \in Plans \ {p} : plan'[q] = plan[q]
  <2>1. plan'[p] \in PlanRows
    BY <1>5, <1>6 DEF PlanRows
  <2> QED BY <1>1, <2>1 DEF IInv, TypeOK
<1>8. PlansStay(p)
  BY <1>2, <1>7 DEF PlansStay
<1>9. review' \in [Plans -> Reviews] /\ passed' \in [Plans -> SUBSET Plans]
  BY <1>1, <1>2, <1>5, NoReviewIsOne DEF IInv, TypeOK
<1>10. PlanInv(p)'
  BY <1>2, <1>3, <1>4, <1>6 DEF PlanInv, sharedVars
<1>11. plan'[p].claim = FALSE /\ plan'[p].linked = FALSE
  BY <1>6
<1>12. ReplacedInv'
  <2> SUFFICES ASSUME NEW q \in Plans, NEW r \in passed'[q] \cup review'[q].reconciled
               PROVE  Unwritten(r)'
    BY DEF ReplacedInv
  <2>1. r \in passed[q] \cup review[q].reconciled \/ r \in Candidates(v)
    BY <1>1, <1>2 DEF NoReview, IInv, TypeOK
  <2>2. ASSUME r \in Candidates(v) PROVE r \in Plans /\ Unwritten(r)
    BY <1>1, <1>5, <2>2 DEF StillUnwritten, Unwritten, IInv, ReplacedInv
  <2>3. r \in Plans /\ Unwritten(r)
    BY <2>1, <2>2 DEF IInv, ReplacedInv, TypeOK, Reviews
  <2>4. plan'[r].linked = plan[r].linked
    BY <1>4, <1>7, <1>11, <2>3
  <2> QED BY <1>2, <2>3, <2>4, UnwrittenFrame DEF sharedVars
<1>13. \A q \in Plans : plan'[q].claim = plan[q].claim
  BY <1>4, <1>7, <1>11
<1> QED BY <1>2, <1>7, <1>8, <1>9, <1>10, <1>12, <1>13, ReviewOK

(* No new review. *)
LEMMA PrepareEndsOK ==
  ASSUME IInv, NEW p \in Plans, PrepareEnds(p), UNCHANGED <<correctionVars, repairVars>>
  PROVE  PlanOK(p)
<1>1. /\ UNCHANGED <<sharedVars, plan, noWrite, passed>>
      /\ review' = [review EXCEPT ![p] = NoReview]
  BY DEF PrepareEnds
<1>2. review' \in [Plans -> Reviews]
  BY <1>1, NoReviewIsOne DEF IInv, TypeOK
<1>3. ReplacedInv'
  <2> SUFFICES ASSUME NEW q \in Plans, NEW r \in passed'[q] \cup review'[q].reconciled
               PROVE  Unwritten(r)'
    BY DEF ReplacedInv
  <2>1. r \in passed[q] \cup review[q].reconciled
    BY <1>1 DEF NoReview, IInv, TypeOK
  <2>2. r \in Plans /\ Unwritten(r)
    BY <2>1 DEF IInv, ReplacedInv, TypeOK, Reviews
  <2> QED BY <1>1, <2>2, UnwrittenFrame DEF sharedVars
<1>4. PlanInv(p)'
  BY <1>1, PlanFrame DEF IInv, sharedVars
<1>5. plan' \in [Plans -> PlanRows] /\ PlansStay(p) /\ passed' \in [Plans -> SUBSET Plans]
  BY <1>1 DEF IInv, TypeOK, PlansStay
<1> QED BY <1>1, <1>2, <1>3, <1>4, <1>5, ReviewOK

(* The claim, with a job that works or that fails at once. *)
LEMMA StageOK ==
  ASSUME IInv, NEW p \in Plans, Stage(p), UNCHANGED <<correctionVars, repairVars>>
  PROVE  PlanOK(p)
<1>1. /\ plan[p].ready /\ ~ plan[p].claim /\ ~ plan[p].linked /\ lease[p] = "none" /\ pc[p] = "off"
      /\ \A f \in Files : net[p][f] = "none"
      /\ p \notin noWrite
  BY FilesAreNumbers DEF Stage, Stageable, IInv, PlanInv, Yaml
<1>2. UNCHANGED <<content, base, net, sends, edits, restarts, noWrite, review, passed>>
  BY DEF Stage
<1>3. /\ plan' = [plan EXCEPT ![p].claim = TRUE, ![p].linked = TRUE]
      /\ plan' \in [Plans -> PlanRows] /\ PlansStay(p)
      /\ plan'[p].ready /\ plan'[p].claim /\ plan'[p].linked
  <2>1. plan \in [Plans -> PlanRows] /\ plan[p] \in PlanRows
    BY DEF IInv, TypeOK
  <2>2. plan' = [plan EXCEPT ![p].claim = TRUE, ![p].linked = TRUE]
    BY DEF Stage
  <2>3. plan'[p] = [plan[p] EXCEPT !.claim = TRUE, !.linked = TRUE]
    BY <2>1, <2>2
  <2>4. /\ plan'[p] \in PlanRows
        /\ plan'[p].ready = plan[p].ready /\ plan'[p].claim = TRUE /\ plan'[p].linked = TRUE
    BY <2>1, <2>3 DEF PlanRows
  <2>5. plan' \in [Plans -> PlanRows] /\ \A q \in Plans \ {p} : plan'[q] = plan[q]
    BY <2>1, <2>2, <2>4
  <2> QED BY <1>1, <1>2, <2>2, <2>4, <2>5 DEF PlansStay
<1>4. \/ /\ owner = Nobody /\ owner' = p
         /\ lease' = [lease EXCEPT ![p] = "claimed"]
         /\ pc' = [pc EXCEPT ![p] = "proving"]
      \/ /\ lease' = [lease EXCEPT ![p] = "failed_prewrite"]
         /\ UNCHANGED <<owner, pc>>
  BY DEF Stage, Reserved
<1>5. /\ lease' \in [Jobs -> LeaseStates] /\ owner' \in Jobs \cup {Nobody}
      /\ pc' = pc \/ \E x \in PlanPcs : pc' = [pc EXCEPT ![p] = x]
  <2>1. /\ lease \in [Jobs -> LeaseStates] /\ owner \in Jobs \cup {Nobody} /\ p \in Jobs
        /\ "claimed" \in LeaseStates /\ "failed_prewrite" \in LeaseStates /\ "proving" \in PlanPcs
    BY Kinds DEF IInv, TypeOK, LeaseStates, PlanPcs
  <2> QED BY <2>1, <1>4
<1>6. TypeOK'
  BY <1>2, <1>3, <1>5, PlanTypes DEF IInv, TypeOK
<1>7. SentOnce'
  BY <1>2, NoSend DEF IInv
<1>8. OthersStay(p)
  <2>1. DOMAIN lease = Jobs /\ DOMAIN pc = Jobs
    BY DEF IInv, TypeOK
  <2>2. \A k \in Jobs \ {p} : lease'[k] = lease[k]
    BY <1>4, <2>1
  <2>3. \A k \in Jobs \ {p} : pc'[k] = pc[k]
    BY <1>4, <2>1
  <2>4. \A k \in Jobs \ {p} : owner = k => owner' = k
    BY <1>4, NobodyIsNoJob
  <2> QED BY <1>2, <2>2, <2>3, <2>4 DEF OthersStay
<1>9. Alone(p)
  BY IdleIsAlone DEF Stage
<1>10. ~ MayLand(p)' /\ (pc'[p] # "off" => owner' = p)
  BY <1>1, <1>2, <1>4, Kinds DEF MayLand, IInv, TypeOK
<1>11. PlanInv(p)'
  BY <1>1, <1>2, <1>3, <1>4, Kinds, FilesAreNumbers DEF PlanInv, IInv, TypeOK, Create, Yaml
<1>12. ReplacedInv'
  BY <1>1, <1>2, <1>3, <1>8, ReplacedStep, Kinds DEF Unwritten, FailedPrewrite, ReconciledNoWrite
<1> QED BY <1>3, <1>6, <1>7, <1>8, <1>9, <1>10, <1>11, <1>12 DEF PlanOK, StepOK

(* The claim, and no job. *)
LEMMA StageUnrecordedOK ==
  ASSUME IInv, NEW p \in Plans, StageUnrecorded(p), UNCHANGED <<correctionVars, repairVars>>
  PROVE  PlanOK(p)
<1>1. plan[p].ready /\ ~ plan[p].claim /\ ~ plan[p].linked /\ PlanInv(p)
  BY DEF StageUnrecorded, Stageable, IInv, PlanInv
<1>2. UNCHANGED <<sharedVars, noWrite, review, passed>>
  BY DEF StageUnrecorded
<1>3. /\ plan' \in [Plans -> PlanRows] /\ PlansStay(p)
      /\ plan'[p].ready /\ plan'[p].claim /\ plan'[p].linked = plan[p].linked
  BY <1>1, <1>2 DEF StageUnrecorded, IInv, TypeOK, PlanRows, PlansStay
<1>4. TypeOK'
  BY <1>2, <1>3, PlanTypes DEF IInv, sharedVars, TypeOK
<1>5. SentOnce'
  BY <1>2, NoSend DEF IInv, sharedVars
<1>6. StepOK(p)
  BY <1>2, <1>4, <1>5, Kinds DEF StepOK, OthersStay, sharedVars, IInv, SharedInv,
                                 LateWritesAreCovered, MayLand, Open, MayStillSend
<1>7. PlanInv(p)'
  BY <1>1, <1>2, <1>3 DEF PlanInv, sharedVars
<1>8. ReplacedInv'
  BY <1>1, <1>2, <1>3, <1>6, ReplacedStep, Kinds DEF Unwritten, FailedPrewrite, ReconciledNoWrite,
     JobIsOver, StepOK
<1> QED BY <1>3, <1>6, <1>7, <1>8 DEF PlanOK

(* A step of the job of a plan that moves nothing but its handler, its lease, its
   requests and its reservation. *)
LEMMA PlanJobOK ==
  ASSUME IInv, NEW p \in Plans, pc[p] # "off" \/ lease[p] = "uncertain",
         UNCHANGED <<content, base, edits, restarts, plan, review, passed, correctionVars, repairVars>>,
         NEW x \in LeaseStates, lease' = [lease EXCEPT ![p] = x],
         NEW y \in PlanPcs, pc' = [pc EXCEPT ![p] = y],
         owner' = owner \/ owner' = Released(p),
         y # "off" => pc[p] # "off" /\ owner' = owner,
         net' \in [Jobs -> [Files -> NetStates]], sends' \in [Jobs -> Nat],
         \A k \in Jobs \ {p} : net'[k] = net[k],
         noWrite' \subseteq Plans, \A q \in Plans \ {p} : (q \in noWrite') = (q \in noWrite),
         SentOnce',
         MayLand(p)' => Open(p)' /\ (MayLand(p) \/ MayStillSend(p)),
         y # "off" => MayStillSend(p),
         PlanInv(p)'
  PROVE  PlanOK(p)
<1>1. p \in Jobs /\ lease'[p] = x /\ pc'[p] = y
  BY Kinds DEF IInv, TypeOK
<1>2. owner' \in Jobs \cup {Nobody}
  BY DEF IInv, TypeOK, Released
<1>3. TypeOK'
  BY <1>1, <1>2, PlanTypes DEF IInv, TypeOK
<1>4. OthersStay(p)
  BY ReleasedKeeps DEF OthersStay, IInv, TypeOK
<1>5. y # "off" => owner' = p
  BY <1>1 DEF IInv, SharedInv
<1>6. StepOK(p)
  BY <1>1, <1>3, <1>4, <1>5 DEF StepOK, MayStillSend
<1>7. PlansStay(p)
  BY DEF PlansStay
<1>8. ~ Unwritten(p)
  BY DEF Unwritten, FailedPrewrite, ReconciledNoWrite, JobIsOver
<1>9. ReplacedInv'
  BY <1>1, <1>4, <1>7, <1>8, ReplacedStep
<1> QED BY <1>6, <1>7, <1>9 DEF PlanOK

(* The job sends its next write. *)
LEMMA PlanSendsOK ==
  ASSUME IInv, NEW p \in Plans, PlanSends(p), UNCHANGED <<correctionVars, repairVars>>
  PROVE  PlanOK(p)
<1>1. PICK f \in {Create, Yaml} : f = NextWrite(p)
  BY DEF NextWrite
<1>2. /\ pc[p] = "proving" /\ plan[p].linked /\ net[p][Yaml] = "none" /\ PlanInv(p)
      /\ p \in Jobs /\ f \in Files /\ Create \in Files /\ Yaml \in Files /\ Create # Yaml
      /\ lease' = [lease EXCEPT ![p] = "dispatched"] /\ pc' = [pc EXCEPT ![p] = "wire"]
      /\ Sends(p, f)
      /\ UNCHANGED <<owner, content, base, edits, restarts, plan, noWrite, review, passed>>
  BY <1>1, Kinds, FilesAreNumbers DEF PlanSends, planVars, IInv, Create, Yaml
<1>3. net[p][f] = "none" /\ (f = Yaml => net[p][Create] = "landed")
  BY <1>1, <1>2 DEF NextWrite, PlanInv
<1>4. SentOnce' /\ net' \in [Jobs -> [Files -> NetStates]] /\ sends' \in [Jobs -> Nat]
  BY <1>2, <1>3, OneSend, SendsTypes DEF IInv
<1>5. /\ \A k \in Jobs \ {p} : net'[k] = net[k]
      /\ \A g \in Files : net'[p][g] = IF g = f THEN "wire" ELSE net[p][g]
  BY <1>2 DEF Sends, IInv, TypeOK
<1>6. lease'[p] = "dispatched" /\ pc'[p] = "wire"
  BY <1>2 DEF IInv, TypeOK
<1>7. PlanInv(p)'
  BY <1>1, <1>2, <1>3, <1>5, <1>6 DEF PlanInv
<1>8. MayLand(p)' => Open(p)' /\ MayStillSend(p)
  BY <1>2, <1>6 DEF Open, MayStillSend
<1>9. "dispatched" \in LeaseStates /\ "wire" \in PlanPcs
  BY DEF LeaseStates, PlanPcs
<1>10. noWrite' \subseteq Plans /\ MayStillSend(p)
  BY <1>2 DEF IInv, TypeOK, MayStillSend
<1> QED BY <1>2, <1>4, <1>5, <1>7, <1>8, <1>9, <1>10, PlanJobOK

(* A write is answered. *)
LEMMA PlanAnsweredOK ==
  ASSUME IInv, NEW p \in Plans, PlanAnswered(p), UNCHANGED <<correctionVars, repairVars>>
  PROVE  PlanOK(p)
<1>1. /\ pc[p] = "wire" /\ PlanInv(p) /\ p \in Jobs
      /\ Create \in Files /\ Yaml \in Files /\ Create # Yaml
      /\ lease' = [lease EXCEPT ![p] = "resolved"] /\ pc' = [pc EXCEPT ![p] = "proving"]
      /\ UNCHANGED <<owner, content, base, net, sends, edits, restarts, plan, noWrite, review, passed>>
  BY Kinds, FilesAreNumbers DEF PlanAnswered, planVars, IInv, Create, Yaml
<1>2. net[p][Create] = "landed" /\ net[p][Yaml] \in {"none", "landed"}
  BY <1>1 DEF PlanAnswered, PlanInv
<1>3. ~ MayLand(p)'
  BY <1>1, <1>2 DEF MayLand, PlanInv
<1>4. lease'[p] = "resolved" /\ pc'[p] = "proving"
  BY <1>1 DEF IInv, TypeOK
<1>5. lease[p] = "dispatched"
  BY <1>1 DEF PlanInv
<1>6. PlanInv(p)'
  BY <1>1, <1>2, <1>4, <1>5 DEF PlanInv
<1>7. SentOnce'
  BY <1>1, NoSend DEF IInv
<1>8. "resolved" \in LeaseStates /\ "proving" \in PlanPcs
  BY DEF LeaseStates, PlanPcs
<1>9. MayStillSend(p) /\ noWrite' \subseteq Plans /\ net' \in [Jobs -> [Files -> NetStates]]
      /\ sends' \in [Jobs -> Nat]
  BY <1>1 DEF MayStillSend, IInv, TypeOK
<1> QED BY <1>1, <1>3, <1>6, <1>7, <1>8, <1>9, PlanJobOK

(* The job ends with no request on its way. *)
LEMMA PlanEndsOK ==
  ASSUME IInv, NEW p \in Plans, PlanEnds(p), UNCHANGED <<correctionVars, repairVars>>
  PROVE  PlanOK(p)
<1>1. PICK x \in {"failed_prewrite", "resolved"} :
        /\ x = IF lease[p] = "claimed" THEN "failed_prewrite" ELSE lease[p]
        /\ lease' = [lease EXCEPT ![p] = x]
  BY DEF PlanEnds, JobEnds, IInv, PlanInv
<1>2. /\ pc[p] = "proving" /\ PlanInv(p) /\ p \in Jobs
      /\ Create \in Files /\ Yaml \in Files
      /\ pc' = [pc EXCEPT ![p] = "off"] /\ owner' = Released(p)
      /\ UNCHANGED <<content, base, net, sends, edits, restarts, plan, noWrite, review, passed>>
  BY Kinds, FilesAreNumbers DEF PlanEnds, JobEnds, planVars, IInv, Create, Yaml
<1>3. ~ MayLand(p)'
  BY <1>2 DEF MayLand, PlanInv
<1>4. lease'[p] = x /\ pc'[p] = "off"
  BY <1>1, <1>2 DEF IInv, TypeOK
<1>5. PlanInv(p)'
  BY <1>1, <1>2, <1>4 DEF PlanInv
<1>6. SentOnce'
  BY <1>2, NoSend DEF IInv
<1>7. x \in LeaseStates /\ "off" \in PlanPcs
  BY DEF LeaseStates, PlanPcs
<1>8. noWrite' \subseteq Plans /\ net' \in [Jobs -> [Files -> NetStates]] /\ sends' \in [Jobs -> Nat]
  BY <1>2 DEF IInv, TypeOK
<1> QED BY <1>1, <1>2, <1>3, <1>5, <1>6, <1>7, <1>8, PlanJobOK

(* The job ends without knowing what became of its request. *)
LEMMA PlanLostOK ==
  ASSUME IInv, NEW p \in Plans, PlanLost(p), UNCHANGED <<correctionVars, repairVars>>
  PROVE  PlanOK(p)
<1>1. /\ pc[p] = "wire" /\ PlanInv(p) /\ p \in Jobs
      /\ lease' = [lease EXCEPT ![p] = "uncertain"] /\ pc' = [pc EXCEPT ![p] = "off"]
      /\ UNCHANGED <<owner, content, base, net, sends, edits, restarts, plan, noWrite, review, passed>>
  BY Kinds DEF PlanLost, JobEnds, planVars, IInv
<1>2. lease'[p] = "uncertain" /\ pc'[p] = "off"
  BY <1>1 DEF IInv, TypeOK
<1>3. PlanInv(p)'
  BY <1>1, <1>2 DEF PlanInv
<1>4. MayLand(p)' => Open(p)' /\ MayStillSend(p)
  BY <1>1, <1>2 DEF Open, MayStillSend
<1>5. SentOnce'
  BY <1>1, NoSend DEF IInv
<1>6. "uncertain" \in LeaseStates /\ "off" \in PlanPcs
  BY DEF LeaseStates, PlanPcs
<1>7. noWrite' \subseteq Plans /\ net' \in [Jobs -> [Files -> NetStates]] /\ sends' \in [Jobs -> Nat]
  BY <1>1 DEF IInv, TypeOK
<1> QED BY <1>1, <1>3, <1>4, <1>5, <1>6, <1>7, PlanJobOK

(* The operator settles it. *)
LEMMA AdjudicateOK ==
  ASSUME IInv, NEW p \in Plans, Adjudicate(p), UNCHANGED <<correctionVars, repairVars>>
  PROVE  PlanOK(p)
<1>1. /\ pc[p] = "off" /\ lease[p] = "uncertain" /\ ~ MayLand(p) /\ PlanInv(p) /\ p \in Jobs
      /\ lease' = [lease EXCEPT ![p] = "resolved"] /\ owner' = Released(p)
      /\ UNCHANGED <<pc, content, base, net, sends, edits, restarts, plan, review, passed>>
  BY Kinds DEF Adjudicate, IInv
<1>2. pc' = [pc EXCEPT ![p] = "off"] /\ lease'[p] = "resolved" /\ pc'[p] = "off"
  BY <1>1 DEF IInv, TypeOK
<1>3. /\ noWrite' \subseteq Plans
      /\ \A q \in Plans \ {p} : (q \in noWrite') = (q \in noWrite)
      /\ p \in noWrite' => p \in noWrite \/ net[p][Yaml] # "none"
  BY DEF Adjudicate, IInv, TypeOK
<1>4. PlanInv(p)'
  <2>1. Yaml \in Files /\ net[p][Yaml] \in NetStates
    BY <1>1, FilesAreNumbers DEF IInv, TypeOK, Yaml
  <2>2. p \in noWrite' => net[p][Yaml] \in {"landed", "refused"}
    BY <1>1, <1>3, <2>1 DEF PlanInv, MayLand, NetStates
  <2> QED BY <1>1, <1>2, <2>2 DEF PlanInv
<1>5. ~ MayLand(p)'
  BY <1>1 DEF MayLand
<1>6. SentOnce'
  BY <1>1, NoSend DEF IInv
<1>7. "resolved" \in LeaseStates /\ "off" \in PlanPcs
  BY DEF LeaseStates, PlanPcs
<1>8. net' \in [Jobs -> [Files -> NetStates]] /\ sends' \in [Jobs -> Nat]
  BY <1>1 DEF IInv, TypeOK
<1> QED BY <1>1, <1>2, <1>3, <1>4, <1>5, <1>6, <1>7, <1>8, PlanJobOK

(* Every step of a plan preserves the invariant. *)
LEMMA PlanNextPreserves ==
  ASSUME IInv, NEW p \in Plans, PlanNext(p), UNCHANGED <<correctionVars, repairVars>>
  PROVE  IInv'
<1>1. PlanOK(p)
  BY PrepareChecksOK, PrepareSavesOK, PrepareEndsOK, StageOK, StageUnrecordedOK, PlanSendsOK,
     PlanAnsweredOK, PlanEndsOK, PlanLostOK, AdjudicateOK DEF PlanNext, PlanStep
<1>2. UNCHANGED content
  BY DEF PlanNext, PlanStep, PrepareChecks, PrepareSaves, PrepareEnds, Stage, StageUnrecorded, PlanSends, PlanAnswered, PlanEnds,
         PlanLost, Adjudicate, sharedVars
<1> QED BY <1>1, <1>2, PlanStepPreserves

-----------------------------------------------------------------------------
(* The steps of a correction. *)

\* A row that is saved keeps the cancellation that the handler holds.
LEMMA SavedRow ==
  ASSUME TypeOK, NEW c \in Corrections, NEW new \in Rows, Saved(c, new)
  PROVE  \E r \in Rows :
           /\ row' = [row EXCEPT ![c] = r]
           /\ r.status = new.status /\ r.claim = new.claim /\ r.sent = new.sent
           /\ r.acked = new.acked /\ r.rejected = new.rejected
<1> DEFINE r == [new EXCEPT !.cancel = heldCancel[c]]
<1>1. r \in Rows
  BY DEF Rows, TypeOK
<1>2. /\ r.status = new.status /\ r.claim = new.claim /\ r.sent = new.sent
      /\ r.acked = new.acked /\ r.rejected = new.rejected
  BY DEF Rows
<1>3. row' = [row EXCEPT ![c] = r]
  BY DEF Saved
<1> QED BY <1>1, <1>2, <1>3

(* The lease of a correction that was mirrored. *)
LEMMA MirroredLease ==
  ASSUME TypeOK, NEW c \in Jobs, NEW state \in LeaseStates,
         lease' = [lease EXCEPT ![c] = IF @ = "none" THEN @ ELSE state]
  PROVE  \E x \in LeaseStates :
           /\ x = IF lease[c] = "none" THEN "none" ELSE state
           /\ lease' = [lease EXCEPT ![c] = x]
BY DEF TypeOK, LeaseStates

(* A step of a correction preserves the invariant when it keeps the parts that it can
   disturb. *)
LEMMA CorrectionStepPreserves ==
  ASSUME IInv, NEW c \in Corrections,
         UNCHANGED <<content, edits, restarts, planVars, repairVars>>,
         NEW r \in Rows, row' = [row EXCEPT ![c] = r],
         NEW x \in LeaseStates, lease' = [lease EXCEPT ![c] = x],
         NEW y \in CorrectionPcs, pc' = [pc EXCEPT ![c] = y],
         owner' = owner \/ owner' = Released(c) \/ Reserved(c), y # "off" => owner' = c,
         base' \in [Jobs -> Contents],
         heldCancel' \in [Corrections -> BOOLEAN], stopped' \subseteq Corrections,
         net' \in [Jobs -> [Files -> NetStates]], sends' \in [Jobs -> Nat],
         \A k \in Jobs \ {c} : net'[k] = net[k], SentOnce',
         MayLand(c)' => x \in {"dispatched", "remote_pending", "uncertain"},
         MayLand(c)' => MayLand(c) \/ MayStillSend(c),
         y \in {"reading", "queued", "wire", "verifying"} => MayStillSend(c) \/ Alone(c),
         CorrectionInv(c)'
  PROVE  IInv'
<1>1. /\ c \in Jobs /\ c \notin Plans /\ c \notin Repairs
      /\ DOMAIN lease = Jobs /\ DOMAIN pc = Jobs /\ DOMAIN row = Corrections
      /\ lease'[c] = x /\ pc'[c] = y
  BY Kinds DEF IInv, TypeOK
<1>2. /\ \A k \in Jobs \ {c} : lease'[k] = lease[k] /\ pc'[k] = pc[k]
      /\ \A e \in Corrections \ {c} : row'[e] = row[e]
  BY <1>1
<1>3. owner' \in Jobs \cup {Nobody}
  BY <1>1 DEF IInv, TypeOK, Released, Reserved
<1>4. \A k \in Jobs \ {c} : owner = k => owner' = k
  BY NobodyIsNoJob DEF Released, Reserved
<1>5. lease' \in [Jobs -> LeaseStates] /\ row' \in [Corrections -> Rows]
  BY DEF IInv, TypeOK
<1>6. /\ pc' \in [Jobs -> PlanPcs \cup CorrectionPcs \cup RepairPcs]
      /\ \A p \in Plans : pc'[p] \in PlanPcs
      /\ \A e \in Corrections : pc'[e] \in CorrectionPcs
      /\ \A d \in Repairs : pc'[d] \in RepairPcs
  BY <1>1, <1>2, Kinds DEF IInv, TypeOK
<1>7. TypeOK'
  BY <1>3, <1>5, <1>6 DEF IInv, TypeOK, planVars, repairVars
<1>8. OthersStay(c)
  BY <1>2, <1>4 DEF OthersStay
<1>9. StepOK(c)
  <2>1. MayLand(c)' => Open(c)' /\ (MayLand(c) \/ MayStillSend(c))
    BY <1>1 DEF Open
  <2>2. MayStillSend(c)' => MayStillSend(c) \/ Alone(c)
    <3>1. MayStillSend(c)' => y \in {"reading", "queued", "wire", "verifying"}
      BY <1>1 DEF MayStillSend, CorrectionPcs
    <3> QED BY <3>1
  <2>3. pc'[c] # "off" => owner' = c
    BY <1>1
  <2> QED BY <1>7, <1>8, <2>1, <2>2, <2>3 DEF StepOK
<1>10. SharedInv' /\ AloneInv'
  BY <1>1, <1>9, SharedStep
<1>11. PlansStay(c) /\ UNCHANGED <<review, passed>>
  BY DEF PlansStay, planVars
<1>12. ReplacedInv'
  BY <1>1, <1>8, <1>11, ReplacedStep
<1>13. ASSUME NEW q \in Plans PROVE PlanInv(q)'
  BY <1>1, <1>2, Kinds, PlanFrame DEF planVars, IInv
<1>14. ASSUME NEW e \in Corrections PROVE CorrectionInv(e)'
  <2>1. CASE e # c
    BY <2>1, <1>2, Kinds, CorrectionFrame DEF IInv
  <2> QED BY <2>1
<1>15. ASSUME NEW d \in Repairs PROVE RepairInv(d)'
  BY <1>1, <1>2, Kinds, RepairFrame DEF repairVars, IInv
<1>16. LatestInv'
  BY DEF IInv, LatestInv, repairVars
<1> QED BY <1>7, <1>9, <1>10, <1>12, <1>13, <1>14, <1>15, <1>16 DEF IInv, StepOK

(* The same when no request moves. *)
LEMMA CorrectionQuietPreserves ==
  ASSUME IInv, NEW c \in Corrections,
         UNCHANGED <<content, net, sends, edits, restarts, planVars, repairVars>>,
         NEW r \in Rows, row' = [row EXCEPT ![c] = r],
         NEW x \in LeaseStates, lease' = [lease EXCEPT ![c] = x],
         NEW y \in CorrectionPcs, pc' = [pc EXCEPT ![c] = y],
         owner' = owner \/ owner' = Released(c) \/ Reserved(c), y # "off" => owner' = c,
         base' \in [Jobs -> Contents],
         heldCancel' \in [Corrections -> BOOLEAN], stopped' \subseteq Corrections,
         MayLand(c) => x \in {"dispatched", "remote_pending", "uncertain"},
         y \in {"reading", "queued", "wire", "verifying"} => MayStillSend(c) \/ Alone(c),
         CorrectionInv(c)'
  PROVE  IInv'
<1>1. net' \in [Jobs -> [Files -> NetStates]] /\ sends' \in [Jobs -> Nat]
  BY DEF IInv, TypeOK
<1>2. SentOnce'
  BY NoSend DEF IInv
<1>3. MayLand(c)' = MayLand(c)
  BY DEF MayLand
<1> QED BY <1>1, <1>2, <1>3, CorrectionStepPreserves

(* What a correction looks like before a step. *)
LEMMA CorrectionBefore ==
  ASSUME IInv, NEW c \in Corrections
  PROVE  /\ CorrectionInv(c) /\ row[c] \in Rows /\ c \in Jobs
         /\ row[c].sent \in 0 .. NumFiles /\ row[c].acked \in 0 .. NumFiles
         /\ lease[c] \in LeaseStates /\ pc[c] \in CorrectionPcs
         /\ lease = [lease EXCEPT ![c] = lease[c]]
         /\ pc = [pc EXCEPT ![c] = pc[c]]
         /\ row = [row EXCEPT ![c] = row[c]]
         /\ base \in [Jobs -> Contents] /\ content \in Contents
         /\ heldCancel \in [Corrections -> BOOLEAN] /\ stopped \subseteq Corrections
         /\ pc[c] # "off" => owner = c
         /\ MayLand(c) => Open(c)
<1>1. c \in Jobs
  BY Kinds
<1>2. row[c] \in Rows /\ lease[c] \in LeaseStates /\ pc[c] \in CorrectionPcs
  BY <1>1 DEF IInv, TypeOK
<1>3. row[c].sent \in 0 .. NumFiles /\ row[c].acked \in 0 .. NumFiles
  BY <1>2 DEF Rows
<1>4. /\ lease = [lease EXCEPT ![c] = lease[c]] /\ pc = [pc EXCEPT ![c] = pc[c]]
      /\ row = [row EXCEPT ![c] = row[c]]
  BY DEF IInv, TypeOK
<1> QED BY <1>1, <1>2, <1>3, <1>4 DEF IInv, TypeOK, SharedInv, LateWritesAreCovered

(* The review is stored. *)
LEMMA PrepareCorrectionOK ==
  ASSUME IInv, NEW c \in Corrections, PrepareCorrection(c), UNCHANGED <<planVars, repairVars>>
  PROVE  IInv'
<1>1. /\ row[c].status = "none" /\ CorrectionInv(c) /\ row[c] \in Rows
      /\ UNCHANGED <<lease, owner, pc, content, net, sends, edits, restarts, heldCancel, stopped>>
  BY CorrectionBefore DEF PrepareCorrection
<1>2. PICK r \in Rows :
        /\ row' = [row EXCEPT ![c] = r] /\ row'[c] = r
        /\ r.status = "ready" /\ r.claim = row[c].claim /\ r.sent = row[c].sent
        /\ r.acked = row[c].acked /\ r.rejected = row[c].rejected
  <2> DEFINE r == [row[c] EXCEPT !.status = "ready"]
  <2>1. r \in Rows
    BY <1>1 DEF Rows, CorrectionStatuses
  <2>2. row' = [row EXCEPT ![c] = r] /\ row'[c] = r
    BY DEF PrepareCorrection, IInv, TypeOK
  <2>3. /\ r.status = "ready" /\ r.claim = row[c].claim /\ r.sent = row[c].sent
        /\ r.acked = row[c].acked /\ r.rejected = row[c].rejected
    BY <1>1 DEF Rows
  <2> QED BY <2>1, <2>2, <2>3
<1>3. base' \in [Jobs -> Contents]
  BY CorrectionBefore DEF PrepareCorrection
<1>4. CorrectionInv(c)'
  BY <1>1, <1>2 DEF CorrectionInv
<1>5. pc[c] \in {"reading", "queued", "wire", "verifying"} => MayStillSend(c)
  BY DEF MayStillSend
<1>6. /\ lease[c] \in LeaseStates /\ pc[c] \in CorrectionPcs
      /\ lease = [lease EXCEPT ![c] = lease[c]] /\ pc = [pc EXCEPT ![c] = pc[c]]
      /\ heldCancel \in [Corrections -> BOOLEAN] /\ stopped \subseteq Corrections
      /\ pc[c] # "off" => owner = c
      /\ MayLand(c) => lease[c] \in {"dispatched", "remote_pending", "uncertain"}
  BY CorrectionBefore DEF Open
<1> QED BY <1>1, <1>2, <1>3, <1>4, <1>5, <1>6, CorrectionQuietPreserves

(* The first checks of an approval. *)
LEMMA ApplyChecksOK ==
  ASSUME IInv, NEW c \in Corrections, ApplyChecks(c), UNCHANGED <<planVars, repairVars>>
  PROVE  IInv'
<1>1. /\ lease[c] = "none" /\ row[c].status = "ready" /\ CorrectionInv(c) /\ row[c] \in Rows
      /\ Reserved(c) /\ pc' = [pc EXCEPT ![c] = "checking"] /\ pc'[c] = "checking"
      /\ UNCHANGED <<lease, content, base, net, sends, edits, restarts, row, stopped>>
  BY CorrectionBefore DEF ApplyChecks, Approvable, IInv, TypeOK
<1>2. heldCancel' \in [Corrections -> BOOLEAN] /\ "checking" \in CorrectionPcs
  BY <1>1, CorrectionBefore DEF ApplyChecks, Rows, CorrectionPcs
<1>3. CorrectionInv(c)'
  BY <1>1 DEF CorrectionInv
<1>4. owner' = c
  BY <1>1 DEF Reserved
<1> QED BY <1>1, <1>2, <1>3, <1>4, CorrectionBefore, CorrectionQuietPreserves DEF Open

(* The claim, the job and its handler. *)
LEMMA AppliesOK ==
  ASSUME IInv, NEW c \in Corrections, Applies(c), UNCHANGED <<planVars, repairVars>>
  PROVE  IInv'
<1>1. /\ pc[c] = "checking" /\ CorrectionInv(c) /\ row[c] \in Rows
      /\ lease' = [lease EXCEPT ![c] = "claimed"] /\ pc' = [pc EXCEPT ![c] = "reading"]
      /\ lease'[c] = "claimed" /\ pc'[c] = "reading"
      /\ UNCHANGED <<owner, content, base, net, sends, edits, restarts, heldCancel, stopped>>
  BY CorrectionBefore DEF Applies, IInv, TypeOK
<1>2. [row[c] EXCEPT !.claim = TRUE, !.status = "running"] \in Rows
  BY <1>1 DEF Rows, CorrectionStatuses
<1>3. PICK r \in Rows :
        /\ row' = [row EXCEPT ![c] = r] /\ row'[c] = r
        /\ r.status = "running" /\ r.claim /\ r.sent = row[c].sent
        /\ r.acked = row[c].acked /\ r.rejected = row[c].rejected
  <2> DEFINE new == [row[c] EXCEPT !.claim = TRUE, !.status = "running"]
  <2>1. /\ new.status = "running" /\ new.claim /\ new.sent = row[c].sent
        /\ new.acked = row[c].acked /\ new.rejected = row[c].rejected
    BY <1>1 DEF Rows
  <2>2. Saved(c, new) /\ TypeOK
    BY DEF Applies, IInv
  <2>3. PICK r \in Rows :
          /\ row' = [row EXCEPT ![c] = r]
          /\ r.status = new.status /\ r.claim = new.claim /\ r.sent = new.sent
          /\ r.acked = new.acked /\ r.rejected = new.rejected
    BY <1>2, <2>2, SavedRow
  <2>4. row'[c] = r
    BY <2>3 DEF IInv, TypeOK
  <2> QED BY <2>1, <2>3, <2>4
<1>4. row[c].sent = 0 /\ row[c].acked = 0 /\ ~ row[c].rejected
  BY <1>1, CorrectionBefore DEF CorrectionInv, Rows
<1>5. CorrectionInv(c)'
  BY <1>1, <1>3, <1>4, FilesAreNumbers DEF CorrectionInv
<1>6. ~ MayLand(c)
  BY <1>1, CorrectionBefore DEF CorrectionInv, Open
<1>7. Alone(c)
  BY IdleIsAlone DEF Applies
<1>8. "claimed" \in LeaseStates /\ "reading" \in CorrectionPcs
  BY DEF LeaseStates, CorrectionPcs
<1> QED BY <1>1, <1>3, <1>5, <1>6, <1>7, <1>8, CorrectionBefore, CorrectionQuietPreserves

(* The approval is refused. *)
LEMMA ApplyRefusedOK ==
  ASSUME IInv, NEW c \in Corrections, ApplyRefused(c), UNCHANGED <<planVars, repairVars>>
  PROVE  IInv'
<1>1. /\ pc[c] = "checking" /\ CorrectionInv(c) /\ row[c] \in Rows
      /\ owner' = Released(c) /\ pc' = [pc EXCEPT ![c] = "off"] /\ pc'[c] = "off"
      /\ heldCancel' \in [Corrections -> BOOLEAN]
      /\ UNCHANGED <<lease, content, base, net, sends, edits, restarts, row, stopped>>
  BY CorrectionBefore DEF ApplyRefused, IInv, TypeOK
<1>2. CorrectionInv(c)'
  BY <1>1 DEF CorrectionInv
<1>3. "off" \in CorrectionPcs
  BY DEF CorrectionPcs
<1> QED BY <1>1, <1>2, <1>3, CorrectionBefore, CorrectionQuietPreserves DEF Open

(* The claim is used, and there is no job. *)
LEMMA ApplyUnrecordedOK ==
  ASSUME IInv, NEW c \in Corrections, ApplyUnrecorded(c), UNCHANGED <<planVars, repairVars>>
  PROVE  IInv'
<1>1. /\ pc[c] = "checking" /\ CorrectionInv(c) /\ row[c] \in Rows
      /\ owner' = Released(c) /\ pc' = [pc EXCEPT ![c] = "off"] /\ pc'[c] = "off"
      /\ heldCancel' \in [Corrections -> BOOLEAN]
      /\ UNCHANGED <<lease, content, base, net, sends, edits, restarts, stopped>>
  BY CorrectionBefore DEF ApplyUnrecorded, IInv, TypeOK
<1>2. [row[c] EXCEPT !.claim = TRUE, !.status = "partial"] \in Rows
  BY <1>1 DEF Rows, CorrectionStatuses
<1>3. PICK r \in Rows :
        /\ row' = [row EXCEPT ![c] = r] /\ row'[c] = r
        /\ r.status = "partial" /\ r.claim /\ r.sent = row[c].sent
        /\ r.acked = row[c].acked /\ r.rejected = row[c].rejected
  <2> DEFINE new == [row[c] EXCEPT !.claim = TRUE, !.status = "partial"]
  <2>1. /\ new.status = "partial" /\ new.claim /\ new.sent = row[c].sent
        /\ new.acked = row[c].acked /\ new.rejected = row[c].rejected
    BY <1>1 DEF Rows
  <2>2. Saved(c, new) /\ TypeOK
    BY DEF ApplyUnrecorded, IInv
  <2>3. PICK r \in Rows :
          /\ row' = [row EXCEPT ![c] = r]
          /\ r.status = new.status /\ r.claim = new.claim /\ r.sent = new.sent
          /\ r.acked = new.acked /\ r.rejected = new.rejected
    BY <1>2, <2>2, SavedRow
  <2>4. row'[c] = r
    BY <2>3 DEF IInv, TypeOK
  <2> QED BY <2>1, <2>3, <2>4
<1>4. CorrectionInv(c)'
  BY <1>1, <1>3 DEF CorrectionInv
<1>5. "off" \in CorrectionPcs
  BY DEF CorrectionPcs
<1> QED BY <1>1, <1>3, <1>4, <1>5, CorrectionBefore, CorrectionQuietPreserves DEF Open

(* The next file is queued. *)
LEMMA CorrectionQueuesOK ==
  ASSUME IInv, NEW c \in Corrections, CorrectionQueues(c), UNCHANGED <<planVars, repairVars>>
  PROVE  IInv'
<1>1. /\ pc[c] = "reading" /\ CorrectionInv(c) /\ row[c] \in Rows
      /\ pc' = [pc EXCEPT ![c] = "queued"] /\ pc'[c] = "queued"
      /\ UNCHANGED <<lease, owner, content, base, net, sends, edits, restarts, heldCancel, stopped>>
  BY CorrectionBefore DEF CorrectionQueues, IInv, TypeOK
<1>2. PICK r \in Rows :
        /\ row' = [row EXCEPT ![c] = r] /\ row'[c] = r
        /\ r.status = row[c].status /\ r.claim = row[c].claim /\ r.sent = row[c].sent
        /\ r.acked = row[c].acked /\ r.rejected = row[c].rejected
  BY <1>1, SavedRow DEF CorrectionQueues, IInv, TypeOK
<1>3. CorrectionInv(c)'
  BY <1>1, <1>2 DEF CorrectionInv
<1>4. MayStillSend(c) /\ "queued" \in CorrectionPcs
  BY <1>1 DEF MayStillSend, CorrectionPcs
<1> QED BY <1>1, <1>2, <1>3, <1>4, CorrectionBefore, CorrectionQuietPreserves DEF Open

(* The request of the next file leaves. *)
LEMMA CorrectionSendsOK ==
  ASSUME IInv, NEW c \in Corrections, CorrectionSends(c), UNCHANGED <<planVars, repairVars>>
  PROVE  IInv'
<1>1. /\ pc[c] = "queued" /\ CorrectionInv(c) /\ row[c] \in Rows
      /\ row[c].sent \in Nat /\ row[c].sent < NumFiles /\ row[c].acked = row[c].sent
      /\ row[c].status = "running" /\ row[c].claim /\ ~ row[c].rejected
      /\ lease[c] \in {"claimed", "dispatched"}
      /\ pc' = [pc EXCEPT ![c] = "wire"] /\ pc'[c] = "wire"
      /\ UNCHANGED <<owner, content, base, edits, restarts, heldCancel, stopped>>
  BY CorrectionBefore DEF CorrectionSends, Authorized, IInv, TypeOK, CorrectionInv
<1>2. PICK n \in Files : n = row[c].sent + 1
  BY <1>1, FilesAreNumbers DEF Files
<1>3. [row[c] EXCEPT !.sent = @ + 1] \in Rows
  BY <1>1, <1>2, FilesAreNumbers DEF Rows
<1>4. PICK r \in Rows :
        /\ row' = [row EXCEPT ![c] = r] /\ row'[c] = r
        /\ r.status = "running" /\ r.claim /\ r.sent = n
        /\ r.acked = row[c].acked /\ ~ r.rejected
  BY <1>1, <1>2, <1>3, SavedRow DEF CorrectionSends, IInv, TypeOK, Rows
<1>5. lease' = [lease EXCEPT ![c] = "dispatched"] /\ lease'[c] = "dispatched"
  BY <1>1, CorrectionBefore DEF CorrectionSends, Mirrored, IInv, TypeOK
<1>6. Sends(c, n)
  BY <1>2 DEF CorrectionSends
<1>7. net[c][n] = "none" /\ \A f \in Files : net[c][f] # "wire"
  BY <1>1, <1>2, FilesAreNumbers DEF CorrectionInv
<1>8. SentOnce' /\ net' \in [Jobs -> [Files -> NetStates]] /\ sends' \in [Jobs -> Nat]
  BY <1>6, <1>7, OneSend, SendsTypes, CorrectionBefore DEF IInv
<1>9. /\ \A k \in Jobs \ {c} : net'[k] = net[k]
      /\ \A g \in Files : net'[c][g] = IF g = n THEN "wire" ELSE net[c][g]
  BY <1>6, CorrectionBefore DEF Sends, IInv, TypeOK
<1>10. CorrectionInv(c)'
  <2>1. \A f \in Files :
          /\ net'[c][f] # "running"
          /\ net'[c][f] # "none" => f <= r.sent
          /\ f <= r.acked => net'[c][f] = "landed"
          /\ net'[c][f] = "wire" => f = r.sent /\ ~ r.rejected
          /\ content[f] = c => net'[c][f] = "landed"
    BY <1>1, <1>2, <1>4, <1>7, <1>9, FilesAreNumbers DEF CorrectionInv
  <2> QED BY <1>1, <1>2, <1>4, <1>5, <2>1, FilesAreNumbers DEF CorrectionInv
<1>11. MayStillSend(c) /\ "wire" \in CorrectionPcs /\ "dispatched" \in LeaseStates
  BY <1>1 DEF MayStillSend, CorrectionPcs, LeaseStates
<1> QED BY <1>1, <1>4, <1>5, <1>8, <1>9, <1>10, <1>11, CorrectionBefore, CorrectionStepPreserves

(* The request is answered. *)
LEMMA CorrectionAckedOK ==
  ASSUME IInv, NEW c \in Corrections, CorrectionAcked(c), UNCHANGED <<planVars, repairVars>>
  PROVE  IInv'
<1>1. /\ pc[c] = "wire" /\ CorrectionInv(c) /\ row[c] \in Rows
      /\ net[c][row[c].sent] = "landed"
      /\ row[c].sent \in Nat /\ row[c].acked \in Nat /\ row[c].sent = row[c].acked + 1
      /\ pc' = [pc EXCEPT ![c] = "verifying"] /\ pc'[c] = "verifying"
      /\ UNCHANGED <<lease, owner, content, base, net, sends, edits, restarts, heldCancel, stopped>>
  BY CorrectionBefore DEF CorrectionAcked, IInv, TypeOK, CorrectionInv
<1>2. [row[c] EXCEPT !.acked = row[c].sent] \in Rows
  BY <1>1 DEF Rows
<1>3. PICK r \in Rows :
        /\ row' = [row EXCEPT ![c] = r] /\ row'[c] = r
        /\ r.status = row[c].status /\ r.claim = row[c].claim /\ r.sent = row[c].sent
        /\ r.acked = row[c].sent /\ r.rejected = row[c].rejected
  BY <1>1, <1>2, SavedRow DEF CorrectionAcked, IInv, TypeOK, Rows
<1>4. CorrectionInv(c)'
  <2>1. \A f \in Files : f <= row[c].sent => net[c][f] = "landed"
    BY <1>1, FilesAreNumbers DEF CorrectionInv
  <2> QED BY <1>1, <1>3, <2>1 DEF CorrectionInv
<1>5. MayStillSend(c) /\ "verifying" \in CorrectionPcs
  BY <1>1 DEF MayStillSend, CorrectionPcs
<1> QED BY <1>1, <1>3, <1>4, <1>5, CorrectionBefore, CorrectionQuietPreserves DEF Open

(* The branch reads back as approved. *)
LEMMA CorrectionVerifiedOK ==
  ASSUME IInv, NEW c \in Corrections, CorrectionVerified(c), UNCHANGED <<planVars, repairVars>>
  PROVE  IInv'
<1>1. PICK y \in {"validating", "reading"} :
        y = IF row[c].acked = NumFiles THEN "validating" ELSE "reading"
  OBVIOUS
<1>2. /\ pc[c] = "verifying" /\ CorrectionInv(c) /\ row[c] \in Rows
      /\ row[c].sent \in 0 .. NumFiles /\ row[c].acked = row[c].sent
      /\ pc' = [pc EXCEPT ![c] = y] /\ pc'[c] = y
      /\ UNCHANGED <<lease, owner, content, base, net, sends, edits, restarts, heldCancel, stopped>>
  BY <1>1, CorrectionBefore DEF CorrectionVerified, IInv, TypeOK, CorrectionInv
<1>3. PICK r \in Rows :
        /\ row' = [row EXCEPT ![c] = r] /\ row'[c] = r
        /\ r.status = row[c].status /\ r.claim = row[c].claim /\ r.sent = row[c].sent
        /\ r.acked = row[c].acked /\ r.rejected = row[c].rejected
  BY <1>2, SavedRow DEF CorrectionVerified, IInv, TypeOK
<1>4. y = "reading" => row[c].sent < NumFiles
  BY <1>1, <1>2, FilesAreNumbers
<1>5. CorrectionInv(c)'
  BY <1>2, <1>3, <1>4 DEF CorrectionInv
<1>6. MayStillSend(c) /\ y \in CorrectionPcs
  BY <1>2 DEF MayStillSend, CorrectionPcs
<1> QED BY <1>2, <1>3, <1>5, <1>6, CorrectionBefore, CorrectionQuietPreserves DEF Open

(* Every file is there. *)
LEMMA CorrectionAppliedOK ==
  ASSUME IInv, NEW c \in Corrections, CorrectionApplied(c), UNCHANGED <<planVars, repairVars>>
  PROVE  IInv'
<1>1. /\ pc[c] = "validating" /\ CorrectionInv(c) /\ row[c] \in Rows
      /\ row[c].acked = row[c].sent /\ lease[c] = "dispatched"
      /\ pc' = [pc EXCEPT ![c] = "off"] /\ pc'[c] = "off" /\ owner' = Released(c)
      /\ heldCancel' \in [Corrections -> BOOLEAN] /\ stopped' \subseteq Corrections
      /\ UNCHANGED <<content, base, net, sends, edits, restarts>>
  BY CorrectionBefore DEF CorrectionApplied, IInv, TypeOK, CorrectionInv
<1>2. [row[c] EXCEPT !.status = "applied"] \in Rows
  BY <1>1 DEF Rows, CorrectionStatuses
<1>3. PICK r \in Rows :
        /\ row' = [row EXCEPT ![c] = r] /\ row'[c] = r
        /\ r.status = "applied" /\ r.claim = row[c].claim /\ r.sent = row[c].sent
        /\ r.acked = row[c].acked /\ r.rejected = row[c].rejected
  BY <1>1, <1>2, SavedRow DEF CorrectionApplied, IInv, TypeOK, Rows
<1>4. lease' = [lease EXCEPT ![c] = "resolved"] /\ lease'[c] = "resolved"
  BY <1>1, CorrectionBefore DEF CorrectionApplied, Mirrored, IInv, TypeOK
<1>5. CorrectionInv(c)'
  BY <1>1, <1>3, <1>4 DEF CorrectionInv
<1>6. ~ MayLand(c)
  BY <1>1, FilesAreNumbers DEF CorrectionInv, MayLand
<1>7. "resolved" \in LeaseStates /\ "off" \in CorrectionPcs
  BY DEF LeaseStates, CorrectionPcs
<1> QED BY <1>1, <1>3, <1>4, <1>5, <1>6, <1>7, CorrectionBefore, CorrectionQuietPreserves

(* The catch: what is unknown stays open. *)
LEMMA CorrectionEndsOK ==
  ASSUME IInv, NEW c \in Corrections, NEW unknown \in BOOLEAN, NEW rejected \in BOOLEAN,
         pc[c] \in {"reading", "queued", "wire", "verifying", "validating"},
         CorrectionEnds(c, unknown, rejected), UNCHANGED <<planVars, repairVars>>,
         ~ unknown => ~ MayLand(c),
         rejected => row[c].sent > 0 /\ ~ MayLand(c)
  PROVE  IInv'
<1>1. /\ CorrectionInv(c) /\ row[c] \in Rows /\ c \in Jobs
      /\ lease[c] \in {"claimed", "dispatched"}
      /\ pc' = [pc EXCEPT ![c] = "off"] /\ pc'[c] = "off" /\ owner' = Released(c)
      /\ heldCancel' \in [Corrections -> BOOLEAN] /\ stopped' \subseteq Corrections
      /\ UNCHANGED <<content, base, net, sends, edits, restarts>>
  BY CorrectionBefore DEF CorrectionEnds, IInv, TypeOK, CorrectionInv
<1>2. PICK st \in {"uncertain", "canceled", "partial"} :
        st = IF unknown THEN "uncertain" ELSE IF c \in stopped THEN "canceled" ELSE "partial"
  OBVIOUS
<1>3. PICK x \in {"uncertain", "resolved", "failed_prewrite"} :
        /\ x = IF unknown THEN "uncertain" ELSE IF row[c].sent > 0 THEN "resolved" ELSE "failed_prewrite"
        /\ unknown => x = "uncertain"
  OBVIOUS
<1>4. lease' = [lease EXCEPT ![c] = x] /\ lease'[c] = x
  BY <1>1, <1>3 DEF CorrectionEnds, Mirrored, IInv, TypeOK
<1>5. PICK r \in Rows :
        /\ row' = [row EXCEPT ![c] = r] /\ row'[c] = r
        /\ r.status = st /\ r.claim = row[c].claim /\ r.sent = row[c].sent
        /\ r.acked = row[c].acked /\ r.rejected = rejected
  <2> DEFINE new == [row[c] EXCEPT !.status = st, !.rejected = rejected]
  <2>1. /\ new \in Rows
        /\ new.status = st /\ new.claim = row[c].claim /\ new.sent = row[c].sent
        /\ new.acked = row[c].acked /\ new.rejected = rejected
    BY <1>1 DEF Rows, CorrectionStatuses
  <2>2. Saved(c, new) /\ TypeOK
    BY <1>2 DEF CorrectionEnds, IInv
  <2>3. PICK r \in Rows :
          /\ row' = [row EXCEPT ![c] = r]
          /\ r.status = new.status /\ r.claim = new.claim /\ r.sent = new.sent
          /\ r.acked = new.acked /\ r.rejected = new.rejected
    BY <2>1, <2>2, SavedRow
  <2>4. row'[c] = r
    BY <2>3 DEF IInv, TypeOK
  <2> QED BY <2>1, <2>3, <2>4
<1>6. CorrectionInv(c)'
  <2>1. \A f \in Files :
          /\ net[c][f] # "running"
          /\ net[c][f] # "none" => f <= r.sent
          /\ f <= r.acked => net[c][f] = "landed"
          /\ net[c][f] = "wire" => f = r.sent /\ ~ r.rejected
          /\ content[f] = c => net[c][f] = "landed"
    BY <1>1, <1>5 DEF CorrectionInv, MayLand
  <2> QED BY <1>1, <1>4, <1>5, <2>1 DEF CorrectionInv
<1>7. MayLand(c) => x = "uncertain"
  BY <1>3
<1>8. x \in LeaseStates /\ "off" \in CorrectionPcs
  BY DEF LeaseStates, CorrectionPcs
<1> QED BY <1>1, <1>4, <1>5, <1>6, <1>7, <1>8, CorrectionBefore, CorrectionQuietPreserves

(* It stops between its writes, is refused, or does not know. *)
LEMMA CorrectionStopsOK ==
  ASSUME IInv, NEW c \in Corrections, UNCHANGED <<planVars, repairVars>>,
         CorrectionStops(c) \/ CorrectionRejected(c) \/ CorrectionLost(c)
  PROVE  IInv'
<1>1. CorrectionInv(c) /\ row[c] \in Rows /\ row[c].sent \in Nat /\ row[c].rejected \in BOOLEAN
  BY CorrectionBefore DEF Rows
<1>2. CASE CorrectionStops(c)
  <2>1. /\ pc[c] \in {"reading", "queued", "validating"} /\ row[c].acked = row[c].sent
        /\ ~ row[c].rejected
    BY <1>1, <1>2 DEF CorrectionStops, CorrectionInv
  <2>2. ~ MayLand(c)
    BY <1>1, <2>1, FilesAreNumbers DEF CorrectionInv, MayLand
  <2>3. CorrectionEnds(c, FALSE, row[c].rejected)
    BY <1>2 DEF CorrectionStops
  <2> QED BY <1>1, <2>1, <2>2, <2>3, CorrectionEndsOK
<1>3. CASE CorrectionRejected(c)
  <2>1. pc[c] = "wire" /\ net[c][row[c].sent] = "refused" /\ row[c].sent = row[c].acked + 1
        /\ row[c].acked \in Nat
    BY <1>1, <1>3, CorrectionBefore DEF CorrectionRejected, CorrectionInv
  <2>2. ~ MayLand(c)
    BY <1>1, <2>1 DEF CorrectionInv, MayLand
  <2>3. CorrectionEnds(c, FALSE, TRUE)
    BY <1>3 DEF CorrectionRejected
  <2>4. row[c].sent > 0
    BY <2>1
  <2> QED BY <2>1, <2>2, <2>3, <2>4, CorrectionEndsOK
<1>4. CASE CorrectionLost(c)
  BY <1>4, CorrectionEndsOK DEF CorrectionLost
<1> QED BY <1>2, <1>3, <1>4

(* A step that keeps the handler and changes only the status and the cancellation of the
   row, and mirrors a lease. *)
LEMMA CorrectionAsideOK ==
  ASSUME IInv, NEW c \in Corrections, row[c].status # "none",
         UNCHANGED <<owner, pc, content, base, net, sends, edits, restarts, heldCancel>>,
         stopped' \subseteq Corrections, UNCHANGED <<planVars, repairVars>>,
         NEW st \in CorrectionStatuses \ {"none"}, NEW b \in BOOLEAN,
         row' = [row EXCEPT ![c] = [row[c] EXCEPT !.status = st, !.cancel = b]],
         st = row[c].status \/ (st # "ready" /\ pc[c] = "off"),
         NEW x \in LeaseStates, lease' = [lease EXCEPT ![c] = x],
         x = lease[c] \/ (pc[c] = "off" /\ lease[c] # "none" /\ x # "none"),
         MayLand(c) => x \in {"dispatched", "remote_pending", "uncertain"}
  PROVE  IInv'
<1>1. /\ CorrectionInv(c) /\ row[c] \in Rows /\ c \in Jobs /\ pc[c] \in CorrectionPcs
      /\ lease'[c] = x
  BY CorrectionBefore DEF IInv, TypeOK
<1>2. PICK r \in Rows :
        /\ row' = [row EXCEPT ![c] = r] /\ row'[c] = r
        /\ r.status = st /\ r.claim = row[c].claim /\ r.sent = row[c].sent
        /\ r.acked = row[c].acked /\ r.rejected = row[c].rejected
  <2> DEFINE r == [row[c] EXCEPT !.status = st, !.cancel = b]
  <2>1. /\ r \in Rows
        /\ r.status = st /\ r.claim = row[c].claim /\ r.sent = row[c].sent
        /\ r.acked = row[c].acked /\ r.rejected = row[c].rejected
    BY <1>1 DEF Rows
  <2>2. row' = [row EXCEPT ![c] = r] /\ row'[c] = r
    BY DEF IInv, TypeOK
  <2> QED BY <2>1, <2>2
<1>3. CorrectionInv(c)'
  BY <1>1, <1>2 DEF CorrectionInv
<1>4. pc[c] \in {"reading", "queued", "wire", "verifying"} => MayStillSend(c)
  BY DEF MayStillSend
<1>5. /\ pc' = [pc EXCEPT ![c] = pc[c]] /\ base' \in [Jobs -> Contents]
      /\ heldCancel' \in [Corrections -> BOOLEAN] /\ owner' = owner
      /\ pc[c] # "off" => owner' = c
  BY CorrectionBefore
<1> QED BY <1>1, <1>2, <1>3, <1>4, <1>5, CorrectionQuietPreserves

(* Nothing of it is on its way, when the status says so or the lease is not there. *)
LEMMA ObserveCorrectionOK ==
  ASSUME IInv, NEW c \in Corrections, ObserveCorrection(c), UNCHANGED <<planVars, repairVars>>
  PROVE  IInv'
<1>1. /\ row[c].status = "running" /\ pc[c] = "off" /\ CorrectionInv(c) /\ row[c] \in Rows /\ c \in Jobs
      /\ UNCHANGED <<owner, pc, content, base, net, sends, edits, restarts, heldCancel, stopped>>
  BY CorrectionBefore DEF ObserveCorrection, Interrupted, Executing, CorrectionPcs, CorrectionInv
<1>2. PICK x \in LeaseStates :
        /\ x = IF lease[c] = "none" THEN "none" ELSE "uncertain"
        /\ lease' = [lease EXCEPT ![c] = x]
  <2>1. "uncertain" \in LeaseStates
    BY DEF LeaseStates
  <2> QED BY <1>1, <2>1, MirroredLease DEF ObserveCorrection, Mirrored, IInv
<1>3. PICK b \in BOOLEAN : b = row[c].cancel
  BY <1>1 DEF Rows
<1>4. row' = [row EXCEPT ![c] = [row[c] EXCEPT !.status = "uncertain", !.cancel = b]]
  <2>1. [row[c] EXCEPT !.status = "uncertain"] = [row[c] EXCEPT !.status = "uncertain", !.cancel = b]
    BY <1>1, <1>3 DEF Rows
  <2> QED BY <2>1 DEF ObserveCorrection, IInv, TypeOK
<1>5. MayLand(c) => x \in {"dispatched", "remote_pending", "uncertain"}
  BY <1>2, CorrectionBefore DEF Open
<1>6. "uncertain" \in CorrectionStatuses \ {"none"} /\ stopped' \subseteq Corrections
  BY <1>1, CorrectionBefore DEF CorrectionStatuses
<1> QED BY <1>1, <1>2, <1>4, <1>5, <1>6, CorrectionAsideOK

(* The cancellation is stored. *)
LEMMA CancelCorrectionOK ==
  ASSUME IInv, NEW c \in Corrections, CancelCorrection(c), UNCHANGED <<planVars, repairVars>>
  PROVE  IInv'
<1>1. /\ row[c].status # "none" /\ CorrectionInv(c) /\ row[c] \in Rows /\ c \in Jobs
      /\ UNCHANGED <<owner, pc, content, base, net, sends, edits, restarts, heldCancel>>
      /\ stopped' \subseteq Corrections
  BY CorrectionBefore DEF CancelCorrection
<1>2. PICK st \in CorrectionStatuses \ {"none"} :
        st = IF Interrupted(c) THEN "uncertain" ELSE row[c].status
  BY <1>1 DEF Rows, CorrectionStatuses
<1>3. Interrupted(c) => row[c].status = "running" /\ pc[c] = "off"
  BY <1>1, CorrectionBefore DEF Interrupted, Executing, CorrectionPcs, CorrectionInv
<1>4. PICK x \in LeaseStates :
        /\ x = IF Interrupted(c) /\ lease[c] # "none" THEN "uncertain" ELSE lease[c]
        /\ lease' = [lease EXCEPT ![c] = x]
  <2>1. "uncertain" \in LeaseStates
    BY DEF LeaseStates
  <2>2. CASE Interrupted(c)
    BY <1>1, <2>1, <2>2, MirroredLease DEF CancelCorrection, Mirrored, IInv
  <2>3. CASE ~ Interrupted(c)
    BY <2>3, CorrectionBefore DEF CancelCorrection
  <2> QED BY <2>2, <2>3
<1>5. row' = [row EXCEPT ![c] = [row[c] EXCEPT !.status = st, !.cancel = TRUE]]
  <2>1. row' = [row EXCEPT ![c] = [[row[c] EXCEPT !.cancel = TRUE] EXCEPT !.status = st]]
    BY <1>1, <1>2 DEF CancelCorrection, IInv, TypeOK, Rows
  <2>2. [[row[c] EXCEPT !.cancel = TRUE] EXCEPT !.status = st]
          = [row[c] EXCEPT !.status = st, !.cancel = TRUE]
    BY <1>1 DEF Rows
  <2> QED BY <2>1, <2>2
<1>6. MayLand(c) => x \in {"dispatched", "remote_pending", "uncertain"}
  BY <1>4, CorrectionBefore DEF Open
<1>7. st = row[c].status \/ (st # "ready" /\ pc[c] = "off")
  BY <1>2, <1>3
<1>8. x = lease[c] \/ (pc[c] = "off" /\ lease[c] # "none" /\ x # "none")
  BY <1>3, <1>4
<1> QED BY <1>1, <1>2, <1>4, <1>5, <1>6, <1>7, <1>8, CorrectionAsideOK

(* The reconciliation keeps open what may still arrive. *)
LEMMA ReconcileCorrectionOK ==
  ASSUME IInv, NEW c \in Corrections, ReconcileCorrection(c), UNCHANGED <<planVars, repairVars>>
  PROVE  IInv'
<1>1. /\ row[c].claim /\ lease[c] # "none" /\ pc[c] = "off"
      /\ CorrectionInv(c) /\ row[c] \in Rows /\ c \in Jobs
      /\ UNCHANGED <<owner, pc, content, base, net, sends, edits, restarts, heldCancel, stopped>>
  BY CorrectionBefore DEF ReconcileCorrection
<1>2. PICK st \in {"uncertain", "applied", "partial"} :
        row' = [row EXCEPT ![c].status = st]
  BY DEF ReconcileCorrection
<1>3. PICK x \in {"uncertain", "resolved"} :
        /\ x = IF Outstanding(c) THEN "uncertain" ELSE "resolved"
        /\ lease' = [lease EXCEPT ![c] = x]
  BY <1>1 DEF ReconcileCorrection, Mirrored, IInv, TypeOK
<1>4. PICK b \in BOOLEAN : b = row[c].cancel
  BY <1>1 DEF Rows
<1>5. row' = [row EXCEPT ![c] = [row[c] EXCEPT !.status = st, !.cancel = b]]
  <2>1. [row[c] EXCEPT !.status = st] = [row[c] EXCEPT !.status = st, !.cancel = b]
    BY <1>1, <1>4 DEF Rows
  <2> QED BY <1>2, <2>1 DEF IInv, TypeOK
<1>6. MayLand(c) => Outstanding(c)
  <2> SUFFICES ASSUME NEW f \in Files, net[c][f] \in {"wire", "running"}
               PROVE  Outstanding(c)
    BY DEF MayLand
  <2>1. net[c][f] = "wire" /\ f = row[c].sent /\ ~ row[c].rejected /\ content[f] # c
    BY <1>1 DEF CorrectionInv
  <2>2. row[c].acked \in Nat /\ row[c].acked <= row[c].sent /\ ~ (f <= row[c].acked)
    BY <1>1, <2>1, CorrectionBefore DEF CorrectionInv
  <2> QED BY <2>1, <2>2, FilesAreNumbers DEF Outstanding
<1>7. row[c].status # "none"
  BY <1>1 DEF CorrectionInv
<1>8. /\ st \in CorrectionStatuses \ {"none"} /\ x \in LeaseStates
      /\ stopped' \subseteq Corrections
  BY <1>1, CorrectionBefore DEF CorrectionStatuses, LeaseStates
<1> QED BY <1>1, <1>3, <1>5, <1>6, <1>7, <1>8, CorrectionAsideOK

(* Every step of a correction preserves the invariant. *)
LEMMA CorrectionNextPreserves ==
  ASSUME IInv, NEW c \in Corrections, CorrectionNext(c), UNCHANGED <<planVars, repairVars>>
  PROVE  IInv'
BY PrepareCorrectionOK, ApplyChecksOK, AppliesOK, ApplyRefusedOK, ApplyUnrecordedOK,
   CorrectionQueuesOK, CorrectionSendsOK, CorrectionAckedOK, CorrectionVerifiedOK,
   CorrectionAppliedOK, CorrectionStopsOK, ObserveCorrectionOK, CancelCorrectionOK,
   ReconcileCorrectionOK DEF CorrectionNext, CorrectionStep

-----------------------------------------------------------------------------
(* The steps of a repair. *)

\* The invariant is kept, and no known end is forgotten.
RepairOK == IInv' /\ \A e \in Repairs : repair[e].over => repair'[e].over

(* A step of a repair preserves the invariant when it keeps the parts that it can disturb. *)
LEMMA RepairStepPreserves ==
  ASSUME IInv, NEW d \in Repairs,
         UNCHANGED <<content, edits, restarts, planVars, correctionVars>>,
         NEW r \in RepairRows, repair' = [repair EXCEPT ![d] = r],
         NEW h \in RepairRows, heldRow' = [heldRow EXCEPT ![d] = h],
         NEW k \in RepairRows, cancelRow' = [cancelRow EXCEPT ![d] = k],
         canceling' \subseteq Repairs,
         \A e \in Repairs \ {d} : (e \in canceling') = (e \in canceling),
         aborted' \subseteq Repairs, latest' \in Repairs,
         NEW x \in LeaseStates, lease' = [lease EXCEPT ![d] = x],
         NEW y \in RepairPcs, pc' = [pc EXCEPT ![d] = y],
         owner' = owner \/ owner' = Released(d) \/ Reserved(d), y # "off" => owner' = d,
         base' \in [Jobs -> Contents],
         net' \in [Jobs -> [Files -> NetStates]], sends' \in [Jobs -> Nat],
         \A j \in Jobs \ {d} : net'[j] = net[j], SentOnce',
         MayLand(d)' => x \in {"dispatched", "remote_pending", "uncertain"},
         MayLand(d)' => MayLand(d) \/ MayStillSend(d),
         y \in {"queued", "wire"} => MayStillSend(d) \/ Alone(d),
         repair[d].over => r.over,
         RepairInv(d)'
  PROVE  RepairOK
<1>1. /\ d \in Jobs /\ d \notin Plans /\ d \notin Corrections
      /\ DOMAIN lease = Jobs /\ DOMAIN pc = Jobs /\ DOMAIN repair = Repairs
      /\ DOMAIN heldRow = Repairs /\ DOMAIN cancelRow = Repairs
      /\ lease'[d] = x /\ pc'[d] = y /\ repair'[d] = r
  BY Kinds DEF IInv, TypeOK
<1>2. /\ \A j \in Jobs \ {d} : lease'[j] = lease[j] /\ pc'[j] = pc[j]
      /\ \A e \in Repairs \ {d} : /\ repair'[e] = repair[e] /\ heldRow'[e] = heldRow[e]
                                  /\ cancelRow'[e] = cancelRow[e]
  BY <1>1
<1>3. owner' \in Jobs \cup {Nobody}
  BY <1>1 DEF IInv, TypeOK, Released, Reserved
<1>4. \A j \in Jobs \ {d} : owner = j => owner' = j
  BY NobodyIsNoJob DEF Released, Reserved
<1>5. /\ lease' \in [Jobs -> LeaseStates] /\ repair' \in [Repairs -> RepairRows]
      /\ heldRow' \in [Repairs -> RepairRows] /\ cancelRow' \in [Repairs -> RepairRows]
  BY DEF IInv, TypeOK
<1>6. /\ pc' \in [Jobs -> PlanPcs \cup CorrectionPcs \cup RepairPcs]
      /\ \A p \in Plans : pc'[p] \in PlanPcs
      /\ \A c \in Corrections : pc'[c] \in CorrectionPcs
      /\ \A e \in Repairs : pc'[e] \in RepairPcs
  BY <1>1, <1>2, Kinds DEF IInv, TypeOK
<1>7. TypeOK'
  BY <1>3, <1>5, <1>6 DEF IInv, TypeOK, planVars, correctionVars
<1>8. OthersStay(d)
  BY <1>2, <1>4 DEF OthersStay
<1>9. StepOK(d)
  <2>1. MayLand(d)' => Open(d)' /\ (MayLand(d) \/ MayStillSend(d))
    BY <1>1 DEF Open
  <2>2. MayStillSend(d)' => MayStillSend(d) \/ Alone(d)
    <3>1. MayStillSend(d)' => y \in {"queued", "wire"}
      BY <1>1 DEF MayStillSend, RepairPcs
    <3> QED BY <3>1
  <2>3. pc'[d] # "off" => owner' = d
    BY <1>1
  <2> QED BY <1>7, <1>8, <2>1, <2>2, <2>3 DEF StepOK
<1>10. SharedInv' /\ AloneInv'
  BY <1>1, <1>9, SharedStep
<1>11. PlansStay(d) /\ UNCHANGED <<review, passed>>
  BY DEF PlansStay, planVars
<1>12. ReplacedInv'
  BY <1>1, <1>8, <1>11, ReplacedStep
<1>13. ASSUME NEW q \in Plans PROVE PlanInv(q)'
  BY <1>1, <1>2, Kinds, PlanFrame DEF planVars, IInv
<1>14. ASSUME NEW c \in Corrections PROVE CorrectionInv(c)'
  BY <1>1, <1>2, Kinds, CorrectionFrame DEF correctionVars, IInv
<1>15. ASSUME NEW e \in Repairs PROVE RepairInv(e)'
  <2>1. CASE e # d
    BY <2>1, <1>2, Kinds, RepairFrame DEF IInv
  <2> QED BY <2>1
<1>16. LatestInv'
  BY Kinds DEF LatestInv
<1>17. \A e \in Repairs : repair[e].over => repair'[e].over
  BY <1>1, <1>2
<1> QED BY <1>7, <1>9, <1>10, <1>12, <1>13, <1>14, <1>15, <1>16, <1>17 DEF IInv, StepOK, RepairOK

(* The same when no request moves. *)
LEMMA RepairQuietPreserves ==
  ASSUME IInv, NEW d \in Repairs,
         UNCHANGED <<content, net, sends, edits, restarts, planVars, correctionVars>>,
         NEW r \in RepairRows, repair' = [repair EXCEPT ![d] = r],
         NEW h \in RepairRows, heldRow' = [heldRow EXCEPT ![d] = h],
         NEW k \in RepairRows, cancelRow' = [cancelRow EXCEPT ![d] = k],
         canceling' \subseteq Repairs,
         \A e \in Repairs \ {d} : (e \in canceling') = (e \in canceling),
         aborted' \subseteq Repairs, latest' \in Repairs,
         NEW x \in LeaseStates, lease' = [lease EXCEPT ![d] = x],
         NEW y \in RepairPcs, pc' = [pc EXCEPT ![d] = y],
         owner' = owner \/ owner' = Released(d) \/ Reserved(d), y # "off" => owner' = d,
         base' \in [Jobs -> Contents],
         MayLand(d) => x \in {"dispatched", "remote_pending", "uncertain"},
         y \in {"queued", "wire"} => MayStillSend(d) \/ Alone(d),
         repair[d].over => r.over,
         RepairInv(d)'
  PROVE  RepairOK
<1>1. net' \in [Jobs -> [Files -> NetStates]] /\ sends' \in [Jobs -> Nat]
  BY DEF IInv, TypeOK
<1>2. SentOnce'
  BY NoSend DEF IInv
<1>3. MayLand(d)' = MayLand(d)
  BY DEF MayLand
<1> QED BY <1>1, <1>2, <1>3, RepairStepPreserves

(* What a repair looks like before a step. *)
LEMMA RepairBefore ==
  ASSUME IInv, NEW d \in Repairs
  PROVE  /\ RepairInv(d) /\ d \in Jobs
         /\ repair[d] \in RepairRows /\ heldRow[d] \in RepairRows /\ cancelRow[d] \in RepairRows
         /\ lease[d] \in LeaseStates /\ pc[d] \in RepairPcs
         /\ lease = [lease EXCEPT ![d] = lease[d]] /\ pc = [pc EXCEPT ![d] = pc[d]]
         /\ repair = [repair EXCEPT ![d] = repair[d]]
         /\ heldRow = [heldRow EXCEPT ![d] = heldRow[d]]
         /\ cancelRow = [cancelRow EXCEPT ![d] = cancelRow[d]]
         /\ base \in [Jobs -> Contents] /\ content \in Contents /\ content \in Hashes
         /\ canceling \subseteq Repairs /\ aborted \subseteq Repairs
         /\ repair[d].status # "none" => latest \in Repairs
         /\ pc[d] # "off" => owner = d
<1>1. d \in Jobs
  BY Kinds
<1>2. /\ repair[d] \in RepairRows /\ heldRow[d] \in RepairRows /\ cancelRow[d] \in RepairRows
      /\ lease[d] \in LeaseStates /\ pc[d] \in RepairPcs
  BY <1>1 DEF IInv, TypeOK
<1>3. /\ lease = [lease EXCEPT ![d] = lease[d]] /\ pc = [pc EXCEPT ![d] = pc[d]]
      /\ repair = [repair EXCEPT ![d] = repair[d]]
      /\ heldRow = [heldRow EXCEPT ![d] = heldRow[d]]
      /\ cancelRow = [cancelRow EXCEPT ![d] = cancelRow[d]]
  BY DEF IInv, TypeOK
<1>4. repair[d].status # "none" => latest \in Repairs
  BY DEF IInv, LatestInv, TypeOK
<1>5. content \in Contents /\ content \in Hashes
  BY DEF IInv, TypeOK, Hashes
<1> QED BY <1>1, <1>2, <1>3, <1>4, <1>5 DEF IInv, TypeOK, SharedInv

(* While its request may still change the branch, the repair is unresolved. *)
LEMMA MayLandIsUnresolved ==
  ASSUME IInv, NEW d \in Repairs, MayLand(d)
  PROVE  /\ Unresolved(repair[d]) /\ repair[d].sent /\ ~ repair[d].over
         /\ lease[d] \in {"dispatched", "remote_pending", "uncertain"}
<1>1. RepairInv(d) /\ d \in Jobs
  BY RepairBefore
<1>2. net[d][1] # "none"
  BY <1>1 DEF MayLand, RepairInv
<1>3. Open(d)
  BY <1>1 DEF IInv, SharedInv, LateWritesAreCovered
<1> QED BY <1>1, <1>2, <1>3 DEF RepairInv, Unresolved, Open

(* The empty row. *)
LEMMA NoRepairIsARow == NoRepair \in RepairRows
BY DEF NoRepair, RepairRows, RepairStatuses, Hashes, NoHash

(* A handler of a repair that ends with a row in line with the one it found. *)
LEMMA HandlerEndsOK ==
  ASSUME IInv, NEW d \in Repairs, pc[d] # "off", RepairOff(d),
         UNCHANGED <<content, base, net, sends, edits, restarts, cancelRow, canceling, latest>>,
         UNCHANGED <<planVars, correctionVars>>,
         aborted' \subseteq Repairs,
         NEW r \in RepairRows, repair' = [repair EXCEPT ![d] = r],
         r.api = repair[d].api, r.started, r.intent = repair[d].intent, r.sent = repair[d].sent,
         r.known = repair[d].known \/ (~ repair[d].known /\ repair[d].sent),
         r.status # "none",
         repair[d].over => r.over, r.over => ~ MayLand(d),
         r.status = "accepted" => r.valid = r.hash /\ ~ Unresolved(r),
         NEW x \in LeaseStates, lease' = [lease EXCEPT ![d] = x],
         MayLand(d) => x \in {"dispatched", "remote_pending", "uncertain"}
  PROVE  RepairOK
<1>1. /\ RepairInv(d) /\ d \in Jobs /\ lease'[d] = x /\ repair'[d] = r /\ pc'[d] = "off"
      /\ repair[d].started /\ repair[d].status # "none"
  BY RepairBefore DEF IInv, TypeOK, RepairOff, RepairInv
<1>2. d \in canceling => Core(cancelRow[d]) = Core(r) /\ r.known
  BY <1>1 DEF RepairInv, Core
<1>3. MayLand(d)' = MayLand(d)
  BY DEF MayLand
<1>4. RepairInv(d)'
  BY <1>1, <1>2, <1>3 DEF RepairInv, Unresolved
<1>5. /\ pc' = [pc EXCEPT ![d] = "off"] /\ heldRow' = [heldRow EXCEPT ![d] = NoRepair]
      /\ owner' = Released(d) /\ "off" \in RepairPcs
      /\ latest' \in Repairs /\ canceling' \subseteq Repairs
      /\ cancelRow' = [cancelRow EXCEPT ![d] = cancelRow[d]]
      /\ base' \in [Jobs -> Contents]
  BY <1>1, RepairBefore DEF RepairOff, RepairPcs
<1> QED BY <1>1, <1>4, <1>5, NoRepairIsARow, RepairBefore, RepairQuietPreserves

(* The row that a handler holds is the stored one but for cancellation, status and hashes. *)
LEMMA HeldRow ==
  ASSUME IInv, NEW d \in Repairs, pc[d] # "off"
  PROVE  /\ heldRow[d].api = repair[d].api /\ heldRow[d].started = repair[d].started
         /\ heldRow[d].intent = repair[d].intent /\ heldRow[d].sent = repair[d].sent
         /\ heldRow[d].known = repair[d].known /\ heldRow[d].over = repair[d].over
         /\ repair[d].started /\ repair[d].status # "none"
         /\ lease[d] # "none" => lease[d] \in LeaseStates
BY RepairBefore DEF RepairInv, Core

(* The guard stops the request, which was not sent. *)
LEMMA RepairNotSentOK ==
  ASSUME IInv, NEW d \in Repairs, RepairNotSent(d), UNCHANGED <<planVars, correctionVars>>
  PROVE  RepairOK
<1>1. /\ pc[d] = "queued" /\ RepairInv(d) /\ heldRow[d] \in RepairRows /\ repair[d] \in RepairRows
      /\ ~ repair[d].sent /\ aborted' \subseteq Repairs
  BY RepairBefore DEF RepairNotSent, RepairInv
<1>2. PICK r \in RepairRows :
        /\ repair' = [repair EXCEPT ![d] = r]
        /\ r.api = heldRow[d].api /\ r.started = heldRow[d].started /\ r.intent = heldRow[d].intent
        /\ r.sent = heldRow[d].sent /\ r.known = heldRow[d].known
        /\ r.over /\ r.status = "needs_input"
  <2> DEFINE r == [heldRow[d] EXCEPT !.cancel = repair[d].cancel, !.over = TRUE, !.status = "needs_input"]
  <2>1. /\ r \in RepairRows
        /\ r.api = heldRow[d].api /\ r.started = heldRow[d].started /\ r.intent = heldRow[d].intent
        /\ r.sent = heldRow[d].sent /\ r.known = heldRow[d].known
        /\ r.over /\ r.status = "needs_input"
    BY <1>1 DEF RepairRows, RepairStatuses
  <2> HIDE DEF r
  <2>2. repair' = [repair EXCEPT ![d] = r]
    BY DEF RepairNotSent, r
  <2> QED BY <2>1, <2>2
<1>3. PICK x \in LeaseStates : lease' = [lease EXCEPT ![d] = x]
  <2>1. "failed_prewrite" \in LeaseStates
    BY DEF LeaseStates
  <2> QED BY <2>1, RepairBefore, MirroredLease DEF RepairNotSent, RepairMirrored, IInv
<1>4. ~ MayLand(d)
  BY <1>1, MayLandIsUnresolved
<1> QED BY <1>1, <1>2, <1>3, <1>4, HeldRow, HandlerEndsOK DEF RepairNotSent

(* Its end is not known yet. *)
LEMMA RepairAnsweredOK ==
  ASSUME IInv, NEW d \in Repairs, RepairAnswered(d), UNCHANGED <<planVars, correctionVars>>
  PROVE  RepairOK
<1>1. /\ pc[d] = "wire" /\ RepairInv(d) /\ heldRow[d] \in RepairRows /\ repair[d] \in RepairRows
      /\ net[d][1] # "none" /\ aborted' \subseteq Repairs /\ repair[d].sent
      /\ ~ repair[d].known /\ ~ repair[d].over
  BY RepairBefore DEF RepairAnswered, RepairInv
<1>2. PICK r \in RepairRows :
        /\ repair' = [repair EXCEPT ![d] = r]
        /\ r.api = heldRow[d].api /\ r.started = heldRow[d].started /\ r.intent = heldRow[d].intent
        /\ r.sent = heldRow[d].sent /\ r.known
        /\ r.over = heldRow[d].over /\ r.status \in {"uncertain", "running"}
  <2> DEFINE r == [heldRow[d] EXCEPT !.cancel = repair[d].cancel, !.known = TRUE,
                     !.status = IF repair[d].cancel THEN "uncertain" ELSE "running"]
  <2>1. /\ r \in RepairRows
        /\ r.api = heldRow[d].api /\ r.started = heldRow[d].started /\ r.intent = heldRow[d].intent
        /\ r.sent = heldRow[d].sent /\ r.known
        /\ r.over = heldRow[d].over /\ r.status \in {"uncertain", "running"}
    BY <1>1 DEF RepairRows, RepairStatuses
  <2> HIDE DEF r
  <2>2. repair' = [repair EXCEPT ![d] = r]
    BY DEF RepairAnswered, r
  <2> QED BY <2>1, <2>2
<1>3. PICK x \in LeaseStates : /\ lease' = [lease EXCEPT ![d] = x]
                               /\ lease[d] # "none" => x \in {"uncertain", "remote_pending"}
  <2>1. PICK s \in {"uncertain", "remote_pending"} : RepairMirrored(d, s)
    BY DEF RepairAnswered
  <2>2. s \in LeaseStates
    BY DEF LeaseStates
  <2> QED BY <2>1, <2>2, RepairBefore, MirroredLease DEF RepairMirrored, IInv
<1>4. MayLand(d) => x \in {"dispatched", "remote_pending", "uncertain"}
  BY <1>3, MayLandIsUnresolved
<1> QED BY <1>1, <1>2, <1>3, <1>4, HeldRow, HandlerEndsOK DEF RepairAnswered

(* It may be at work without an answer. *)
LEMMA RepairLostOK ==
  ASSUME IInv, NEW d \in Repairs, RepairLost(d), UNCHANGED <<planVars, correctionVars>>
  PROVE  RepairOK
<1>1. /\ pc[d] = "wire" /\ RepairInv(d) /\ heldRow[d] \in RepairRows /\ repair[d] \in RepairRows
      /\ aborted' \subseteq Repairs /\ ~ repair[d].over
  BY RepairBefore DEF RepairLost, RepairInv
<1>2. PICK r \in RepairRows :
        /\ repair' = [repair EXCEPT ![d] = r]
        /\ r.api = heldRow[d].api /\ r.started = heldRow[d].started /\ r.intent = heldRow[d].intent
        /\ r.sent = heldRow[d].sent /\ r.known = heldRow[d].known
        /\ r.over = heldRow[d].over /\ r.status = "uncertain"
  <2> DEFINE r == [heldRow[d] EXCEPT !.cancel = repair[d].cancel, !.status = "uncertain"]
  <2>1. /\ r \in RepairRows
        /\ r.api = heldRow[d].api /\ r.started = heldRow[d].started /\ r.intent = heldRow[d].intent
        /\ r.sent = heldRow[d].sent /\ r.known = heldRow[d].known
        /\ r.over = heldRow[d].over /\ r.status = "uncertain"
    BY <1>1 DEF RepairRows, RepairStatuses
  <2> HIDE DEF r
  <2>2. repair' = [repair EXCEPT ![d] = r]
    BY DEF RepairLost, r
  <2> QED BY <2>1, <2>2
<1>3. PICK x \in LeaseStates : /\ lease' = [lease EXCEPT ![d] = x]
                               /\ lease[d] # "none" => x = "uncertain"
  <2>1. "uncertain" \in LeaseStates
    BY DEF LeaseStates
  <2> QED BY <2>1, RepairBefore, MirroredLease DEF RepairLost, RepairMirrored, IInv
<1>4. MayLand(d) => x \in {"dispatched", "remote_pending", "uncertain"}
  BY <1>3, MayLandIsUnresolved
<1>5. /\ r.api = repair[d].api /\ r.started /\ r.intent = repair[d].intent /\ r.sent = repair[d].sent
      /\ r.known = repair[d].known /\ ~ r.over /\ r.status = "uncertain"
  BY <1>1, <1>2, HeldRow
<1> QED BY <1>1, <1>2, <1>3, <1>4, <1>5, HandlerEndsOK DEF RepairLost

(* Nothing is stored. *)
LEMMA ObservationFailsOK ==
  ASSUME IInv, NEW d \in Repairs, ObservationFails(d), UNCHANGED <<planVars, correctionVars>>
  PROVE  RepairOK
<1>1. /\ pc[d] # "off" /\ RepairInv(d) /\ repair[d] \in RepairRows /\ lease[d] \in LeaseStates
      /\ aborted' \subseteq Repairs
  BY RepairBefore DEF ObservationFails
<1>2. /\ repair[d].started /\ repair[d].status # "none" /\ (repair[d].over => ~ MayLand(d))
      /\ (repair[d].status = "accepted" => repair[d].valid = repair[d].hash /\ ~ Unresolved(repair[d]))
  BY <1>1, HeldRow DEF RepairInv
<1>3. repair' = [repair EXCEPT ![d] = repair[d]] /\ lease' = [lease EXCEPT ![d] = lease[d]]
  BY RepairBefore DEF ObservationFails
<1>4. MayLand(d) => lease[d] \in {"dispatched", "remote_pending", "uncertain"}
  BY MayLandIsUnresolved
<1> QED BY <1>1, <1>2, <1>3, <1>4, HandlerEndsOK DEF ObservationFails

(* An observation begins with the stored row. *)
LEMMA ObservesOK ==
  ASSUME IInv, NEW d \in Repairs, NEW kind \in {"inspecting", "validating", "accepting"},
         Observes(d, kind), kind # "inspecting" => ~ Unresolved(repair[d]),
         UNCHANGED <<planVars, correctionVars>>
  PROVE  RepairOK
<1>1. /\ RepairInv(d) /\ pc[d] = "off" /\ repair[d].started /\ repair[d].status # "none"
      /\ owner' = d /\ kind \in RepairPcs /\ d \in Jobs
      /\ pc' = [pc EXCEPT ![d] = kind] /\ heldRow' = [heldRow EXCEPT ![d] = repair[d]]
      /\ pc'[d] = kind /\ heldRow'[d] = repair[d]
      /\ UNCHANGED <<lease, content, base, net, sends, edits, restarts,
                     repair, cancelRow, canceling, aborted, latest>>
  BY RepairBefore DEF Observes, Reserved, RepairPcs, RepairInv, IInv, TypeOK
<1>2. MayLand(d)' = MayLand(d)
  BY <1>1 DEF MayLand
<1>3. RepairInv(d)'
  BY <1>1, <1>2 DEF RepairInv, Unresolved, Core
<1>4. MayLand(d) => lease[d] \in {"dispatched", "remote_pending", "uncertain"}
  BY MayLandIsUnresolved
<1>5. Reserved(d)
  BY DEF Observes
<1>6. /\ repair' = [repair EXCEPT ![d] = repair[d]] /\ lease' = [lease EXCEPT ![d] = lease[d]]
      /\ cancelRow' = [cancelRow EXCEPT ![d] = cancelRow[d]]
      /\ base' \in [Jobs -> Contents] /\ latest' \in Repairs
      /\ canceling' \subseteq Repairs /\ aborted' \subseteq Repairs
      /\ \A e \in Repairs \ {d} : (e \in canceling') = (e \in canceling)
  BY <1>1, RepairBefore
<1>7. repair[d] \in RepairRows /\ cancelRow[d] \in RepairRows /\ lease[d] \in LeaseStates
  BY RepairBefore
<1> QED BY <1>1, <1>3, <1>4, <1>5, <1>6, <1>7, RepairQuietPreserves

(* The readback keeps what is known of the AI job. *)
LEMMA ReadBackRow ==
  ASSUME NEW r \in RepairRows, NEW found \in Contents, NEW blocked, NEW at
  PROVE  LET new == ReadBack(r, found, blocked, at)
         IN  /\ new \in RepairRows
             /\ new.api = r.api /\ new.started = r.started /\ new.intent = r.intent
             /\ new.sent = r.sent /\ new.known = r.known /\ new.over = r.over
             /\ new.status \in {"uncertain", "needs_input", "review"}
             /\ new.hash = found
             /\ found = r.hash => new.valid = r.valid
             /\ Unresolved(new) = Unresolved(r)
<1>1. /\ found \in Hashes /\ NoHash \in Hashes
      /\ (IF r.hash = found THEN r.valid ELSE NoHash) \in Hashes
      /\ (IF Unresolved(r) THEN "uncertain" ELSE IF blocked \/ found = at THEN "needs_input" ELSE "review")
           \in {"uncertain", "needs_input", "review"}
      /\ {"uncertain", "needs_input", "review"} \subseteq RepairStatuses
  BY DEF Hashes, RepairRows, RepairStatuses
<1> DEFINE v == IF r.hash = found THEN r.valid ELSE NoHash
           s == IF Unresolved(r) THEN "uncertain" ELSE IF blocked \/ found = at THEN "needs_input" ELSE "review"
           new == [r EXCEPT !.hash = found, !.valid = v, !.inspected = TRUE, !.status = s]
<1>2. ReadBack(r, found, blocked, at) = new
  BY DEF ReadBack
<1>3. v \in Hashes /\ s \in {"uncertain", "needs_input", "review"} /\ s \in RepairStatuses
      /\ (found = r.hash => v = r.valid)
  BY <1>1
<1> HIDE DEF v, s
<1>4. /\ new \in RepairRows
      /\ new.api = r.api /\ new.started = r.started /\ new.intent = r.intent
      /\ new.sent = r.sent /\ new.known = r.known /\ new.over = r.over
      /\ new.status = s /\ new.hash = found /\ new.valid = v
  BY <1>1, <1>3 DEF RepairRows
<1> HIDE DEF new
<1>5. Unresolved(new) = Unresolved(r)
  BY <1>4 DEF Unresolved
<1> QED BY <1>2, <1>3, <1>4, <1>5

(* The AI job is at work. *)
LEMMA InspectPendingOK ==
  ASSUME IInv, NEW d \in Repairs, InspectPending(d), UNCHANGED <<planVars, correctionVars>>
  PROVE  RepairOK
<1>1. /\ pc[d] = "inspecting" /\ RepairInv(d) /\ heldRow[d] \in RepairRows
      /\ aborted' \subseteq Repairs /\ ~ heldRow[d].over
  BY RepairBefore DEF InspectPending, Stored, Unresolved
<1>2. PICK s \in {"uncertain", "running"} :
        /\ Stored(d, [heldRow[d] EXCEPT !.status = s])
        /\ RepairMirrored(d, IF s = "running" THEN "remote_pending" ELSE "uncertain")
  BY DEF InspectPending
<1>3. PICK r \in RepairRows :
        /\ repair' = [repair EXCEPT ![d] = r]
        /\ r.api = heldRow[d].api /\ r.started = heldRow[d].started /\ r.intent = heldRow[d].intent
        /\ r.sent = heldRow[d].sent /\ r.known = heldRow[d].known
        /\ r.over = heldRow[d].over /\ r.status = s
  <2> DEFINE r == [heldRow[d] EXCEPT !.status = s]
  <2>1. /\ r \in RepairRows
        /\ r.api = heldRow[d].api /\ r.started = heldRow[d].started /\ r.intent = heldRow[d].intent
        /\ r.sent = heldRow[d].sent /\ r.known = heldRow[d].known
        /\ r.over = heldRow[d].over /\ r.status = s
    BY <1>1 DEF RepairRows, RepairStatuses
  <2>2. repair' = [repair EXCEPT ![d] = r]
    BY <1>2 DEF Stored
  <2> QED BY <2>1, <2>2
<1>4. PICK x \in LeaseStates : /\ lease' = [lease EXCEPT ![d] = x]
                               /\ lease[d] # "none" => x \in {"uncertain", "remote_pending"}
  <2>1. PICK t \in {"uncertain", "remote_pending"} : RepairMirrored(d, t)
    BY <1>2
  <2>2. t \in LeaseStates
    BY DEF LeaseStates
  <2> QED BY <2>1, <2>2, RepairBefore, MirroredLease DEF RepairMirrored, IInv
<1>5. MayLand(d) => x \in {"dispatched", "remote_pending", "uncertain"}
  BY <1>4, MayLandIsUnresolved
<1>6. /\ r.api = repair[d].api /\ r.started /\ r.intent = repair[d].intent /\ r.sent = repair[d].sent
      /\ r.known = repair[d].known /\ r.over = repair[d].over /\ ~ r.over
      /\ r.status # "none" /\ r.status # "accepted"
  BY <1>1, <1>3, HeldRow
<1> QED BY <1>1, <1>2, <1>3, <1>4, <1>5, <1>6, HandlerEndsOK DEF Stored

(* The end of the AI job is the end of its request, and only then is the lease given up. *)
LEMMA InspectReadOK ==
  ASSUME IInv, NEW d \in Repairs, InspectRead(d), UNCHANGED <<planVars, correctionVars>>
  PROVE  RepairOK
<1>1. /\ pc[d] = "inspecting" /\ RepairInv(d) /\ heldRow[d] \in RepairRows
      /\ content \in Contents
  BY RepairBefore DEF InspectRead
<1>2. PICK over \in BOOLEAN, blocked \in BOOLEAN :
        /\ over => net[d][1] = "landed"
        /\ LET seen == [heldRow[d] EXCEPT !.over = @ \/ over]
               new == ReadBack(seen, content, blocked, base[d])
           IN Stored(d, new) /\ RepairMirrored(d, IF Unresolved(new) THEN "uncertain" ELSE "resolved")
  BY DEF InspectRead
<1> DEFINE seen == [heldRow[d] EXCEPT !.over = @ \/ over]
           r == ReadBack(seen, content, blocked, base[d])
<1>3. /\ seen \in RepairRows
      /\ seen.api = heldRow[d].api /\ seen.started = heldRow[d].started
      /\ seen.intent = heldRow[d].intent /\ seen.sent = heldRow[d].sent
      /\ seen.known = heldRow[d].known /\ seen.over = (heldRow[d].over \/ over)
  BY <1>1 DEF RepairRows
<1> HIDE DEF seen
<1>4. /\ r \in RepairRows
      /\ r.api = seen.api /\ r.started = seen.started /\ r.intent = seen.intent
      /\ r.sent = seen.sent /\ r.known = seen.known /\ r.over = seen.over
      /\ r.status \in {"uncertain", "needs_input", "review"}
  BY <1>1, <1>3, ReadBackRow
<1>5. Stored(d, r) /\ RepairMirrored(d, IF Unresolved(r) THEN "uncertain" ELSE "resolved")
  BY <1>2 DEF seen
<1> HIDE DEF r
<1>6. /\ r.api = repair[d].api /\ r.started /\ r.intent = repair[d].intent /\ r.sent = repair[d].sent
      /\ r.known = repair[d].known /\ r.over = (repair[d].over \/ over)
      /\ r.status # "none" /\ r.status # "accepted"
  BY <1>1, <1>3, <1>4, HeldRow
<1>7. over => ~ MayLand(d)
  BY <1>1, <1>2 DEF RepairInv, MayLand
<1>8. repair[d].over => ~ MayLand(d)
  BY <1>1 DEF RepairInv
<1>9. MayLand(d) => Unresolved(r)
  BY <1>6, <1>7, MayLandIsUnresolved DEF Unresolved
<1>10. PICK x \in LeaseStates :
         /\ lease' = [lease EXCEPT ![d] = x]
         /\ lease[d] # "none" => x = IF Unresolved(r) THEN "uncertain" ELSE "resolved"
  <2>1. (IF Unresolved(r) THEN "uncertain" ELSE "resolved") \in LeaseStates
    BY DEF LeaseStates
  <2> QED BY <1>5, <2>1, RepairBefore, MirroredLease DEF RepairMirrored, IInv
<1>11. MayLand(d) => x \in {"dispatched", "remote_pending", "uncertain"}
  BY <1>9, <1>10, MayLandIsUnresolved
<1>12. repair' = [repair EXCEPT ![d] = r] /\ aborted' \subseteq Repairs
  BY <1>5, RepairBefore DEF Stored
<1> QED BY <1>1, <1>4, <1>5, <1>6, <1>7, <1>8, <1>10, <1>11, <1>12, HandlerEndsOK DEF Stored

(* The branch is read before the validation. *)
LEMMA ValidateReadsOK ==
  ASSUME IInv, NEW d \in Repairs, ValidateReads(d), UNCHANGED <<planVars, correctionVars>>
  PROVE  RepairOK
<1>1. /\ pc[d] = "validating" /\ RepairInv(d) /\ heldRow[d] \in RepairRows /\ content \in Contents
      /\ ~ Unresolved(heldRow[d]) /\ d \in Jobs
      /\ UNCHANGED <<lease, owner, content, base, net, sends, edits, restarts,
                     repair, cancelRow, canceling, aborted, latest>>
  BY RepairBefore DEF ValidateReads, RepairInv
<1>2. PICK h \in RepairRows :
        /\ heldRow' = [heldRow EXCEPT ![d] = h]
        /\ h.api = heldRow[d].api /\ h.started = heldRow[d].started /\ h.intent = heldRow[d].intent
        /\ h.sent = heldRow[d].sent /\ h.known = heldRow[d].known
        /\ h.over = heldRow[d].over /\ ~ Unresolved(h)
  <2>1. PICK blocked \in BOOLEAN :
          heldRow' = [heldRow EXCEPT ![d] = ReadBack(heldRow[d], content, blocked, base[d])]
    BY DEF ValidateReads, IInv, TypeOK
  <2> DEFINE h == ReadBack(heldRow[d], content, blocked, base[d])
  <2>2. /\ h \in RepairRows
        /\ h.api = heldRow[d].api /\ h.started = heldRow[d].started /\ h.intent = heldRow[d].intent
        /\ h.sent = heldRow[d].sent /\ h.known = heldRow[d].known
        /\ h.over = heldRow[d].over /\ ~ Unresolved(h)
    BY <1>1, ReadBackRow
  <2> QED BY <2>1, <2>2
<1>3. /\ pc' = [pc EXCEPT ![d] = "revalidating"] /\ pc'[d] = "revalidating" /\ heldRow'[d] = h
      /\ "revalidating" \in RepairPcs /\ owner' = d
  BY <1>1, <1>2, RepairBefore DEF ValidateReads, RepairPcs, IInv, TypeOK
<1>4. MayLand(d)' = MayLand(d)
  BY <1>1 DEF MayLand
<1>5. Core(h) = Core(heldRow[d]) /\ h.over = heldRow[d].over
  BY <1>2 DEF Core
<1>6. RepairInv(d)'
  BY <1>1, <1>2, <1>3, <1>4, <1>5 DEF RepairInv, Unresolved, Core
<1>7. MayLand(d) => lease[d] \in {"dispatched", "remote_pending", "uncertain"}
  BY MayLandIsUnresolved
<1>8. /\ repair' = [repair EXCEPT ![d] = repair[d]] /\ lease' = [lease EXCEPT ![d] = lease[d]]
      /\ cancelRow' = [cancelRow EXCEPT ![d] = cancelRow[d]]
      /\ base' \in [Jobs -> Contents] /\ latest' \in Repairs
      /\ canceling' \subseteq Repairs /\ aborted' \subseteq Repairs
      /\ \A e \in Repairs \ {d} : (e \in canceling') = (e \in canceling)
  BY <1>1, RepairBefore, HeldRow
<1>9. repair[d] \in RepairRows /\ cancelRow[d] \in RepairRows /\ lease[d] \in LeaseStates
  BY RepairBefore
<1> QED BY <1>1, <1>2, <1>3, <1>6, <1>7, <1>8, <1>9, RepairQuietPreserves

(* A row that only differs in what was read and concluded is stored; the lease stays. *)
LEMMA StoredAsReadOK ==
  ASSUME IInv, NEW d \in Repairs, pc[d] # "off", NEW r \in RepairRows, Stored(d, r),
         r.api = heldRow[d].api, r.started = heldRow[d].started, r.intent = heldRow[d].intent,
         r.sent = heldRow[d].sent, r.known = heldRow[d].known, r.over = heldRow[d].over,
         r.status \notin {"none", "accepted"},
         UNCHANGED lease, UNCHANGED <<planVars, correctionVars>>
  PROVE  RepairOK
<1>1. /\ RepairInv(d) /\ lease[d] \in LeaseStates /\ lease' = [lease EXCEPT ![d] = lease[d]]
      /\ aborted' \subseteq Repairs /\ repair' = [repair EXCEPT ![d] = r]
  BY RepairBefore DEF Stored
<1>2. MayLand(d) => lease[d] \in {"dispatched", "remote_pending", "uncertain"}
  BY MayLandIsUnresolved
<1>3. /\ r.api = repair[d].api /\ r.started /\ r.intent = repair[d].intent /\ r.sent = repair[d].sent
      /\ r.known = repair[d].known /\ r.over = repair[d].over
      /\ r.over => ~ MayLand(d)
  BY <1>1, HeldRow DEF RepairInv
<1> QED BY <1>1, <1>2, <1>3, HandlerEndsOK DEF Stored

(* The result of the validation. *)
LEMMA ValidatedOK ==
  ASSUME IInv, NEW d \in Repairs, Validated(d), UNCHANGED <<planVars, correctionVars>>
  PROVE  RepairOK
<1>1. /\ pc[d] = "revalidating" /\ heldRow[d] \in RepairRows /\ content \in Contents
      /\ content \in Hashes /\ NoHash \in Hashes /\ UNCHANGED lease
  BY RepairBefore DEF Validated, Hashes
<1>2. PICK blocked \in BOOLEAN, passes \in BOOLEAN :
        LET new == ReadBack(heldRow[d], content, blocked, base[d])
        IN Stored(d, IF content # heldRow[d].hash THEN new
                     ELSE [new EXCEPT !.valid = IF passes THEN content ELSE NoHash,
                                      !.status = IF passes /\ ~ blocked THEN "review" ELSE @])
  BY DEF Validated
<1> DEFINE new == ReadBack(heldRow[d], content, blocked, base[d])
<1>3. /\ new \in RepairRows
      /\ new.api = heldRow[d].api /\ new.started = heldRow[d].started
      /\ new.intent = heldRow[d].intent /\ new.sent = heldRow[d].sent
      /\ new.known = heldRow[d].known /\ new.over = heldRow[d].over
      /\ new.status \in {"uncertain", "needs_input", "review"}
  BY <1>1, ReadBackRow
<1> HIDE DEF new
<1>4. PICK v \in Hashes, s \in {"uncertain", "needs_input", "review"} :
        Stored(d, IF content # heldRow[d].hash THEN new ELSE [new EXCEPT !.valid = v, !.status = s])
  <2> DEFINE v == IF passes THEN content ELSE NoHash
             s == IF passes /\ ~ blocked THEN "review" ELSE new.status
  <2>1. v \in Hashes /\ s \in {"uncertain", "needs_input", "review"}
    BY <1>1, <1>3
  <2>2. Stored(d, IF content # heldRow[d].hash THEN new ELSE [new EXCEPT !.valid = v, !.status = s])
    BY <1>2 DEF new
  <2> HIDE DEF v, s
  <2> QED BY <2>1, <2>2
<1> DEFINE r == IF content # heldRow[d].hash THEN new ELSE [new EXCEPT !.valid = v, !.status = s]
<1>5. /\ r \in RepairRows
      /\ r.api = new.api /\ r.started = new.started
      /\ r.intent = new.intent /\ r.sent = new.sent
      /\ r.known = new.known /\ r.over = new.over
      /\ r.status \in {"uncertain", "needs_input", "review"}
  <2>1. CASE content # heldRow[d].hash
    BY <2>1, <1>3
  <2>2. CASE content = heldRow[d].hash
    <3>1. r = [new EXCEPT !.valid = v, !.status = s]
      BY <2>2
    <3>2. s \in RepairStatuses
      BY DEF RepairStatuses
    <3> HIDE DEF r
    <3> QED BY <3>1, <3>2, <1>3 DEF RepairRows
  <2> QED BY <2>1, <2>2
<1> HIDE DEF r
<1>6. Stored(d, r)
  BY <1>4 DEF r
<1> QED BY <1>1, <1>3, <1>5, <1>6, StoredAsReadOK

(* What was validated is what is there, and the AI job is over. *)
LEMMA AcceptsOK ==
  ASSUME IInv, NEW d \in Repairs, Accepts(d), UNCHANGED <<planVars, correctionVars>>
  PROVE  RepairOK
<1>1. /\ pc[d] = "accepting" /\ RepairInv(d) /\ heldRow[d] \in RepairRows /\ content \in Contents
      /\ ~ Unresolved(heldRow[d])
  BY RepairBefore DEF Accepts, RepairInv
<1>2a. PICK no \in BOOLEAN : ~ no
  OBVIOUS
<1> DEFINE new == ReadBack(heldRow[d], content, no, base[d])
<1>2. /\ new \in RepairRows
      /\ new.api = heldRow[d].api /\ new.started = heldRow[d].started
      /\ new.intent = heldRow[d].intent /\ new.sent = heldRow[d].sent
      /\ new.known = heldRow[d].known /\ new.over = heldRow[d].over
      /\ new.hash = content /\ (content = heldRow[d].hash => new.valid = heldRow[d].valid)
      /\ Unresolved(new) = Unresolved(heldRow[d])
  BY <1>1, ReadBackRow
<1>3. /\ new.hash = heldRow[d].hash /\ heldRow[d].valid = heldRow[d].hash
      /\ Stored(d, [new EXCEPT !.status = "accepted"])
      /\ RepairMirrored(d, "resolved")
  <2>1. ReadBack(heldRow[d], content, FALSE, base[d]) = new
    BY <1>2a DEF ReadBack
  <2> HIDE DEF new
  <2> QED BY <2>1 DEF Accepts
<1> HIDE DEF new
<1> DEFINE r == [new EXCEPT !.status = "accepted"]
<1>4. /\ r \in RepairRows
      /\ r.api = new.api /\ r.started = new.started /\ r.intent = new.intent /\ r.sent = new.sent
      /\ r.known = new.known /\ r.over = new.over /\ r.status = "accepted"
      /\ r.hash = new.hash /\ r.valid = new.valid
  BY <1>2 DEF RepairRows, RepairStatuses
<1>5. Stored(d, r)
  BY <1>3
<1> HIDE DEF r
<1>6. /\ r.api = repair[d].api /\ r.started /\ r.intent = repair[d].intent /\ r.sent = repair[d].sent
      /\ r.known = repair[d].known /\ r.over = repair[d].over /\ r.status # "none"
      /\ r.valid = r.hash
  BY <1>1, <1>2, <1>3, <1>4, HeldRow
<1>7. ~ Unresolved(r)
  BY <1>1, <1>2, <1>4 DEF Unresolved
<1>8. ~ MayLand(d)
  BY <1>6, <1>7, MayLandIsUnresolved DEF Unresolved
<1>9. PICK x \in LeaseStates : lease' = [lease EXCEPT ![d] = x]
  <2>1. "resolved" \in LeaseStates
    BY DEF LeaseStates
  <2> QED BY <1>3, <2>1, RepairBefore, MirroredLease DEF RepairMirrored, IInv
<1>10. repair' = [repair EXCEPT ![d] = r] /\ aborted' \subseteq Repairs
  BY <1>5, RepairBefore DEF Stored
<1> QED BY <1>1, <1>4, <1>5, <1>6, <1>7, <1>8, <1>9, <1>10, HandlerEndsOK DEF Stored

(* They differ: what was read is stored. *)
LEMMA AcceptRefusedOK ==
  ASSUME IInv, NEW d \in Repairs, AcceptRefused(d), UNCHANGED <<planVars, correctionVars>>
  PROVE  RepairOK
<1>1. pc[d] = "accepting" /\ heldRow[d] \in RepairRows /\ content \in Contents /\ UNCHANGED lease
  BY RepairBefore DEF AcceptRefused
<1>2. PICK blocked \in BOOLEAN : Stored(d, ReadBack(heldRow[d], content, blocked, base[d]))
  BY DEF AcceptRefused
<1> DEFINE r == ReadBack(heldRow[d], content, blocked, base[d])
<1>3. /\ r \in RepairRows
      /\ r.api = heldRow[d].api /\ r.started = heldRow[d].started
      /\ r.intent = heldRow[d].intent /\ r.sent = heldRow[d].sent
      /\ r.known = heldRow[d].known /\ r.over = heldRow[d].over
      /\ r.status \in {"uncertain", "needs_input", "review"}
  BY <1>1, ReadBackRow
<1>4. Stored(d, r)
  BY <1>2
<1> HIDE DEF r
<1> QED BY <1>1, <1>3, <1>4, StoredAsReadOK

(* What a repair that was not started cannot have. *)
LEMMA NotStarted ==
  ASSUME IInv, NEW d \in Repairs, ~ repair[d].started
  PROVE  /\ pc[d] = "off" /\ d \notin canceling /\ lease[d] = "none"
         /\ ~ repair[d].intent /\ ~ repair[d].sent /\ ~ repair[d].known /\ ~ repair[d].over
         /\ \A f \in Files : net[d][f] = "none"
         /\ ~ MayLand(d)
BY RepairBefore, MayLandIsUnresolved DEF RepairInv, Unresolved

(* A new pass, or a fresh context for one that was not started. *)
LEMMA PrepareRepairOK ==
  ASSUME IInv, NEW d \in Repairs, PrepareRepair(d), UNCHANGED <<planVars, correctionVars>>
  PROVE  RepairOK
<1>1. ~ repair[d].started
  <2>1. RepairInv(d)
    BY RepairBefore
  <2> QED BY <2>1 DEF PrepareRepair, IInv, LatestInv, RepairInv
<1>2. PICK r \in RepairRows :
        /\ repair' = [repair EXCEPT ![d] = r] /\ repair'[d] = r
        /\ ~ r.started /\ ~ r.intent /\ ~ r.sent /\ ~ r.known /\ ~ r.over
        /\ r.status = "ready"
  <2>1. PICK api \in BOOLEAN : repair' = [repair EXCEPT ![d] =
          [NoRepair EXCEPT !.status = "ready", !.api = api, !.hash = content]]
    BY DEF PrepareRepair
  <2> DEFINE r == [NoRepair EXCEPT !.status = "ready", !.api = api, !.hash = content]
  <2>2. /\ r \in RepairRows
        /\ ~ r.started /\ ~ r.intent /\ ~ r.sent /\ ~ r.known /\ ~ r.over
        /\ r.status = "ready"
    <3>1. /\ NoRepair \in RepairRows /\ content \in Hashes /\ "ready" \in RepairStatuses
          /\ ~ NoRepair.started /\ ~ NoRepair.intent /\ ~ NoRepair.sent
          /\ ~ NoRepair.known /\ ~ NoRepair.over
      BY RepairBefore, NoRepairIsARow DEF NoRepair, RepairStatuses
    <3> QED BY <3>1 DEF RepairRows
  <2> HIDE DEF r
  <2>3. repair' = [repair EXCEPT ![d] = r] /\ repair'[d] = r
    BY <2>1 DEF r, IInv, TypeOK
  <2> QED BY <2>2, <2>3
<1>3. /\ UNCHANGED <<lease, owner, pc, content, net, sends, edits, restarts,
                     heldRow, cancelRow, canceling, aborted>>
      /\ latest' = d /\ base' = [base EXCEPT ![d] = content]
  BY DEF PrepareRepair
<1>4. /\ ~ MayLand(d)' /\ pc'[d] = "off" /\ d \notin canceling' /\ lease'[d] = "none"
      /\ \A f \in Files : net'[d][f] = "none"
  BY <1>1, <1>3, NotStarted DEF MayLand
<1>5. RepairInv(d)'
  BY <1>2, <1>4, FilesAreNumbers DEF RepairInv, Unresolved
<1>6. /\ heldRow' = [heldRow EXCEPT ![d] = heldRow[d]] /\ lease' = [lease EXCEPT ![d] = lease[d]]
      /\ cancelRow' = [cancelRow EXCEPT ![d] = cancelRow[d]] /\ pc' = [pc EXCEPT ![d] = pc[d]]
      /\ base' \in [Jobs -> Contents] /\ latest' \in Repairs
      /\ canceling' \subseteq Repairs /\ aborted' \subseteq Repairs
      /\ \A e \in Repairs \ {d} : (e \in canceling') = (e \in canceling)
  BY <1>3, RepairBefore
<1>7. /\ heldRow[d] \in RepairRows /\ cancelRow[d] \in RepairRows /\ lease[d] \in LeaseStates
      /\ pc[d] \in RepairPcs /\ pc[d] = "off" /\ ~ MayLand(d) /\ ~ repair[d].over
  BY <1>1, RepairBefore, NotStarted
<1> QED BY <1>2, <1>3, <1>5, <1>6, <1>7, RepairQuietPreserves

(* The claim, with the intent of an API repair before its request is queued. *)
LEMMA StartRepairOK ==
  ASSUME IInv, NEW d \in Repairs, StartRepair(d), UNCHANGED <<planVars, correctionVars>>
  PROVE  RepairOK
<1>1. /\ ~ repair[d].started /\ repair[d].status = "ready" /\ repair[d] \in RepairRows
      /\ RepairInv(d) /\ owner = Nobody
      /\ UNCHANGED <<content, base, net, sends, edits, restarts, cancelRow, canceling, aborted, latest>>
  BY RepairBefore DEF StartRepair, Startable
<1>2. PICK r \in RepairRows :
        /\ repair' = [repair EXCEPT ![d] = r] /\ repair'[d] = r
        /\ \/ /\ r.api /\ owner' = d /\ pc' = [pc EXCEPT ![d] = "queued"]
              /\ heldRow' = [heldRow EXCEPT ![d] = r]
           \/ ~ r.api /\ UNCHANGED <<owner, pc, heldRow>>
        /\ r.started /\ r.status = "running" /\ r.intent = r.api
        /\ ~ r.sent /\ ~ r.known /\ ~ r.over
  <2> DEFINE r == [repair[d] EXCEPT !.started = TRUE, !.status = "running",
                                    !.intent = repair[d].api]
  <2>1. /\ r \in RepairRows /\ r.api = repair[d].api
        /\ r.started /\ r.status = "running" /\ r.intent = repair[d].api
        /\ r.sent = repair[d].sent /\ r.known = repair[d].known /\ r.over = repair[d].over
    BY <1>1 DEF RepairRows, RepairStatuses
  <2>2. /\ repair' = [repair EXCEPT ![d] = r] /\ repair'[d] = r
        /\ \/ /\ repair[d].api /\ owner' = d /\ pc' = [pc EXCEPT ![d] = "queued"]
              /\ heldRow' = [heldRow EXCEPT ![d] = r]
           \/ ~ repair[d].api /\ UNCHANGED <<owner, pc, heldRow>>
    BY DEF StartRepair, IInv, TypeOK
  <2> HIDE DEF r
  <2> QED BY <1>1, <2>1, <2>2, NotStarted
<1>3. /\ lease' = [lease EXCEPT ![d] = "claimed"] /\ lease'[d] = "claimed"
      /\ "claimed" \in LeaseStates /\ ~ MayLand(d)' /\ ~ MayLand(d)
      /\ \A f \in Files : net[d][f] = "none"
  BY <1>1, RepairBefore, NotStarted DEF StartRepair, LeaseStates, MayLand, IInv, TypeOK
<1>4. /\ cancelRow' = [cancelRow EXCEPT ![d] = cancelRow[d]] /\ cancelRow[d] \in RepairRows
      /\ base' \in [Jobs -> Contents] /\ latest' \in Repairs
      /\ canceling' \subseteq Repairs /\ aborted' \subseteq Repairs
      /\ \A e \in Repairs \ {d} : (e \in canceling') = (e \in canceling)
  BY <1>1, RepairBefore
<1>5. Alone(d)
  BY IdleIsAlone DEF StartRepair
<1>6. ~ repair[d].over /\ d \notin canceling /\ pc[d] = "off"
  BY <1>1, NotStarted
<1>7. CASE /\ r.api /\ owner' = d /\ pc' = [pc EXCEPT ![d] = "queued"]
           /\ heldRow' = [heldRow EXCEPT ![d] = r]
  <2>1. pc'[d] = "queued" /\ heldRow'[d] = r /\ "queued" \in RepairPcs
    BY <1>7, RepairBefore DEF IInv, TypeOK, RepairPcs
  <2>2. RepairInv(d)'
    BY <1>1, <1>2, <1>3, <1>6, <1>7, <2>1 DEF RepairInv, Unresolved, Core
  <2>3. Reserved(d)
    BY <1>1, <1>7 DEF Reserved
  <2> QED BY <1>1, <1>2, <1>3, <1>4, <1>5, <1>6, <1>7, <2>1, <2>2, <2>3, RepairQuietPreserves
<1>8. CASE ~ r.api /\ UNCHANGED <<owner, pc, heldRow>>
  <2>1. RepairInv(d)'
    BY <1>1, <1>2, <1>3, <1>6, <1>8 DEF RepairInv, Unresolved, Core
  <2>2. /\ heldRow' = [heldRow EXCEPT ![d] = heldRow[d]] /\ pc' = [pc EXCEPT ![d] = pc[d]]
        /\ heldRow[d] \in RepairRows /\ pc[d] \in RepairPcs
    BY <1>8, RepairBefore
  <2> QED BY <1>1, <1>2, <1>3, <1>4, <1>6, <1>8, <2>1, <2>2, RepairQuietPreserves
<1> QED BY <1>2, <1>7, <1>8

(* The claim without a job. *)
LEMMA StartUnrecordedOK ==
  ASSUME IInv, NEW d \in Repairs, StartUnrecorded(d), UNCHANGED <<planVars, correctionVars>>
  PROVE  RepairOK
<1>1. /\ ~ repair[d].started /\ repair[d].status = "ready" /\ repair[d] \in RepairRows
      /\ RepairInv(d) /\ UNCHANGED <<sharedVars, heldRow, cancelRow, canceling, aborted, latest>>
  BY RepairBefore DEF StartUnrecorded, Startable
<1>2. PICK r \in RepairRows :
        /\ repair' = [repair EXCEPT ![d] = r] /\ repair'[d] = r
        /\ r.started /\ r.status = "running" /\ ~ r.intent
        /\ ~ r.sent /\ ~ r.known /\ ~ r.over
  <2> DEFINE r == [repair[d] EXCEPT !.started = TRUE, !.status = "running"]
  <2>1. /\ r \in RepairRows
        /\ r.started /\ r.status = "running" /\ r.intent = repair[d].intent
        /\ r.sent = repair[d].sent /\ r.known = repair[d].known /\ r.over = repair[d].over
    BY <1>1 DEF RepairRows, RepairStatuses
  <2>2. repair' = [repair EXCEPT ![d] = r] /\ repair'[d] = r
    BY <1>1 DEF StartUnrecorded, IInv, TypeOK
  <2> HIDE DEF r
  <2> QED BY <1>1, <2>1, <2>2, NotStarted
<1>3. /\ ~ MayLand(d)' /\ ~ MayLand(d) /\ pc[d] = "off" /\ d \notin canceling /\ ~ repair[d].over
      /\ \A f \in Files : net[d][f] = "none"
  BY <1>1, NotStarted DEF MayLand, sharedVars
<1>4. RepairInv(d)'
  BY <1>1, <1>2, <1>3 DEF RepairInv, Unresolved, sharedVars
<1>5. /\ heldRow' = [heldRow EXCEPT ![d] = heldRow[d]] /\ lease' = [lease EXCEPT ![d] = lease[d]]
      /\ cancelRow' = [cancelRow EXCEPT ![d] = cancelRow[d]] /\ pc' = [pc EXCEPT ![d] = pc[d]]
      /\ base' \in [Jobs -> Contents] /\ latest' \in Repairs
      /\ canceling' \subseteq Repairs /\ aborted' \subseteq Repairs
      /\ \A e \in Repairs \ {d} : (e \in canceling') = (e \in canceling)
      /\ UNCHANGED <<owner, content, net, sends, edits, restarts>>
  BY <1>1, RepairBefore DEF sharedVars
<1>6. /\ heldRow[d] \in RepairRows /\ cancelRow[d] \in RepairRows /\ lease[d] \in LeaseStates
      /\ pc[d] \in RepairPcs
  BY RepairBefore
<1> QED BY <1>2, <1>3, <1>4, <1>5, <1>6, RepairQuietPreserves

(* The one request leaves, and the row and the lease say so. *)
LEMMA RepairSendsOK ==
  ASSUME IInv, NEW d \in Repairs, RepairSends(d), UNCHANGED <<planVars, correctionVars>>
  PROVE  RepairOK
<1>1. /\ pc[d] = "queued" /\ RepairInv(d) /\ heldRow[d] \in RepairRows /\ repair[d] \in RepairRows
      /\ lease[d] = "claimed" /\ ~ repair[d].sent /\ d \in Jobs
      /\ repair[d].intent /\ repair[d].api /\ ~ repair[d].over /\ ~ repair[d].known
      /\ heldRow[d].status = "running" /\ owner = d /\ d \notin canceling
      /\ UNCHANGED <<owner, content, base, edits, restarts, cancelRow, canceling, aborted, latest>>
  BY RepairBefore DEF RepairSends, RepairInv
<1>2. PICK r \in RepairRows :
        /\ repair' = [repair EXCEPT ![d] = r] /\ repair'[d] = r
        /\ heldRow' = [heldRow EXCEPT ![d] = r] /\ heldRow'[d] = r
        /\ r.api /\ r.started /\ r.intent /\ r.sent /\ ~ r.known /\ ~ r.over /\ r.status = "running"
  <2> DEFINE r == [heldRow[d] EXCEPT !.sent = TRUE]
  <2>1. /\ r \in RepairRows
        /\ r.api = heldRow[d].api /\ r.started = heldRow[d].started /\ r.intent = heldRow[d].intent
        /\ r.sent /\ r.known = heldRow[d].known /\ r.over = heldRow[d].over
        /\ r.status = heldRow[d].status
    BY <1>1 DEF RepairRows
  <2>2. heldRow' = [heldRow EXCEPT ![d] = r] /\ heldRow'[d] = r
    BY DEF RepairSends, IInv, TypeOK
  <2> HIDE DEF r
  <2>3. repair' = [repair EXCEPT ![d] = r] /\ repair'[d] = r
    BY <2>2 DEF RepairSends, IInv, TypeOK
  <2>4. /\ heldRow[d].api = repair[d].api /\ heldRow[d].started /\ heldRow[d].intent = repair[d].intent
        /\ heldRow[d].known = repair[d].known /\ heldRow[d].over = repair[d].over
    BY <1>1, HeldRow
  <2> QED BY <1>1, <2>1, <2>2, <2>3, <2>4
<1>3. /\ lease' = [lease EXCEPT ![d] = "dispatched"] /\ lease'[d] = "dispatched"
      /\ pc' = [pc EXCEPT ![d] = "wire"] /\ pc'[d] = "wire"
      /\ "dispatched" \in LeaseStates /\ "wire" \in RepairPcs
  BY <1>1 DEF RepairSends, RepairMirrored, LeaseStates, RepairPcs, IInv, TypeOK
<1>4. /\ 1 \in Files /\ Sends(d, 1) /\ net[d][1] = "none"
      /\ \A f \in Files \ {1} : net'[d][f] = net[d][f]
      /\ \A j \in Jobs \ {d} : net'[j] = net[j]
  BY <1>1, FilesAreNumbers DEF RepairSends, RepairInv, Sends, IInv, TypeOK
<1>5. net' \in [Jobs -> [Files -> NetStates]] /\ sends' \in [Jobs -> Nat]
  BY <1>1, <1>4, SendsTypes DEF IInv
<1>6. SentOnce'
  BY <1>1, <1>4, OneSend DEF IInv
<1>7. RepairInv(d)'
  <2>1. \A f \in Files \ {1} : net'[d][f] = "none"
    BY <1>1, <1>4 DEF RepairInv
  <2>2. d \notin canceling'
    BY <1>1
  <2> QED BY <1>2, <1>3, <2>1, <2>2 DEF RepairInv, Core, Unresolved
<1>8. MayStillSend(d)
  BY <1>1 DEF MayStillSend
<1>9. /\ cancelRow' = [cancelRow EXCEPT ![d] = cancelRow[d]] /\ cancelRow[d] \in RepairRows
      /\ base' \in [Jobs -> Contents] /\ latest' \in Repairs
      /\ canceling' \subseteq Repairs /\ aborted' \subseteq Repairs
      /\ \A e \in Repairs \ {d} : (e \in canceling') = (e \in canceling)
      /\ owner' = owner /\ owner' = d
  BY <1>1, RepairBefore DEF RepairInv
<1> QED BY <1>1, <1>2, <1>3, <1>4, <1>5, <1>6, <1>7, <1>8, <1>9, RepairStepPreserves

(* What is asked of a repair beside its handler leaves its request alone. *)
LEMMA RepairAsideOK ==
  ASSUME IInv, NEW d \in Repairs, repair[d].status # "none",
         UNCHANGED <<owner, pc, content, base, net, sends, edits, restarts, heldRow, latest>>,
         UNCHANGED <<planVars, correctionVars>>, aborted' \subseteq Repairs,
         NEW r \in RepairRows, repair' = [repair EXCEPT ![d] = r],
         r.api = repair[d].api, r.started = repair[d].started, r.intent = repair[d].intent,
         r.sent = repair[d].sent, r.known = repair[d].known, r.over = repair[d].over,
         r.status \in {"uncertain", "canceled"} \/ r = repair[d],
         NEW k \in RepairRows, cancelRow' = [cancelRow EXCEPT ![d] = k],
         canceling' \subseteq Repairs,
         \A e \in Repairs \ {d} : (e \in canceling') = (e \in canceling),
         d \in canceling' => \/ d \in canceling /\ k = cancelRow[d]
                             \/ /\ Core(k) = Core(r) /\ r.known /\ ~ k.over /\ k.status = "uncertain",
         NEW x \in LeaseStates, lease' = [lease EXCEPT ![d] = x],
         lease[d] = "none" => x = "none",
         MayLand(d) => x \in {"dispatched", "remote_pending", "uncertain"}
  PROVE  RepairOK
<1>1. /\ RepairInv(d) /\ d \in Jobs /\ lease'[d] = x /\ repair'[d] = r /\ cancelRow'[d] = k
      /\ pc'[d] = pc[d] /\ heldRow'[d] = heldRow[d]
  BY RepairBefore DEF IInv, TypeOK
<1>2. MayLand(d)' = MayLand(d)
  BY DEF MayLand
<1>3. Core(r) = Core(repair[d])
  BY DEF Core
<1>4. d \in canceling' => /\ Core(k) = Core(r) /\ r.known /\ ~ k.over /\ k.status = "uncertain"
  BY <1>1, <1>3 DEF RepairInv
<1>5. r.status = "accepted" => r.valid = r.hash /\ ~ Unresolved(r)
  BY <1>1 DEF RepairInv
<1>6. r.status # "none"
  OBVIOUS
<1>7. RepairInv(d)'
  BY <1>1, <1>2, <1>3, <1>4, <1>5, <1>6 DEF RepairInv, Unresolved
<1>8. /\ heldRow' = [heldRow EXCEPT ![d] = heldRow[d]] /\ pc' = [pc EXCEPT ![d] = pc[d]]
      /\ base' \in [Jobs -> Contents] /\ latest' \in Repairs
      /\ heldRow[d] \in RepairRows /\ pc[d] \in RepairPcs
      /\ pc[d] # "off" => owner' = d
  BY RepairBefore
<1>9. pc[d] \in {"queued", "wire"} => MayStillSend(d)
  BY DEF MayStillSend
<1> QED BY <1>1, <1>7, <1>8, <1>9, RepairQuietPreserves

(* A submission without a handler. *)
LEMMA ObserveRepairOK ==
  ASSUME IInv, NEW d \in Repairs, ObserveRepair(d), UNCHANGED <<planVars, correctionVars>>
  PROVE  RepairOK
<1>1. /\ repair[d].status = "running" /\ ~ repair[d].known /\ repair[d] \in RepairRows
      /\ UNCHANGED <<owner, pc, content, base, net, sends, edits, restarts,
                     heldRow, cancelRow, canceling, aborted, latest>>
  BY RepairBefore DEF ObserveRepair
<1>2. PICK r \in RepairRows :
        /\ repair' = [repair EXCEPT ![d] = r]
        /\ r.api = repair[d].api /\ r.started = repair[d].started /\ r.intent = repair[d].intent
        /\ r.sent = repair[d].sent /\ r.known = repair[d].known /\ r.over = repair[d].over
        /\ r.status = "uncertain"
  <2> DEFINE r == [repair[d] EXCEPT !.status = "uncertain"]
  <2>1. /\ r \in RepairRows
        /\ r.api = repair[d].api /\ r.started = repair[d].started /\ r.intent = repair[d].intent
        /\ r.sent = repair[d].sent /\ r.known = repair[d].known /\ r.over = repair[d].over
        /\ r.status = "uncertain"
    BY <1>1 DEF RepairRows, RepairStatuses
  <2>2. repair' = [repair EXCEPT ![d] = r]
    BY DEF ObserveRepair, IInv, TypeOK
  <2> QED BY <2>1, <2>2
<1>3. PICK x \in LeaseStates : /\ x = IF lease[d] = "none" THEN "none" ELSE "uncertain"
                               /\ lease' = [lease EXCEPT ![d] = x]
  <2>1. "uncertain" \in LeaseStates
    BY DEF LeaseStates
  <2> QED BY <2>1, RepairBefore, MirroredLease DEF ObserveRepair, RepairMirrored, IInv
<1>4. MayLand(d) => x \in {"dispatched", "remote_pending", "uncertain"}
  BY <1>3, MayLandIsUnresolved
<1>5. /\ cancelRow' = [cancelRow EXCEPT ![d] = cancelRow[d]] /\ cancelRow[d] \in RepairRows
      /\ canceling' \subseteq Repairs /\ aborted' \subseteq Repairs
  BY <1>1, RepairBefore
<1> QED BY <1>1, <1>2, <1>3, <1>4, <1>5, RepairAsideOK

(* The cancellation is stored; its request is for an AI job that is not over. *)
LEMMA CancelRepairOK ==
  ASSUME IInv, NEW d \in Repairs, CancelRepair(d), UNCHANGED <<planVars, correctionVars>>
  PROVE  RepairOK
<1>1. /\ repair[d].status # "none" /\ repair[d] \in RepairRows
      /\ UNCHANGED <<owner, pc, content, base, net, sends, edits, restarts, heldRow, latest>>
      /\ aborted' \subseteq Repairs
  BY RepairBefore DEF CancelRepair
<1> DEFINE open == Unresolved(repair[d])
           asks == open /\ repair[d].known /\ ~ repair[d].cancelSent
           r == [repair[d] EXCEPT !.cancel = TRUE, !.cancelSent = @ \/ asks,
                                  !.status = IF open THEN "uncertain" ELSE "canceled"]
<1>2. /\ repair' = [repair EXCEPT ![d] = r]
      /\ RepairMirrored(d, IF open THEN "uncertain" ELSE "resolved")
      /\ \/ /\ asks /\ canceling' = canceling \cup {d} /\ cancelRow' = [cancelRow EXCEPT ![d] = r]
         \/ ~ asks /\ UNCHANGED <<canceling, cancelRow>>
  BY DEF CancelRepair
<1>3. /\ r \in RepairRows
      /\ r.api = repair[d].api /\ r.started = repair[d].started /\ r.intent = repair[d].intent
      /\ r.sent = repair[d].sent /\ r.known = repair[d].known /\ r.over = repair[d].over
      /\ r.status = (IF open THEN "uncertain" ELSE "canceled")
  <2>1. (repair[d].cancelSent \/ asks) \in BOOLEAN
    OBVIOUS
  <2>2. (IF open THEN "uncertain" ELSE "canceled") \in RepairStatuses
    BY DEF RepairStatuses
  <2> HIDE DEF open, asks
  <2> QED BY <1>1, <2>1, <2>2 DEF RepairRows
<1> HIDE DEF r
<1>4. asks => r.known /\ ~ r.over /\ r.status = "uncertain"
  BY <1>3 DEF Unresolved
<1>5. PICK x \in LeaseStates :
        /\ x = IF lease[d] = "none" THEN "none" ELSE IF open THEN "uncertain" ELSE "resolved"
        /\ lease' = [lease EXCEPT ![d] = x]
  <2>1. (IF open THEN "uncertain" ELSE "resolved") \in LeaseStates
    BY DEF LeaseStates
  <2> QED BY <1>2, <2>1, RepairBefore, MirroredLease DEF RepairMirrored, IInv
<1>6. MayLand(d) => x \in {"dispatched", "remote_pending", "uncertain"}
  BY <1>5, MayLandIsUnresolved
<1>7. r.status \in {"uncertain", "canceled"}
  BY <1>3
<1>8. CASE asks
  <2>1. /\ canceling' \subseteq Repairs
        /\ \A e \in Repairs \ {d} : (e \in canceling') = (e \in canceling)
        /\ cancelRow' = [cancelRow EXCEPT ![d] = r]
    BY <1>2, <1>8, RepairBefore
  <2> HIDE DEF open, asks
  <2> QED BY <1>1, <1>2, <1>3, <1>4, <1>5, <1>6, <1>7, <1>8, <2>1, RepairAsideOK
<1>9. CASE ~ asks
  <2>1. /\ canceling' \subseteq Repairs
        /\ \A e \in Repairs : (e \in canceling') = (e \in canceling)
        /\ cancelRow' = [cancelRow EXCEPT ![d] = cancelRow[d]] /\ cancelRow[d] \in RepairRows
    BY <1>2, <1>9, RepairBefore
  <2> HIDE DEF open, asks
  <2> QED BY <1>1, <1>2, <1>3, <1>5, <1>6, <1>7, <2>1, RepairAsideOK
<1> QED BY <1>8, <1>9

(* It was stored with the row it loaded; the end of the AI job was not known by then. *)
LEMMA CancelSendsOK ==
  ASSUME IInv, NEW d \in Repairs, CancelSends(d), UNCHANGED <<planVars, correctionVars>>
  PROVE  RepairOK
<1>1. /\ RepairInv(d) /\ d \in canceling /\ ~ repair[d].over
      /\ cancelRow[d] \in RepairRows /\ repair[d] \in RepairRows
      /\ UNCHANGED <<sharedVars, heldRow, aborted, latest>>
      /\ canceling' = canceling \ {d} /\ cancelRow' = [cancelRow EXCEPT ![d] = NoRepair]
  BY RepairBefore DEF CancelSends
<1>2. PICK r \in RepairRows :
        /\ repair' = [repair EXCEPT ![d] = r]
        /\ r.api = cancelRow[d].api /\ r.started = cancelRow[d].started
        /\ r.intent = cancelRow[d].intent /\ r.sent = cancelRow[d].sent
        /\ r.known = cancelRow[d].known /\ r.over = cancelRow[d].over
        /\ r.status = cancelRow[d].status
  <2> DEFINE r == [cancelRow[d] EXCEPT !.cancelGone = TRUE]
  <2>1. /\ r \in RepairRows
        /\ r.api = cancelRow[d].api /\ r.started = cancelRow[d].started
        /\ r.intent = cancelRow[d].intent /\ r.sent = cancelRow[d].sent
        /\ r.known = cancelRow[d].known /\ r.over = cancelRow[d].over
        /\ r.status = cancelRow[d].status
    BY <1>1 DEF RepairRows
  <2>2. repair' = [repair EXCEPT ![d] = r]
    BY DEF CancelSends
  <2> QED BY <2>1, <2>2
<1>3. /\ cancelRow[d].api = repair[d].api /\ cancelRow[d].started = repair[d].started
      /\ cancelRow[d].intent = repair[d].intent /\ cancelRow[d].sent = repair[d].sent
      /\ cancelRow[d].known = repair[d].known /\ repair[d].known
      /\ ~ cancelRow[d].over /\ cancelRow[d].status = "uncertain"
  BY <1>1 DEF RepairInv, Core
<1>4. repair[d].status # "none"
  BY <1>1, <1>3 DEF RepairInv
<1>5. /\ lease' = [lease EXCEPT ![d] = lease[d]] /\ lease[d] \in LeaseStates
      /\ MayLand(d) => lease[d] \in {"dispatched", "remote_pending", "uncertain"}
      /\ aborted' \subseteq Repairs /\ canceling' \subseteq Repairs /\ d \notin canceling'
      /\ \A e \in Repairs \ {d} : (e \in canceling') = (e \in canceling)
      /\ UNCHANGED <<owner, pc, content, base, net, sends, edits, restarts>>
  BY <1>1, RepairBefore, MayLandIsUnresolved DEF sharedVars
<1>6. /\ r.api = repair[d].api /\ r.started = repair[d].started /\ r.intent = repair[d].intent
      /\ r.sent = repair[d].sent /\ r.known = repair[d].known /\ r.over = repair[d].over
      /\ r.status = "uncertain"
  <2>1. cancelRow[d].over = repair[d].over
    BY <1>1, <1>3 DEF RepairRows
  <2> QED BY <1>2, <1>3, <2>1
<1> QED BY <1>1, <1>2, <1>4, <1>5, <1>6, NoRepairIsARow, RepairAsideOK

(* It is dropped. *)
LEMMA CancelNotSentOK ==
  ASSUME IInv, NEW d \in Repairs, CancelNotSent(d), UNCHANGED <<planVars, correctionVars>>
  PROVE  RepairOK
<1>1. /\ RepairInv(d) /\ d \in canceling /\ repair[d] \in RepairRows
      /\ UNCHANGED <<sharedVars, repair, heldRow, aborted, latest>>
      /\ canceling' = canceling \ {d} /\ cancelRow' = [cancelRow EXCEPT ![d] = NoRepair]
  BY RepairBefore DEF CancelNotSent
<1>2. repair[d].status # "none"
  BY <1>1 DEF RepairInv
<1>3. /\ lease' = [lease EXCEPT ![d] = lease[d]] /\ lease[d] \in LeaseStates
      /\ repair' = [repair EXCEPT ![d] = repair[d]]
      /\ MayLand(d) => lease[d] \in {"dispatched", "remote_pending", "uncertain"}
      /\ aborted' \subseteq Repairs /\ canceling' \subseteq Repairs /\ d \notin canceling'
      /\ \A e \in Repairs \ {d} : (e \in canceling') = (e \in canceling)
      /\ UNCHANGED <<owner, pc, content, base, net, sends, edits, restarts>>
  BY <1>1, RepairBefore, MayLandIsUnresolved DEF sharedVars
<1> QED BY <1>1, <1>2, <1>3, NoRepairIsARow, RepairAsideOK

(* Every step of a repair preserves the invariant, and forgets no end. *)
LEMMA RepairNextPreserves ==
  ASSUME IInv, NEW d \in Repairs, RepairNext(d), UNCHANGED <<planVars, correctionVars>>
  PROVE  RepairOK
<1>1. CASE InspectBegins(d) \/ ValidateBegins(d) \/ AcceptBegins(d)
  BY <1>1, ObservesOK DEF InspectBegins, ValidateBegins, AcceptBegins
<1>2. CASE RepairStep(d)
  BY <1>2, RepairSendsOK, RepairNotSentOK, RepairAnsweredOK, RepairLostOK, InspectPendingOK,
     InspectReadOK, ValidateReadsOK, ValidatedOK, AcceptsOK, AcceptRefusedOK,
     ObservationFailsOK DEF RepairStep
<1> QED BY <1>1, <1>2, PrepareRepairOK, StartRepairOK, StartUnrecordedOK, ObserveRepairOK,
           CancelRepairOK, CancelSendsOK, CancelNotSentOK DEF RepairNext

-----------------------------------------------------------------------------
(* The destination. *)

(* What becomes of a request preserves the invariant when it keeps the part of its approval. *)
LEMMA OutcomePreserves ==
  ASSUME IInv, NEW j \in Jobs, NEW f \in Files, NEW s \in NetStates \ {"none"},
         net[j][f] \in {"wire", "running"}, net' = [net EXCEPT ![j][f] = s],
         content' \in Contents,
         \A g \in Files : \A c \in Corrections \ {j} : content'[g] = c => content[g] = c,
         UNCHANGED <<lease, owner, pc, base, sends, edits, restarts>>,
         UNCHANGED <<planVars, correctionVars, repairVars>>,
         j \in Plans => PlanInv(j)',
         j \in Corrections => CorrectionInv(j)',
         j \in Repairs => RepairInv(j)'
  PROVE  IInv'
<1>1. net' \in [Jobs -> [Files -> NetStates]] /\ \A k \in Jobs \ {j} : net'[k] = net[k]
  BY DEF IInv, TypeOK
<1>2. TypeOK'
  BY <1>1 DEF IInv, TypeOK, planVars, correctionVars, repairVars
<1>3. \A k \in Jobs, g \in Files : (net'[k][g] = "none") = (net[k][g] = "none")
  BY DEF IInv, TypeOK
<1>4. SentOnce'
  BY <1>3, NoSend DEF IInv
<1>5. OthersStay(j)
  BY <1>1 DEF OthersStay
<1>6. MayLand(j) /\ Open(j)
  BY DEF MayLand, IInv, SharedInv, LateWritesAreCovered
<1>7. StepOK(j)
  BY <1>2, <1>4, <1>5, <1>6 DEF StepOK, Open, MayStillSend, IInv, SharedInv
<1>8. SharedInv' /\ AloneInv'
  BY <1>7, SharedStep
<1>9. PlansStay(j) /\ UNCHANGED <<review, passed>>
  BY DEF PlansStay, planVars
<1>10. ReplacedInv'
  <2>1. ASSUME j \in Plans PROVE ~ Unwritten(j)
    BY <1>6, <2>1 DEF Unwritten, FailedPrewrite, ReconciledNoWrite, Open
  <2> QED BY <1>5, <1>9, <2>1, ReplacedStep
<1>11. ASSUME NEW q \in Plans PROVE PlanInv(q)'
  BY <1>1, Kinds, PlanFrame DEF planVars, IInv
<1>12. ASSUME NEW c \in Corrections PROVE CorrectionInv(c)'
  BY <1>1, Kinds, CorrectionFrame DEF correctionVars, IInv
<1>13. ASSUME NEW e \in Repairs PROVE RepairInv(e)'
  BY <1>1, Kinds, RepairFrame DEF repairVars, IInv
<1>14. LatestInv'
  BY DEF LatestInv, IInv, repairVars
<1> QED BY <1>2, <1>4, <1>8, <1>10, <1>11, <1>12, <1>13, <1>14 DEF IInv

(* A plan whose request is answered or refused. *)
LEMMA PlanOutcome ==
  ASSUME IInv, NEW p \in Plans, NEW f \in Files, NEW s \in {"landed", "refused"},
         net[p][f] = "wire", net' = [net EXCEPT ![p][f] = s],
         UNCHANGED <<lease, pc, planVars>>
  PROVE  PlanInv(p)'
<1>1. PlanInv(p) /\ p \in Jobs /\ Create \in Files /\ Yaml \in Files
  BY Kinds, FilesAreNumbers DEF IInv, Create, Yaml
<1>2. /\ net'[p][f] = s /\ \A g \in Files \ {f} : net'[p][g] = net[p][g]
  BY <1>1 DEF IInv, TypeOK
<1>3. f \in {Create, Yaml}
  BY <1>1 DEF PlanInv
<1>4. CASE f = Create
  BY <1>1, <1>2, <1>4 DEF PlanInv, planVars, Create, Yaml
<1>5. CASE f = Yaml
  BY <1>1, <1>2, <1>5 DEF PlanInv, planVars, Create, Yaml
<1> QED BY <1>3, <1>4, <1>5

(* A correction whose request is answered or refused. *)
LEMMA CorrectionOutcome ==
  ASSUME IInv, NEW c \in Corrections, NEW f \in Files, NEW s \in {"landed", "refused"},
         net[c][f] = "wire", net' = [net EXCEPT ![c][f] = s],
         \/ s = "refused" /\ UNCHANGED content
         \/ s = "landed" /\ content' = [content EXCEPT ![f] = c],
         UNCHANGED <<lease, pc, correctionVars>>
  PROVE  CorrectionInv(c)'
<1>1. CorrectionInv(c) /\ c \in Jobs /\ row[c] \in Rows
  BY CorrectionBefore
<1>2. /\ net'[c][f] = s /\ \A g \in Files \ {f} : net'[c][g] = net[c][g]
      /\ \A g \in Files \ {f} : content'[g] = content[g]
  BY <1>1 DEF IInv, TypeOK, Contents
<1>3. f = row[c].sent /\ ~ (f <= row[c].acked) /\ content[f] # c
  BY <1>1 DEF CorrectionInv
<1>4. \A g \in Files :
       /\ net'[c][g] # "running"
       /\ net'[c][g] # "none" => g <= row[c].sent
       /\ g <= row[c].acked => net'[c][g] = "landed"
       /\ net'[c][g] = "wire" => g = row[c].sent /\ ~ row[c].rejected
       /\ content'[g] = c => net'[c][g] = "landed"
  BY <1>1, <1>2, <1>3 DEF CorrectionInv
<1> QED BY <1>1, <1>4 DEF CorrectionInv, correctionVars

(* A repair whose request is answered or refused, or whose AI job ends. *)
LEMMA RepairOutcome ==
  ASSUME IInv, NEW d \in Repairs, NEW f \in Files, NEW s \in NetStates \ {"none"},
         net[d][f] \in {"wire", "running"}, net' = [net EXCEPT ![d][f] = s],
         UNCHANGED <<lease, pc, repairVars>>
  PROVE  RepairInv(d)' /\ f = 1
<1>1. RepairInv(d) /\ d \in Jobs /\ 1 \in Files
  BY RepairBefore, FilesAreNumbers
<1>2. f = 1
  BY <1>1 DEF RepairInv
<1>3. \A g \in Files \ {1} : net'[d][g] = net[d][g]
  BY <1>1, <1>2 DEF IInv, TypeOK
<1>4. MayLand(d) /\ ~ repair[d].over
  BY MayLandIsUnresolved DEF MayLand
<1> QED BY <1>1, <1>2, <1>3, <1>4 DEF RepairInv, repairVars, MayLand

(* A request arrives. *)
LEMMA LandsOK ==
  ASSUME IInv, NEW j \in Jobs, NEW f \in Files, Lands(j, f),
         UNCHANGED <<planVars, correctionVars, repairVars>>
  PROVE  IInv'
<1>1. /\ net[j][f] = "wire" /\ UNCHANGED <<lease, owner, pc, base, sends, edits, restarts>>
      /\ content \in Contents
  BY DEF Lands, IInv, TypeOK
<1>2. CASE j \in Corrections
  <2>1. net' = [net EXCEPT ![j][f] = "landed"] /\ content' = [content EXCEPT ![f] = j]
    <3>1. j \notin Repairs
      BY <1>2, Kinds
    <3> QED BY <1>2, <3>1 DEF Lands
  <2>2. j \notin Plans /\ j \notin Repairs /\ j \in Authors
    BY <1>2, Kinds DEF Authors
  <2>3. content' \in Contents
    BY <1>1, <2>1, <2>2 DEF Contents
  <2>4. \A g \in Files : \A c \in Corrections \ {j} : content'[g] = c => content[g] = c
    BY <1>1, <2>1 DEF Contents
  <2>5. CorrectionInv(j)'
    BY <1>1, <1>2, <2>1, CorrectionOutcome
  <2>6. "landed" \in NetStates \ {"none"}
    BY DEF NetStates
  <2> QED BY <1>1, <2>1, <2>2, <2>3, <2>4, <2>5, <2>6, OutcomePreserves
<1>3. CASE j \in Repairs
  <2>1. net' = [net EXCEPT ![j][f] = "running"] /\ UNCHANGED content
    BY <1>3, Kinds DEF Lands
  <2>2. j \notin Plans /\ j \notin Corrections
    BY <1>3, Kinds
  <2>3. "running" \in NetStates \ {"none"}
    BY DEF NetStates
  <2>4. RepairInv(j)'
    BY <1>1, <1>3, <2>1, <2>3, RepairOutcome
  <2> QED BY <1>1, <2>1, <2>2, <2>3, <2>4, OutcomePreserves
<1>4. CASE j \in Plans
  <2>1. j \notin Repairs /\ j \notin Corrections
    BY <1>4, Kinds
  <2>2. net' = [net EXCEPT ![j][f] = "landed"] /\ UNCHANGED content
    BY <2>1 DEF Lands
  <2>3. "landed" \in NetStates \ {"none"}
    BY DEF NetStates
  <2>4. PlanInv(j)'
    BY <1>1, <1>4, <2>2, PlanOutcome
  <2> QED BY <1>1, <2>1, <2>2, <2>3, <2>4, OutcomePreserves
<1> QED BY <1>2, <1>3, <1>4 DEF Jobs

(* A request is refused. *)
LEMMA IsRefusedOK ==
  ASSUME IInv, NEW j \in Jobs, NEW f \in Files, IsRefused(j, f),
         UNCHANGED <<planVars, correctionVars, repairVars>>
  PROVE  IInv'
<1>1. /\ net[j][f] = "wire" /\ net' = [net EXCEPT ![j][f] = "refused"]
      /\ UNCHANGED <<lease, owner, pc, content, base, sends, edits, restarts>>
      /\ content' \in Contents /\ "refused" \in NetStates \ {"none"}
  BY DEF IsRefused, IInv, TypeOK, NetStates
<1>2. j \in Corrections => CorrectionInv(j)'
  BY <1>1, CorrectionOutcome
<1>3. j \in Repairs => RepairInv(j)'
  BY <1>1, RepairOutcome
<1>4. j \in Plans => PlanInv(j)'
  BY <1>1, PlanOutcome
<1> QED BY <1>1, <1>2, <1>3, <1>4, OutcomePreserves

(* The AI job ends. *)
LEMMA AgentEndsOK ==
  ASSUME IInv, NEW d \in Repairs, AgentEnds(d),
         UNCHANGED <<planVars, correctionVars, repairVars>>
  PROVE  IInv'
<1>1. /\ net[d][1] = "running" /\ net' = [net EXCEPT ![d][1] = "landed"]
      /\ UNCHANGED <<lease, owner, pc, content, base, sends, edits, restarts>>
      /\ content' \in Contents /\ "landed" \in NetStates \ {"none"} /\ 1 \in Files
      /\ d \in Jobs /\ d \notin Plans /\ d \notin Corrections
  BY Kinds, FilesAreNumbers DEF AgentEnds, IInv, TypeOK, NetStates
<1>2. RepairInv(d)'
  BY <1>1, RepairOutcome
<1> QED BY <1>1, <1>2, OutcomePreserves

(* A file changes, and not through a correction. *)
LEMMA OtherAuthorOK ==
  ASSUME IInv, NEW f \in Files, NEW a \in Authors \ Corrections,
         content' = [content EXCEPT ![f] = a], edits' \in Nat,
         UNCHANGED <<lease, owner, pc, base, net, sends, restarts>>,
         UNCHANGED <<planVars, correctionVars, repairVars>>
  PROVE  IInv'
<1>1. content' \in Contents
  BY DEF IInv, TypeOK, Contents
<1>2. \A g \in Files : \A c \in Corrections : content'[g] = c => content[g] = c
  BY DEF IInv, TypeOK, Contents
<1>3. TypeOK'
  BY <1>1 DEF IInv, TypeOK, planVars, correctionVars, repairVars
<1>4. SentOnce'
  BY NoSend DEF IInv
<1>5. SharedInv' /\ AloneInv'
  BY DEF IInv, SharedInv, AloneInv, LateWritesAreCovered, OneWriterPerModel, MayLand, Open,
         MayStillSend
<1>6. ReplacedInv'
  BY DEF IInv, ReplacedInv, Unwritten, FailedPrewrite, ReconciledNoWrite, JobIsOver, BranchUnchanged,
         planVars
<1>7. ASSUME NEW q \in Plans PROVE PlanInv(q)'
  BY PlanFrame DEF planVars, IInv
<1>8. ASSUME NEW c \in Corrections PROVE CorrectionInv(c)'
  BY <1>2, CorrectionFrame DEF correctionVars, IInv
<1>9. ASSUME NEW e \in Repairs PROVE RepairInv(e)'
  BY RepairFrame DEF repairVars, IInv
<1>10. LatestInv'
  BY DEF LatestInv, IInv, repairVars
<1> QED BY <1>3, <1>4, <1>5, <1>6, <1>7, <1>8, <1>9, <1>10 DEF IInv

(* Whatever the destination does, the invariant is preserved. *)
LEMMA DestinationPreserves ==
  ASSUME IInv, Destination, UNCHANGED <<planVars, correctionVars, repairVars>>
  PROVE  IInv'
<1>1. ASSUME NEW d \in Repairs, NEW f \in Files, AgentWrites(d, f) PROVE IInv'
  <2>1. d \in Authors \ Corrections
    BY Kinds DEF Authors
  <2>2. edits' \in Nat
    BY <1>1 DEF AgentWrites, IInv, TypeOK
  <2> QED BY <1>1, <2>1, <2>2, OtherAuthorOK DEF AgentWrites
<1>2. ASSUME NEW f \in Files, Edit(f) PROVE IInv'
  <2>1. Edited \in Authors \ Corrections
    BY Kinds DEF Authors
  <2>2. edits' \in Nat
    BY <1>2 DEF Edit, IInv, TypeOK
  <2> QED BY <1>2, <2>1, <2>2, OtherAuthorOK DEF Edit
<1> QED BY <1>1, <1>2, LandsOK, IsRefusedOK, AgentEndsOK DEF Destination

-----------------------------------------------------------------------------
(* A restart. *)

(* The recovery gives up no lease that may stand for a write, and reopens none; a lease that *)
(* is new is that of a repair whose start was cut off.                                       *)
LEMMA RecoveredLeases ==
  ASSUME IInv, Restart
  PROVE  /\ lease' \in [Jobs -> LeaseStates]
         /\ \A j \in Jobs :
              /\ Open(j) => Open(j)'
              /\ lease'[j] = "none" => lease[j] = "none"
              /\ lease[j] = "none" /\ j \notin Repairs => lease'[j] = "none"
              /\ lease[j] \in {"resolved", "failed_prewrite"} => lease'[j] = lease[j]
              /\ lease'[j] \in {"none", "claimed", "failed_prewrite"} =>
                   lease[j] \in {"none", "claimed", "failed_prewrite"}
         /\ \A d \in Repairs : lease[d] = "none" /\ lease'[d] # "none" => repair'[d].started
<1>1. \A j \in Jobs : lease[j] \in LeaseStates
  BY DEF IInv, TypeOK
<1>2. \A j \in Jobs :
        /\ RecoveredLease(j) \in LeaseStates
        /\ Open(j) => RecoveredLease(j) \in {"dispatched", "remote_pending", "uncertain"}
        /\ RecoveredLease(j) = "none" <=> lease[j] = "none"
        /\ lease[j] \in {"resolved", "failed_prewrite"} => RecoveredLease(j) = lease[j]
        /\ RecoveredLease(j) \in {"none", "claimed", "failed_prewrite"} =>
             lease[j] \in {"none", "claimed", "failed_prewrite"}
  BY <1>1 DEF RecoveredLease, LeaseStates, Open
<1>3. CASE lease' = [j \in Jobs |-> RecoveredLease(j)]
  <2>1. lease' \in [Jobs -> LeaseStates] /\ \A j \in Jobs : lease'[j] = RecoveredLease(j)
    BY <1>2, <1>3
  <2> QED BY <1>2, <2>1, Kinds DEF Open
<1>4. ASSUME NEW d \in Repairs, TornStart(d),
             lease' = [j \in Jobs |-> IF j = d THEN "failed_prewrite" ELSE RecoveredLease(j)]
      PROVE  /\ lease' \in [Jobs -> LeaseStates]
             /\ \A j \in Jobs :
                  /\ Open(j) => Open(j)'
                  /\ lease'[j] = "none" => lease[j] = "none"
                  /\ lease[j] = "none" /\ j \notin Repairs => lease'[j] = "none"
                  /\ lease[j] \in {"resolved", "failed_prewrite"} => lease'[j] = lease[j]
                  /\ lease'[j] \in {"none", "claimed", "failed_prewrite"} =>
                       lease[j] \in {"none", "claimed", "failed_prewrite"}
             /\ \A e \in Repairs : lease[e] = "none" /\ lease'[e] # "none" => repair'[e].started
  <2>1. lease' \in [Jobs -> LeaseStates]
    BY <1>2, <1>4 DEF LeaseStates
  <2>2. lease[d] = "none" /\ lease'[d] = "failed_prewrite" /\ d \in Jobs
    BY <1>4, Kinds DEF TornStart, Startable
  <2>3. \A j \in Jobs \ {d} : lease'[j] = RecoveredLease(j)
    BY <1>4
  <2>4. repair'[d].started
    <3>1. repair \in [Repairs -> RepairRows]
      BY DEF IInv, TypeOK
    <3> QED BY <1>4, <3>1 DEF TornStart, RepairRows
  <2> QED BY <1>2, <2>1, <2>2, <2>3, <2>4, Kinds DEF Open
<1> QED BY <1>3, <1>4 DEF Restart

(* A plan after it: at most the claim is new. *)
LEMMA RestartedPlans ==
  ASSUME IInv, Restart, NEW p \in Plans
  PROVE  /\ plan' \in [Plans -> PlanRows] /\ PlanInv(p)'
         /\ plan'[p].linked = plan[p].linked
<1>1. /\ plan \in [Plans -> PlanRows] /\ PlanInv(p) /\ p \in Jobs
      /\ pc'[p] = "off" /\ UNCHANGED <<net, noWrite>>
  BY Kinds DEF IInv, TypeOK, Restart
<1>2. \/ plan' = plan
      \/ \E q \in Plans : plan[q].ready /\ plan' = [plan EXCEPT ![q].claim = TRUE]
  BY DEF Restart, TornPlan, Stageable
<1>3. /\ plan' \in [Plans -> PlanRows]
      /\ plan'[p].linked = plan[p].linked
      /\ plan'[p].ready = plan[p].ready
      /\ plan[p].claim => plan'[p].claim
      /\ plan'[p].claim => plan[p].claim \/ plan[p].ready
  <2>1. CASE plan' = plan
    BY <1>1, <2>1
  <2>2. ASSUME NEW q \in Plans, plan[q].ready, plan' = [plan EXCEPT ![q].claim = TRUE]
        PROVE  /\ plan' \in [Plans -> PlanRows]
               /\ plan'[p].linked = plan[p].linked
               /\ plan'[p].ready = plan[p].ready
               /\ plan[p].claim => plan'[p].claim
               /\ plan'[p].claim => plan[p].claim \/ plan[p].ready
    <3>1. plan' \in [Plans -> PlanRows]
      BY <1>1, <2>2 DEF PlanRows
    <3>2. CASE p = q
      BY <1>1, <2>2, <3>1, <3>2 DEF PlanRows
    <3>3. CASE p # q
      BY <1>1, <2>2, <3>1, <3>3
    <3> QED BY <3>1, <3>2, <3>3
  <2> QED BY <1>2, <2>1, <2>2
<1>4. PlanInv(p)'
  BY <1>1, <1>3, Kinds, RecoveredLeases DEF PlanInv
<1> QED BY <1>3, <1>4

(* A correction after it: at most the claim, or the intent of the next write, is new. *)
LEMMA RestartedCorrections ==
  ASSUME IInv, Restart, NEW c \in Corrections
  PROVE  row' \in [Corrections -> Rows] /\ CorrectionInv(c)'
<1>1. /\ row \in [Corrections -> Rows] /\ CorrectionInv(c) /\ c \in Jobs /\ c \notin Repairs
      /\ pc'[c] = "off" /\ UNCHANGED <<net, content>>
      /\ heldCancel \in [Corrections -> BOOLEAN]
      /\ row[c].acked \in Nat /\ row[c].sent \in Nat
  BY CorrectionBefore, Kinds DEF IInv, TypeOK, Restart
<1>2. CASE UNCHANGED row
  BY <1>1, <1>2, RecoveredLeases DEF CorrectionInv
<1>3. ASSUME NEW e \in Corrections, pc[e] = "checking",
             Saved(e, [row[e] EXCEPT !.claim = TRUE, !.status = "running"])
      PROVE  row' \in [Corrections -> Rows] /\ CorrectionInv(c)'
  <2>1. CorrectionInv(e) /\ row[e] \in Rows
    BY CorrectionBefore
  <2>2. PICK r \in Rows :
          /\ row' = [row EXCEPT ![e] = r]
          /\ r.claim /\ r.status = "running" /\ r.sent = row[e].sent /\ r.acked = row[e].acked
          /\ r.rejected = row[e].rejected
    <3> DEFINE s == [row[e] EXCEPT !.claim = TRUE, !.status = "running"]
               r == [s EXCEPT !.cancel = heldCancel[e]]
    <3>1. s \in Rows /\ s.claim /\ s.status = "running" /\ s.sent = row[e].sent
          /\ s.acked = row[e].acked /\ s.rejected = row[e].rejected
      BY <2>1 DEF Rows, CorrectionStatuses
    <3>2. row' = [row EXCEPT ![e] = r]
      BY <1>3 DEF Saved
    <3> HIDE DEF s
    <3>3. /\ r \in Rows /\ r.claim = s.claim /\ r.status = s.status /\ r.sent = s.sent
          /\ r.acked = s.acked /\ r.rejected = s.rejected
      BY <1>1, <3>1 DEF Rows
    <3> HIDE DEF r
    <3> QED BY <3>1, <3>2, <3>3
  <2>3. CASE e = c
    <3>1. row'[c] = r /\ lease[c] = "none"
      BY <1>1, <1>3, <2>2, <2>3 DEF CorrectionInv
    <3> QED BY <1>1, <2>2, <2>3, <3>1, RecoveredLeases DEF CorrectionInv
  <2>4. CASE e # c
    <3>1. row'[c] = row[c]
      BY <1>1, <2>2, <2>4
    <3> QED BY <1>1, <2>2, <3>1, RecoveredLeases DEF CorrectionInv
  <2> QED BY <2>3, <2>4
<1>4. ASSUME NEW e \in Corrections, pc[e] = "queued", Authorized(e),
             Saved(e, [row[e] EXCEPT !.sent = @ + 1])
      PROVE  row' \in [Corrections -> Rows] /\ CorrectionInv(c)'
  <2>1. /\ CorrectionInv(e) /\ row[e] \in Rows /\ row[e].sent < NumFiles /\ row[e].sent \in Nat
        /\ NumFiles \in Nat
    BY <1>4, CorrectionBefore, FilesAreNumbers DEF CorrectionInv
  <2>2. PICK r \in Rows :
          /\ row' = [row EXCEPT ![e] = r]
          /\ r.claim = row[e].claim /\ r.status = row[e].status /\ r.sent = row[e].sent + 1
          /\ r.acked = row[e].acked /\ r.rejected = row[e].rejected
    <3> DEFINE s == [row[e] EXCEPT !.sent = row[e].sent + 1]
               r == [s EXCEPT !.cancel = heldCancel[e]]
    <3>0. row[e].sent + 1 \in 0 .. NumFiles
      BY <2>1
    <3>1. s \in Rows /\ s.claim = row[e].claim /\ s.status = row[e].status
          /\ s.sent = row[e].sent + 1 /\ s.acked = row[e].acked /\ s.rejected = row[e].rejected
      BY <2>1, <3>0 DEF Rows
    <3>2. row' = [row EXCEPT ![e] = r]
      BY <1>4 DEF Saved
    <3> HIDE DEF s
    <3>3. /\ r \in Rows /\ r.claim = s.claim /\ r.status = s.status /\ r.sent = s.sent
          /\ r.acked = s.acked /\ r.rejected = s.rejected
      BY <1>1, <3>1 DEF Rows
    <3> HIDE DEF r
    <3> QED BY <3>1, <3>2, <3>3
  <2>3. CASE e = c
    <3>1. /\ row'[c] = r /\ lease[c] # "none" /\ row[c].acked = row[c].sent /\ row[c].claim
          /\ row[c].status = "running"
          /\ ~ row[c].rejected
      BY <1>1, <1>4, <2>2, <2>3 DEF CorrectionInv, Authorized
    <3>2. \A f \in Files :
           /\ net[c][f] # "running" /\ net[c][f] # "wire"
           /\ net[c][f] # "none" => f <= row[c].sent + 1
           /\ f <= row[c].acked => net[c][f] = "landed"
           /\ content[f] = c => net[c][f] = "landed"
      <4> SUFFICES ASSUME NEW f \in Files
                   PROVE  /\ net[c][f] # "running" /\ net[c][f] # "wire"
                          /\ net[c][f] # "none" => f <= row[c].sent + 1
                          /\ f <= row[c].acked => net[c][f] = "landed"
                          /\ content[f] = c => net[c][f] = "landed"
        OBVIOUS
      <4>1. /\ f \in Nat /\ net[c][f] # "running"
            /\ net[c][f] # "none" => f <= row[c].sent
            /\ f <= row[c].acked => net[c][f] = "landed"
            /\ net[c][f] = "wire" => f = row[c].sent
            /\ content[f] = c => net[c][f] = "landed"
        BY <1>1, FilesAreNumbers DEF CorrectionInv
      <4> QED BY <1>1, <3>1, <4>1
    <3>3. /\ lease'[c] # "none" /\ r.claim /\ r.status = "running" /\ ~ r.rejected
          /\ r.sent = row[c].sent + 1 /\ r.acked = row[c].acked /\ r.acked <= r.sent /\ r.sent > 0
      BY <1>1, <2>2, <2>3, <3>1, RecoveredLeases
    <3>4. CorrectionInv(c)'
      BY <1>1, <3>1, <3>2, <3>3 DEF CorrectionInv
    <3> QED BY <1>1, <2>2, <3>4
  <2>4. CASE e # c
    <3>1. row'[c] = row[c]
      BY <1>1, <2>2, <2>4
    <3> QED BY <1>1, <2>2, <3>1, RecoveredLeases DEF CorrectionInv
  <2> QED BY <2>3, <2>4
<1>5. \/ UNCHANGED row
      \/ \E e \in Corrections : TornCorrection(e)
  BY DEF Restart
<1> QED BY <1>1, <1>2, <1>3, <1>4, <1>5 DEF TornCorrection

(* A repair after it: at most its start, or the record of its request, is new. *)
LEMMA RestartedRepairs ==
  ASSUME IInv, Restart, NEW d \in Repairs
  PROVE  /\ repair' \in [Repairs -> RepairRows] /\ RepairInv(d)'
         /\ repair[d].over => repair'[d].over
         /\ repair[d].status = "none" => repair'[d].status = "none"
<1>1. /\ repair \in [Repairs -> RepairRows] /\ RepairInv(d) /\ d \in Jobs
      /\ pc'[d] = "off" /\ UNCHANGED net /\ d \notin canceling' /\ repair[d] \in RepairRows
  BY RepairBefore DEF IInv, TypeOK, Restart
<1>2. MayLand(d)' = MayLand(d)
  BY <1>1 DEF MayLand
<1>3. CASE UNCHANGED repair
  BY <1>1, <1>2, <1>3, RecoveredLeases DEF RepairInv, Unresolved
<1>4. ASSUME NEW e \in Repairs, ~ repair[e].started, repair[e].status = "ready",
             repair' = [repair EXCEPT ![e].started = TRUE, ![e].status = "running"]
      PROVE  /\ repair' \in [Repairs -> RepairRows] /\ RepairInv(d)'
             /\ repair[d].over => repair'[d].over
             /\ repair[d].status = "none" => repair'[d].status = "none"
  <2>1. repair[e] \in RepairRows
    BY RepairBefore
  <2>2. PICK r \in RepairRows :
          /\ repair' = [repair EXCEPT ![e] = r]
          /\ r.started /\ r.status = "running" /\ r.intent = repair[e].intent
          /\ r.sent = repair[e].sent /\ r.known = repair[e].known /\ r.over = repair[e].over
    <3> DEFINE r == [repair[e] EXCEPT !.started = TRUE, !.status = "running"]
    <3>1. /\ r \in RepairRows
          /\ r.started /\ r.status = "running" /\ r.intent = repair[e].intent
          /\ r.sent = repair[e].sent /\ r.known = repair[e].known /\ r.over = repair[e].over
      BY <2>1 DEF RepairRows, RepairStatuses
    <3>2. repair' = [repair EXCEPT ![e] = r]
      BY <1>1, <1>4
    <3> QED BY <3>1, <3>2
  <2>3. CASE e = d
    <3>1. /\ repair'[d] = r /\ ~ r.intent /\ ~ r.sent /\ ~ r.known /\ ~ r.over
          /\ ~ MayLand(d) /\ \A f \in Files : net[d][f] = "none"
      BY <1>1, <1>4, <2>2, <2>3, NotStarted
    <3>2. \A f \in Files : net'[d][f] = "none"
      BY <1>1, <3>1
    <3>3. RepairInv(d)'
      BY <1>1, <1>2, <2>2, <2>3, <3>1, <3>2, FilesAreNumbers DEF RepairInv, Unresolved
    <3> QED BY <1>1, <1>4, <2>2, <2>3, <3>1, <3>3, NotStarted
  <2>4. CASE e # d
    <3>1. repair'[d] = repair[d]
      BY <1>1, <2>2, <2>4
    <3>2. RepairInv(d)'
      BY <1>1, <1>2, <3>1, RecoveredLeases DEF RepairInv, Unresolved
    <3> QED BY <1>1, <2>2, <3>1, <3>2
  <2> QED BY <2>3, <2>4
<1>5. ASSUME NEW e \in Repairs, pc[e] = "queued", ~ repair[e].sent,
             repair' = [repair EXCEPT ![e] = [heldRow[e] EXCEPT !.sent = TRUE]]
      PROVE  /\ repair' \in [Repairs -> RepairRows] /\ RepairInv(d)'
             /\ repair[d].over => repair'[d].over
             /\ repair[d].status = "none" => repair'[d].status = "none"
  <2>1. heldRow[e] \in RepairRows /\ RepairInv(e)
    BY RepairBefore
  <2>2. PICK r \in RepairRows :
          /\ repair' = [repair EXCEPT ![e] = r]
          /\ r.api = heldRow[e].api /\ r.started = heldRow[e].started /\ r.intent = heldRow[e].intent
          /\ r.sent /\ r.known = heldRow[e].known /\ r.over = heldRow[e].over
          /\ r.status = heldRow[e].status
    <3> DEFINE r == [heldRow[e] EXCEPT !.sent = TRUE]
    <3>1. /\ r \in RepairRows
          /\ r.api = heldRow[e].api /\ r.started = heldRow[e].started /\ r.intent = heldRow[e].intent
          /\ r.sent /\ r.known = heldRow[e].known /\ r.over = heldRow[e].over
          /\ r.status = heldRow[e].status
      BY <2>1 DEF RepairRows
    <3>2. repair' = [repair EXCEPT ![e] = r]
      BY <1>5
    <3> QED BY <3>1, <3>2
  <2>3. CASE e = d
    <3>1. /\ repair'[d] = r /\ r.api /\ r.started /\ r.intent /\ r.sent
          /\ ~ r.known /\ ~ r.over /\ r.status = "running" /\ ~ repair[d].over
          /\ repair[d].status # "none"
      BY <1>1, <1>5, <2>1, <2>2, <2>3, HeldRow DEF RepairInv
    <3>2. \A f \in Files \ {1} : net'[d][f] = "none"
      BY <1>1 DEF RepairInv
    <3>3. RepairInv(d)'
      BY <1>1, <1>2, <3>1, <3>2 DEF RepairInv, Unresolved
    <3> QED BY <1>1, <2>2, <3>1, <3>3
  <2>4. CASE e # d
    <3>1. repair'[d] = repair[d]
      BY <1>1, <2>2, <2>4
    <3>2. RepairInv(d)'
      BY <1>1, <1>2, <3>1, RecoveredLeases DEF RepairInv, Unresolved
    <3> QED BY <1>1, <2>2, <3>1, <3>2
  <2> QED BY <2>3, <2>4
<1>6. UNCHANGED repair \/ \E e \in Repairs : TornRepair(e)
  BY DEF Restart
<1> QED BY <1>1, <1>3, <1>4, <1>5, <1>6 DEF TornRepair, TornStart, Startable

(* The restart preserves the invariant, and forgets no end. *)
LEMMA RestartPreserves ==
  ASSUME IInv, Restart
  PROVE  RepairOK
<1>1. /\ UNCHANGED <<content, base, net, sends, edits, noWrite, passed, latest>>
      /\ review' = [p \in Plans |-> NoReview]
      /\ owner' = Nobody /\ pc' = [j \in Jobs |-> "off"] /\ restarts' \in Nat
      /\ heldCancel' \in [Corrections -> BOOLEAN] /\ stopped' = {} /\ canceling' = {} /\ aborted' = {}
      /\ heldRow' \in [Repairs -> RepairRows] /\ cancelRow' \in [Repairs -> RepairRows]
  BY NoRepairIsARow DEF Restart, IInv, TypeOK
<1>2. /\ plan' \in [Plans -> PlanRows] /\ row' \in [Corrections -> Rows]
      /\ repair' \in [Repairs -> RepairRows]
  <2>1. CASE Plans = {}
    <3>1. plan' = plan
      BY <2>1 DEF Restart
    <3>2. plan' \in [Plans -> PlanRows]
      BY <3>1 DEF IInv, TypeOK
    <3>3. row' \in [Corrections -> Rows]
      BY RestartedCorrections DEF Restart, IInv, TypeOK
    <3>4. repair' \in [Repairs -> RepairRows]
      BY RestartedRepairs DEF Restart, IInv, TypeOK
    <3> QED BY <3>2, <3>3, <3>4
  <2>2. CASE Plans # {}
    <3>1. plan' \in [Plans -> PlanRows]
      BY <2>2, RestartedPlans
    <3>2. row' \in [Corrections -> Rows]
      BY RestartedCorrections DEF Restart, IInv, TypeOK
    <3>3. repair' \in [Repairs -> RepairRows]
      BY RestartedRepairs DEF Restart, IInv, TypeOK
    <3> QED BY <3>1, <3>2, <3>3
  <2> QED BY <2>1, <2>2
<1>3. /\ pc' \in [Jobs -> PlanPcs \cup CorrectionPcs \cup RepairPcs]
      /\ \A p \in Plans : pc'[p] \in PlanPcs
      /\ \A c \in Corrections : pc'[c] \in CorrectionPcs
      /\ \A d \in Repairs : pc'[d] \in RepairPcs
  BY <1>1, Kinds DEF PlanPcs, CorrectionPcs, RepairPcs
<1>4. TypeOK'
  BY <1>1, <1>2, <1>3, RecoveredLeases, NoReviewIsOne DEF IInv, TypeOK
<1>5. SentOnce'
  BY <1>1, NoSend DEF IInv
<1>6. \A j \in Jobs : pc'[j] = "off" /\ ~ MayStillSend(j)' /\ MayLand(j)' = MayLand(j)
  BY <1>1 DEF MayStillSend, MayLand
<1>7. SharedInv'
  BY <1>6, RecoveredLeases DEF IInv, SharedInv, LateWritesAreCovered, OneWriterPerModel
<1>8. AloneInv'
  BY <1>6 DEF AloneInv
<1>9. ReplacedInv'
  <2> SUFFICES ASSUME NEW q \in Plans, NEW r \in passed[q] PROVE Unwritten(r)'
    BY <1>1 DEF ReplacedInv, NoReview
  <2>1. r \in Plans /\ Unwritten(r)
    BY DEF IInv, ReplacedInv, TypeOK
  <2>2. r \in Jobs
    BY <2>1, Kinds
  <2>3. lease[r] \in {"failed_prewrite", "resolved"} /\ lease'[r] = lease[r]
    BY <2>1, <2>2, RecoveredLeases DEF Unwritten, FailedPrewrite, ReconciledNoWrite
  <2> QED BY <1>1, <1>6, <2>1, <2>2, <2>3, RestartedPlans
          DEF Unwritten, FailedPrewrite, ReconciledNoWrite, JobIsOver, BranchUnchanged
<1>10. LatestInv'
  BY <1>1, RestartedRepairs DEF IInv, LatestInv
<1> QED BY <1>4, <1>5, <1>7, <1>8, <1>9, <1>10, RestartedPlans, RestartedCorrections,
           RestartedRepairs DEF IInv, RepairOK

-----------------------------------------------------------------------------
(* The theorems. *)

(* The invariant holds before anything is approved. *)
LEMMA InitIInv == Init => IInv
<1> SUFFICES ASSUME Init PROVE IInv
  OBVIOUS
<1>1. /\ lease = [j \in Jobs |-> "none"] /\ owner = Nobody /\ pc = [j \in Jobs |-> "off"]
      /\ content = [f \in Files |-> Original]
      /\ base = [j \in Jobs |-> [f \in Files |-> Original]]
      /\ net = [j \in Jobs |-> [f \in Files |-> "none"]] /\ sends = [j \in Jobs |-> 0]
      /\ edits = 0 /\ restarts = 0
      /\ plan = [p \in Plans |-> NoPlan] /\ noWrite = {}
      /\ review = [p \in Plans |-> NoReview] /\ passed = [p \in Plans |-> {}]
      /\ row = [c \in Corrections |-> NoRow] /\ heldCancel = [c \in Corrections |-> FALSE] /\ stopped = {}
      /\ repair = [d \in Repairs |-> NoRepair] /\ heldRow = [d \in Repairs |-> NoRepair]
      /\ cancelRow = [d \in Repairs |-> NoRepair]
      /\ canceling = {} /\ aborted = {} /\ latest = Nobody
  BY DEF Init, SharedInit, PlanInit, CorrectionInit, RepairInit
<1>2. NoPlan \in PlanRows
  BY DEF NoPlan, PlanRows
<1>3. NoRow \in Rows
  BY FilesAreNumbers DEF NoRow, Rows, CorrectionStatuses
<1>4. [f \in Files |-> Original] \in Contents
  BY DEF Contents, Authors
<1>5. /\ lease \in [Jobs -> LeaseStates] /\ net \in [Jobs -> [Files -> NetStates]]
      /\ pc \in [Jobs -> PlanPcs \cup CorrectionPcs \cup RepairPcs]
      /\ \A p \in Plans : pc[p] \in PlanPcs
      /\ \A c \in Corrections : pc[c] \in CorrectionPcs
      /\ \A d \in Repairs : pc[d] \in RepairPcs
  BY <1>1, Kinds DEF LeaseStates, NetStates, PlanPcs, CorrectionPcs, RepairPcs
<1>6. TypeOK
  BY <1>1, <1>2, <1>3, <1>4, <1>5, NoRepairIsARow, NoReviewIsOne DEF TypeOK
<1>7. \A j \in Jobs : /\ \A f \in Files : net[j][f] = "none"
                      /\ lease[j] = "none" /\ pc[j] = "off" /\ ~ MayLand(j)
  BY <1>1 DEF MayLand
<1>8. SentOnce
  <2> SUFFICES ASSUME NEW j \in Jobs
               PROVE  sends[j] = Cardinality({f \in Files : net[j][f] # "none"})
    BY DEF SentOnce
  <2>1. {f \in Files : net[j][f] # "none"} = {}
    BY <1>7
  <2> QED BY <1>1, <2>1, FS_EmptySet
<1>9. SharedInv /\ AloneInv
  BY <1>7 DEF SharedInv, AloneInv, LateWritesAreCovered, OneWriterPerModel
<1>10. ASSUME NEW p \in Plans PROVE PlanInv(p)
  <2>1. plan[p] = NoPlan /\ p \in Jobs /\ p \notin noWrite
    BY <1>1, Kinds
  <2> QED BY <1>7, <2>1, FilesAreNumbers DEF PlanInv, NoPlan, Create, Yaml
<1>11. ASSUME NEW c \in Corrections PROVE CorrectionInv(c)
  <2>1. /\ row[c] = NoRow /\ c \in Jobs
        /\ \A f \in Files : content[f] = Original
    BY <1>1, Kinds
  <2>2. c # Original
    BY Kinds
  <2> QED BY <1>7, <2>1, <2>2, FilesAreNumbers DEF CorrectionInv, NoRow
<1>12. ASSUME NEW d \in Repairs PROVE RepairInv(d) /\ repair[d].status = "none"
  <2>1. repair[d] = NoRepair /\ d \in Jobs /\ d \notin canceling
    BY <1>1, Kinds
  <2> QED BY <1>7, <2>1, FilesAreNumbers DEF RepairInv, NoRepair, Unresolved
<1>13. ReplacedInv /\ LatestInv
  BY <1>1, <1>12 DEF ReplacedInv, LatestInv, NoReview
<1> QED BY <1>6, <1>8, <1>9, <1>10, <1>11, <1>12, <1>13 DEF IInv

(* Every step preserves it, and forgets no end of an AI job. *)
LEMMA NextPreserves ==
  ASSUME IInv, [Next]_vars
  PROVE  RepairOK
<1>1. ASSUME NEW p \in Plans, PlanNext(p), UNCHANGED <<correctionVars, repairVars>> PROVE RepairOK
  BY <1>1, PlanNextPreserves DEF RepairOK, repairVars
<1>2. ASSUME NEW c \in Corrections, CorrectionNext(c), UNCHANGED <<planVars, repairVars>>
      PROVE RepairOK
  BY <1>2, CorrectionNextPreserves DEF RepairOK, repairVars
<1>3. ASSUME NEW d \in Repairs, RepairNext(d), UNCHANGED <<planVars, correctionVars>>
      PROVE RepairOK
  BY <1>3, RepairNextPreserves
<1>4. CASE Destination /\ UNCHANGED <<planVars, correctionVars, repairVars>>
  BY <1>4, DestinationPreserves DEF RepairOK, repairVars
<1>5. CASE Restart
  BY <1>5, RestartPreserves
<1>6. CASE UNCHANGED vars
  <2>1. UNCHANGED sharedVars /\ UNCHANGED <<planVars, correctionVars, repairVars>>
    BY <1>6 DEF vars
  <2>2. IInv'
    <3>1. TypeOK'
      BY <2>1 DEF IInv, TypeOK, sharedVars, planVars, correctionVars, repairVars
    <3>2. SentOnce'
      BY <2>1 DEF IInv, SentOnce, sharedVars
    <3>3. SharedInv' /\ AloneInv'
      BY <2>1 DEF IInv, SharedInv, AloneInv, LateWritesAreCovered, OneWriterPerModel, MayLand, Open,
                  MayStillSend, sharedVars
    <3>4. ReplacedInv' /\ LatestInv'
      BY <2>1 DEF IInv, ReplacedInv, LatestInv, Unwritten, FailedPrewrite, ReconciledNoWrite, JobIsOver,
                  BranchUnchanged, planVars, repairVars, sharedVars
    <3>5. \A p \in Plans : PlanInv(p)'
      BY <2>1, PlanFrame DEF IInv, planVars, sharedVars
    <3>6. \A c \in Corrections : CorrectionInv(c)'
      BY <2>1, CorrectionFrame DEF IInv, correctionVars, sharedVars
    <3>7. \A d \in Repairs : RepairInv(d)'
      BY <2>1, RepairFrame DEF IInv, repairVars, sharedVars
    <3> QED BY <3>1, <3>2, <3>3, <3>4, <3>5, <3>6, <3>7 DEF IInv
  <2> QED BY <2>1, <2>2 DEF RepairOK, repairVars
<1> QED BY <1>1, <1>2, <1>3, <1>4, <1>5, <1>6 DEF Next

(* The invariant holds always: whatever the approvals do in whatever order, with answers     *)
(* lost, late or refused, people editing the branch and the server restarted, every row, its *)
(* lease and its requests agree.                                                             *)
THEOREM Invariance == Spec => []IInv
<1>1. IInv /\ [Next]_vars => IInv'
  BY NextPreserves DEF RepairOK
<1> QED BY InitIInv, <1>1, PTL DEF Spec

(* The stored rows, the leases and the requests have their types. *)
THEOREM TypeCorrect == Spec => []TypeOK
<1>1. IInv => TypeOK
  BY DEF IInv
<1> QED BY Invariance, <1>1, PTL

(* No approved write leaves the process twice: not after a second approval, a restart between *)
(* two records, a cancellation that stores an old row, or a reconciliation.                   *)
THEOREM SentOnceAlways == Spec => []SentOnce
<1>1. IInv => SentOnce
  BY DEF IInv
<1> QED BY Invariance, <1>1, PTL

(* As long as the destination may still do what an approval asked for, the lease of that      *)
(* approval is open and keeps the model closed.                                               *)
THEOREM LateWritesAlwaysCovered == Spec => []LateWritesAreCovered
<1>1. IInv => LateWritesAreCovered
  BY DEF IInv, SharedInv
<1> QED BY Invariance, <1>1, PTL

(* Two approvals never have requests on their way to one model.                               *)
THEOREM OneWriterAlways == Spec => []OneWriterPerModel
<1>1. IInv => OneWriterPerModel
  BY DEF IInv, SharedInv
<1> QED BY Invariance, <1>1, PTL

(* A used plan of the same evidence that a new review was saved over has written no YAML, and  *)
(* none of it is on its way, whatever the operator said, and whatever became of other plans    *)
(* while its branch was read. (A used plan with a job whose evidence has drifted stands in the *)
(* way of no review, and may have written.)                                                    *)
THEOREM ReplacedPlansWroteNothing == Spec => []ReplacedPlanWroteNothing
<1>1. ASSUME IInv PROVE ReplacedPlanWroteNothing
  <2> SUFFICES ASSUME NEW q \in Plans, NEW r \in passed[q]
               PROVE  net[r][Yaml] \notin {"wire", "landed"}
    BY DEF ReplacedPlanWroteNothing
  <2>1. r \in Plans /\ Unwritten(r) /\ PlanInv(r) /\ Yaml \in Files
    BY <1>1, FilesAreNumbers DEF IInv, TypeOK, ReplacedInv, Yaml
  <2> QED BY <2>1 DEF Unwritten, FailedPrewrite, ReconciledNoWrite, BranchUnchanged, PlanInv
<1> QED BY Invariance, <1>1, PTL

(* What an operator accepts was validated as it is accepted, and its AI job is over.           *)
THEOREM AcceptedAlwaysFinal == Spec => []AcceptedIsFinal
<1>1. ASSUME IInv PROVE AcceptedIsFinal
  <2> SUFFICES ASSUME NEW d \in Repairs, repair[d].status = "accepted"
               PROVE  repair[d].valid = repair[d].hash /\ ~ MayLand(d)
    BY DEF AcceptedIsFinal
  <2>1. RepairInv(d)
    BY <1>1, RepairBefore
  <2> QED BY <1>1, <2>1, MayLandIsUnresolved DEF RepairInv
<1> QED BY Invariance, <1>1, PTL

(* The end of an AI job, once stored, is never overwritten by a row that was loaded before.    *)
THEOREM EndsAreNotForgotten == Spec => EndIsNotForgotten
<1>1. IInv /\ [Next]_vars => [\A d \in Repairs : repair[d].over => repair'[d].over]_vars
  BY NextPreserves DEF RepairOK
<1> QED BY Invariance, <1>1, PTL DEF Spec, EndIsNotForgotten

-----------------------------------------------------------------------------
(* The work on the branches implements the gate of WriteGate. *)

(* The handler that may still send has the turn. *)
LEMMA TurnIs ==
  ASSUME IInv
  PROVE  /\ TurnOf = Nobody \/ TurnOf \in Jobs
         /\ \A j \in Jobs : MayStillSend(j) <=> TurnOf = j
<1>1. \A j \in Jobs : MayStillSend(j) => owner = j
  BY DEF IInv, SharedInv, MayStillSend
<1>2. owner \in Jobs \cup {Nobody}
  BY DEF IInv, TypeOK
<1> QED BY <1>1, <1>2, NobodyIsNoJob DEF TurnOf

(* So it has after a step. *)
LEMMA TurnIsNext ==
  ASSUME IInv'
  PROVE  /\ TurnOf' = Nobody \/ TurnOf' \in Jobs
         /\ \A j \in Jobs : MayStillSend(j)' <=> TurnOf' = j
<1>1. \A j \in Jobs : MayStillSend(j)' => owner' = j
  BY DEF IInv, SharedInv, MayStillSend
<1>2. owner' \in Jobs \cup {Nobody}
  BY DEF IInv, TypeOK
<1> QED BY <1>1, <1>2, NobodyIsNoJob DEF TurnOf, MayStillSend

(* A request is open while the destination may still act on it. *)
LEMMA RequestsAre ==
  ASSUME IInv
  PROVE  /\ \A j \in Jobs, f \in Files :
              /\ Requests[j][f] = RequestState[net[j][f]]
              /\ Requests[j][f] = "open" <=> net[j][f] \in {"wire", "running"}
              /\ Requests[j][f] = "none" <=> net[j][f] = "none"
         /\ \A j \in Jobs : Gate!Quiet(j) <=> ~ MayLand(j)
<1>1. \A j \in Jobs, f \in Files : net[j][f] \in NetStates
  BY DEF IInv, TypeOK
<1>2. \A j \in Jobs, f \in Files : Requests[j][f] = RequestState[net[j][f]]
  BY DEF Requests
<1>3. \A j \in Jobs, f \in Files :
        /\ Requests[j][f] = "open" <=> net[j][f] \in {"wire", "running"}
        /\ Requests[j][f] = "none" <=> net[j][f] = "none"
  BY <1>1, <1>2 DEF RequestState, NetStates
<1> QED BY <1>2, <1>3 DEF Gate!Quiet, MayLand

(* The approvals that are used, by their kind. *)
LEMMA UsedAre ==
  /\ \A p \in Plans : p \in Used <=> plan[p].claim
  /\ \A c \in Corrections : c \in Used <=> row[c].claim
  /\ \A d \in Repairs : d \in Used <=> repair[d].started
  /\ Used \subseteq Jobs
BY Kinds DEF Used

(* What was never used has no lease and no turn. *)
LEMMA UnusedIsClean ==
  ASSUME IInv, NEW j \in Jobs, j \notin Used
  PROVE  lease[j] = "none" /\ ~ MayStillSend(j)
<1>1. CASE j \in Plans
  <2>1. PlanInv(j) /\ pc[j] \in PlanPcs /\ ~ plan[j].claim
    BY <1>1, UsedAre DEF IInv, TypeOK
  <2> QED BY <2>1 DEF PlanInv, PlanPcs, MayStillSend
<1>2. CASE j \in Corrections
  <2>1. CorrectionInv(j) /\ pc[j] \in CorrectionPcs /\ ~ row[j].claim
    BY <1>2, UsedAre DEF IInv, TypeOK
  <2> QED BY <2>1 DEF CorrectionInv, CorrectionPcs, MayStillSend
<1>3. CASE j \in Repairs
  BY <1>3, UsedAre, NotStarted DEF MayStillSend
<1> QED BY <1>1, <1>2, <1>3 DEF Jobs

\* A step of j moves no other lease and no other handler.
MovesOnly(j) == \A k \in Jobs \ {j} : lease'[k] = lease[k] /\ pc'[k] = pc[k]

(* A step that uses nothing up, sends nothing and begins no turn is a judgement. *)
LEMMA JudgeStep ==
  ASSUME IInv, IInv', NEW j \in Jobs, MovesOnly(j), UNCHANGED <<net, content>>,
         Used' = Used, MayStillSend(j)' => MayStillSend(j)
  PROVE  [Gate!GateNext]_(Gate!gateVars)
<1>1. Requests' = Requests
  BY DEF Requests
<1>2. \A k \in Jobs \ {j} : Open(k)' = Open(k) /\ MayStillSend(k)' = MayStillSend(k)
  BY DEF MovesOnly, Open, MayStillSend
<1>3. TurnOf' = TurnOf \/ (TurnOf = j /\ TurnOf' = Nobody)
  BY <1>2, TurnIs, TurnIsNext, NobodyIsNoJob
<1>4. \/ Unsettled' = Unsettled \cup {j}
      \/ Gate!Quiet(j) /\ Unsettled' = Unsettled \ {j}
  <2>1. CASE Open(j)'
    BY <2>1, <1>2 DEF Unsettled
  <2>2. CASE ~ Open(j)'
    <3>1. ~ MayLand(j)
      BY <2>2 DEF IInv, SharedInv, LateWritesAreCovered, MayLand
    <3> QED BY <2>2, <3>1, <1>2, RequestsAre DEF Unsettled
  <2> QED BY <2>1, <2>2
<1>5. CASE j \in Used
  <2>1. Gate!Judge(j)
    BY <1>1, <1>3, <1>4, <1>5 DEF Gate!Judge
  <2> QED BY <2>1 DEF Gate!GateNext
<1>6. CASE j \notin Used
  <2>1. lease[j] = "none" /\ ~ MayStillSend(j)
    BY <1>6, UnusedIsClean
  <2>2. lease'[j] = "none" /\ ~ MayStillSend(j)'
    <3>1. j \notin Used'
      BY <1>6
    <3>2. CASE j \in Plans
      <4>1. PlanInv(j)' /\ ~ plan'[j].claim
        BY <3>1, <3>2 DEF IInv, Used
      <4> QED BY <2>1, <4>1 DEF PlanInv
    <3>3. CASE j \in Corrections
      <4>1. CorrectionInv(j)' /\ ~ row'[j].claim
        BY <3>1, <3>3 DEF IInv, Used
      <4> QED BY <2>1, <4>1 DEF CorrectionInv
    <3>4. CASE j \in Repairs
      <4>1. RepairInv(j)' /\ ~ repair'[j].started
        BY <3>1, <3>4 DEF IInv, Used
      <4> QED BY <2>1, <4>1 DEF RepairInv
    <3> QED BY <3>2, <3>3, <3>4 DEF Jobs
  <2>3. Unsettled' = Unsettled
    BY <1>2, <2>1, <2>2 DEF Unsettled, Open
  <2>4. TurnOf' = TurnOf
    BY <1>3, <2>1, TurnIs
  <2> QED BY <1>1, <2>3, <2>4 DEF Gate!gateVars
<1> QED BY <1>5, <1>6

(* A turn begins when no lease is open. *)
LEMMA BeginStep ==
  ASSUME IInv, IInv', NEW j \in Jobs, MovesOnly(j), UNCHANGED <<net, content>>,
         ~ Open(j), ~ Open(j)', \A k \in Jobs \ {j} : ~ Open(k),
         \A k \in Jobs : ~ MayStillSend(k), MayStillSend(j)',
         j \notin Used, Used' = Used \cup {j}
  PROVE  Gate!GateNext
<1>1. Requests' = Requests
  BY DEF Requests
<1>2. Unsettled = {} /\ Unsettled' = {}
  BY DEF Unsettled, MovesOnly, Open
<1>3. TurnOf = Nobody /\ TurnOf' = j
  BY TurnIs, TurnIsNext
<1>4. Gate!Begin(j)
  BY <1>1, <1>2, <1>3 DEF Gate!Begin
<1> QED BY <1>4 DEF Gate!GateNext

(* An approval is used up, and nothing begins. *)
LEMMA SpendStep ==
  ASSUME IInv, IInv', NEW j \in Jobs, MovesOnly(j), UNCHANGED <<net, content>>,
         Open(j)' = Open(j), MayStillSend(j)' = MayStillSend(j), Used' = Used \cup {j}
  PROVE  Gate!GateNext
<1>1. Requests' = Requests
  BY DEF Requests
<1>2. Unsettled' = Unsettled
  BY DEF Unsettled, MovesOnly, Open
<1>3. \A k \in Jobs : MayStillSend(k)' = MayStillSend(k)
  BY DEF MovesOnly, MayStillSend
<1>4. TurnOf' = TurnOf
  BY <1>3, TurnIs, TurnIsNext, NobodyIsNoJob
<1>5. Gate!Spend(j)
  BY <1>1, <1>2, <1>4 DEF Gate!Spend
<1> QED BY <1>5 DEF Gate!GateNext

(* A request leaves in the turn of its approval, after the one before is over. *)
LEMMA RequestStep ==
  ASSUME IInv, IInv', NEW j \in Jobs, NEW f \in Files, MovesOnly(j), UNCHANGED content,
         MayStillSend(j), MayStillSend(j)', ~ MayLand(j), net[j][f] = "none", Sends(j, f),
         Open(j)', Used' = Used
  PROVE  Gate!GateNext
<1>1. net \in [Jobs -> [Files -> NetStates]]
  BY DEF IInv, TypeOK
<1>2. Requests' = [Requests EXCEPT ![j][f] = "open"]
  <2>1. net' = [net EXCEPT ![j][f] = "wire"]
    BY DEF Sends
  <2>2. \A k \in Jobs, g \in Files :
          net'[k][g] = IF k = j /\ g = f THEN "wire" ELSE net[k][g]
    BY <1>1, <2>1
  <2>3. \A k \in Jobs, g \in Files : Requests'[k][g] = RequestState[net'[k][g]]
    BY DEF Requests, RequestState
  <2>4. ASSUME NEW k \in Jobs
        PROVE  Requests'[k] = IF k = j THEN [Requests[j] EXCEPT ![f] = "open"] ELSE Requests[k]
    BY <2>2 DEF Requests, RequestState
  <2> QED BY <2>4 DEF Requests
<1>3. Unsettled' = Unsettled \cup {j}
  BY DEF Unsettled, MovesOnly, Open
<1>4. TurnOf = j /\ TurnOf' = j
  BY TurnIs, TurnIsNext
<1>5. Gate!Request(j, f)
  BY <1>2, <1>3, <1>4, RequestsAre DEF Gate!Request
<1> QED BY <1>5 DEF Gate!GateNext

(* A step of a plan: it begins, is used up, sends, or is judged. *)
LEMMA PlanGate ==
  ASSUME IInv, NEW p \in Plans, PlanNext(p), UNCHANGED <<correctionVars, repairVars>>
  PROVE  [Gate!GateNext]_(Gate!gateVars)
<1>1. IInv'
  BY PlanNextPreserves
<1>2. p \in Jobs /\ PlanInv(p) /\ plan \in [Plans -> PlanRows]
  BY Kinds DEF IInv, TypeOK
<1>3. MovesOnly(p)
  <2>1. PlanOK(p)
    BY PrepareChecksOK, PrepareSavesOK, PrepareEndsOK, StageOK, StageUnrecordedOK, PlanSendsOK,
       PlanAnsweredOK, PlanEndsOK, PlanLostOK, AdjudicateOK DEF PlanNext, PlanStep
  <2> QED BY <2>1 DEF PlanOK, StepOK, OthersStay, MovesOnly
<1>4. /\ lease \in [Jobs -> LeaseStates] /\ DOMAIN pc = Jobs
  BY DEF IInv, TypeOK
<1>5. UNCHANGED <<row, repair>>
  BY DEF correctionVars, repairVars
<1>6. CASE PrepareChecks(p) \/ PrepareSaves(p) \/ PrepareEnds(p)
  <2>1. UNCHANGED sharedVars
    BY <1>6 DEF PrepareChecks, PrepareSaves, PrepareEnds
  <2>2. \A q \in Plans : plan'[q].claim = plan[q].claim
    BY <1>6, PrepareSavesOK DEF PrepareChecks, PrepareEnds
  <2>3. Used' = Used
    BY <1>5, <2>2 DEF Used
  <2> QED BY <1>1, <1>2, <1>3, <2>1, <2>3, JudgeStep DEF sharedVars, MayStillSend
<1>7. ASSUME \A q \in Plans : plan'[q].claim = (plan[q].claim \/ q = p) PROVE Used' = Used \cup {p}
  BY <1>5, <1>7 DEF Used
<1>8. CASE Stage(p)
  <2>1. /\ ~ plan[p].claim /\ lease[p] = "none" /\ pc[p] = "off" /\ NothingOpen(p)
        /\ UNCHANGED <<net, content>>
        /\ plan' = [plan EXCEPT ![p].claim = TRUE, ![p].linked = TRUE]
    BY <1>2, <1>8 DEF Stage, Stageable, PlanInv
  <2>2. Used' = Used \cup {p} /\ p \notin Used
    <3>1. plan'[p].claim = TRUE /\ \A q \in Plans \ {p} : plan'[q] = plan[q]
      <4>1. plan[p] \in PlanRows
        BY <1>2
      <4>2. plan'[p] = [plan[p] EXCEPT !.claim = TRUE, !.linked = TRUE]
        BY <1>2, <2>1
      <4> QED BY <1>2, <2>1, <4>1, <4>2 DEF PlanRows
    <3>2. \A q \in Plans : plan[q].claim \in BOOLEAN
      BY <1>2 DEF PlanRows
    <3> QED BY <1>7, <2>1, <3>1, <3>2, UsedAre
  <2>3. CASE owner = Nobody /\ lease'[p] = "claimed" /\ pc'[p] = "proving"
    <3>1. \A k \in Jobs : ~ MayStillSend(k)
      BY <2>3, Kinds, NobodyIsNoJob DEF IInv, SharedInv, MayStillSend
    <3>2. MayStillSend(p)' /\ ~ Open(p) /\ ~ Open(p)' /\ \A k \in Jobs \ {p} : ~ Open(k)
      BY <2>1, <2>3 DEF MayStillSend, Open, NothingOpen
    <3> QED BY <1>1, <1>2, <1>3, <2>1, <2>2, <3>1, <3>2, BeginStep
  <2>4. CASE lease'[p] = "failed_prewrite" /\ UNCHANGED pc
    BY <1>1, <1>2, <1>3, <2>1, <2>2, <2>4, SpendStep DEF Open, MayStillSend
  <2> QED BY <1>2, <1>4, <1>8, <2>3, <2>4 DEF Stage, Reserved
<1>9. CASE StageUnrecorded(p)
  <2>1. UNCHANGED sharedVars /\ plan' = [plan EXCEPT ![p].claim = TRUE]
    BY <1>9 DEF StageUnrecorded
  <2>2. Used' = Used \cup {p}
    BY <1>2, <1>7, <2>1 DEF PlanRows
  <2> QED BY <1>1, <1>2, <1>3, <2>1, <2>2, SpendStep DEF sharedVars, Open, MayStillSend
<1>10. CASE PlanSends(p)
  <2>1. /\ pc[p] = "proving" /\ net[p][Yaml] = "none" /\ UNCHANGED <<content, plan>>
        /\ lease' = [lease EXCEPT ![p] = "dispatched"] /\ pc' = [pc EXCEPT ![p] = "wire"]
        /\ Sends(p, NextWrite(p))
    BY <1>10 DEF PlanSends, planVars
  <2>2. MayStillSend(p) /\ MayStillSend(p)' /\ Open(p)'
    BY <1>2, <1>4, <2>1 DEF MayStillSend, Open
  <2>3. ~ MayLand(p) /\ NextWrite(p) \in Files /\ net[p][NextWrite(p)] = "none"
    BY <1>2, <2>1, FilesAreNumbers DEF PlanInv, MayLand, NextWrite, Create, Yaml
  <2>4. Used' = Used
    BY <1>5, <2>1 DEF Used
  <2> QED BY <1>1, <1>2, <1>3, <2>1, <2>2, <2>3, <2>4, RequestStep
<1>11. CASE PlanAnswered(p) \/ PlanEnds(p) \/ PlanLost(p) \/ Adjudicate(p)
  <2>1. UNCHANGED <<net, content, plan>>
    BY <1>11 DEF PlanAnswered, PlanEnds, PlanLost, Adjudicate, planVars
  <2>2. MayStillSend(p)' => MayStillSend(p)
    BY <1>2, <1>4, <1>11 DEF PlanAnswered, PlanEnds, PlanLost, Adjudicate, JobEnds, MayStillSend
  <2>3. Used' = Used
    BY <1>5, <2>1 DEF Used
  <2> QED BY <1>1, <1>2, <1>3, <2>1, <2>2, <2>3, JudgeStep
<1> QED BY <1>6, <1>8, <1>9, <1>10, <1>11 DEF PlanNext, PlanStep

(* A step of a correction moves no other lease, handler or row. *)
LEMMA CorrectionMovesOne ==
  ASSUME IInv, NEW c \in Corrections, CorrectionNext(c)
  PROVE  MovesOnly(c) /\ \A e \in Corrections \ {c} : row'[e] = row[e]
<1>1. DOMAIN lease = Jobs /\ DOMAIN pc = Jobs /\ DOMAIN row = Corrections
  BY DEF IInv, TypeOK
<1>2. CASE PrepareCorrection(c) \/ ApplyChecks(c) \/ ObserveCorrection(c) \/ CancelCorrection(c)
           \/ ReconcileCorrection(c)
  BY <1>1, <1>2 DEF PrepareCorrection, ApplyChecks, ObserveCorrection, CancelCorrection,
     ReconcileCorrection, Mirrored, MovesOnly
<1>3. CASE Applies(c) \/ ApplyRefused(c) \/ ApplyUnrecorded(c) \/ CorrectionQueues(c)
           \/ CorrectionSends(c)
  BY <1>1, <1>3 DEF Applies, ApplyRefused, ApplyUnrecorded, CorrectionQueues, CorrectionSends,
     Saved, Mirrored, MovesOnly
<1>4. CASE CorrectionAcked(c) \/ CorrectionVerified(c) \/ CorrectionApplied(c)
  BY <1>1, <1>4 DEF CorrectionAcked, CorrectionVerified, CorrectionApplied, Saved, Mirrored, MovesOnly
<1>5. CASE CorrectionStops(c) \/ CorrectionRejected(c) \/ CorrectionLost(c)
  BY <1>1, <1>5 DEF CorrectionStops, CorrectionRejected, CorrectionLost, CorrectionEnds, Saved,
     Mirrored, MovesOnly
<1> QED BY <1>2, <1>3, <1>4, <1>5 DEF CorrectionNext, CorrectionStep

(* A step of a correction: it begins, is used up, sends, or is judged. *)
LEMMA CorrectionGate ==
  ASSUME IInv, NEW c \in Corrections, CorrectionNext(c), UNCHANGED <<planVars, repairVars>>
  PROVE  [Gate!GateNext]_(Gate!gateVars)
<1>1. IInv'
  BY CorrectionNextPreserves
<1>2. MovesOnly(c) /\ \A e \in Corrections \ {c} : row'[e] = row[e]
  BY CorrectionMovesOne
<1>3. /\ CorrectionInv(c) /\ row[c] \in Rows /\ c \in Jobs /\ row \in [Corrections -> Rows]
      /\ row[c].sent \in 0 .. NumFiles /\ row[c].acked \in 0 .. NumFiles
      /\ lease \in [Jobs -> LeaseStates] /\ DOMAIN pc = Jobs /\ pc[c] \in CorrectionPcs
      /\ pc[c] # "off" => owner = c
  BY CorrectionBefore DEF IInv, TypeOK
<1>4. UNCHANGED <<plan, repair>>
  BY DEF planVars, repairVars
<1>5. ASSUME row'[c].claim = row[c].claim PROVE Used' = Used
  BY <1>2, <1>4, <1>5 DEF Used
<1>6. ASSUME row'[c].claim PROVE Used' = Used \cup {c}
  BY <1>2, <1>4, <1>6 DEF Used
<1>7. ASSUME NEW new \in Rows, Saved(c, new) PROVE row'[c].claim = new.claim
  BY <1>3, <1>7 DEF Saved, Rows
<1>8. CASE Applies(c)
  <2>1. /\ pc[c] = "checking" /\ Idle(c) /\ owner = c /\ UNCHANGED <<net, content>>
        /\ lease' = [lease EXCEPT ![c] = "claimed"] /\ pc' = [pc EXCEPT ![c] = "reading"]
        /\ lease[c] = "none" /\ ~ row[c].claim
    BY <1>3, <1>8 DEF Applies, CorrectionInv
  <2>2. [row[c] EXCEPT !.claim = TRUE, !.status = "running"] \in Rows
    BY <1>3 DEF Rows, CorrectionStatuses
  <2>3. row'[c].claim
    BY <1>3, <1>7, <1>8, <2>2 DEF Applies, Rows
  <2>4. \A k \in Jobs : ~ MayStillSend(k)
    BY <2>1 DEF IInv, SharedInv, MayStillSend
  <2>5. MayStillSend(c)' /\ ~ Open(c) /\ ~ Open(c)' /\ \A k \in Jobs \ {c} : ~ Open(k)
    BY <1>3, <2>1 DEF MayStillSend, Open, Idle, Settled
  <2>6. c \notin Used
    BY <2>1, UsedAre
  <2> QED BY <1>1, <1>2, <1>3, <1>6, <2>1, <2>3, <2>4, <2>5, <2>6, BeginStep
<1>9. CASE ApplyUnrecorded(c)
  <2>1. /\ pc[c] = "checking" /\ UNCHANGED <<net, content, lease>> /\ pc' = [pc EXCEPT ![c] = "off"]
    BY <1>9 DEF ApplyUnrecorded
  <2>2. [row[c] EXCEPT !.claim = TRUE, !.status = "partial"] \in Rows
    BY <1>3 DEF Rows, CorrectionStatuses
  <2>3. row'[c].claim
    BY <1>3, <1>7, <1>9, <2>2 DEF ApplyUnrecorded, Rows
  <2>4. Open(c)' = Open(c) /\ MayStillSend(c)' = MayStillSend(c)
    BY <1>3, <2>1 DEF MayStillSend, Open
  <2> QED BY <1>1, <1>2, <1>3, <1>6, <2>1, <2>3, <2>4, SpendStep
<1>10. CASE CorrectionSends(c)
  <2>1. /\ pc[c] = "queued" /\ UNCHANGED content /\ Sends(c, row[c].sent + 1)
        /\ lease[c] \in {"claimed", "dispatched"} /\ lease'[c] = "dispatched"
        /\ pc' = [pc EXCEPT ![c] = "wire"] /\ row[c].acked = row[c].sent /\ row[c].sent < NumFiles
    BY <1>3, <1>10 DEF CorrectionSends, Authorized, Mirrored, CorrectionInv
  <2>2. row[c].sent + 1 \in Files /\ net[c][row[c].sent + 1] = "none"
    BY <1>3, <2>1, FilesAreNumbers DEF Files, CorrectionInv
  <2>3. ~ MayLand(c)
    <3> SUFFICES ASSUME NEW f \in Files PROVE net[c][f] \notin {"wire", "running"}
      BY DEF MayLand
    <3>1. net[c][f] # "none" => f <= row[c].acked
      BY <1>3, <2>1 DEF CorrectionInv
    <3>2. f <= row[c].acked => net[c][f] = "landed"
      BY <1>3 DEF CorrectionInv
    <3> QED BY <3>1, <3>2
  <2>4. MayStillSend(c) /\ MayStillSend(c)' /\ Open(c)'
    BY <1>3, <2>1 DEF MayStillSend, Open
  <2>5. [row[c] EXCEPT !.sent = @ + 1] \in Rows
    BY <1>3, <2>1, FilesAreNumbers DEF Rows
  <2>6. row'[c].claim = row[c].claim
    BY <1>3, <1>7, <1>10, <2>5 DEF CorrectionSends, Rows
  <2> QED BY <1>1, <1>2, <1>3, <1>5, <2>1, <2>2, <2>3, <2>4, <2>6, RequestStep
<1>11. ASSUME UNCHANGED <<net, content>>, row'[c].claim = row[c].claim,
              MayStillSend(c)' => MayStillSend(c)
       PROVE  [Gate!GateNext]_(Gate!gateVars)
  BY <1>1, <1>2, <1>3, <1>5, <1>11, JudgeStep
<1>12. CASE PrepareCorrection(c) \/ ApplyChecks(c) \/ ApplyRefused(c) \/ ObserveCorrection(c)
            \/ CancelCorrection(c) \/ ReconcileCorrection(c)
  <2>1. UNCHANGED <<net, content>>
    BY <1>12 DEF PrepareCorrection, ApplyChecks, ApplyRefused, ObserveCorrection, CancelCorrection,
       ReconcileCorrection
  <2>2. row'[c].claim = row[c].claim
    BY <1>3, <1>12 DEF PrepareCorrection, ApplyChecks, ApplyRefused, ObserveCorrection,
       CancelCorrection, ReconcileCorrection, Rows
  <2>3. MayStillSend(c)' => MayStillSend(c)
    BY <1>3, <1>12 DEF PrepareCorrection, ApplyChecks, ApplyRefused, ObserveCorrection,
       CancelCorrection, ReconcileCorrection, MayStillSend
  <2> QED BY <1>11, <2>1, <2>2, <2>3
<1>13. CASE CorrectionQueues(c) \/ CorrectionAcked(c) \/ CorrectionVerified(c) \/ CorrectionApplied(c)
  <2>1. UNCHANGED <<net, content>>
    BY <1>13 DEF CorrectionQueues, CorrectionAcked, CorrectionVerified, CorrectionApplied
  <2>2. \E new \in Rows : Saved(c, new) /\ new.claim = row[c].claim
    <3>1. row[c] \in Rows /\ [row[c] EXCEPT !.acked = row[c].sent] \in Rows
          /\ [row[c] EXCEPT !.status = "applied"] \in Rows
      BY <1>3 DEF Rows, CorrectionStatuses
    <3>2. /\ [row[c] EXCEPT !.acked = row[c].sent].claim = row[c].claim
          /\ [row[c] EXCEPT !.status = "applied"].claim = row[c].claim
      BY <1>3 DEF Rows
    <3> QED BY <1>13, <3>1, <3>2 DEF CorrectionQueues, CorrectionAcked, CorrectionVerified,
                                     CorrectionApplied
  <2>3. MayStillSend(c)' => MayStillSend(c)
    BY <1>3, <1>13 DEF CorrectionQueues, CorrectionAcked, CorrectionVerified, CorrectionApplied,
                       MayStillSend
  <2> QED BY <1>7, <1>11, <2>1, <2>2, <2>3
<1>14. CASE CorrectionStops(c) \/ CorrectionRejected(c) \/ CorrectionLost(c)
  <2>1. PICK unknown \in BOOLEAN, rejected \in BOOLEAN : CorrectionEnds(c, unknown, rejected)
    BY <1>3, <1>14 DEF CorrectionStops, CorrectionRejected, CorrectionLost, Rows
  <2>2. UNCHANGED <<net, content>> /\ ~ MayStillSend(c)'
    BY <1>3, <2>1 DEF CorrectionEnds, MayStillSend
  <2>3. PICK st \in CorrectionStatuses :
          Saved(c, [row[c] EXCEPT !.status = st, !.rejected = rejected])
    BY <2>1 DEF CorrectionEnds, CorrectionStatuses
  <2>4. /\ [row[c] EXCEPT !.status = st, !.rejected = rejected] \in Rows
        /\ [row[c] EXCEPT !.status = st, !.rejected = rejected].claim = row[c].claim
    BY <1>3, <2>3 DEF Rows
  <2> QED BY <1>7, <1>11, <2>2, <2>3, <2>4
<1> QED BY <1>8, <1>9, <1>10, <1>12, <1>13, <1>14 DEF CorrectionNext, CorrectionStep

(* A step of a repair moves no other lease, handler or row. *)
LEMMA RepairMovesOne ==
  ASSUME IInv, NEW d \in Repairs, RepairNext(d)
  PROVE  MovesOnly(d) /\ \A e \in Repairs \ {d} : repair'[e] = repair[e]
<1>1. DOMAIN lease = Jobs /\ DOMAIN pc = Jobs /\ DOMAIN repair = Repairs
  BY DEF IInv, TypeOK
<1>2. CASE PrepareRepair(d)
  BY <1>1, <1>2 DEF PrepareRepair, MovesOnly
<1>3. CASE StartRepair(d) \/ StartUnrecorded(d)
  BY <1>1, <1>3 DEF StartRepair, StartUnrecorded, sharedVars, MovesOnly
<1>4. CASE RepairSends(d) \/ RepairNotSent(d) \/ RepairAnswered(d) \/ RepairLost(d)
  BY <1>1, <1>4 DEF RepairSends, RepairNotSent, RepairAnswered, RepairLost, RepairMirrored,
     RepairOff, MovesOnly
<1>5. CASE InspectPending(d) \/ InspectRead(d)
  BY <1>1, <1>5 DEF InspectPending, InspectRead, Stored, RepairMirrored, RepairOff, MovesOnly
<1>6. CASE ValidateReads(d) \/ Validated(d)
  BY <1>1, <1>6 DEF ValidateReads, Validated, Stored, RepairOff, MovesOnly
<1>7. CASE Accepts(d) \/ AcceptRefused(d) \/ ObservationFails(d)
  BY <1>1, <1>7 DEF Accepts, AcceptRefused, ObservationFails, Stored, RepairMirrored, RepairOff,
     MovesOnly
<1>8. CASE InspectBegins(d) \/ ValidateBegins(d) \/ AcceptBegins(d)
  BY <1>1, <1>8 DEF InspectBegins, ValidateBegins, AcceptBegins, Observes, MovesOnly
<1>9. CASE ObserveRepair(d) \/ CancelRepair(d) \/ CancelSends(d) \/ CancelNotSent(d)
  BY <1>1, <1>9 DEF ObserveRepair, CancelRepair, CancelSends, CancelNotSent, RepairMirrored,
     sharedVars, MovesOnly
<1> QED BY <1>2, <1>3, <1>4, <1>5, <1>6, <1>7, <1>8, <1>9 DEF RepairNext, RepairStep

(* No copy of a row that is stored over it gives the approval back. *)
LEMMA StartedStays ==
  ASSUME IInv, NEW d \in Repairs, RepairNext(d), UNCHANGED <<planVars, correctionVars>>,
         ~ StartRepair(d), ~ StartUnrecorded(d)
  PROVE  repair'[d].started = repair[d].started
<1>1. /\ RepairInv(d) /\ repair[d] \in RepairRows /\ heldRow[d] \in RepairRows
      /\ cancelRow[d] \in RepairRows /\ DOMAIN repair = Repairs
      /\ content \in Contents /\ base \in [Jobs -> Contents] /\ d \in Jobs
  BY RepairBefore DEF IInv, TypeOK
<1>2. pc[d] # "off" => heldRow[d].started = repair[d].started
  BY <1>1 DEF RepairInv, Core
<1>3. d \in canceling => cancelRow[d].started = repair[d].started
  BY <1>1 DEF RepairInv, Core
<1>4. CASE PrepareRepair(d)
  <2>1. ~ repair[d].started
    BY <1>1, <1>4 DEF PrepareRepair, RepairInv, IInv, LatestInv
  <2>2. PICK api \in BOOLEAN :
          repair' = [repair EXCEPT ![d] =
            [NoRepair EXCEPT !.status = "ready", !.api = api, !.hash = content]]
    BY <1>4 DEF PrepareRepair
  <2>3. repair'[d].started = FALSE
    BY <1>1, <2>2 DEF NoRepair
  <2>4. repair[d].started = FALSE
    BY <1>1, <2>1 DEF RepairRows
  <2> QED BY <2>3, <2>4
<1>5. CASE RepairSends(d) \/ RepairNotSent(d) \/ RepairAnswered(d) \/ RepairLost(d)
  <2>1. pc[d] # "off" /\ heldRow[d].started = repair[d].started
    BY <1>2, <1>5 DEF RepairSends, RepairNotSent, RepairAnswered, RepairLost
  <2>2. CASE RepairSends(d)
    <3>1. heldRow' = [heldRow EXCEPT ![d].sent = TRUE] /\ repair' = [repair EXCEPT ![d] = heldRow'[d]]
      BY <2>2 DEF RepairSends
    <3>2. DOMAIN heldRow = Repairs
      BY DEF IInv, TypeOK
    <3> QED BY <1>1, <2>1, <3>1, <3>2 DEF RepairRows
  <2>3. CASE RepairNotSent(d)
    BY <1>1, <2>1, <2>3 DEF RepairNotSent, RepairRows
  <2>4. CASE RepairAnswered(d)
    BY <1>1, <2>1, <2>4 DEF RepairAnswered, RepairRows
  <2>5. CASE RepairLost(d)
    BY <1>1, <2>1, <2>5 DEF RepairLost, RepairRows
  <2> QED BY <1>5, <2>2, <2>3, <2>4, <2>5
<1>6. CASE InspectPending(d)
  BY <1>1, <1>2, <1>6 DEF InspectPending, Stored, RepairRows
<1>7. ASSUME NEW r \in RepairRows, NEW blocked, r.started = repair[d].started
      PROVE  LET new == ReadBack(r, content, blocked, base[d])
             IN  new.started = repair[d].started /\ new \in RepairRows
  <2>1. base[d] \in Contents
    BY <1>1
  <2> QED BY <1>1, <1>7, <2>1, ReadBackRow
<1>8. CASE InspectRead(d)
  <2>1. PICK over \in BOOLEAN, blocked \in BOOLEAN :
          LET seen == [heldRow[d] EXCEPT !.over = @ \/ over]
          IN  Stored(d, ReadBack(seen, content, blocked, base[d]))
    BY <1>8 DEF InspectRead
  <2> DEFINE seen == [heldRow[d] EXCEPT !.over = @ \/ over]
  <2>2. seen \in RepairRows /\ seen.started = heldRow[d].started
    BY <1>1 DEF RepairRows
  <2>3. pc[d] # "off"
    BY <1>8 DEF InspectRead
  <2>4. ReadBack(seen, content, blocked, base[d]).started = repair[d].started
    BY <1>2, <1>7, <2>2, <2>3
  <2> QED BY <1>1, <2>1, <2>4 DEF Stored
<1>9. CASE Validated(d)
  <2>1. pc[d] # "off"
    BY <1>9 DEF Validated
  <2>2. PICK blocked \in BOOLEAN, passes \in BOOLEAN :
          LET new == ReadBack(heldRow[d], content, blocked, base[d])
          IN  Stored(d, IF content # heldRow[d].hash THEN new
                        ELSE [new EXCEPT !.valid = IF passes THEN content ELSE NoHash,
                                         !.status = IF passes /\ ~ blocked THEN "review" ELSE @])
    BY <1>9 DEF Validated
  <2> DEFINE new == ReadBack(heldRow[d], content, blocked, base[d])
  <2>3. new.started = repair[d].started /\ new \in RepairRows
    BY <1>1, <1>2, <1>7, <2>1
  <2> HIDE DEF new
  <2>4. [new EXCEPT !.valid = IF passes THEN content ELSE NoHash,
                    !.status = IF passes /\ ~ blocked THEN "review" ELSE @].started = new.started
    BY <2>3 DEF RepairRows
  <2> QED BY <1>1, <2>2, <2>3, <2>4 DEF Stored, new
<1>10. CASE Accepts(d) \/ AcceptRefused(d)
  <2>1. pc[d] # "off"
    BY <1>10 DEF Accepts, AcceptRefused
  <2>2. PICK blocked \in BOOLEAN :
          LET new == ReadBack(heldRow[d], content, blocked, base[d])
          IN  Stored(d, [new EXCEPT !.status = "accepted"]) \/ Stored(d, new)
    BY <1>10 DEF Accepts, AcceptRefused
  <2> DEFINE new == ReadBack(heldRow[d], content, blocked, base[d])
  <2>3. new.started = repair[d].started /\ new \in RepairRows
    BY <1>1, <1>2, <1>7, <2>1
  <2> HIDE DEF new
  <2>4. [new EXCEPT !.status = "accepted"].started = new.started
    BY <2>3 DEF RepairRows
  <2> QED BY <1>1, <2>2, <2>3, <2>4 DEF Stored, new
<1>11. CASE ValidateReads(d) \/ ObservationFails(d) \/ InspectBegins(d) \/ ValidateBegins(d)
            \/ AcceptBegins(d) \/ CancelNotSent(d)
  BY <1>11 DEF ValidateReads, ObservationFails, InspectBegins, ValidateBegins, AcceptBegins,
     Observes, CancelNotSent
<1>12. CASE ObserveRepair(d) \/ CancelRepair(d) \/ CancelSends(d)
  BY <1>1, <1>3, <1>12 DEF ObserveRepair, CancelRepair, CancelSends, RepairRows
<1> QED BY <1>4, <1>5, <1>6, <1>8, <1>9, <1>10, <1>11, <1>12 DEF RepairNext, RepairStep

(* A step of a repair: it begins, is used up, sends, or is judged. *)
LEMMA RepairGate ==
  ASSUME IInv, NEW d \in Repairs, RepairNext(d), UNCHANGED <<planVars, correctionVars>>
  PROVE  [Gate!GateNext]_(Gate!gateVars)
<1>1. IInv'
  BY RepairNextPreserves DEF RepairOK
<1>2. MovesOnly(d) /\ \A e \in Repairs \ {d} : repair'[e] = repair[e]
  BY RepairMovesOne
<1>3. /\ RepairInv(d) /\ d \in Jobs /\ repair \in [Repairs -> RepairRows]
      /\ lease \in [Jobs -> LeaseStates] /\ DOMAIN pc = Jobs /\ pc[d] \in RepairPcs
      /\ pc[d] # "off" => owner = d
  BY RepairBefore DEF IInv, TypeOK
<1>4. UNCHANGED <<plan, row>>
  BY DEF planVars, correctionVars
<1>5. ASSUME repair'[d].started = repair[d].started PROVE Used' = Used
  BY <1>2, <1>4, <1>5 DEF Used
<1>6. ASSUME repair'[d].started PROVE Used' = Used \cup {d}
  BY <1>2, <1>4, <1>6 DEF Used
<1>7. CASE StartRepair(d)
  <2>1. /\ pc[d] = "off" /\ ~ repair[d].started /\ lease[d] = "none" /\ owner = Nobody /\ Idle(d)
        /\ UNCHANGED <<net, content>> /\ lease' = [lease EXCEPT ![d] = "claimed"]
    BY <1>7 DEF StartRepair, Startable
  <2>2. repair'[d].started
    BY <1>3, <1>7 DEF StartRepair, RepairRows
  <2>3. d \notin Used /\ Used' = Used \cup {d}
    BY <1>6, <2>1, <2>2, UsedAre
  <2>4. ~ Open(d) /\ ~ Open(d)' /\ \A k \in Jobs \ {d} : ~ Open(k)
    BY <1>3, <2>1 DEF Open, Idle, Settled
  <2>5. \A k \in Jobs : ~ MayStillSend(k)
    BY <2>1, NobodyIsNoJob DEF IInv, SharedInv, MayStillSend
  <2>6. CASE pc' = [pc EXCEPT ![d] = "queued"]
    <3>1. MayStillSend(d)'
      BY <1>3, <2>6 DEF MayStillSend
    <3> QED BY <1>1, <1>2, <1>3, <2>1, <2>3, <2>4, <2>5, <3>1, BeginStep
  <2>7. CASE UNCHANGED pc
    <3>1. MayStillSend(d)' = MayStillSend(d)
      BY <2>7 DEF MayStillSend
    <3>2. Open(d)' = Open(d)
      BY <2>4 DEF Open
    <3> QED BY <1>1, <1>2, <1>3, <2>1, <2>3, <3>1, <3>2, SpendStep
  <2> QED BY <1>7, <2>6, <2>7 DEF StartRepair
<1>8. CASE StartUnrecorded(d)
  <2>1. UNCHANGED sharedVars
    BY <1>8 DEF StartUnrecorded
  <2>2. repair'[d].started
    BY <1>3, <1>8 DEF StartUnrecorded, RepairRows
  <2> QED BY <1>1, <1>2, <1>3, <1>6, <2>1, <2>2, SpendStep DEF sharedVars, Open, MayStillSend
<1>9. CASE RepairSends(d)
  <2>1. /\ pc[d] = "queued" /\ ~ repair[d].sent /\ lease[d] = "claimed" /\ Sends(d, 1)
        /\ lease'[d] = "dispatched" /\ pc' = [pc EXCEPT ![d] = "wire"] /\ UNCHANGED content
    BY <1>3, <1>9 DEF RepairSends, RepairMirrored
  <2>2. ~ MayLand(d) /\ 1 \in Files /\ net[d][1] = "none"
    BY <1>3, <2>1, FilesAreNumbers DEF RepairInv, MayLand
  <2>3. MayStillSend(d) /\ MayStillSend(d)' /\ Open(d)'
    BY <1>3, <2>1 DEF MayStillSend, Open
  <2>4. ~ StartRepair(d) /\ ~ StartUnrecorded(d)
    BY <2>1 DEF StartRepair, StartUnrecorded, Startable
  <2>5. Used' = Used
    BY <1>5, <2>4, StartedStays
  <2> QED BY <1>1, <1>2, <1>3, <2>1, <2>2, <2>3, <2>5, RequestStep
<1>10. CASE ~ StartRepair(d) /\ ~ StartUnrecorded(d) /\ ~ RepairSends(d)
  <2>1. Used' = Used
    BY <1>5, <1>10, StartedStays
  <2>2. UNCHANGED <<net, content>>
    BY <1>10 DEF RepairNext, RepairStep, PrepareRepair, RepairNotSent, RepairAnswered, RepairLost,
       InspectPending, InspectRead, ValidateReads, Validated, Accepts, AcceptRefused,
       ObservationFails, InspectBegins, ValidateBegins, AcceptBegins, Observes, ObserveRepair,
       CancelRepair, CancelSends, CancelNotSent, Stored, sharedVars
  <2>3. MayStillSend(d)' => MayStillSend(d)
    <3>1. CASE PrepareRepair(d) \/ ObserveRepair(d) \/ CancelRepair(d) \/ CancelSends(d)
               \/ CancelNotSent(d)
      BY <3>1 DEF PrepareRepair, ObserveRepair, CancelRepair, CancelSends, CancelNotSent,
         sharedVars, MayStillSend
    <3>2. CASE InspectBegins(d) \/ ValidateBegins(d) \/ AcceptBegins(d) \/ ValidateReads(d)
      BY <1>3, <3>2 DEF InspectBegins, ValidateBegins, AcceptBegins, Observes, ValidateReads,
         MayStillSend
    <3>3. CASE pc' = [pc EXCEPT ![d] = "off"]
      BY <1>3, <3>3 DEF MayStillSend
    <3>4. CASE RepairNotSent(d) \/ RepairAnswered(d) \/ RepairLost(d) \/ InspectPending(d)
               \/ InspectRead(d) \/ Validated(d) \/ Accepts(d) \/ AcceptRefused(d)
               \/ ObservationFails(d)
      BY <3>3, <3>4 DEF RepairNotSent, RepairAnswered, RepairLost, InspectPending, InspectRead,
         Validated, Accepts, AcceptRefused, ObservationFails, Stored, RepairOff
    <3> QED BY <1>10, <3>1, <3>2, <3>4 DEF RepairNext, RepairStep
  <2> QED BY <1>1, <1>2, <1>3, <2>1, <2>2, <2>3, JudgeStep
<1> QED BY <1>7, <1>8, <1>9, <1>10

(* What the destination does: requests land or are over, people edit the branch. *)
LEMMA DestinationGate ==
  ASSUME IInv, Destination, UNCHANGED <<planVars, correctionVars, repairVars>>
  PROVE  [Gate!GateNext]_(Gate!gateVars)
<1>1. /\ net \in [Jobs -> [Files -> NetStates]] /\ UNCHANGED <<lease, owner, pc>>
      /\ DOMAIN content = Files
  BY DEF IInv, TypeOK, Contents, Destination, Lands, IsRefused, AgentWrites, AgentEnds, Edit
<1>2. UNCHANGED <<TurnOf, Used, Unsettled>>
  BY <1>1 DEF TurnOf, Used, Unsettled, Open, MayStillSend, planVars, correctionVars, repairVars
<1>3. ASSUME NEW j \in Jobs, NEW f \in Files, net[j][f] \in {"wire", "running"},
             NEW s \in {"running", "landed", "refused"}, net' = [net EXCEPT ![j][f] = s],
             content' \in {content} \cup {[content EXCEPT ![v] = j] : v \in Files}
      PROVE  Gate!GateNext
  <2>1. \A k \in Jobs, g \in Files :
          net'[k][g] = IF k = j /\ g = f THEN s ELSE net[k][g]
    BY <1>1, <1>3
  <2>2. CASE s = "running"
    <3>1. \A k \in Jobs, g \in Files : RequestState[net'[k][g]] = RequestState[net[k][g]]
      BY <1>3, <2>1, <2>2 DEF RequestState
    <3>2. Requests' = Requests
      BY <3>1 DEF Requests, RequestState
    <3> QED BY <1>2, <1>3, <3>2, RequestsAre DEF Gate!Land, Gate!GateNext
  <2>3. CASE s # "running"
    <3>1. ASSUME NEW k \in Jobs
          PROVE  Requests'[k] = IF k = j THEN [Requests[j] EXCEPT ![f] = "over"] ELSE Requests[k]
      BY <2>1, <2>3 DEF Requests, RequestState
    <3>2. Requests' = [Requests EXCEPT ![j][f] = "over"]
      BY <3>1 DEF Requests
    <3> QED BY <1>2, <1>3, <3>2, RequestsAre DEF Gate!Land, Gate!GateNext
  <2> QED BY <2>2, <2>3
<1>4. ASSUME NEW j \in Jobs, NEW f \in Files, Lands(j, f) \/ IsRefused(j, f) PROVE Gate!GateNext
  BY <1>3, <1>4 DEF Lands, IsRefused
<1>5. ASSUME NEW d \in Repairs, AgentEnds(d) PROVE Gate!GateNext
  BY <1>3, <1>5, Kinds, FilesAreNumbers DEF AgentEnds
<1>6. ASSUME NEW d \in Repairs, NEW f \in Files, AgentWrites(d, f) PROVE Gate!GateNext
  <2>1. d \in Jobs /\ 1 \in Files /\ Requests[d][1] = "open" /\ Requests' = Requests
    BY <1>6, Kinds, FilesAreNumbers, RequestsAre DEF AgentWrites, Requests
  <2>2. content' = [content EXCEPT ![f] = d]
    BY <1>6 DEF AgentWrites
  <2>3. Gate!Land(d, 1)
    BY <1>2, <2>1, <2>2 DEF Gate!Land
  <2> QED BY <2>1, <2>3 DEF Gate!GateNext
<1>7. ASSUME NEW f \in Files, Edit(f) PROVE Gate!GateNext
  BY <1>2, <1>7 DEF Edit, Requests, Gate!People, Gate!GateNext
<1> QED BY <1>4, <1>5, <1>6, <1>7 DEF Destination

(* A restart ends the turn, and uses up at most one approval. *)
LEMMA RestartGate ==
  ASSUME IInv, Restart
  PROVE  Gate!GateNext
<1>1. UNCHANGED <<net, content>> /\ owner' = Nobody
  BY DEF Restart
<1>2. TurnOf' = Nobody /\ Requests' = Requests
  BY <1>1 DEF TurnOf, Requests
<1>3. Unsettled' = Unsettled
  <2>1. \A j \in Jobs : Open(j)' = Open(j)
    <3>1. \A j \in Jobs : RecoveredLease(j) \in {"dispatched", "remote_pending", "uncertain"} <=> Open(j)
      BY DEF RecoveredLease, Open, IInv, TypeOK, LeaseStates
    <3>2. CASE lease' = [j \in Jobs |-> RecoveredLease(j)]
      BY <3>1, <3>2 DEF Open
    <3>3. ASSUME NEW d \in Repairs, TornStart(d),
                 lease' = [j \in Jobs |-> IF j = d THEN "failed_prewrite" ELSE RecoveredLease(j)]
          PROVE  \A j \in Jobs : Open(j)' = Open(j)
      <4>1. ~ Open(d)
        BY <3>3 DEF TornStart, Startable, Open
      <4>2. ASSUME NEW j \in Jobs PROVE Open(j)' = Open(j)
        BY <3>1, <3>3, <4>1 DEF Open
      <4> QED BY <4>2
    <3> QED BY <3>2, <3>3 DEF Restart
  <2> QED BY <2>1 DEF Unsettled
<1>4. Used' = Used \/ \E j \in Jobs : Used' = Used \cup {j}
  <2>1. /\ plan \in [Plans -> PlanRows] /\ row \in [Corrections -> Rows]
        /\ repair \in [Repairs -> RepairRows]
    BY DEF IInv, TypeOK
  <2>2. CASE UNCHANGED <<plan, row, repair>>
    BY <2>2 DEF Used
  <2>3. ASSUME NEW p \in Plans, TornPlan(p), UNCHANGED <<row, repair>>
        PROVE  Used' = Used \cup {p}
    <3>1. \A q \in Plans : plan'[q].claim = (plan[q].claim \/ q = p)
      BY <2>1, <2>3 DEF TornPlan, PlanRows
    <3> QED BY <2>3, <3>1 DEF Used
  <2>4. ASSUME NEW c \in Corrections, TornCorrection(c), UNCHANGED <<plan, repair>>
        PROVE  Used' = Used \cup {c}
    <3>1. \A e \in Corrections \ {c} : row'[e] = row[e]
      BY <2>1, <2>4 DEF TornCorrection, Saved
    <3>2. row'[c].claim
      <4>1. row[c] \in Rows
        BY <2>1
      <4>2. pc[c] = "queued" => row[c].claim
        BY <2>4 DEF TornCorrection, Authorized
      <4>3. /\ [row[c] EXCEPT !.claim = TRUE, !.status = "running", !.cancel = heldCancel[c]].claim
            /\ [row[c] EXCEPT !.sent = @ + 1, !.cancel = heldCancel[c]].claim = row[c].claim
        BY <4>1 DEF Rows
      <4> QED BY <2>1, <2>4, <4>1, <4>2, <4>3 DEF TornCorrection, Saved, Rows, Authorized
    <3> QED BY <2>4, <3>1, <3>2 DEF Used
  <2>5. ASSUME NEW d \in Repairs, TornRepair(d), UNCHANGED <<plan, row>>
        PROVE  Used' = Used \cup {d}
    <3>1. \A e \in Repairs \ {d} : repair'[e] = repair[e]
      BY <2>1, <2>5 DEF TornRepair, TornStart
    <3>2. repair'[d].started
      <4>1. repair[d] \in RepairRows /\ heldRow[d] \in RepairRows /\ RepairInv(d)
        BY RepairBefore
      <4>2. pc[d] = "queued" => heldRow[d].started
        BY <4>1 DEF RepairInv, Core
      <4> QED BY <2>1, <2>5, <4>1, <4>2 DEF TornRepair, TornStart, RepairRows
    <3> QED BY <2>5, <3>1, <3>2 DEF Used
  <2> QED BY <2>2, <2>3, <2>4, <2>5, Kinds DEF Restart
<1> QED BY <1>1, <1>2, <1>3, <1>4 DEF Gate!Stop, Gate!GateNext

(* Plans, corrections and repairs, whatever they meet, implement the gate: one turn for each  *)
(* approval, begun when nothing is unsettled; each write requested once, one at a time; and   *)
(* nothing settled while a request is open, over crashes, cancellations and late answers.     *)
THEOREM BranchWorkImplementsGate == Spec => GateSpec
<1>1. Init => Gate!GateInit
  <2> SUFFICES ASSUME Init PROVE Gate!GateInit
    OBVIOUS
  <2>1. /\ lease = [j \in Jobs |-> "none"] /\ owner = Nobody
        /\ content = [f \in Files |-> Original]
        /\ net = [j \in Jobs |-> [f \in Files |-> "none"]]
        /\ plan = [p \in Plans |-> NoPlan] /\ row = [c \in Corrections |-> NoRow]
        /\ repair = [d \in Repairs |-> NoRepair]
    BY DEF Init, SharedInit, PlanInit, CorrectionInit, RepairInit
  <2>2. TurnOf = Nobody /\ Unsettled = {}
    BY <2>1 DEF TurnOf, Unsettled, Open
  <2>3. Used = {}
    BY <2>1 DEF Used, NoPlan, NoRow, NoRepair
  <2>4. Requests = [j \in Jobs |-> [f \in Files |-> "none"]]
    BY <2>1 DEF Requests, RequestState
  <2> QED BY <2>1, <2>2, <2>3, <2>4 DEF Gate!GateInit
<1>2. IInv /\ [Next]_vars => [Gate!GateNext]_(Gate!gateVars)
  <2> SUFFICES ASSUME IInv, [Next]_vars
               PROVE  [Gate!GateNext]_(Gate!gateVars)
    OBVIOUS
  <2>1. CASE UNCHANGED vars
    BY <2>1 DEF vars, sharedVars, planVars, correctionVars, repairVars, Gate!gateVars, TurnOf, Used,
                Unsettled, Requests, Open, MayStillSend
  <2> QED BY <2>1, PlanGate, CorrectionGate, RepairGate, DestinationGate, RestartGate DEF Next
<1> QED BY <1>1, <1>2, Invariance, PTL DEF Spec, GateSpec, Gate!GateSpec
=============================================================================
