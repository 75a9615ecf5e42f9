----------------------------- MODULE ModelLock -----------------------------
(***************************************************************************)
(* What the leases on destination models promise: a model is held by at    *)
(* most one job at a time, only the holder has a write on the way to it,   *)
(* and the model is let go when nothing of the holder is on its way.       *)
(***************************************************************************)
CONSTANTS Holders, Models, HeldModel, Nobody

VARIABLES
  holder,   \* the job that holds a model
  flying    \* the jobs with a write on its way to the destination

lockVars == <<holder, flying>>

LockInit == holder = [m \in Models |-> Nobody] /\ flying = {}

Acquire(j) ==
  /\ holder[HeldModel[j]] = Nobody
  /\ holder' = [holder EXCEPT ![HeldModel[j]] = j]
  /\ UNCHANGED flying

Issue(j) ==
  /\ holder[HeldModel[j]] = j
  /\ flying' = flying \cup {j}
  /\ UNCHANGED holder

Land(j) ==
  /\ j \in flying
  /\ flying' = flying \ {j}
  /\ UNCHANGED holder

\* One model, or what the jobs of a server that restarts held without a write.
Release(free) ==
  /\ \A m \in free : holder[m] # Nobody /\ holder[m] \notin flying
  /\ holder' = [m \in Models |-> IF m \in free THEN Nobody ELSE holder[m]]
  /\ UNCHANGED flying

LockNext ==
  \/ \E j \in Holders : Acquire(j) \/ Issue(j) \/ Land(j)
  \/ \E free \in SUBSET Models : Release(free)

LockSpec == LockInit /\ [][LockNext]_lockVars
=============================================================================
