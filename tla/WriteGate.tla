------------------------------ MODULE WriteGate ------------------------------
(***************************************************************************)
(* What the work on review branches promises: an approval is used once; it *)
(* gets its turn only while no approval is unsettled; in its turn it       *)
(* requests each of its writes at most once, and one at a time; it stays   *)
(* unsettled while a request of it is open, whatever becomes of its turn;  *)
(* and the branch changes only by an open request, or by people.           *)
(***************************************************************************)
CONSTANTS Approvals, Writes, Original, Edited, Nobody

VARIABLES
  turn,       \* the approval that may request writes
  used,       \* the approvals that had their turn, or lost it
  unsettled,  \* the approvals of which something may still come, as far as is known
  request,    \* the requests of an approval: none, open, over
  author      \* who wrote a file of the branch last

gateVars == <<turn, used, unsettled, request, author>>

GateInit ==
  /\ turn = Nobody /\ used = {} /\ unsettled = {}
  /\ request = [j \in Approvals |-> [w \in Writes |-> "none"]]
  /\ author = [w \in Writes |-> Original]

Quiet(j) == \A w \in Writes : request[j][w] # "open"

Begin(j) ==
  /\ turn = Nobody /\ unsettled = {} /\ j \notin used
  /\ turn' = j
  /\ used' = used \cup {j}
  /\ UNCHANGED <<unsettled, request, author>>

\* The approval is used up, and nothing begins.
Spend(j) ==
  /\ used' = used \cup {j}
  /\ UNCHANGED <<turn, unsettled, request, author>>

Request(j, w) ==
  /\ turn = j /\ Quiet(j) /\ request[j][w] = "none"
  /\ request' = [request EXCEPT ![j][w] = "open"]
  /\ unsettled' = unsettled \cup {j}
  /\ UNCHANGED <<turn, used, author>>

\* An open request takes effect, is over, or both.
Land(j, w) ==
  /\ request[j][w] = "open"
  /\ request' \in {request, [request EXCEPT ![j][w] = "over"]}
  /\ author' \in {author} \cup {[author EXCEPT ![v] = j] : v \in Writes}
  /\ UNCHANGED <<turn, used, unsettled>>

\* What is known of the requests changes, and the turn may end. An approval may be taken
\* for unsettled again; it is settled only when nothing of it is open.
Judge(j) ==
  /\ j \in used
  /\ UNCHANGED <<author, used, request>>
  /\ turn' = turn \/ (turn = j /\ turn' = Nobody)
  /\ \/ unsettled' = unsettled \cup {j}
     \/ unsettled' = unsettled \ {j} /\ Quiet(j)

People(w) ==
  /\ author' = [author EXCEPT ![w] = Edited]
  /\ UNCHANGED <<turn, used, unsettled, request>>

\* A restart ends the turn, and may cost an approval that was about to be used.
Stop ==
  /\ turn' = Nobody
  /\ \/ UNCHANGED used
     \/ \E j \in Approvals : used' = used \cup {j}
  /\ UNCHANGED <<unsettled, request, author>>

GateNext ==
  \/ \E j \in Approvals : Judge(j) \/ Begin(j) \/ Spend(j)
  \/ \E j \in Approvals, w \in Writes : Request(j, w) \/ Land(j, w)
  \/ \E w \in Writes : People(w)
  \/ Stop

GateSpec == GateInit /\ [][GateNext]_gateVars
=============================================================================
