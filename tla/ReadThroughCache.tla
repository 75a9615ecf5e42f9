-------------------------- MODULE ReadThroughCache --------------------------
(***************************************************************************)
(* The cache in front of the reads from Omni instances, and the sessions   *)
(* of the vault that bound it. The readers of a key share one load, each   *)
(* may leave, and a clear makes what was read, or is being read, unusable. *)
(*                                                                         *)
(* A clear aborts the load that it takes out of inFlight; the generation   *)
(* of a key tells a load that it was cleared, but it is deleted and begins *)
(* again at 0 while loads of earlier generations still run.                *)
(*                                                                         *)
(* Every action is one synchronous stretch. The promise of a load settles  *)
(* in two: its value is stored, and then the finally of startLoad runs.    *)
(* Left out: values, a disabled cache, and loaders that read the cache     *)
(* themselves.                                                             *)
(***************************************************************************)
EXTENDS Filters, FiniteSets

CONSTANTS
  Keys,
  Scopes,         \* the sets of keys that a prefix stands for
  Readers,        \* requests handled at a time
  Loads,          \* bound: loads that have not been forgotten
  MaxEntries,     \* MAX_ENTRIES
  MaxGeneration,  \* bound: a generation above it is not begun
  None

ASSUME CacheAssumption ==
  /\ Keys # {} /\ Scopes \subseteq SUBSET Keys
  /\ None \notin Loads
  /\ MaxEntries \in Nat \ {0} /\ MaxGeneration \in Nat

VARIABLES
  cache,     \* per key: absent, fresh or expired; and whether it was read before a clear
  order,     \* the keys of cache, the oldest entry first
  inFlight,  \* the load that new readers of a key share
  gen,       \* generations; 0 when the key has none
  loads,
  waits,     \* the load that a reader subscribes to
  client,    \* the client of a request: of the present session of the vault, or an old one
  locked     \* the vault is locked

vars == <<cache, order, inFlight, gen, loads, waits, client, locked>>

Absent == [st |-> "absent", old |-> FALSE]

\* old: its key was cleared since the load began. cleared: the generation that the clear
\* which aborted it left, until the callback of that clear has run. dead: its client
\* belonged to a session that was over.
LoadRecord ==
  [st : {"unused", "running", "ended", "settled"}, key : Keys, gen : Nat, aborted : BOOLEAN,
   old : BOOLEAN, dead : BOOLEAN, cleared : Nat]
Unused == [st |-> "unused", key |-> CHOOSE k \in Keys : TRUE, gen |-> 0, aborted |-> FALSE,
           old |-> FALSE, dead |-> FALSE, cleared |-> 0]

KeysOf(s) == {s[i] : i \in DOMAIN s}
Subscribers(l) == {r \in Readers : waits[r] = l}

-----------------------------------------------------------------------------
(* pruneExpired. *)

\* (Mutant: expired entries are dropped, and nothing else.)
SurvivorsUnbounded(c, s) == Filter(s, {k \in Keys : c[k].st = "fresh"})

\* What is not expired stays, except the oldest entry of a cache that is full.
Survivors(c, s) ==
  LET fresh == Filter(s, {k \in Keys : c[k].st = "fresh"})
  IN IF Len(fresh) > MaxEntries THEN Tail(fresh) ELSE fresh

\* The cache c is pruned to the keys of s; a pruned key that is not being loaded forgets
\* its generation. Then the keys of dropped are deleted.
PruneTo(c, s, dropped) ==
  /\ order' = Filter(s, Keys \ dropped)
  /\ cache' = [k \in Keys |-> IF k \in KeysOf(s) \ dropped THEN c[k] ELSE Absent]
  /\ gen' = [k \in Keys |->
       IF c[k] # Absent /\ k \notin KeysOf(s) /\ inFlight[k] = None THEN 0 ELSE gen[k]]

Expire(k) ==
  /\ cache[k].st = "fresh"
  /\ cache' = [cache EXCEPT ![k].st = "expired"]
  /\ UNCHANGED <<order, inFlight, gen, loads, waits, client, locked>>

-----------------------------------------------------------------------------
(* readThroughCacheResult. *)

MayRead(r) == client[r] # "none" /\ waits[r] = None

Hit(r, k) ==
  /\ MayRead(r)
  /\ k \in KeysOf(Survivors(cache, order))
  /\ PruneTo(cache, Survivors(cache, order), {})
  /\ UNCHANGED <<inFlight, loads, waits, client, locked>>

\* A forced refresh shares a load, too.
Join(r, k) ==
  /\ MayRead(r)
  /\ inFlight[k] # None
  /\ \E forced \in BOOLEAN : forced \/ k \notin KeysOf(Survivors(cache, order))
  /\ PruneTo(cache, Survivors(cache, order), {})
  /\ waits' = [waits EXCEPT ![r] = inFlight[k]]
  /\ UNCHANGED <<inFlight, loads, client, locked>>

\* startLoad: nothing to share, and no entry or a forced refresh.
Miss(r, k, l) ==
  /\ MayRead(r)
  /\ inFlight[k] = None
  /\ loads[l] = Unused
  /\ \E forced \in BOOLEAN : forced \/ k \notin KeysOf(Survivors(cache, order))
  /\ PruneTo(cache, Survivors(cache, order), {k})
  /\ inFlight' = [inFlight EXCEPT ![k] = l]
  /\ loads' = [loads EXCEPT ![l] =
       [Unused EXCEPT !.st = "running", !.key = k, !.gen = gen'[k], !.dead = client[r] = "dead"]]
  /\ waits' = [waits EXCEPT ![r] = l]
  /\ UNCHANGED <<client, locked>>

\* A load is forgotten when it has settled, and all its callbacks have run.
Rested(l, load, ws) ==
  IF load.st = "settled" /\ load.cleared = 0 /\ \A r \in Readers : ws[r] # l
    THEN Unused ELSE load

\* (Mutant: a reader of a load that was aborted is not told.)
AnswerUnaborted(r) ==
  /\ waits[r] # None
  /\ loads[waits[r]].st = "settled" /\ ~ loads[waits[r]].aborted
  /\ waits' = [waits EXCEPT ![r] = None]
  /\ loads' = [loads EXCEPT ![waits[r]] = Rested(waits[r], @, waits')]
  /\ UNCHANGED <<cache, order, inFlight, gen, client, locked>>

\* A reader is answered, with the value of the load or with its error.
Answer(r) ==
  /\ waits[r] # None
  /\ loads[waits[r]].st = "settled"
  /\ waits' = [waits EXCEPT ![r] = None]
  /\ loads' = [loads EXCEPT ![waits[r]] = Rested(waits[r], @, waits')]
  /\ UNCHANGED <<cache, order, inFlight, gen, client, locked>>

\* (Mutant: one reader that leaves takes the load with it.)
LeaveAborting(r) ==
  LET l == waits[r]
      last == l # None /\ loads[l].st # "settled"
  IN /\ l # None
     /\ waits' = [waits EXCEPT ![r] = None]
     /\ inFlight' = [k \in Keys |-> IF last /\ inFlight[k] = l THEN None ELSE inFlight[k]]
     /\ loads' = [loads EXCEPT ![l] =
          IF last THEN [@ EXCEPT !.aborted = TRUE] ELSE Rested(l, @, waits')]
     /\ UNCHANGED <<cache, order, gen, client, locked>>

\* The request of a reader is canceled: release. The last one aborts the load.
Leave(r) ==
  LET l == waits[r]
      last == l # None /\ loads[l].st # "settled" /\ Subscribers(l) = {r}
  IN /\ l # None
     /\ waits' = [waits EXCEPT ![r] = None]
     /\ inFlight' = [k \in Keys |-> IF last /\ inFlight[k] = l THEN None ELSE inFlight[k]]
     /\ loads' = [loads EXCEPT ![l] =
          IF last THEN [@ EXCEPT !.aborted = TRUE] ELSE Rested(l, @, waits')]
     /\ UNCHANGED <<cache, order, gen, client, locked>>

-----------------------------------------------------------------------------
(* The promise of a load. *)

\* The entry that a load would leave, among the others.
Entered(l) == [cache EXCEPT ![loads[l].key] = [st |-> "fresh", old |-> loads[l].old]]
Position(k) == IF k \in KeysOf(order) THEN order ELSE Append(order, k)

\* (Mutant: the generation is trusted to tell that a load was cleared.)
LoadsByGeneration(l) ==
  /\ loads[l].st = "running" /\ ~ loads[l].dead
  /\ loads' = [loads EXCEPT ![l].st = "ended"]
  /\ IF gen[loads[l].key] = loads[l].gen
       THEN PruneTo(Entered(l), Survivors(Entered(l), Position(loads[l].key)), {})
       ELSE UNCHANGED <<cache, order, gen>>
  /\ UNCHANGED <<inFlight, waits, client, locked>>

\* The value arrives: it is dropped if the load was aborted, and stored if its generation
\* is the present one. A client of a session that is over gets no value.
Loaded(l) ==
  /\ loads[l].st = "running" /\ ~ loads[l].dead
  /\ loads' = [loads EXCEPT ![l].st = "ended"]
  /\ IF ~ loads[l].aborted /\ gen[loads[l].key] = loads[l].gen
       THEN PruneTo(Entered(l), Survivors(Entered(l), Position(loads[l].key)), {})
       ELSE UNCHANGED <<cache, order, gen>>
  /\ UNCHANGED <<inFlight, waits, client, locked>>

LoadFails(l) ==
  /\ loads[l].st = "running"
  /\ loads' = [loads EXCEPT ![l].st = "ended"]
  /\ UNCHANGED <<cache, order, inFlight, gen, waits, client, locked>>

\* The generation g of a key goes when neither an entry nor a load has it.
Forgotten(g, k, flight) ==
  [gen EXCEPT ![k] = IF @ = g /\ cache[k] = Absent /\ flight[k] = None THEN 0 ELSE @]

\* The finally of startLoad.
Settle(l) ==
  LET k == loads[l].key
  IN /\ loads[l].st = "ended"
     /\ inFlight' = [inFlight EXCEPT ![k] = IF @ = l THEN None ELSE @]
     /\ gen' = Forgotten(loads[l].gen, k, inFlight')
     /\ loads' = [loads EXCEPT ![l] = Rested(l, [@ EXCEPT !.st = "settled"], waits)]
     /\ UNCHANGED <<cache, order, waits, client, locked>>

-----------------------------------------------------------------------------
(* clearReadThroughCache. *)

\* (Mutant: only what is complete is cleared.)
ClearEntries(S) ==
  /\ cache' = [k \in Keys |-> IF k \in S THEN Absent ELSE cache[k]]
  /\ order' = Filter(order, Keys \ S)
  /\ loads' = [l \in Loads |->
       IF loads[l].st # "unused" /\ loads[l].key \in S
         THEN [loads[l] EXCEPT !.old = TRUE] ELSE loads[l]]
  /\ UNCHANGED <<inFlight, gen>>

\* The load in flight is aborted, and a later generation begins; without one, the key has
\* none from now on.
Clear(S) ==
  /\ \A k \in S : inFlight[k] # None => gen[k] < MaxGeneration
  /\ cache' = [k \in Keys |-> IF k \in S THEN Absent ELSE cache[k]]
  /\ order' = Filter(order, Keys \ S)
  /\ inFlight' = [k \in Keys |-> IF k \in S THEN None ELSE inFlight[k]]
  /\ gen' = [k \in Keys |->
       IF k \notin S THEN gen[k] ELSE IF inFlight[k] = None THEN 0 ELSE gen[k] + 1]
  /\ loads' = [l \in Loads |->
       LET k == loads[l].key
           aborts == inFlight[k] = l
       IN IF loads[l].st = "unused" \/ k \notin S THEN loads[l]
          ELSE [loads[l] EXCEPT !.old = TRUE, !.aborted = @ \/ aborts,
                                !.cleared = IF aborts THEN gen[k] + 1 ELSE @]]

\* (Mutant: the callback of a clear leaves the generation.)
ClearedKeeping(l) ==
  /\ loads[l].st = "settled" /\ loads[l].cleared # 0
  /\ loads' = [loads EXCEPT ![l] = Rested(l, [@ EXCEPT !.cleared = 0], waits)]
  /\ UNCHANGED <<cache, order, inFlight, gen, waits, client, locked>>

\* The callback of the clear, when the load that it aborted has settled.
Cleared(l) ==
  /\ loads[l].st = "settled" /\ loads[l].cleared # 0
  /\ gen' = Forgotten(loads[l].cleared, loads[l].key, inFlight)
  /\ loads' = [loads EXCEPT ![l] = Rested(l, [@ EXCEPT !.cleared = 0], waits)]
  /\ UNCHANGED <<cache, order, inFlight, waits, client, locked>>

\* After a write to an instance, by a request or a job.
Invalidate ==
  /\ \E S \in Scopes : Clear(S)
  /\ UNCHANGED <<waits, client, locked>>

-----------------------------------------------------------------------------
(* The sessions of the vault, and the requests. *)

\* rotateVaultSessionBoundary: the clients made until now get no answers any more.
EndSession == client' = [r \in Readers |-> IF client[r] = "live" THEN "dead" ELSE client[r]]

\* An instance is saved or removed.
SaveInstance ==
  /\ ~ locked
  /\ EndSession
  /\ \E S \in Scopes : Clear(S)
  /\ UNCHANGED <<waits, locked>>

\* The vault is unlocked, again perhaps, or has a new passphrase.
NewSession ==
  /\ EndSession
  /\ locked' = FALSE
  /\ UNCHANGED <<cache, order, inFlight, gen, loads, waits>>

\* lockVault, by the operator or the idle timer.
Lock ==
  /\ EndSession
  /\ locked' = TRUE
  /\ Clear(Keys)
  /\ UNCHANGED waits

\* getInstance: a request makes its client while the vault is open.
HandlerStart(r) ==
  /\ ~ locked /\ client[r] = "none"
  /\ client' = [client EXCEPT ![r] = "live"]
  /\ UNCHANGED <<cache, order, inFlight, gen, loads, waits, locked>>

HandlerEnd(r) ==
  /\ client[r] # "none" /\ waits[r] = None
  /\ client' = [client EXCEPT ![r] = "none"]
  /\ UNCHANGED <<cache, order, inFlight, gen, loads, waits, locked>>

-----------------------------------------------------------------------------
Init ==
  /\ cache = [k \in Keys |-> Absent]
  /\ order = << >>
  /\ inFlight = [k \in Keys |-> None]
  /\ gen = [k \in Keys |-> 0]
  /\ loads = [l \in Loads |-> Unused]
  /\ waits = [r \in Readers |-> None]
  /\ client = [r \in Readers |-> "none"]
  /\ locked = TRUE

Next ==
  \/ \E k \in Keys : Expire(k)
  \/ \E r \in Readers, k \in Keys : Hit(r, k) \/ Join(r, k) \/ \E l \in Loads : Miss(r, k, l)
  \/ \E r \in Readers : Answer(r) \/ Leave(r) \/ HandlerStart(r) \/ HandlerEnd(r)
  \/ \E l \in Loads : Loaded(l) \/ LoadFails(l) \/ Settle(l) \/ Cleared(l)
  \/ Invalidate \/ SaveInstance \/ NewSession \/ Lock

Spec == Init /\ [][Next]_vars

\* The requests of a loader have deadlines, and callbacks run.
Fairness ==
  /\ \A l \in Loads : WF_vars(Loaded(l) \/ LoadFails(l) \/ Settle(l) \/ Cleared(l))
  /\ \A r \in Readers : WF_vars(Answer(r))

FairSpec == Spec /\ Fairness

-----------------------------------------------------------------------------
(* Properties. *)

TypeOK ==
  /\ cache \in [Keys -> [st : {"absent", "fresh", "expired"}, old : BOOLEAN]]
  /\ inFlight \in [Keys -> Loads \cup {None}]
  /\ gen \in [Keys -> Nat]
  /\ loads \in [Loads -> LoadRecord]
  /\ waits \in [Readers -> Loads \cup {None}]
  /\ client \in [Readers -> {"none", "live", "dead"}]
  /\ locked \in BOOLEAN

Pending(l) == loads[l].st \in {"running", "ended"}

\* What a reader that comes now may be given was read after the last clear of its key.
NothingStaleIsServed ==
  \A k \in Keys :
    /\ cache[k] # Absent => ~ cache[k].old
    /\ inFlight[k] # None => ~ loads[inFlight[k]].old

\* A load fails under a reader only because its key was cleared: no reader that leaves, and
\* no other key, aborts the load of another reader.
SharedLoadsSurvive ==
  \A r \in Readers : waits[r] # None /\ loads[waits[r]].aborted => loads[waits[r]].old

\* While the vault is locked the memory of the server holds nothing that was read, whatever
\* was in flight when it was locked and whatever old requests still try.
LockedMeansEmpty == locked => \A k \in Keys : cache[k] = Absent

\* The map of generations does not grow: a key that is neither held nor loaded, and whose
\* loads have all settled, has no generation.
GenerationsEnd ==
  \A k \in Keys :
    cache[k] = Absent /\ (\A l \in Loads : loads[l].st # "unused" => loads[l].key # k)
      => gen[k] = 0

\* The cache holds at most MAX_ENTRIES.
CacheIsBounded == Cardinality({k \in Keys : cache[k] # Absent}) <= MaxEntries

\* The load of a key that readers share: there is one, it is not aborted, it is of the
\* present generation, and somebody waits for it.
FlightOK(k) ==
  LET l == inFlight[k]
  IN l # None =>
       /\ Pending(l) /\ loads[l].key = k /\ loads[l].gen = gen[k]
       /\ ~ loads[l].aborted /\ ~ loads[l].old /\ loads[l].cleared = 0
       /\ Subscribers(l) # {}

LoadOK(l) ==
  /\ Pending(l) /\ ~ loads[l].aborted => inFlight[loads[l].key] = l
  /\ loads[l].st = "unused" => loads[l] = Unused /\ Subscribers(l) = {}
  /\ locked /\ loads[l].st = "running" /\ ~ loads[l].aborted => loads[l].dead

\* A generation is kept for an entry, a load, or the callback of a clear that removes it.
GenerationOK(k) ==
  gen[k] # 0 =>
    \/ cache[k] # Absent
    \/ inFlight[k] # None
    \/ \E l \in Loads : /\ loads[l].key = k
                        /\ \/ Pending(l) /\ loads[l].gen = gen[k]
                           \/ loads[l].cleared = gen[k]

\* The entries have one place each in the order, and there are not too many.
OrderOK ==
  /\ order \in Seq(Keys)
  /\ \A i, j \in 1..Len(order) : order[i] = order[j] => i = j
  /\ KeysOf(order) = {k \in Keys : cache[k] # Absent}
  /\ Len(order) <= MaxEntries

SharingInv ==
  /\ TypeOK
  /\ \A k \in Keys : FlightOK(k) /\ GenerationOK(k)
  /\ \A l \in Loads : LoadOK(l)
  /\ locked => \A r \in Readers : client[r] # "live"
  /\ NothingStaleIsServed
  /\ SharedLoadsSurvive
  /\ LockedMeansEmpty

IInv == SharingInv /\ OrderOK

\* A reader is answered, whatever is cleared and whoever leaves.
ReadersEnd == \A r \in Readers : []<>(waits[r] = None)
=============================================================================
