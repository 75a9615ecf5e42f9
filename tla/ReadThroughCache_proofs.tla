----------------------- MODULE ReadThroughCache_proofs -----------------------
(***************************************************************************)
(* What holds of ReadThroughCache for every number of keys, readers, loads *)
(* and entries.                                                            *)
(*                                                                         *)
(* The load that the readers of a key share is the only one that is not    *)
(* aborted (LoadOK, FlightOK): whatever takes a load out of inFlight       *)
(* aborts it in the same step, so it can store nothing afterwards, though  *)
(* its generation may have come back. The order of insertion has every     *)
(* cached key once and is bounded (OrderOK), and so is the map.            *)
(***************************************************************************)
EXTENDS ReadThroughCache, Filters_proofs, FiniteSetTheorems

\* The parts of the invariant that are about keys and loads.
KeysOK == \A k \in Keys : FlightOK(k)
GenerationsOK == \A k \in Keys : GenerationOK(k)
LoadsOK == \A l \in Loads : LoadOK(l)
ClientsOK == locked => \A r \in Readers : client[r] # "live"

\* What a reader is owed.
ReadersOK == NothingStaleIsServed /\ SharedLoadsSurvive /\ LockedMeansEmpty

Entries == [st : {"absent", "fresh", "expired"}, old : BOOLEAN]

\* The step only moves the load l.
OnlyLoad(l) == \A m \in Loads \ {l} : loads'[m] = loads[m]

LEMMA UnusedType ==
  /\ Unused \in LoadRecord
  /\ Unused.st = "unused" /\ Unused.cleared = 0 /\ Unused.aborted = FALSE /\ Unused.old = FALSE
<1>1. (CHOOSE k \in Keys : TRUE) \in Keys
  BY CacheAssumption
<1> QED BY <1>1 DEF Unused, LoadRecord

\* A pruned cache has nothing new, and keeps the generations of what is being loaded.
LEMMA Pruning ==
  ASSUME NEW c, NEW s, NEW dropped, PruneTo(c, s, dropped), gen \in [Keys -> Nat],
         c \in [Keys -> Entries]
  PROVE  /\ cache' \in [Keys -> Entries]
         /\ gen' \in [Keys -> Nat]
         /\ \A k \in Keys : cache'[k] \in {c[k], Absent}
         /\ \A k \in Keys : inFlight[k] # None => gen'[k] = gen[k]
         /\ \A k \in Keys \ dropped :
              gen'[k] # 0 => gen'[k] = gen[k]
                             /\ (cache'[k] = c[k] \/ inFlight[k] # None \/ c[k] = Absent)
         /\ \A k \in Keys : gen'[k] \in {0, gen[k]}
BY DEF PruneTo, Absent, Entries

\* What the invariant says of a reader and its load.
LEMMA WaitsOnUsed ==
  ASSUME TypeOK, LoadsOK, NEW r \in Readers, waits[r] # None
  PROVE  waits[r] \in Loads /\ r \in Subscribers(waits[r]) /\ loads[waits[r]].st # "unused"
BY DEF TypeOK, LoadsOK, LoadOK, Subscribers

-----------------------------------------------------------------------------
(* The steps that clear nothing. *)

(* An entry that expires stays until it is pruned. *)
LEMMA ExpireOK ==
  ASSUME SharingInv, NEW k0 \in Keys, Expire(k0)
  PROVE  SharingInv'
<1> USE CacheAssumption
<1>1. TypeOK /\ KeysOK /\ GenerationsOK /\ LoadsOK /\ ClientsOK /\ ReadersOK
  BY DEF SharingInv, KeysOK, GenerationsOK, LoadsOK, ClientsOK, ReadersOK
<1>2. /\ cache' \in [Keys -> Entries]
      /\ \A k \in Keys : cache'[k].old = cache[k].old /\ (cache'[k] = Absent => cache[k] = Absent)
      /\ cache[k0] # Absent
      /\ \A k \in Keys \ {k0} : cache'[k] = cache[k]
      /\ UNCHANGED <<inFlight, gen, loads, waits, client, locked>>
  BY <1>1 DEF Expire, TypeOK, Absent, Entries
<1>3. TypeOK'
  BY <1>1, <1>2 DEF TypeOK, Entries
<1>4. KeysOK'
  BY <1>1, <1>2 DEF KeysOK, FlightOK, TypeOK, Pending, Subscribers
<1>5. GenerationsOK'
  BY <1>1, <1>2 DEF GenerationsOK, GenerationOK, TypeOK, Pending, Absent, Entries
<1>6. LoadsOK'
  BY <1>1, <1>2 DEF LoadsOK, LoadOK, Pending, Subscribers
<1>7. ClientsOK' /\ ReadersOK'
  BY <1>1, <1>2 DEF ClientsOK, ReadersOK, NothingStaleIsServed, SharedLoadsSurvive, LockedMeansEmpty
<1> QED BY <1>3, <1>4, <1>5, <1>6, <1>7
        DEF SharingInv, KeysOK, GenerationsOK, LoadsOK, ClientsOK, ReadersOK

(* A hit only prunes. *)
LEMMA HitOK ==
  ASSUME SharingInv, NEW r0 \in Readers, NEW k0 \in Keys, Hit(r0, k0)
  PROVE  SharingInv'
<1> USE CacheAssumption
<1>1. TypeOK /\ KeysOK /\ GenerationsOK /\ LoadsOK /\ ClientsOK /\ ReadersOK
  BY DEF SharingInv, KeysOK, GenerationsOK, LoadsOK, ClientsOK, ReadersOK
<1>p. PruneTo(cache, Survivors(cache, order), {})
  BY DEF Hit
<1>q. cache \in [Keys -> Entries] /\ gen \in [Keys -> Nat]
  BY <1>1 DEF TypeOK, Entries
<1>2. /\ cache' \in [Keys -> Entries] /\ gen' \in [Keys -> Nat]
      /\ \A k \in Keys : cache'[k] \in {cache[k], Absent}
      /\ \A k \in Keys : inFlight[k] # None => gen'[k] = gen[k]
      /\ \A k \in Keys : gen'[k] # 0 => gen'[k] = gen[k]
                             /\ (cache'[k] = cache[k] \/ inFlight[k] # None \/ cache[k] = Absent)
      /\ UNCHANGED <<inFlight, loads, waits, client, locked>>
  BY <1>p, <1>q, Pruning DEF Hit
<1>3. TypeOK'
  BY <1>1, <1>2 DEF TypeOK, Entries
<1>4. KeysOK'
  BY <1>1, <1>2 DEF KeysOK, FlightOK, TypeOK, Pending, Subscribers
<1>5. GenerationsOK'
  BY <1>1, <1>2 DEF GenerationsOK, GenerationOK, TypeOK, Pending, Absent, Entries
<1>6. LoadsOK'
  BY <1>1, <1>2 DEF LoadsOK, LoadOK, Pending, Subscribers
<1>7. ClientsOK' /\ ReadersOK'
  BY <1>1, <1>2 DEF ClientsOK, ReadersOK, NothingStaleIsServed, SharedLoadsSurvive, LockedMeansEmpty
<1> QED BY <1>3, <1>4, <1>5, <1>6, <1>7
        DEF SharingInv, KeysOK, GenerationsOK, LoadsOK, ClientsOK, ReadersOK

(* A reader joins the load of the key. *)
LEMMA JoinOK ==
  ASSUME SharingInv, NEW r0 \in Readers, NEW k0 \in Keys, Join(r0, k0)
  PROVE  SharingInv'
<1> USE CacheAssumption
<1>1. TypeOK /\ KeysOK /\ GenerationsOK /\ LoadsOK /\ ClientsOK /\ ReadersOK
  BY DEF SharingInv, KeysOK, GenerationsOK, LoadsOK, ClientsOK, ReadersOK
<1> DEFINE l0 == inFlight[k0]
<1>p. PruneTo(cache, Survivors(cache, order), {})
  BY DEF Join
<1>q. cache \in [Keys -> Entries] /\ gen \in [Keys -> Nat]
  BY <1>1 DEF TypeOK, Entries
<1>2. /\ cache' \in [Keys -> Entries] /\ gen' \in [Keys -> Nat]
      /\ \A k \in Keys : cache'[k] \in {cache[k], Absent}
      /\ \A k \in Keys : inFlight[k] # None => gen'[k] = gen[k]
      /\ \A k \in Keys : gen'[k] # 0 => gen'[k] = gen[k]
                             /\ (cache'[k] = cache[k] \/ inFlight[k] # None \/ cache[k] = Absent)
      /\ UNCHANGED <<inFlight, loads, client, locked>>
      /\ l0 \in Loads /\ waits[r0] = None /\ waits' = [waits EXCEPT ![r0] = l0]
  BY <1>1, <1>p, <1>q, Pruning DEF Join, MayRead, TypeOK
<1>u. /\ \A l \in Loads : Subscribers(l) \subseteq Subscribers(l)'
      /\ \A l \in Loads \ {l0} : Subscribers(l)' = Subscribers(l)
      /\ Pending(l0) /\ ~ loads[l0].aborted
  BY <1>1, <1>2 DEF Subscribers, TypeOK, KeysOK, FlightOK
<1>3. TypeOK'
  BY <1>1, <1>2 DEF TypeOK, Entries
<1>4. KeysOK'
  BY <1>1, <1>2, <1>u DEF KeysOK, FlightOK, TypeOK, Pending
<1>5. GenerationsOK'
  BY <1>1, <1>2 DEF GenerationsOK, GenerationOK, TypeOK, Pending, Absent, Entries
<1>6. LoadsOK'
  BY <1>1, <1>2, <1>u DEF LoadsOK, LoadOK, Pending
<1>7. ClientsOK' /\ ReadersOK'
  BY <1>1, <1>2, <1>u DEF TypeOK, ClientsOK, ReadersOK, NothingStaleIsServed, SharedLoadsSurvive, LockedMeansEmpty
<1> QED BY <1>3, <1>4, <1>5, <1>6, <1>7
        DEF SharingInv, KeysOK, GenerationsOK, LoadsOK, ClientsOK, ReadersOK

(* A new load is the only one of its key. *)
LEMMA MissOK ==
  ASSUME SharingInv, NEW r0 \in Readers, NEW k0 \in Keys, NEW l0 \in Loads, Miss(r0, k0, l0)
  PROVE  SharingInv'
<1> USE CacheAssumption
<1>1. TypeOK /\ KeysOK /\ GenerationsOK /\ LoadsOK /\ ClientsOK /\ ReadersOK
  BY DEF SharingInv, KeysOK, GenerationsOK, LoadsOK, ClientsOK, ReadersOK
<1>p. PruneTo(cache, Survivors(cache, order), {k0})
  BY DEF Miss
<1>q. cache \in [Keys -> Entries] /\ gen \in [Keys -> Nat]
  BY <1>1 DEF TypeOK, Entries
<1>2. /\ cache' \in [Keys -> Entries] /\ gen' \in [Keys -> Nat]
      /\ \A k \in Keys : cache'[k] \in {cache[k], Absent}
      /\ \A k \in Keys : inFlight[k] # None => gen'[k] = gen[k]
      /\ \A k \in Keys \ {k0} : gen'[k] # 0 => gen'[k] = gen[k]
                             /\ (cache'[k] = cache[k] \/ inFlight[k] # None \/ cache[k] = Absent)
      /\ UNCHANGED <<client, locked>>
      /\ waits[r0] = None /\ waits' = [waits EXCEPT ![r0] = l0]
      /\ inFlight[k0] = None /\ inFlight' = [inFlight EXCEPT ![k0] = l0]
  BY <1>p, <1>q, Pruning DEF Miss, MayRead
<1>n. /\ loads[l0] = Unused /\ OnlyLoad(l0) /\ loads' \in [Loads -> LoadRecord]
      /\ loads'[l0].st = "running" /\ loads'[l0].key = k0 /\ loads'[l0].gen = gen'[k0]
      /\ loads'[l0].aborted = FALSE /\ loads'[l0].old = FALSE /\ loads'[l0].cleared = 0
      /\ client[r0] # "none" /\ loads'[l0].dead = (client[r0] = "dead")
  <2> DEFINE n == [Unused EXCEPT !.st = "running", !.key = k0, !.gen = gen'[k0],
                                 !.dead = client[r0] = "dead"]
  <2>1. loads' = [loads EXCEPT ![l0] = n] /\ loads[l0] = Unused /\ client[r0] # "none"
    BY DEF Miss, MayRead
  <2>2. gen'[k0] \in Nat
    BY <1>2
  <2>3. n \in LoadRecord
    BY <2>2, UnusedType DEF LoadRecord
  <2>4. /\ n.st = "running" /\ n.key = k0 /\ n.gen = gen'[k0] /\ n.aborted = FALSE
        /\ n.old = FALSE /\ n.cleared = 0 /\ n.dead = (client[r0] = "dead")
    BY UnusedType DEF LoadRecord
  <2> HIDE DEF n
  <2> QED BY <1>1, <2>1, <2>3, <2>4 DEF OnlyLoad, TypeOK
<1>u. /\ \A l \in Loads : Subscribers(l) \subseteq Subscribers(l)'
      /\ \A l \in Loads \ {l0} : Subscribers(l)' = Subscribers(l)
      /\ r0 \in Subscribers(l0)' /\ Subscribers(l0) = {}
      /\ \A k \in Keys : inFlight[k] # l0
  BY <1>1, <1>2, <1>n, UnusedType DEF Subscribers, TypeOK, KeysOK, FlightOK, LoadsOK, LoadOK, Pending
<1>3. TypeOK'
  BY <1>1, <1>2, <1>n DEF TypeOK, Entries
<1>4. KeysOK'
  <2> SUFFICES ASSUME NEW k \in Keys, inFlight'[k] # None
               PROVE  FlightOK(k)'
    BY DEF KeysOK, FlightOK
  <2>1. CASE k = k0
    BY <1>1, <1>2, <1>n, <1>u, <2>1 DEF FlightOK, TypeOK, Pending
  <2>2. CASE k # k0
    <3>1. inFlight'[k] = inFlight[k] /\ inFlight[k] \in Loads \ {l0}
      BY <1>1, <1>2, <1>u, <2>2 DEF TypeOK
    <3> QED BY <1>1, <1>2, <1>n, <1>u, <3>1 DEF KeysOK, FlightOK, Pending, OnlyLoad
  <2> QED BY <2>1, <2>2
<1>5. GenerationsOK'
  <2> SUFFICES ASSUME NEW k \in Keys
               PROVE  GenerationOK(k)'
    BY DEF GenerationsOK
  <2>1. CASE k = k0
    BY <1>1, <1>2, <2>1 DEF GenerationOK, TypeOK
  <2>2. CASE k # k0
    <3>1. GenerationOK(k) /\ inFlight'[k] = inFlight[k]
      BY <1>1, <1>2, <2>2 DEF GenerationsOK, TypeOK
    <3>2. \A l \in Loads : Pending(l) \/ loads[l].cleared # 0 => loads'[l] = loads[l]
      BY <1>n, UnusedType DEF OnlyLoad, Pending
    <3> QED BY <1>1, <1>2, <2>2, <3>1, <3>2 DEF GenerationOK, Pending, TypeOK, LoadRecord
  <2> QED BY <2>1, <2>2
<1>6. LoadsOK'
  <2> SUFFICES ASSUME NEW l \in Loads
               PROVE  LoadOK(l)'
    BY DEF LoadsOK
  <2>1. CASE l = l0
    BY <1>1, <1>2, <1>n, <2>1 DEF LoadOK, ClientsOK, TypeOK
  <2>2. CASE l # l0
    <3>1. loads'[l] = loads[l] /\ LoadOK(l)
      BY <1>1, <1>n, <2>2 DEF OnlyLoad, LoadsOK
    <3>2. loads[l].key # k0 \/ inFlight[k0] # l
      BY <1>1, <1>2 DEF TypeOK
    <3> QED BY <1>1, <1>2, <1>u, <2>2, <3>1, <3>2 DEF LoadOK, Pending, TypeOK, LoadRecord
  <2> QED BY <2>1, <2>2
<1>7. ClientsOK' /\ ReadersOK'
  <2>1. SharedLoadsSurvive'
    BY <1>1, <1>2, <1>n, <1>u DEF TypeOK, OnlyLoad, ReadersOK, SharedLoadsSurvive, Subscribers
  <2>2. NothingStaleIsServed'
    BY <1>1, <1>2, <1>n, <1>u DEF TypeOK, OnlyLoad, ReadersOK, NothingStaleIsServed
  <2> QED BY <1>1, <1>2, <2>1, <2>2 DEF ClientsOK, ReadersOK, LockedMeansEmpty
<1> QED BY <1>3, <1>4, <1>5, <1>6, <1>7
        DEF SharingInv, KeysOK, GenerationsOK, LoadsOK, ClientsOK, ReadersOK

(* A reader is answered by a load that has settled. *)
LEMMA AnswerOK ==
  ASSUME SharingInv, NEW r0 \in Readers, Answer(r0)
  PROVE  SharingInv'
<1> USE CacheAssumption
<1>1. TypeOK /\ KeysOK /\ GenerationsOK /\ LoadsOK /\ ClientsOK /\ ReadersOK
  BY DEF SharingInv, KeysOK, GenerationsOK, LoadsOK, ClientsOK, ReadersOK
<1>w. PICK l0 \in Loads : waits[r0] = l0
  BY <1>1, WaitsOnUsed DEF Answer
<1>2. /\ UNCHANGED <<cache, order, inFlight, gen, client, locked>>
      /\ l0 \in Loads /\ waits' = [waits EXCEPT ![r0] = None]
      /\ l0 # None /\ loads[l0].st = "settled" /\ loads[l0] \in LoadRecord
      /\ loads' = [loads EXCEPT ![l0] = Rested(l0, loads[l0], waits')]
  BY <1>1, <1>w DEF Answer, TypeOK
<1>u. /\ \A l \in Loads : Subscribers(l)' \subseteq Subscribers(l)
      /\ \A l \in Loads \ {l0} : Subscribers(l)' = Subscribers(l)
  BY <1>1, <1>2, <1>w DEF Subscribers, TypeOK
<1>n. /\ OnlyLoad(l0) /\ loads' \in [Loads -> LoadRecord] /\ loads[l0].st = "settled"
      /\ \/ loads'[l0] = loads[l0]
         \/ loads'[l0] = Unused /\ loads[l0].cleared = 0 /\ Subscribers(l0)' = {}
  <2> DEFINE x == Rested(l0, loads[l0], waits')
  <2>1. /\ x \in LoadRecord
        /\ \/ x = loads[l0]
           \/ x = Unused /\ loads[l0].cleared = 0 /\ \A r \in Readers : waits'[r] # l0
    BY <1>2, UnusedType DEF Rested
  <2>2. loads' = [loads EXCEPT ![l0] = x]
    BY <1>2
  <2> HIDE DEF x
  <2>3. OnlyLoad(l0) /\ loads' \in [Loads -> LoadRecord] /\ loads'[l0] = x
    BY <1>1, <1>2, <2>1, <2>2 DEF OnlyLoad, TypeOK
  <2> QED BY <1>2, <2>1, <2>3 DEF Subscribers
<1>3. TypeOK'
  BY <1>1, <1>2, <1>n DEF TypeOK
<1>4. KeysOK'
  <2> SUFFICES ASSUME NEW k \in Keys, inFlight'[k] # None
               PROVE  FlightOK(k)'
    BY DEF KeysOK, FlightOK
  <2>1. inFlight[k] # l0 /\ inFlight[k] \in Loads /\ FlightOK(k)
    BY <1>1, <1>2, <1>n DEF KeysOK, FlightOK, TypeOK, Pending
  <2> QED BY <1>1, <1>2, <1>n, <1>u, <2>1 DEF FlightOK, Pending, OnlyLoad
<1>5. GenerationsOK'
  <2> SUFFICES ASSUME NEW k \in Keys
               PROVE  GenerationOK(k)'
    BY DEF GenerationsOK
  <2>1. GenerationOK(k)
    BY <1>1 DEF GenerationsOK
  <2>2. \A l \in Loads : Pending(l) \/ loads[l].cleared # 0 => loads'[l] = loads[l]
    BY <1>n, UnusedType DEF OnlyLoad, Pending
  <2> QED BY <1>1, <1>2, <2>1, <2>2 DEF GenerationOK, Pending, TypeOK, LoadRecord
<1>6. LoadsOK'
  <2> SUFFICES ASSUME NEW l \in Loads
               PROVE  LoadOK(l)'
    BY DEF LoadsOK
  <2>1. LoadOK(l)
    BY <1>1 DEF LoadsOK
  <2>2. CASE l = l0
    <3>1. loads'[l].st \in {"settled", "unused"}
      BY <1>2, <1>n, <2>2, UnusedType
    <3>2. loads'[l0] = loads[l0] => loads'[l0].st = "settled"
      BY <1>2
    <3>3. loads'[l].st = "unused" => loads'[l] = Unused /\ Subscribers(l)' = {}
      BY <1>n, <2>2, <3>2
    <3> QED BY <3>1, <3>3 DEF LoadOK, Pending
  <2>3. CASE l # l0
    BY <1>1, <1>2, <1>n, <1>u, <2>1, <2>3 DEF OnlyLoad, LoadOK, Pending
  <2> QED BY <2>2, <2>3
<1>7. ClientsOK' /\ ReadersOK'
  <2>1. SharedLoadsSurvive'
    BY <1>1, <1>2, <1>n, <1>u, UnusedType DEF TypeOK, OnlyLoad, ReadersOK, SharedLoadsSurvive, Subscribers
  <2>2. NothingStaleIsServed'
    BY <1>1, <1>2, <1>n, UnusedType DEF TypeOK, OnlyLoad, ReadersOK, NothingStaleIsServed
  <2> QED BY <1>1, <1>2, <2>1, <2>2 DEF ClientsOK, ReadersOK, LockedMeansEmpty
<1> QED BY <1>3, <1>4, <1>5, <1>6, <1>7
        DEF SharingInv, KeysOK, GenerationsOK, LoadsOK, ClientsOK, ReadersOK

(* The last reader of a load aborts it as it takes it out of inFlight. *)
LEMMA LeaveOK ==
  ASSUME SharingInv, NEW r0 \in Readers, Leave(r0)
  PROVE  SharingInv'
<1> USE CacheAssumption
<1>1. TypeOK /\ KeysOK /\ GenerationsOK /\ LoadsOK /\ ClientsOK /\ ReadersOK
  BY DEF SharingInv, KeysOK, GenerationsOK, LoadsOK, ClientsOK, ReadersOK
<1>w. PICK l0 \in Loads : waits[r0] = l0
  BY <1>1, WaitsOnUsed DEF Leave
<1> DEFINE last == loads[l0].st # "settled" /\ Subscribers(l0) = {r0}
<1>2. /\ UNCHANGED <<cache, order, gen, client, locked>>
      /\ l0 \in Loads /\ l0 # None /\ waits' = [waits EXCEPT ![r0] = None]
      /\ loads[l0].st # "unused" /\ r0 \in Subscribers(l0) /\ loads[l0] \in LoadRecord
  BY <1>1, <1>w, WaitsOnUsed DEF Leave, TypeOK
<1>u. /\ \A l \in Loads : Subscribers(l)' = Subscribers(l) \ {r0}
      /\ \A l \in Loads \ {l0} : Subscribers(l)' = Subscribers(l)
  BY <1>1, <1>2, <1>w DEF Subscribers, TypeOK
<1>i. inFlight' = [k \in Keys |-> IF last /\ inFlight[k] = l0 THEN None ELSE inFlight[k]]
  BY <1>2, <1>w DEF Leave
<1>n. /\ OnlyLoad(l0) /\ loads' \in [Loads -> LoadRecord]
      /\ \/ last /\ loads'[l0] = [loads[l0] EXCEPT !.aborted = TRUE]
         \/ ~ last /\ loads'[l0] = loads[l0]
         \/ /\ ~ last /\ loads'[l0] = Unused
            /\ loads[l0].st = "settled" /\ loads[l0].cleared = 0 /\ Subscribers(l0)' = {}
  <2>1. loads' = [loads EXCEPT ![l0] = IF last THEN [@ EXCEPT !.aborted = TRUE]
                                       ELSE Rested(l0, @, waits')]
    BY <1>2, <1>w DEF Leave
  <2> DEFINE x == Rested(l0, loads[l0], waits')
             y == [loads[l0] EXCEPT !.aborted = TRUE]
  <2>2. /\ x \in LoadRecord
        /\ \/ x = loads[l0]
           \/ /\ x = Unused /\ loads[l0].st = "settled" /\ loads[l0].cleared = 0
              /\ \A r \in Readers : waits'[r] # l0
    BY <1>2, UnusedType DEF Rested
  <2>3. y \in LoadRecord
    BY <1>2 DEF LoadRecord
  <2>4. loads' = [loads EXCEPT ![l0] = IF last THEN y ELSE x]
    BY <2>1
  <2> HIDE DEF x, last
  <2>5. /\ OnlyLoad(l0) /\ loads' \in [Loads -> LoadRecord]
        /\ (last => loads'[l0] = y) /\ (~ last => loads'[l0] = x)
    <3> HIDE DEF y
    <3> QED BY <1>1, <1>2, <2>2, <2>3, <2>4 DEF OnlyLoad, TypeOK
  <2> QED BY <1>2, <2>2, <2>5 DEF Subscribers
<1>a. last => loads'[l0].aborted = TRUE /\ loads'[l0].st = loads[l0].st /\ loads'[l0].key = loads[l0].key
                /\ loads'[l0].gen = loads[l0].gen /\ loads'[l0].cleared = loads[l0].cleared
                /\ loads'[l0].old = loads[l0].old
  BY <1>2, <1>n DEF LoadRecord
<1>l. last <=> loads[l0].st # "settled" /\ Subscribers(l0) = {r0}
  OBVIOUS
<1> HIDE DEF last
<1>3. TypeOK'
  BY <1>1, <1>2, <1>n, <1>i DEF TypeOK
<1>4. KeysOK'
  <2> SUFFICES ASSUME NEW k \in Keys, inFlight'[k] # None
               PROVE  FlightOK(k)'
    BY DEF KeysOK, FlightOK
  <2>1. /\ inFlight'[k] = inFlight[k] /\ inFlight[k] \in Loads /\ FlightOK(k)
        /\ (inFlight[k] = l0 => ~ last)
    BY <1>1, <1>2, <1>i DEF KeysOK, TypeOK
  <2>2. CASE inFlight[k] # l0
    BY <1>1, <1>2, <1>n, <1>u, <2>1, <2>2 DEF FlightOK, Pending, OnlyLoad
  <2>3. CASE inFlight[k] = l0
    <3>1. Pending(l0) /\ Subscribers(l0)' # {}
      <4>1. Pending(l0)
        BY <1>2, <2>1, <2>3 DEF FlightOK
      <4>2. Subscribers(l0) # {r0}
        BY <1>l, <2>1, <2>3, <4>1 DEF Pending
      <4> QED BY <1>2, <1>u, <4>1, <4>2
    <3>2. loads'[l0] = loads[l0]
      BY <1>n, <2>1, <2>3, <3>1
    <3> QED BY <1>2, <2>1, <2>3, <3>1, <3>2 DEF FlightOK, Pending
  <2> QED BY <2>2, <2>3
<1>5. GenerationsOK'
  <2> SUFFICES ASSUME NEW k \in Keys
               PROVE  GenerationOK(k)'
    BY DEF GenerationsOK
  <2>1. GenerationOK(k)
    BY <1>1 DEF GenerationsOK
  <2>2. \A l \in Loads :
          /\ Pending(l) => Pending(l)' /\ loads'[l].key = loads[l].key /\ loads'[l].gen = loads[l].gen
          /\ loads[l].cleared # 0 =>
               loads'[l].key = loads[l].key /\ loads'[l].cleared = loads[l].cleared
    <3> SUFFICES ASSUME NEW l \in Loads
                 PROVE  /\ Pending(l) => Pending(l)' /\ loads'[l].key = loads[l].key
                                          /\ loads'[l].gen = loads[l].gen
                        /\ loads[l].cleared # 0 => /\ loads'[l].key = loads[l].key
                                                  /\ loads'[l].cleared = loads[l].cleared
      OBVIOUS
    <3>1. CASE l # l0
      BY <1>n, <3>1 DEF OnlyLoad, Pending
    <3>2. CASE l = l0 /\ last
      BY <1>a, <3>2 DEF Pending
    <3>3. CASE l = l0 /\ ~ last
      BY <1>n, <3>3 DEF Pending
    <3> QED BY <3>1, <3>2, <3>3
  <2>3. inFlight[k] # None => \/ inFlight'[k] # None
                              \/ Pending(l0)' /\ loads'[l0].key = k /\ loads'[l0].gen = gen[k]
    <3>1. CASE last /\ inFlight[k] = l0
      BY <1>1, <1>2, <1>a, <3>1 DEF KeysOK, FlightOK, Pending
    <3> QED BY <1>i, <3>1
  <2> QED BY <1>1, <1>2, <2>1, <2>2, <2>3 DEF GenerationOK, Pending, TypeOK, LoadRecord
<1>6. LoadsOK'
  <2> SUFFICES ASSUME NEW l \in Loads
               PROVE  LoadOK(l)'
    BY DEF LoadsOK
  <2>1. LoadOK(l) /\ loads[l] \in LoadRecord /\ loads[l].key \in Keys
    BY <1>1 DEF LoadsOK, TypeOK, LoadRecord
  <2>2. CASE l = l0
    <3>1. CASE last
      BY <1>2, <1>a, <2>2, <3>1 DEF LoadOK
    <3>2. CASE ~ last /\ loads'[l0] = loads[l0]
      BY <1>2, <1>i, <2>1, <2>2, <3>2 DEF LoadOK, Pending
    <3>3. CASE ~ last /\ loads'[l0] = Unused /\ Subscribers(l0)' = {}
      BY <2>2, <3>3, UnusedType DEF LoadOK, Pending
    <3> QED BY <1>n, <3>1, <3>2, <3>3
  <2>3. CASE l # l0
    BY <1>1, <1>2, <1>i, <1>n, <1>u, <2>1, <2>3 DEF OnlyLoad, LoadOK, Pending
  <2> QED BY <2>2, <2>3
<1>7. ClientsOK' /\ ReadersOK'
  <2>1. SharedLoadsSurvive'
    <3> SUFFICES ASSUME NEW r \in Readers, waits'[r] # None, loads'[waits'[r]].aborted
                 PROVE  loads'[waits'[r]].old
      BY DEF SharedLoadsSurvive
    <3>1. r # r0 /\ waits'[r] = waits[r] /\ waits[r] \in Loads /\ r \in Subscribers(waits[r])'
      BY <1>1, <1>2 DEF TypeOK, Subscribers
    <3>2. CASE waits[r] = l0
      <4>1. loads'[l0] = loads[l0]
        <5>1. r \in Subscribers(l0)' /\ r \in Subscribers(l0)
          BY <1>2, <1>u, <3>1, <3>2
        <5>2. ~ last
          BY <1>l, <3>1, <5>1
        <5> QED BY <1>n, <5>1, <5>2
      <4> QED BY <1>1, <3>1, <3>2, <4>1 DEF ReadersOK, SharedLoadsSurvive
    <3>3. CASE waits[r] # l0
      BY <1>1, <1>n, <3>1, <3>3 DEF OnlyLoad, ReadersOK, SharedLoadsSurvive
    <3> QED BY <3>2, <3>3
  <2>2. NothingStaleIsServed'
    <3> SUFFICES ASSUME NEW k \in Keys, inFlight'[k] # None
                 PROVE  ~ loads'[inFlight'[k]].old
      BY <1>1, <1>2 DEF NothingStaleIsServed, ReadersOK
    <3> QED BY <1>4 DEF KeysOK, FlightOK
  <2> QED BY <1>1, <1>2, <2>1, <2>2 DEF ClientsOK, ReadersOK, LockedMeansEmpty
<1> QED BY <1>3, <1>4, <1>5, <1>6, <1>7
        DEF SharingInv, KeysOK, GenerationsOK, LoadsOK, ClientsOK, ReadersOK

-----------------------------------------------------------------------------
(* The promise of a load. *)

(* A load ends, and only the load that its key has in flight may leave an entry. *)
LEMMA EndOK ==
  ASSUME SharingInv, NEW l0 \in Loads, loads[l0].st = "running",
         loads' = [loads EXCEPT ![l0].st = "ended"],
         UNCHANGED <<inFlight, waits, client, locked>>,
         cache' \in [Keys -> Entries], gen' \in [Keys -> Nat],
         \A k \in Keys :
           /\ \/ cache'[k] \in {cache[k], Absent}
              \/ ~ locked /\ inFlight[k] # None /\ ~ cache'[k].old
           /\ inFlight[k] # None => gen'[k] = gen[k]
           /\ gen'[k] # 0 => /\ gen'[k] = gen[k]
                             /\ cache'[k] = cache[k] \/ inFlight[k] # None \/ cache[k] = Absent
  PROVE  SharingInv'
<1> USE CacheAssumption
<1>1. TypeOK /\ KeysOK /\ GenerationsOK /\ LoadsOK /\ ClientsOK /\ ReadersOK
  BY DEF SharingInv, KeysOK, GenerationsOK, LoadsOK, ClientsOK, ReadersOK
<1>2. /\ OnlyLoad(l0) /\ loads' \in [Loads -> LoadRecord]
      /\ loads[l0].st = "running" /\ loads'[l0].st = "ended"
      /\ loads'[l0].key = loads[l0].key /\ loads'[l0].gen = loads[l0].gen
      /\ loads'[l0].aborted = loads[l0].aborted /\ loads'[l0].old = loads[l0].old
      /\ loads'[l0].cleared = loads[l0].cleared
  BY <1>1 DEF OnlyLoad, TypeOK, LoadRecord
<1>n. \A l \in Loads :
        /\ loads'[l].key = loads[l].key /\ loads'[l].gen = loads[l].gen
        /\ loads'[l].aborted = loads[l].aborted /\ loads'[l].old = loads[l].old
        /\ loads'[l].cleared = loads[l].cleared /\ Pending(l)' = Pending(l)
        /\ (loads'[l].st \in {"unused", "running"} => loads'[l] = loads[l])
        /\ Subscribers(l)' = Subscribers(l)
  BY <1>2 DEF OnlyLoad, Pending, Subscribers
<1>3. TypeOK'
  BY <1>1, <1>2 DEF TypeOK, Entries
<1>4. KeysOK'
  BY <1>1, <1>n DEF KeysOK, FlightOK, TypeOK
<1>5. GenerationsOK'
  <2> SUFFICES ASSUME NEW k \in Keys
               PROVE  GenerationOK(k)'
    BY DEF GenerationsOK
  <2>1. GenerationOK(k)
    BY <1>1 DEF GenerationsOK
  <2> QED BY <1>n, <2>1 DEF GenerationOK
<1>6. LoadsOK'
  BY <1>1, <1>n DEF LoadsOK, LoadOK
<1>7. ClientsOK' /\ ReadersOK'
  <2>1. SharedLoadsSurvive'
    BY <1>1, <1>n DEF ReadersOK, SharedLoadsSurvive, TypeOK
  <2>2. NothingStaleIsServed'
    BY <1>1, <1>n DEF ReadersOK, NothingStaleIsServed, TypeOK
  <2>3. LockedMeansEmpty'
    BY <1>1 DEF ReadersOK, LockedMeansEmpty
  <2> QED BY <1>1, <2>1, <2>2, <2>3 DEF ClientsOK, ReadersOK
<1> QED BY <1>3, <1>4, <1>5, <1>6, <1>7
        DEF SharingInv, KeysOK, GenerationsOK, LoadsOK, ClientsOK, ReadersOK

LEMMA LoadFailsOK ==
  ASSUME SharingInv, NEW l0 \in Loads, LoadFails(l0)
  PROVE  SharingInv'
<1>1. cache \in [Keys -> Entries] /\ gen \in [Keys -> Nat]
  BY DEF SharingInv, TypeOK, Entries
<1> QED BY <1>1, EndOK DEF LoadFails

(* What is stored was not aborted, so it is of the load in flight. *)
LEMMA LoadedOK ==
  ASSUME SharingInv, NEW l0 \in Loads, Loaded(l0)
  PROVE  SharingInv'
<1> USE CacheAssumption
<1>1. TypeOK /\ KeysOK /\ GenerationsOK /\ LoadsOK /\ ClientsOK /\ ReadersOK
  BY DEF SharingInv, KeysOK, GenerationsOK, LoadsOK, ClientsOK, ReadersOK
<1>2. /\ loads[l0].st = "running" /\ ~ loads[l0].dead
      /\ loads' = [loads EXCEPT ![l0].st = "ended"]
      /\ UNCHANGED <<inFlight, waits, client, locked>>
  BY DEF Loaded
<1>q. cache \in [Keys -> Entries] /\ gen \in [Keys -> Nat] /\ loads[l0] \in LoadRecord
  BY <1>1 DEF TypeOK, Entries
<1>3. CASE ~ loads[l0].aborted /\ gen[loads[l0].key] = loads[l0].gen
  <2> DEFINE k0 == loads[l0].key
             c == Entered(l0)
  <2>1. k0 \in Keys /\ inFlight[k0] = l0 /\ ~ locked /\ ~ loads[l0].old
    BY <1>1, <1>2, <1>3, <1>q DEF LoadsOK, LoadOK, KeysOK, FlightOK, Pending, LoadRecord
  <2>2. /\ c \in [Keys -> Entries] /\ ~ c[k0].old
        /\ \A k \in Keys \ {k0} : c[k] = cache[k]
    BY <1>q, <2>1 DEF Entered, Entries, LoadRecord
  <2>3. PruneTo(c, Survivors(c, Position(k0)), {})
    BY <1>3 DEF Loaded
  <2> HIDE DEF c, k0
  <2>4. /\ cache' \in [Keys -> Entries] /\ gen' \in [Keys -> Nat]
        /\ \A k \in Keys : cache'[k] \in {c[k], Absent}
        /\ \A k \in Keys : inFlight[k] # None => gen'[k] = gen[k]
        /\ \A k \in Keys : gen'[k] # 0 => gen'[k] = gen[k]
                             /\ (cache'[k] = c[k] \/ inFlight[k] # None \/ c[k] = Absent)
    BY <1>q, <2>2, <2>3, Pruning
  <2>5. \A k \in Keys :
           /\ \/ cache'[k] \in {cache[k], Absent}
              \/ ~ locked /\ inFlight[k] # None /\ ~ cache'[k].old
           /\ inFlight[k] # None => gen'[k] = gen[k]
           /\ gen'[k] # 0 => /\ gen'[k] = gen[k]
                             /\ cache'[k] = cache[k] \/ inFlight[k] # None \/ cache[k] = Absent
    BY <2>1, <2>2, <2>4
  <2> QED BY <1>2, <2>4, <2>5, EndOK
<1>4. CASE ~ (~ loads[l0].aborted /\ gen[loads[l0].key] = loads[l0].gen)
  <2>1. cache' = cache /\ gen' = gen
    BY <1>4 DEF Loaded
  <2> QED BY <1>2, <1>q, <2>1, EndOK
<1> QED BY <1>3, <1>4

(* A load that settles leaves inFlight, and its generation if that was the last of it. *)
LEMMA SettleOK ==
  ASSUME SharingInv, NEW l0 \in Loads, Settle(l0)
  PROVE  SharingInv'
<1> USE CacheAssumption
<1>1. TypeOK /\ KeysOK /\ GenerationsOK /\ LoadsOK /\ ClientsOK /\ ReadersOK
  BY DEF SharingInv, KeysOK, GenerationsOK, LoadsOK, ClientsOK, ReadersOK
<1>w. PICK k0 \in Keys : loads[l0].key = k0
  BY <1>1 DEF TypeOK, LoadRecord
<1>2. /\ loads[l0].st = "ended" /\ loads[l0] \in LoadRecord /\ loads[l0].gen \in Nat
      /\ UNCHANGED <<cache, waits, client, locked>>
      /\ inFlight' = [inFlight EXCEPT ![k0] = IF @ = l0 THEN None ELSE @]
      /\ gen' = [gen EXCEPT ![k0] =
           IF @ = loads[l0].gen /\ cache[k0] = Absent /\ inFlight'[k0] = None THEN 0 ELSE @]
  BY <1>1, <1>w DEF Settle, Forgotten, TypeOK, LoadRecord
<1>n. /\ OnlyLoad(l0) /\ loads' \in [Loads -> LoadRecord]
      /\ \/ /\ loads'[l0].st = "settled" /\ loads'[l0].key = k0 /\ loads'[l0].gen = loads[l0].gen
            /\ loads'[l0].aborted = loads[l0].aborted /\ loads'[l0].old = loads[l0].old
            /\ loads'[l0].cleared = loads[l0].cleared
         \/ /\ loads'[l0] = Unused /\ loads[l0].cleared = 0
            /\ \A r \in Readers : waits[r] # l0
  <2> DEFINE y == [loads[l0] EXCEPT !.st = "settled"]
             x == Rested(l0, y, waits)
  <2>1. /\ y \in LoadRecord /\ y.st = "settled" /\ y.key = k0 /\ y.gen = loads[l0].gen
        /\ y.aborted = loads[l0].aborted /\ y.old = loads[l0].old /\ y.cleared = loads[l0].cleared
    BY <1>2, <1>w DEF LoadRecord
  <2>2. loads' = [loads EXCEPT ![l0] = x]
    BY DEF Settle
  <2> HIDE DEF y
  <2>3. /\ x \in LoadRecord
        /\ \/ x = y
           \/ x = Unused /\ y.cleared = 0 /\ \A r \in Readers : waits[r] # l0
    BY <2>1, UnusedType DEF Rested
  <2> HIDE DEF x
  <2>4. OnlyLoad(l0) /\ loads' \in [Loads -> LoadRecord] /\ loads'[l0] = x
    BY <1>1, <2>2, <2>3 DEF OnlyLoad, TypeOK
  <2> QED BY <2>1, <2>3, <2>4
<1>u. \A l \in Loads : Subscribers(l)' = Subscribers(l)
  BY <1>2 DEF Subscribers
<1>g. /\ gen' \in [Keys -> Nat] /\ inFlight' \in [Keys -> Loads \cup {None}]
      /\ \A k \in Keys : inFlight'[k] # None =>
           inFlight'[k] = inFlight[k] /\ inFlight[k] # l0 /\ gen'[k] = gen[k]
      /\ \A k \in Keys : gen'[k] # 0 => gen'[k] = gen[k]
      /\ \A k \in Keys \ {k0} : inFlight'[k] = inFlight[k]
  BY <1>1, <1>2, <1>w DEF TypeOK, KeysOK, FlightOK
<1>3. TypeOK'
  BY <1>1, <1>2, <1>n, <1>g DEF TypeOK
<1>4. KeysOK'
  <2> SUFFICES ASSUME NEW k \in Keys, inFlight'[k] # None
               PROVE  FlightOK(k)'
    BY DEF KeysOK, FlightOK
  <2>1. FlightOK(k) /\ inFlight[k] \in Loads \ {l0}
    BY <1>1, <1>g DEF KeysOK, TypeOK
  <2> QED BY <1>n, <1>u, <1>g, <2>1 DEF FlightOK, Pending, OnlyLoad
<1>5. GenerationsOK'
  <2> SUFFICES ASSUME NEW k \in Keys, gen'[k] # 0
               PROVE  GenerationOK(k)'
    BY DEF GenerationsOK, GenerationOK
  <2>1. GenerationOK(k) /\ gen'[k] = gen[k]
    BY <1>1, <1>g DEF GenerationsOK
  <2>2. CASE k = k0 /\ gen[k0] = loads[l0].gen
    BY <1>1, <1>2, <1>g, <2>1, <2>2 DEF GenerationOK, TypeOK
  <2>3. CASE ~ (k = k0 /\ gen[k0] = loads[l0].gen)
    <3>1. inFlight[k] = inFlight'[k]
      BY <1>1, <1>2, <1>g, <2>3 DEF KeysOK, FlightOK, TypeOK
    <3>2. ASSUME NEW l \in Loads, loads[l].key = k,
                 (Pending(l) /\ loads[l].gen = gen[k]) \/ loads[l].cleared = gen[k]
          PROVE  /\ loads'[l].key = k
                 /\ \/ Pending(l)' /\ loads'[l].gen = gen[k]
                    \/ loads'[l].cleared = gen[k]
      <4>1. CASE l # l0
        BY <1>n, <3>2, <4>1 DEF OnlyLoad, Pending
      <4>2. CASE l = l0
        BY <1>n, <1>w, <2>1, <2>3, <3>2, <4>2
      <4> QED BY <4>1, <4>2
    <3> QED BY <1>2, <2>1, <3>1, <3>2 DEF GenerationOK
  <2> QED BY <2>2, <2>3
<1>6. LoadsOK'
  <2> SUFFICES ASSUME NEW l \in Loads
               PROVE  LoadOK(l)'
    BY DEF LoadsOK
  <2>1. LoadOK(l) /\ loads[l].key \in Keys
    BY <1>1 DEF LoadsOK, TypeOK, LoadRecord
  <2>2. CASE l = l0
    BY <1>n, <1>u, <2>2, UnusedType DEF LoadOK, Pending, Subscribers
  <2>3. CASE l # l0
    BY <1>1, <1>2, <1>n, <1>u, <2>1, <2>3 DEF OnlyLoad, LoadOK, Pending, TypeOK
  <2> QED BY <2>2, <2>3
<1>7. ClientsOK' /\ ReadersOK'
  <2>1. SharedLoadsSurvive'
    BY <1>1, <1>2, <1>n DEF TypeOK, OnlyLoad, ReadersOK, SharedLoadsSurvive
  <2>2. NothingStaleIsServed'
    BY <1>1, <1>2, <1>4 DEF KeysOK, FlightOK, ReadersOK, NothingStaleIsServed
  <2> QED BY <1>1, <1>2, <2>1, <2>2 DEF ClientsOK, ReadersOK, LockedMeansEmpty
<1> QED BY <1>3, <1>4, <1>5, <1>6, <1>7
        DEF SharingInv, KeysOK, GenerationsOK, LoadsOK, ClientsOK, ReadersOK

(* The callback of a clear forgets the generation that the clear began. *)
LEMMA ClearedOK ==
  ASSUME SharingInv, NEW l0 \in Loads, Cleared(l0)
  PROVE  SharingInv'
<1> USE CacheAssumption
<1>1. TypeOK /\ KeysOK /\ GenerationsOK /\ LoadsOK /\ ClientsOK /\ ReadersOK
  BY DEF SharingInv, KeysOK, GenerationsOK, LoadsOK, ClientsOK, ReadersOK
<1>w. PICK k0 \in Keys : loads[l0].key = k0
  BY <1>1 DEF TypeOK, LoadRecord
<1>2. /\ loads[l0].st = "settled" /\ loads[l0].cleared # 0 /\ loads[l0] \in LoadRecord
      /\ UNCHANGED <<cache, inFlight, waits, client, locked>>
      /\ gen' = [gen EXCEPT ![k0] =
           IF @ = loads[l0].cleared /\ cache[k0] = Absent /\ inFlight[k0] = None THEN 0 ELSE @]
  BY <1>1, <1>w DEF Cleared, Forgotten, TypeOK
<1>n. /\ OnlyLoad(l0) /\ loads' \in [Loads -> LoadRecord]
      /\ \/ /\ loads'[l0].st = "settled"
            /\ loads'[l0].aborted = loads[l0].aborted /\ loads'[l0].old = loads[l0].old
         \/ /\ loads'[l0] = Unused /\ \A r \in Readers : waits[r] # l0
  <2> DEFINE y == [loads[l0] EXCEPT !.cleared = 0]
             x == Rested(l0, y, waits)
  <2>1. /\ y \in LoadRecord /\ y.st = "settled"
        /\ y.aborted = loads[l0].aborted /\ y.old = loads[l0].old
    BY <1>2 DEF LoadRecord
  <2>2. loads' = [loads EXCEPT ![l0] = x]
    BY DEF Cleared
  <2> HIDE DEF y
  <2>3. x \in LoadRecord /\ (x = y \/ (x = Unused /\ \A r \in Readers : waits[r] # l0))
    BY <2>1, UnusedType DEF Rested
  <2> HIDE DEF x
  <2>4. OnlyLoad(l0) /\ loads' \in [Loads -> LoadRecord] /\ loads'[l0] = x
    BY <1>1, <2>2, <2>3 DEF OnlyLoad, TypeOK
  <2> QED BY <2>1, <2>3, <2>4
<1>u. \A l \in Loads : Subscribers(l)' = Subscribers(l)
  BY <1>2 DEF Subscribers
<1>g. /\ gen' \in [Keys -> Nat]
      /\ \A k \in Keys : inFlight[k] # None => inFlight[k] \in Loads \ {l0} /\ gen'[k] = gen[k]
      /\ \A k \in Keys : gen'[k] # 0 => gen'[k] = gen[k]
  BY <1>1, <1>2 DEF TypeOK, KeysOK, FlightOK
<1>3. TypeOK'
  BY <1>1, <1>2, <1>n, <1>g DEF TypeOK
<1>4. KeysOK'
  <2> SUFFICES ASSUME NEW k \in Keys, inFlight[k] # None
               PROVE  FlightOK(k)'
    BY <1>2 DEF KeysOK, FlightOK
  <2>1. FlightOK(k)
    BY <1>1 DEF KeysOK
  <2> QED BY <1>2, <1>n, <1>u, <1>g, <2>1 DEF FlightOK, Pending, OnlyLoad
<1>5. GenerationsOK'
  <2> SUFFICES ASSUME NEW k \in Keys, gen'[k] # 0
               PROVE  GenerationOK(k)'
    BY DEF GenerationsOK, GenerationOK
  <2>1. GenerationOK(k) /\ gen'[k] = gen[k]
    BY <1>1, <1>g DEF GenerationsOK
  <2>2. CASE k = k0 /\ gen[k0] = loads[l0].cleared
    BY <1>1, <1>2, <2>1, <2>2 DEF GenerationOK, TypeOK
  <2>3. CASE ~ (k = k0 /\ gen[k0] = loads[l0].cleared)
    <3>1. \A l \in Loads : loads[l].key = k /\ (Pending(l) \/ loads[l].cleared = gen[k]) =>
            loads'[l] = loads[l]
      BY <1>2, <1>n, <1>w, <2>3 DEF OnlyLoad, Pending
    <3> QED BY <1>2, <2>1, <3>1 DEF GenerationOK, Pending
  <2> QED BY <2>2, <2>3
<1>6. LoadsOK'
  <2> SUFFICES ASSUME NEW l \in Loads
               PROVE  LoadOK(l)'
    BY DEF LoadsOK
  <2>1. LoadOK(l)
    BY <1>1 DEF LoadsOK
  <2>2. CASE l = l0
    BY <1>n, <1>u, <2>2, UnusedType DEF LoadOK, Pending, Subscribers
  <2>3. CASE l # l0
    BY <1>2, <1>n, <1>u, <2>1, <2>3 DEF OnlyLoad, LoadOK, Pending
  <2> QED BY <2>2, <2>3
<1>7. ClientsOK' /\ ReadersOK'
  <2>1. SharedLoadsSurvive'
    BY <1>1, <1>2, <1>n DEF TypeOK, OnlyLoad, ReadersOK, SharedLoadsSurvive
  <2>2. NothingStaleIsServed'
    BY <1>1, <1>2, <1>4 DEF KeysOK, FlightOK, ReadersOK, NothingStaleIsServed
  <2> QED BY <1>1, <1>2, <2>1, <2>2 DEF ClientsOK, ReadersOK, LockedMeansEmpty
<1> QED BY <1>3, <1>4, <1>5, <1>6, <1>7
        DEF SharingInv, KeysOK, GenerationsOK, LoadsOK, ClientsOK, ReadersOK

-----------------------------------------------------------------------------
(* Clears and sessions. *)

(* What is in flight is aborted as it leaves inFlight. When the vault is locked by the   *)
(* step, everything is cleared.                                                          *)
LEMMA ClearOK ==
  ASSUME SharingInv, NEW S \in SUBSET Keys, Clear(S), waits' = waits,
         client' \in [Readers -> {"none", "live", "dead"}], locked' \in BOOLEAN, ClientsOK',
         locked' => locked \/ S = Keys
  PROVE  SharingInv'
<1> USE CacheAssumption
<1>1. TypeOK /\ KeysOK /\ GenerationsOK /\ LoadsOK /\ ClientsOK /\ ReadersOK
  BY DEF SharingInv, KeysOK, GenerationsOK, LoadsOK, ClientsOK, ReadersOK
<1>2. /\ \A k \in S : cache'[k] = Absent /\ inFlight'[k] = None
      /\ \A k \in Keys \ S : cache'[k] = cache[k] /\ inFlight'[k] = inFlight[k] /\ gen'[k] = gen[k]
      /\ \A k \in S : gen'[k] = IF inFlight[k] = None THEN 0 ELSE gen[k] + 1
      /\ cache' \in [Keys -> Entries] /\ gen' \in [Keys -> Nat]
      /\ inFlight' \in [Keys -> Loads \cup {None}]
  <2>1. \A k \in Keys : inFlight[k] \in Loads \cup {None} /\ gen[k] \in Nat /\ cache[k] \in Entries
    BY <1>1 DEF TypeOK, Entries
  <2>2. Absent \in Entries
    BY DEF Absent, Entries
  <2>3. /\ \A k \in Keys : cache'[k] = IF k \in S THEN Absent ELSE cache[k]
        /\ cache' \in [Keys -> Entries]
    BY <2>1, <2>2 DEF Clear
  <2>4. /\ \A k \in Keys : inFlight'[k] = IF k \in S THEN None ELSE inFlight[k]
        /\ inFlight' \in [Keys -> Loads \cup {None}]
    BY <2>1 DEF Clear
  <2>5. /\ \A k \in Keys : gen'[k] =
             IF k \notin S THEN gen[k] ELSE IF inFlight[k] = None THEN 0 ELSE gen[k] + 1
        /\ gen' \in [Keys -> Nat]
    <3> DEFINE g(k) == IF k \notin S THEN gen[k]
                       ELSE IF inFlight[k] = None THEN 0 ELSE gen[k] + 1
    <3>1. \A k \in Keys : g(k) \in Nat
      BY <2>1
    <3>2. gen' = [k \in Keys |-> g(k)]
      BY DEF Clear
    <3> HIDE DEF g
    <3>3. gen' \in [Keys -> Nat] /\ \A k \in Keys : gen'[k] = g(k)
      BY <3>1, <3>2
    <3> QED BY <3>3 DEF g
  <2> QED BY <2>3, <2>4, <2>5
<1>n. /\ loads' \in [Loads -> LoadRecord]
      /\ \A l \in Loads :
           /\ loads'[l].st = loads[l].st /\ loads'[l].key = loads[l].key
           /\ loads'[l].gen = loads[l].gen /\ loads'[l].dead = loads[l].dead
           /\ loads[l].st = "unused" \/ loads[l].key \notin S => loads'[l] = loads[l]
           /\ loads[l].st # "unused" /\ loads[l].key \in S => loads'[l].old
           /\ inFlight[loads[l].key] # l => /\ loads'[l].aborted = loads[l].aborted
                                            /\ loads'[l].cleared = loads[l].cleared
           /\ loads[l].st # "unused" /\ loads[l].key \in S /\ inFlight[loads[l].key] = l =>
                loads'[l].aborted /\ loads'[l].cleared = gen[loads[l].key] + 1
  <2> DEFINE aborts(l) == inFlight[loads[l].key] = l
             n(l) == IF loads[l].st = "unused" \/ loads[l].key \notin S THEN loads[l]
                     ELSE [loads[l] EXCEPT !.old = TRUE, !.aborted = @ \/ aborts(l),
                             !.cleared = IF aborts(l) THEN gen[loads[l].key] + 1 ELSE @]
  <2>1. loads' = [l \in Loads |-> n(l)]
    BY DEF Clear
  <2>2. ASSUME NEW l \in Loads
        PROVE  /\ n(l) \in LoadRecord
               /\ n(l).st = loads[l].st /\ n(l).key = loads[l].key
               /\ n(l).gen = loads[l].gen /\ n(l).dead = loads[l].dead
               /\ loads[l].st = "unused" \/ loads[l].key \notin S => n(l) = loads[l]
               /\ loads[l].st # "unused" /\ loads[l].key \in S => n(l).old
               /\ inFlight[loads[l].key] # l => /\ n(l).aborted = loads[l].aborted
                                                /\ n(l).cleared = loads[l].cleared
               /\ loads[l].st # "unused" /\ loads[l].key \in S /\ inFlight[loads[l].key] = l =>
                    n(l).aborted /\ n(l).cleared = gen[loads[l].key] + 1
    <3>1. loads[l] \in LoadRecord /\ gen \in [Keys -> Nat]
      BY <1>1 DEF TypeOK
    <3>2. CASE loads[l].st = "unused" \/ loads[l].key \notin S
      BY <3>1, <3>2
    <3>3. CASE loads[l].st # "unused" /\ loads[l].key \in S /\ inFlight[loads[l].key] # l
      BY <3>1, <3>3 DEF LoadRecord
    <3>4. CASE loads[l].st # "unused" /\ loads[l].key \in S /\ inFlight[loads[l].key] = l
      <4>1. n(l) = [loads[l] EXCEPT !.old = TRUE, !.aborted = TRUE,
                                    !.cleared = gen[loads[l].key] + 1]
        BY <3>4
      <4>2. gen[loads[l].key] + 1 \in Nat
        BY <3>1 DEF LoadRecord
      <4> QED BY <3>1, <3>4, <4>1, <4>2 DEF LoadRecord
    <3> QED BY <3>2, <3>3, <3>4
  <2> HIDE DEF n
  <2> QED BY <2>1, <2>2
<1>u. \A l \in Loads : Subscribers(l)' = Subscribers(l)
  BY DEF Subscribers
<1>t. \A l \in Loads : loads[l].key \in Keys
  BY <1>1 DEF TypeOK, LoadRecord
<1>3. TypeOK'
  BY <1>1, <1>2, <1>n DEF TypeOK, Entries
<1>4. KeysOK'
  <2> SUFFICES ASSUME NEW k \in Keys, inFlight'[k] # None
               PROVE  FlightOK(k)'
    BY DEF KeysOK, FlightOK
  <2>1. k \notin S /\ inFlight'[k] = inFlight[k] /\ gen'[k] = gen[k] /\ inFlight[k] \in Loads
    BY <1>1, <1>2 DEF TypeOK
  <2>2. FlightOK(k) /\ loads'[inFlight[k]] = loads[inFlight[k]]
    BY <1>1, <1>n, <2>1 DEF KeysOK, FlightOK
  <2> QED BY <1>u, <2>1, <2>2 DEF FlightOK, Pending
<1>5. GenerationsOK'
  <2> SUFFICES ASSUME NEW k \in Keys, gen'[k] # 0
               PROVE  GenerationOK(k)'
    BY DEF GenerationsOK, GenerationOK
  <2>1. CASE k \in S
    <3>1. inFlight[k] \in Loads /\ gen'[k] = gen[k] + 1 /\ loads[inFlight[k]].key = k
          /\ loads[inFlight[k]].st # "unused"
      BY <1>1, <1>2, <2>1 DEF TypeOK, KeysOK, FlightOK, Pending
    <3> QED BY <1>n, <2>1, <3>1 DEF GenerationOK
  <2>2. CASE k \notin S
    <3>1. GenerationOK(k)
      BY <1>1 DEF GenerationsOK
    <3>2. \A l \in Loads : loads[l].key = k => loads'[l] = loads[l]
      BY <1>n, <2>2
    <3> QED BY <1>2, <2>2, <3>1, <3>2 DEF GenerationOK, Pending
  <2> QED BY <2>1, <2>2
<1>6. LoadsOK'
  <2> SUFFICES ASSUME NEW l \in Loads
               PROVE  LoadOK(l)'
    BY DEF LoadsOK
  <2>1. LoadOK(l) /\ loads[l].key \in Keys
    BY <1>1, <1>t DEF LoadsOK
  <2>2. CASE loads[l].st = "unused" \/ loads[l].key \notin S
    BY <1>2, <1>n, <1>u, <2>1, <2>2 DEF LoadOK, Pending
  <2>3. CASE loads[l].st # "unused" /\ loads[l].key \in S
    BY <1>n, <2>1, <2>3 DEF LoadOK, Pending
  <2> QED BY <2>2, <2>3
<1>7. ClientsOK' /\ ReadersOK'
  <2>1. SharedLoadsSurvive'
    <3> SUFFICES ASSUME NEW r \in Readers, waits[r] # None, loads'[waits[r]].aborted
                 PROVE  loads'[waits[r]].old
      BY DEF SharedLoadsSurvive
    <3>1. waits[r] \in Loads /\ loads[waits[r]].st # "unused"
      BY <1>1, WaitsOnUsed
    <3> QED BY <1>1, <1>n, <3>1 DEF ReadersOK, SharedLoadsSurvive
  <2>2. NothingStaleIsServed'
    <3>1. \A k \in Keys : cache'[k] # Absent => ~ cache'[k].old
      BY <1>1, <1>2 DEF ReadersOK, NothingStaleIsServed
    <3> QED BY <1>4, <3>1 DEF NothingStaleIsServed, KeysOK, FlightOK
  <2>3. LockedMeansEmpty'
    BY <1>1, <1>2 DEF ReadersOK, LockedMeansEmpty
  <2> QED BY <2>1, <2>2, <2>3 DEF ReadersOK
<1> QED BY <1>3, <1>4, <1>5, <1>6, <1>7
        DEF SharingInv, KeysOK, GenerationsOK, LoadsOK, ClientsOK, ReadersOK

(* A step of the sessions that clears nothing, and does not lock. *)
LEMMA SessionOK ==
  ASSUME SharingInv, UNCHANGED <<cache, order, inFlight, gen, loads, waits>>,
         client' \in [Readers -> {"none", "live", "dead"}], locked' \in BOOLEAN, ClientsOK',
         locked' => locked
  PROVE  SharingInv'
<1> USE CacheAssumption
<1>1. TypeOK /\ KeysOK /\ GenerationsOK /\ LoadsOK /\ ClientsOK /\ ReadersOK
  BY DEF SharingInv, KeysOK, GenerationsOK, LoadsOK, ClientsOK, ReadersOK
<1>3. TypeOK'
  BY <1>1 DEF TypeOK
<1>4. KeysOK' /\ GenerationsOK'
  BY <1>1 DEF KeysOK, FlightOK, GenerationsOK, GenerationOK, Pending, Subscribers
<1>6. LoadsOK'
  BY <1>1 DEF LoadsOK, LoadOK, Pending, Subscribers
<1>7. ClientsOK' /\ ReadersOK'
  BY <1>1 DEF ReadersOK, NothingStaleIsServed, SharedLoadsSurvive, LockedMeansEmpty
<1> QED BY <1>3, <1>4, <1>6, <1>7
        DEF SharingInv, KeysOK, GenerationsOK, LoadsOK, ClientsOK, ReadersOK

(* No live client is left of a session that ended. *)
LEMMA EndedSession ==
  ASSUME TypeOK, EndSession
  PROVE  /\ client' \in [Readers -> {"none", "live", "dead"}]
         /\ \A r \in Readers : client'[r] # "live"
BY DEF TypeOK, EndSession

LEMMA SessionStepOK ==
  ASSUME SharingInv, \/ Invalidate \/ SaveInstance \/ NewSession \/ Lock
               \/ \E r \in Readers : HandlerStart(r) \/ HandlerEnd(r)
  PROVE  SharingInv'
<1> USE CacheAssumption
<1>1. TypeOK /\ KeysOK /\ GenerationsOK /\ LoadsOK /\ ClientsOK /\ ReadersOK
  BY DEF SharingInv, KeysOK, GenerationsOK, LoadsOK, ClientsOK, ReadersOK
<1>s. \A S \in Scopes : S \subseteq Keys
  OBVIOUS
<1>2. CASE Invalidate
  <2>1. PICK S \in Scopes : Clear(S)
    BY <1>2 DEF Invalidate
  <2>2. UNCHANGED <<waits, client, locked>>
    BY <1>2 DEF Invalidate
  <2> QED BY <1>1, <1>s, <2>1, <2>2, ClearOK DEF TypeOK, ClientsOK
<1>3. CASE SaveInstance
  <2>1. PICK S \in Scopes : Clear(S)
    BY <1>3 DEF SaveInstance
  <2>2. UNCHANGED <<waits, locked>> /\ EndSession
    BY <1>3 DEF SaveInstance
  <2>3. client' \in [Readers -> {"none", "live", "dead"}] /\ ClientsOK'
    BY <1>1, <2>2, EndedSession DEF ClientsOK
  <2> QED BY <1>1, <1>s, <2>1, <2>2, <2>3, ClearOK DEF TypeOK
<1>4. CASE NewSession
  <2>1. UNCHANGED <<cache, order, inFlight, gen, loads, waits>> /\ locked' = FALSE /\ EndSession
    BY <1>4 DEF NewSession
  <2>2. client' \in [Readers -> {"none", "live", "dead"}] /\ ClientsOK'
    BY <1>1, <2>1, EndedSession DEF ClientsOK
  <2> QED BY <2>1, <2>2, SessionOK
<1>5. CASE Lock
  <2>1. waits' = waits /\ locked' = TRUE /\ EndSession /\ Clear(Keys)
    BY <1>5 DEF Lock
  <2>2. client' \in [Readers -> {"none", "live", "dead"}] /\ ClientsOK'
    BY <1>1, <2>1, EndedSession DEF ClientsOK
  <2> QED BY <2>1, <2>2, ClearOK
<1>6. ASSUME NEW r0 \in Readers, HandlerStart(r0)
      PROVE  SharingInv'
  <2>1. /\ UNCHANGED <<cache, order, inFlight, gen, loads, waits, locked>>
        /\ ~ locked /\ client' \in [Readers -> {"none", "live", "dead"}]
    BY <1>1, <1>6 DEF HandlerStart, TypeOK
  <2> QED BY <1>1, <2>1, SessionOK DEF ClientsOK, TypeOK
<1>7. ASSUME NEW r0 \in Readers, HandlerEnd(r0)
      PROVE  SharingInv'
  <2>1. /\ UNCHANGED <<cache, order, inFlight, gen, loads, waits, locked>>
        /\ client' \in [Readers -> {"none", "live", "dead"}] /\ ClientsOK'
    BY <1>1, <1>7 DEF HandlerEnd, TypeOK, ClientsOK
  <2> QED BY <1>1, <2>1, SessionOK DEF TypeOK
<1> QED BY <1>2, <1>3, <1>4, <1>5, <1>6, <1>7

\* Each step keeps what is said of the loads and their readers.
LEMMA SharingStepOK ==
  ASSUME SharingInv, [Next]_vars
  PROVE  SharingInv'
<1>1. ASSUME NEW k \in Keys, Expire(k)
      PROVE  SharingInv'
  BY <1>1, ExpireOK
<1>2. ASSUME NEW r \in Readers, NEW k \in Keys,
             Hit(r, k) \/ Join(r, k) \/ \E l \in Loads : Miss(r, k, l)
      PROVE  SharingInv'
  BY <1>2, HitOK, JoinOK, MissOK
<1>3. ASSUME NEW r \in Readers, Answer(r) \/ Leave(r) \/ HandlerStart(r) \/ HandlerEnd(r)
      PROVE  SharingInv'
  BY <1>3, AnswerOK, LeaveOK, SessionStepOK
<1>4. ASSUME NEW l \in Loads, Loaded(l) \/ LoadFails(l) \/ Settle(l) \/ Cleared(l)
      PROVE  SharingInv'
  BY <1>4, LoadedOK, LoadFailsOK, SettleOK, ClearedOK
<1>5. CASE Invalidate \/ SaveInstance \/ NewSession \/ Lock
  BY <1>5, SessionStepOK
<1>6. CASE UNCHANGED vars
  BY <1>6 DEF vars, SharingInv, TypeOK, FlightOK, GenerationOK, LoadOK, Pending, Subscribers,
              NothingStaleIsServed, SharedLoadsSurvive, LockedMeansEmpty
<1> QED BY <1>1, <1>2, <1>3, <1>4, <1>5, <1>6 DEF Next

-----------------------------------------------------------------------------
(* The order of the entries, and their number. *)

Injective(s) == \A i, j \in 1..Len(s) : s[i] = s[j] => i = j

\* A sequence of keys has the keys at its positions.
LEMMA KeysAt ==
  ASSUME NEW s \in Seq(Keys)
  PROVE  KeysOf(s) = {s[i] : i \in 1..Len(s)}
BY LenProperties DEF KeysOf

\* A filter of keys keeps each once.
LEMMA KeysKept ==
  ASSUME NEW s \in Seq(Keys), Injective(s), NEW S
  PROVE  /\ Filter(s, S) \in Seq(Keys) /\ Injective(Filter(s, S))
         /\ Len(Filter(s, S)) <= Len(s)
         /\ KeysOf(Filter(s, S)) = KeysOf(s) \cap S
<1>1. /\ Filter(s, S) \in Seq(Keys) /\ Len(Filter(s, S)) <= Len(s)
      /\ \A j \in 1..Len(Filter(s, S)) :
           Filter(s, S)[j] \in S /\ \E i \in 1..Len(s) : Filter(s, S)[j] = s[i]
      /\ \A i \in 1..Len(s) :
           s[i] \in S => \E j \in 1..Len(Filter(s, S)) : Filter(s, S)[j] = s[i]
  BY FilterElements
<1>2. Injective(Filter(s, S))
  BY FilterInjective DEF Injective
<1>3. KeysOf(s) = {s[i] : i \in 1..Len(s)}
  BY KeysAt
<1>4. KeysOf(Filter(s, S)) = {Filter(s, S)[i] : i \in 1..Len(Filter(s, S))}
  BY <1>1, KeysAt
<1> QED BY <1>1, <1>2, <1>3, <1>4

\* What is left of at most one entry too many is fresh, and not too much.
LEMMA SurvivorsFit ==
  ASSUME NEW c, NEW s \in Seq(Keys), Injective(s), Len(s) <= MaxEntries + 1
  PROVE  /\ Survivors(c, s) \in Seq(Keys) /\ Injective(Survivors(c, s))
         /\ Len(Survivors(c, s)) <= MaxEntries
         /\ \A k \in KeysOf(Survivors(c, s)) : c[k].st = "fresh"
<1> DEFINE fresh == Filter(s, {k \in Keys : c[k].st = "fresh"})
<1>1. /\ fresh \in Seq(Keys) /\ Injective(fresh) /\ Len(fresh) <= Len(s)
      /\ KeysOf(fresh) = KeysOf(s) \cap {k \in Keys : c[k].st = "fresh"}
  BY KeysKept
<1>2. MaxEntries \in Nat \ {0} /\ Len(s) \in Nat /\ Len(fresh) \in Nat
  BY <1>1, CacheAssumption, LenProperties
<1>3. Survivors(c, s) = IF Len(fresh) > MaxEntries THEN Tail(fresh) ELSE fresh
  BY DEF Survivors
<1> HIDE DEF fresh
<1>4. CASE Len(fresh) > MaxEntries
  <2>1. fresh # << >>
    BY <1>2, <1>4, EmptySeq
  <2>2. /\ Tail(fresh) \in Seq(Keys) /\ Len(Tail(fresh)) = Len(fresh) - 1
        /\ \A i \in 1..Len(Tail(fresh)) : Tail(fresh)[i] = fresh[i + 1]
    BY <1>1, <2>1, HeadTailProperties
  <2>3. Injective(Tail(fresh))
    BY <1>1, <1>2, <2>2 DEF Injective
  <2>4. KeysOf(Tail(fresh)) \subseteq KeysOf(fresh)
    <3>1. KeysOf(Tail(fresh)) = {Tail(fresh)[i] : i \in 1..Len(Tail(fresh))}
      BY <2>2, KeysAt
    <3>2. KeysOf(fresh) = {fresh[i] : i \in 1..Len(fresh)}
      BY <1>1, KeysAt
    <3>3. \A i \in 1..Len(Tail(fresh)) : i + 1 \in 1..Len(fresh)
      BY <1>2, <2>2
    <3> QED BY <2>2, <3>1, <3>2, <3>3
  <2> QED BY <1>1, <1>2, <1>3, <1>4, <2>2, <2>3, <2>4
<1>5. CASE ~ (Len(fresh) > MaxEntries)
  BY <1>1, <1>2, <1>3, <1>5
<1> QED BY <1>4, <1>5

\* A pruned cache keeps its order.
LEMMA PrunedOrder ==
  ASSUME NEW c, NEW s \in Seq(Keys), Injective(s), Len(s) <= MaxEntries + 1, NEW dropped,
         PruneTo(c, Survivors(c, s), dropped)
  PROVE  OrderOK'
<1> DEFINE t == Survivors(c, s)
<1>1. /\ t \in Seq(Keys) /\ Injective(t) /\ Len(t) <= MaxEntries
      /\ \A k \in KeysOf(t) : c[k].st = "fresh"
  BY SurvivorsFit
<1>2. /\ order' = Filter(t, Keys \ dropped)
      /\ cache' = [k \in Keys |-> IF k \in KeysOf(t) \ dropped THEN c[k] ELSE Absent]
  BY DEF PruneTo
<1> HIDE DEF t
<1>3. /\ order' \in Seq(Keys) /\ Injective(order') /\ Len(order') <= Len(t)
      /\ KeysOf(order') = KeysOf(t) \cap (Keys \ dropped)
  BY <1>1, <1>2, KeysKept
<1>4. Len(order') <= MaxEntries
  BY <1>1, <1>3, CacheAssumption, LenProperties
<1>5. KeysOf(order') = {k \in Keys : cache'[k] # Absent}
  <2>1. \A k \in KeysOf(t) : c[k] # Absent
    BY <1>1 DEF Absent
  <2>2. \A k \in Keys : cache'[k] # Absent <=> k \in KeysOf(t) \ dropped
    BY <1>2, <2>1
  <2>3. KeysOf(order') \subseteq Keys
    BY <1>3
  <2> QED BY <1>3, <2>2, <2>3
<1> QED BY <1>3, <1>4, <1>5 DEF OrderOK, Injective, KeysOf

\* An order with one entry more, perhaps, is one that can be pruned.
LEMMA OneMore ==
  ASSUME OrderOK, NEW k \in Keys
  PROVE  /\ Position(k) \in Seq(Keys) /\ Injective(Position(k))
         /\ Len(Position(k)) <= MaxEntries + 1
<1>1. /\ order \in Seq(Keys) /\ Injective(order) /\ Len(order) <= MaxEntries
      /\ Len(order) \in Nat /\ MaxEntries \in Nat
  BY CacheAssumption, LenProperties DEF OrderOK, Injective
<1>2. CASE k \in KeysOf(order)
  BY <1>1, <1>2 DEF Position
<1>3. CASE k \notin KeysOf(order)
  <2>1. Position(k) = Append(order, k)
    BY <1>3 DEF Position
  <2>2. /\ Append(order, k) \in Seq(Keys) /\ Len(Append(order, k)) = Len(order) + 1
        /\ \A i \in 1..Len(order) : Append(order, k)[i] = order[i]
        /\ Append(order, k)[Len(order) + 1] = k
    BY <1>1, AppendProperties
  <2>3. \A i \in 1..Len(order) : order[i] # k
    BY <1>1, <1>3, KeysAt
  <2>4. Injective(Append(order, k))
    BY <1>1, <2>2, <2>3 DEF Injective
  <2> QED BY <1>1, <2>1, <2>2, <2>4
<1> QED BY <1>2, <1>3

\* Each step keeps the order of the entries.
LEMMA OrderStepOK ==
  ASSUME SharingInv, OrderOK, [Next]_vars
  PROVE  OrderOK'
<1>1. TypeOK
  BY DEF SharingInv
<1>2. order \in Seq(Keys) /\ Injective(order) /\ Len(order) <= MaxEntries + 1
  BY CacheAssumption, LenProperties DEF OrderOK, Injective
<1>3. ASSUME NEW k \in Keys, Expire(k)
      PROVE  OrderOK'
  <2>1. order' = order /\ \A x \in Keys : (cache'[x] # Absent) <=> (cache[x] # Absent)
    <3>1. /\ order' = order /\ cache[k].st = "fresh" /\ cache \in [Keys -> Entries]
          /\ cache' = [cache EXCEPT ![k] = [cache[k] EXCEPT !.st = "expired"]]
      BY <1>1, <1>3 DEF Expire, TypeOK, Entries
    <3>2. cache[k] # Absent /\ [cache[k] EXCEPT !.st = "expired"] # Absent
      BY <3>1 DEF Absent, Entries
    <3> QED BY <3>1, <3>2
  <2> QED BY <2>1 DEF OrderOK, KeysOf
<1>4. ASSUME NEW dropped, PruneTo(cache, Survivors(cache, order), dropped)
      PROVE  OrderOK'
  BY <1>2, <1>4, PrunedOrder
<1>5. ASSUME NEW l \in Loads, Loaded(l)
      PROVE  OrderOK'
  <2>1. loads[l].key \in Keys
    BY <1>1 DEF TypeOK, LoadRecord
  <2>2. CASE PruneTo(Entered(l), Survivors(Entered(l), Position(loads[l].key)), {})
    BY <2>1, <2>2, OneMore, PrunedOrder
  <2>3. CASE UNCHANGED <<cache, order, gen>>
    BY <2>3 DEF OrderOK, KeysOf
  <2> QED BY <1>5, <2>2, <2>3 DEF Loaded
<1>6. ASSUME NEW S, Clear(S)
      PROVE  OrderOK'
  <2>1. /\ order' = Filter(order, Keys \ S)
        /\ cache' = [k \in Keys |-> IF k \in S THEN Absent ELSE cache[k]]
    BY <1>6 DEF Clear
  <2>2. /\ order' \in Seq(Keys) /\ Injective(order') /\ Len(order') <= Len(order)
        /\ KeysOf(order') = KeysOf(order) \cap (Keys \ S)
    BY <1>2, <2>1, KeysKept
  <2>3. Len(order') <= MaxEntries
    BY <1>2, <2>2, CacheAssumption, LenProperties DEF OrderOK
  <2>4. KeysOf(order') = {k \in Keys : cache'[k] # Absent}
    BY <2>1, <2>2 DEF OrderOK
  <2> QED BY <2>2, <2>3, <2>4 DEF OrderOK, Injective, KeysOf
<1>7. ASSUME UNCHANGED <<cache, order>>
      PROVE  OrderOK'
  BY <1>7 DEF OrderOK, KeysOf
<1>8. ASSUME NEW r \in Readers, NEW k \in Keys,
             Hit(r, k) \/ Join(r, k) \/ \E l \in Loads : Miss(r, k, l)
      PROVE  OrderOK'
  BY <1>4, <1>8 DEF Hit, Join, Miss
<1>9. ASSUME NEW r \in Readers, Answer(r) \/ Leave(r) \/ HandlerStart(r) \/ HandlerEnd(r)
      PROVE  OrderOK'
  BY <1>7, <1>9 DEF Answer, Leave, HandlerStart, HandlerEnd
<1>10. ASSUME NEW l \in Loads, Loaded(l) \/ LoadFails(l) \/ Settle(l) \/ Cleared(l)
       PROVE  OrderOK'
  BY <1>5, <1>7, <1>10 DEF LoadFails, Settle, Cleared
<1>11. CASE Invalidate \/ SaveInstance \/ NewSession \/ Lock
  BY <1>6, <1>7, <1>11 DEF Invalidate, SaveInstance, NewSession, Lock
<1>12. CASE UNCHANGED vars
  BY <1>7, <1>12 DEF vars
<1> QED BY <1>3, <1>8, <1>9, <1>10, <1>11, <1>12 DEF Next

-----------------------------------------------------------------------------
(* The theorems. *)

LEMMA InitOK == Init => IInv
<1> SUFFICES ASSUME Init
             PROVE  IInv
  OBVIOUS
<1> USE CacheAssumption, UnusedType
<1>1. TypeOK
  BY DEF Init, TypeOK, Absent
<1>2. \A k \in Keys : FlightOK(k) /\ GenerationOK(k)
  BY DEF Init, FlightOK, GenerationOK
<1>3. \A l \in Loads : LoadOK(l)
  BY DEF Init, LoadOK, Pending, Subscribers
<1>4. NothingStaleIsServed /\ SharedLoadsSurvive /\ LockedMeansEmpty
  BY DEF Init, NothingStaleIsServed, SharedLoadsSurvive, LockedMeansEmpty
<1>5. OrderOK
  <2>1. << >> \in Seq(Keys) /\ Len(<< >>) = 0
    BY EmptySeq
  <2>2. KeysOf(<< >>) = {}
    BY <2>1 DEF KeysOf
  <2> QED BY <2>1, <2>2, CacheAssumption DEF Init, OrderOK, KeysOf
<1> QED BY <1>1, <1>2, <1>3, <1>4, <1>5 DEF IInv, SharingInv, Init

\* The invariant of the cache is inductive: it holds for any keys, readers, loads in flight
\* and clears, and any order of their callbacks.
THEOREM Invariance == Spec => []IInv
<1>1. IInv /\ [Next]_vars => IInv'
  BY SharingStepOK, OrderStepOK DEF IInv
<1> QED BY <1>1, InitOK, PTL DEF Spec

\* Type correctness of the cache.
THEOREM CacheTypeCorrect == Spec => []TypeOK
<1>1. IInv => TypeOK
  BY DEF IInv, SharingInv
<1> QED BY <1>1, Invariance, PTL

\* A read is never answered from an entry, or a load, that began before the last clear of
\* its key, however often generations are deleted and begin again.
THEOREM NothingStale == Spec => []NothingStaleIsServed
<1>1. IInv => NothingStaleIsServed
  BY DEF IInv, SharingInv
<1> QED BY <1>1, Invariance, PTL

\* No reader that leaves aborts the load of another.
THEOREM LoadsSurvive == Spec => []SharedLoadsSurvive
<1>1. IInv => SharedLoadsSurvive
  BY DEF IInv, SharingInv
<1> QED BY <1>1, Invariance, PTL

\* Nothing is stored in the cache of a locked vault.
THEOREM LockedEmpty == Spec => []LockedMeansEmpty
<1>1. IInv => LockedMeansEmpty
  BY DEF IInv, SharingInv
<1> QED BY <1>1, Invariance, PTL

\* A generation goes with the last load that needs it.
THEOREM GenerationsGo == Spec => []GenerationsEnd
<1>1. IInv => GenerationsEnd
  <2> SUFFICES ASSUME IInv, NEW k \in Keys, cache[k] = Absent, gen[k] # 0,
                      \A l \in Loads : loads[l].st # "unused" => loads[l].key # k
               PROVE  FALSE
    BY DEF GenerationsEnd
  <2>1. GenerationOK(k) /\ FlightOK(k) /\ inFlight[k] \in Loads \cup {None}
    BY DEF IInv, SharingInv, TypeOK
  <2>2. \A l \in Loads : loads[l].st = "unused" => loads[l].cleared = 0
    BY UnusedType DEF IInv, SharingInv, LoadOK
  <2>3. inFlight[k] = None
    BY <2>1 DEF FlightOK, Pending
  <2> QED BY <2>1, <2>2, <2>3 DEF GenerationOK, Pending
<1> QED BY <1>1, Invariance, PTL

\* The cache holds at most MAX_ENTRIES: one entry comes with each load, and the oldest one
\* leaves when there is no room.
THEOREM AlwaysBounded == Spec => []CacheIsBounded
<1>1. IInv => CacheIsBounded
  <2> SUFFICES ASSUME OrderOK
               PROVE  Cardinality({k \in Keys : cache[k] # Absent}) <= MaxEntries
    BY DEF IInv, CacheIsBounded
  <2>1. /\ order \in Seq(Keys) /\ Injective(order) /\ Len(order) <= MaxEntries
        /\ Len(order) \in Nat
        /\ {k \in Keys : cache[k] # Absent} = {order[i] : i \in 1..Len(order)}
    BY LenProperties, KeysAt DEF OrderOK, Injective
  <2> DEFINE S == {k \in Keys : cache[k] # Absent}
  <2>2. order \in Bijection(1..Len(order), S)
    <3>1. order \in [1..Len(order) -> S]
      BY <2>1, LenProperties
    <3> QED BY <2>1, <3>1 DEF Bijection, Injection, Surjection, IsInjective, Injective
  <2>3. Cardinality(S) = Len(order)
    BY <2>1, <2>2, FS_CountingElements DEF ExistsBijection
  <2> QED BY <2>1, <2>3
<1> QED BY <1>1, Invariance, PTL
=============================================================================
