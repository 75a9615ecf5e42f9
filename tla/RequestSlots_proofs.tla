------------------------ MODULE RequestSlots_proofs ------------------------
(***************************************************************************)
(* The budget of a credential is kept, and whoever waits is woken when     *)
(* there is room, for any budgets, window and number of requests.          *)
(*                                                                         *)
(* Starts grow older from the back of the sequence to its front, so what   *)
(* the filter of drainRequestSlots drops is a prefix, and the start that   *)
(* blocks takes all before it along when it leaves the window.             *)
(***************************************************************************)
EXTENDS RequestSlots, Filters_proofs

(* A sequence with the same element everywhere.                            *)
LEMMA TimesProperties ==
  ASSUME NEW S, NEW x \in S, NEW n \in Nat
  PROVE  /\ Times(n, x) \in Seq(S) /\ Len(Times(n, x)) = n
         /\ \A k \in 1..n : Times(n, x)[k] = x
<1>1. Times(n, x) \in [1..n -> S]
  BY DEF Times
<1>2. Times(n, x) \in Seq(S)
  BY <1>1, SeqDef
<1>3. Len(Times(n, x)) = n
  BY <1>1, <1>2, LenProperties
<1> QED BY <1>2, <1>3 DEF Times

(* Whoever starts fits the budget, and nobody waits beside room.           *)
LEMMA StartingBounds ==
  ASSUME NEW waiting \in Nat, NEW budget \in Nat, NEW used \in Nat
  PROVE  /\ Starting(waiting, budget, used) \in 0..waiting
         /\ used < budget => used + Starting(waiting, budget, used) <= budget
         /\ used >= budget => Starting(waiting, budget, used) = 0
         /\ Starting(waiting, budget, used) < waiting =>
              used + Starting(waiting, budget, used) >= budget
BY DEF Starting, Least

(* What is left of a sequence without its first elements.                  *)
LEMMA SuffixProperties ==
  ASSUME NEW S, NEW q \in Seq(S), NEW m \in 0..Len(q)
  PROVE  /\ SubSeq(q, m + 1, Len(q)) \in Seq(S)
         /\ Len(SubSeq(q, m + 1, Len(q))) = Len(q) - m
         /\ \A k \in 1..(Len(q) - m) : SubSeq(q, m + 1, Len(q))[k] = q[m + k]
<1>1. Len(q) \in Nat /\ \A k \in 1..Len(q) : q[k] \in S
  BY LenProperties, ElementOfSeq
<1>2. m + 1 \in Int /\ Len(q) \in Int /\ \A k \in (m + 1)..Len(q) : q[k] \in S
  BY <1>1
<1>3. /\ SubSeq(q, m + 1, Len(q)) \in Seq(S)
      /\ Len(SubSeq(q, m + 1, Len(q))) =
           IF m + 1 <= Len(q) THEN Len(q) - (m + 1) + 1 ELSE 0
      /\ \A k \in 1..(Len(q) - (m + 1) + 1) :
           SubSeq(q, m + 1, Len(q))[k] = q[m + 1 + k - 1]
  BY <1>2, SubSeqProperties
<1>4. Len(q) - (m + 1) + 1 = Len(q) - m /\ (~ (m + 1 <= Len(q)) => Len(q) - m = 0)
  BY <1>1
<1>5. \A k \in 1..(Len(q) - m) : m + 1 + k - 1 = m + k
  BY <1>1
<1> QED BY <1>3, <1>4, <1>5

(* The starts within the window are what really started.                   *)
LEMMA RecentStarts ==
  ASSUME IInv
  PROVE  /\ InWindow(starts) \in Seq(0..Window)
         /\ Len(InWindow(starts)) = Len(started)
         /\ \A k \in 1..Len(started) : InWindow(starts)[k] = started[k].age
<1> USE SlotsAssumption
<1> DEFINE past == Len(starts) - Len(started)
           Recent == {age \in 0..Window : age < Window}
<1>1. /\ starts \in Seq(0..Window) /\ started \in Seq(Start)
      /\ Len(starts) \in Nat /\ Len(started) \in Nat /\ Len(started) <= Len(starts)
  BY LenProperties DEF IInv, TypeOK, StartsAreKnown
<1>2. past \in 0..Len(starts) /\ Len(starts) = past + Len(started)
  BY <1>1
<1>3. \A k \in 1..past : starts[k] \notin Recent
  BY DEF IInv, StartsAreKnown
<1>4. \A k \in 1..Len(started) : starts[past + k] = started[k].age /\ started[k] \in Start
  BY <1>1, ElementOfSeq DEF IInv, StartsAreKnown
<1>5. \A k \in (past + 1)..Len(starts) : starts[k] \in Recent
  <2> SUFFICES ASSUME NEW k \in (past + 1)..Len(starts)
               PROVE  starts[k] \in Recent
    OBVIOUS
  <2>1. k - past \in 1..Len(started) /\ past + (k - past) = k
    BY <1>1, <1>2
  <2>2. starts[k] = started[k - past].age /\ started[k - past] \in Start
    BY <1>4, <2>1
  <2> QED BY <2>2 DEF Start
<1> HIDE DEF past, Recent
<1>6. Filter(starts, Recent) = SubSeq(starts, past + 1, Len(starts))
  BY <1>1, <1>2, <1>3, <1>5, FilterSuffix
<1>7. /\ SubSeq(starts, past + 1, Len(starts)) \in Seq(0..Window)
      /\ Len(SubSeq(starts, past + 1, Len(starts))) = Len(starts) - past
      /\ \A k \in 1..(Len(starts) - past) :
           SubSeq(starts, past + 1, Len(starts))[k] = starts[past + k]
  BY <1>1, <1>2, SuffixProperties
<1>8. Len(starts) - past = Len(started)
  BY <1>1, <1>2
<1> QED BY <1>4, <1>6, <1>7, <1>8 DEF InWindow, Recent

(* What is left of a queue.                                                *)
LEMMA RestOfQueue ==
  ASSUME NEW q \in Seq(Requests), NEW m \in 0..Len(q)
  PROVE  /\ SubSeq(q, m + 1, Len(q)) \in Seq(Requests)
         /\ SubSeq(q, m + 1, Len(q)) = << >> <=> m = Len(q)
         /\ Waiting(SubSeq(q, m + 1, Len(q))) \subseteq Waiting(q)
<1> DEFINE rest == SubSeq(q, m + 1, Len(q))
<1>1. /\ rest \in Seq(Requests) /\ Len(rest) = Len(q) - m
      /\ \A k \in 1..(Len(q) - m) : rest[k] = q[m + k]
  BY SuffixProperties
<1> HIDE DEF rest
<1>2. Len(q) \in Nat /\ DOMAIN q = 1..Len(q) /\ DOMAIN rest = 1..Len(rest)
  BY <1>1, LenProperties
<1>3. rest = << >> <=> m = Len(q)
  BY <1>1, <1>2, EmptySeq
<1>4. \A k \in DOMAIN rest : rest[k] = q[m + k] /\ m + k \in DOMAIN q
  BY <1>1, <1>2
<1>5. Waiting(rest) \subseteq Waiting(q)
  BY <1>4 DEF Waiting
<1> QED BY <1>1, <1>3, <1>5 DEF rest
-----------------------------------------------------------------------------
(* A drain: m of the one queue start, and n of the other.                  *)
Drained(i, b, c, m, n, now) ==
  /\ m \in 0..Len(i) /\ n \in 0..Len(b)
  /\ Len(started) + m + n <= RequestBudget
  /\ m < Len(i) => n = 0 /\ Len(started) + m = RequestBudget
  /\ n > 0 => m = Len(i) /\ Len(started) + m + n <= BackgroundBudget
  /\ m = Len(i) /\ n < Len(b) => Len(started) + m + n >= BackgroundBudget
  /\ interactive' = SubSeq(i, m + 1, Len(i)) /\ background' = SubSeq(b, n + 1, Len(b))
  /\ now \in Seq(0..Window) /\ Len(now) = Len(started) + m + n
  /\ starts' = IF i = << >> /\ b = << >> THEN starts ELSE now
  /\ started' \in Seq(Start) /\ Len(started') = Len(started) + m + n
  /\ \A k \in 1..Len(started) : started'[k] = started[k]
  /\ \A k \in (Len(started) + 1)..(Len(started) + m + n) :
       started'[k].age = 0 /\ (started'[k].of = "background" => n > 0)
  /\ \A k \in 1..(Len(started) + m + n) : now[k] = started'[k].age
  /\ wake' = IF m < Len(i) THEN Window - Blocking(now, RequestBudget)
             ELSE IF n < Len(b) THEN Window - Blocking(now, BackgroundBudget) ELSE None
  /\ cleanup' = IF m = Len(i) /\ n = Len(b) THEN StateTtl ELSE c

LEMMA DrainDrains ==
  ASSUME IInv, NEW i \in Seq(Requests), NEW b \in Seq(Requests), NEW c, Drain(i, b, c)
  PROVE  \E m, n, now : Drained(i, b, c, m, n, now)
<1> USE SlotsAssumption
<1> DEFINE u == Len(started)
           recent == InWindow(starts)
           m == Starting(Len(i), RequestBudget, Len(recent))
           n == IF m < Len(i) THEN 0
                ELSE Starting(Len(b), BackgroundBudget, Len(recent) + m)
           now == recent \o Times(m + n, 0)
           one == Times(m, [age |-> 0, of |-> "interactive"])
           two == Times(n, [age |-> 0, of |-> "background"])
<1>1. /\ Len(i) \in Nat /\ Len(b) \in Nat /\ u \in Nat /\ u <= RequestBudget
      /\ RequestBudget \in Nat /\ BackgroundBudget \in Nat
      /\ BackgroundBudget <= RequestBudget /\ started \in Seq(Start)
  BY LenProperties DEF IInv, TypeOK, BudgetIsKept
<1>2. /\ recent \in Seq(0..Window) /\ Len(recent) = u
      /\ \A k \in 1..u : recent[k] = started[k].age
  BY RecentStarts
<1>3. /\ interactive' = SubSeq(i, m + 1, Len(i)) /\ background' = SubSeq(b, n + 1, Len(b))
      /\ starts' = IF i = << >> /\ b = << >> THEN starts ELSE now
      /\ started' = started \o one \o two
      /\ wake' = IF m < Len(i) THEN Window - Blocking(now, RequestBudget)
                 ELSE IF n < Len(b) THEN Window - Blocking(now, BackgroundBudget) ELSE None
      /\ cleanup' = IF m = Len(i) /\ n = Len(b) THEN StateTtl ELSE c
  BY DEF Drain, StartingBehind
<1> HIDE DEF recent
<1>4. /\ m \in 0..Len(i) /\ u + m <= RequestBudget
      /\ m < Len(i) => u + m = RequestBudget
  <2>1. m = Starting(Len(i), RequestBudget, u)
    BY <1>2
  <2> HIDE DEF m, u
  <2>2. /\ m \in 0..Len(i)
        /\ u < RequestBudget => u + m <= RequestBudget
        /\ u >= RequestBudget => m = 0
        /\ m < Len(i) => u + m >= RequestBudget
    BY <1>1, <2>1, StartingBounds
  <2> QED BY <1>1, <2>2
<1> HIDE DEF m
<1>5. /\ n \in 0..Len(b) /\ u + m + n <= RequestBudget
      /\ m < Len(i) => n = 0
      /\ n > 0 => m = Len(i) /\ u + m + n <= BackgroundBudget
      /\ m = Len(i) /\ n < Len(b) => u + m + n >= BackgroundBudget
  <2>1. CASE m < Len(i)
    BY <1>1, <1>4, <2>1
  <2>2. CASE m = Len(i)
    <3> DEFINE v == u + m
    <3>1. n = Starting(Len(b), BackgroundBudget, v) /\ v \in Nat /\ v <= RequestBudget
      BY <1>1, <1>2, <1>4, <2>2
    <3> HIDE DEF n, v
    <3>2. /\ n \in 0..Len(b)
          /\ v < BackgroundBudget => v + n <= BackgroundBudget
          /\ v >= BackgroundBudget => n = 0
          /\ n < Len(b) => v + n >= BackgroundBudget
      BY <1>1, <3>1, StartingBounds
    <3> QED BY <1>1, <2>2, <3>1, <3>2 DEF v
  <2> QED BY <1>1, <1>4, <2>1, <2>2
<1> HIDE DEF n
<1>6. /\ now \in Seq(0..Window) /\ Len(now) = u + m + n
      /\ \A k \in 1..u : now[k] = started[k].age
      /\ \A k \in (u + 1)..(u + m + n) : now[k] = 0
  <2>1. m + n \in Nat /\ 0 \in 0..Window
    BY <1>1, <1>4, <1>5
  <2> DEFINE zeros == Times(m + n, 0)
  <2>2. /\ zeros \in Seq(0..Window) /\ Len(zeros) = m + n
        /\ \A k \in 1..(m + n) : zeros[k] = 0
    BY <2>1, TimesProperties
  <2> HIDE DEF zeros
  <2>3. /\ recent \o zeros \in Seq(0..Window) /\ Len(recent \o zeros) = u + (m + n)
        /\ \A k \in 1..(u + (m + n)) : (recent \o zeros)[k] =
             IF k <= u THEN recent[k] ELSE zeros[k - u]
    <3>1. /\ recent \o zeros \in Seq(0..Window)
          /\ Len(recent \o zeros) = Len(recent) + Len(zeros)
          /\ \A k \in 1..(Len(recent) + Len(zeros)) : (recent \o zeros)[k] =
               IF k <= Len(recent) THEN recent[k] ELSE zeros[k - Len(recent)]
      BY <1>2, <2>2, ConcatProperties
    <3> QED BY <1>2, <2>2, <3>1
  <2>4. \A k \in (u + 1)..(u + m + n) : k - u \in 1..(m + n) /\ ~ (k <= u)
    BY <1>1, <1>4, <1>5
  <2>5. u + (m + n) = u + m + n /\ \A k \in 1..u : k \in 1..(u + (m + n)) /\ k <= u
    BY <1>1, <1>4, <1>5
  <2>6. now = recent \o zeros
    BY DEF zeros
  <2> HIDE DEF now
  <2> QED BY <1>2, <2>2, <2>3, <2>4, <2>5, <2>6
<1> HIDE DEF now
<1>7. /\ started' \in Seq(Start) /\ Len(started') = u + m + n
      /\ \A k \in 1..u : started'[k] = started[k]
      /\ \A k \in (u + 1)..(u + m + n) :
           started'[k].age = 0 /\ (started'[k].of = "background" => n > 0)
  <2>1. /\ [age |-> 0, of |-> "interactive"] \in Start
        /\ [age |-> 0, of |-> "background"] \in Start
        /\ m \in Nat /\ n \in Nat
    BY <1>1, <1>4, <1>5 DEF Start
  <2>2. /\ one \in Seq(Start) /\ Len(one) = m
        /\ \A k \in 1..m : one[k] = [age |-> 0, of |-> "interactive"]
    BY <2>1, TimesProperties
  <2>3. /\ two \in Seq(Start) /\ Len(two) = n
        /\ \A k \in 1..n : two[k] = [age |-> 0, of |-> "background"]
    BY <2>1, TimesProperties
  <2> HIDE DEF one, two
  <2>4. /\ started \o one \in Seq(Start) /\ Len(started \o one) = u + m
        /\ \A k \in 1..(u + m) : (started \o one)[k] =
             IF k <= u THEN started[k] ELSE one[k - u]
    BY <1>1, <2>2, ConcatProperties
  <2>5. /\ started' \in Seq(Start) /\ Len(started') = u + m + n
        /\ \A k \in 1..(u + m + n) : started'[k] =
             IF k <= u + m THEN (started \o one)[k] ELSE two[k - (u + m)]
    <3> DEFINE first == started \o one
    <3>1. first \in Seq(Start) /\ Len(first) = u + m /\ started' = first \o two
      BY <1>3, <2>4
    <3> HIDE DEF first
    <3>2. /\ started' \in Seq(Start) /\ Len(started') = Len(first) + Len(two)
          /\ \A k \in 1..(Len(first) + Len(two)) : started'[k] =
               IF k <= Len(first) THEN first[k] ELSE two[k - Len(first)]
      BY <2>3, <3>1, ConcatProperties
    <3> QED BY <2>3, <3>1, <3>2 DEF first
  <2>6. \A k \in 1..u : started'[k] = started[k]
    BY <1>1, <2>1, <2>4, <2>5
  <2>7. ASSUME NEW k \in (u + 1)..(u + m + n)
        PROVE  started'[k].age = 0 /\ (started'[k].of = "background" => n > 0)
    <3>1. CASE k <= u + m
      <4>1. k - u \in 1..m /\ k \in 1..(u + m) /\ k \in 1..(u + m + n) /\ ~ (k <= u)
        BY <1>1, <2>1, <3>1
      <4>2. started'[k] = one[k - u]
        BY <2>4, <2>5, <3>1, <4>1
      <4> QED BY <2>2, <4>1, <4>2
    <3>2. CASE ~ (k <= u + m)
      <4>1. k - (u + m) \in 1..n /\ k \in 1..(u + m + n) /\ n > 0
        BY <1>1, <2>1, <3>2
      <4>2. started'[k] = two[k - (u + m)]
        BY <2>5, <3>2, <4>1
      <4> QED BY <2>3, <4>1, <4>2
    <3> QED BY <3>1, <3>2
  <2> QED BY <2>5, <2>6, <2>7
<1>8. \A k \in 1..(u + m + n) : now[k] = started'[k].age
  <2> SUFFICES ASSUME NEW k \in 1..(u + m + n)
               PROVE  now[k] = started'[k].age
    OBVIOUS
  <2> HIDE DEF u
  <2>1. CASE k <= u
    BY <1>1, <1>6, <1>7, <2>1
  <2>2. CASE ~ (k <= u)
    <3>1. k \in (u + 1)..(u + m + n)
      BY <1>1, <1>4, <1>5, <2>2
    <3> QED BY <1>6, <1>7, <3>1
  <2> QED BY <2>1, <2>2
<1> HIDE DEF u
<1>9. Drained(i, b, c, m, n, now)
  BY <1>3, <1>4, <1>5, <1>6, <1>7, <1>8 DEF Drained, u
<1> QED BY <1>9
(* The start that blocks is the one that the timer is due for.             *)
LEMMA BlockingAge ==
  ASSUME NEW now, NEW budget \in Nat \ {0}, NEW k \in Nat, k >= budget, Len(now) = k,
         Len(started') = k, \A j \in 1..k : now[j] = started'[j].age
  PROVE  Blocking(now, budget) = started'[Len(started') - budget + 1].age
<1>1. k - budget + 1 \in 1..k
  OBVIOUS
<1> QED BY <1>1 DEF Blocking

(* Whatever drains the queues, once their requests may wait in them and    *)
(* nothing is to be forgotten, keeps the invariant.                        *)
LEMMA DrainOK ==
  ASSUME IInv, NEW i \in Seq(Requests), NEW b \in Seq(Requests), Drain(i, b, None),
         \A r \in Requests : r \notin Waiting(i) \cap Waiting(b)
  PROVE  IInv'
<1> USE SlotsAssumption
<1>1. PICK m, n, now : Drained(i, b, None, m, n, now)
  BY DrainDrains
<1> DEFINE u == Len(started)
           k == u + m + n
<1>2. /\ Len(i) \in Nat /\ Len(b) \in Nat /\ u \in Nat /\ m \in Nat /\ n \in Nat /\ k \in Nat
      /\ started \in Seq(Start) /\ starts \in Seq(0..Window)
      /\ BackgroundBudget \in Nat \ {0} /\ RequestBudget \in Nat \ {0}
      /\ BackgroundBudget <= RequestBudget /\ u <= k
  <2>1. /\ started \in Seq(Start) /\ starts \in Seq(0..Window)
        /\ m \in 0..Len(i) /\ n \in 0..Len(b)
    BY <1>1 DEF Drained, IInv, TypeOK
  <2>2. Len(i) \in Nat /\ Len(b) \in Nat /\ Len(started) \in Nat
    BY <2>1, LenProperties
  <2>3. m \in Nat /\ n \in Nat
    BY <2>1, <2>2
  <2> QED BY <2>1, <2>2, <2>3
<1>3. /\ interactive' \in Seq(Requests) /\ Waiting(interactive)' \subseteq Waiting(i)
      /\ interactive' = << >> <=> m = Len(i)
  <2>1. interactive' = SubSeq(i, m + 1, Len(i)) /\ m \in 0..Len(i)
    BY <1>1 DEF Drained
  <2>2. Waiting(interactive)' = Waiting(interactive')
    BY DEF Waiting
  <2> QED BY <2>1, <2>2, RestOfQueue
<1>4. /\ background' \in Seq(Requests) /\ Waiting(background)' \subseteq Waiting(b)
      /\ background' = << >> <=> n = Len(b)
  <2>1. background' = SubSeq(b, n + 1, Len(b)) /\ n \in 0..Len(b)
    BY <1>1 DEF Drained
  <2>2. Waiting(background)' = Waiting(background')
    BY DEF Waiting
  <2> QED BY <2>1, <2>2, RestOfQueue
<1>5. /\ started' \in Seq(Start) /\ Len(started') = k
      /\ \A j \in 1..u : started'[j] = started[j]
      /\ \A j \in (u + 1)..k : started'[j].age = 0
      /\ now \in Seq(0..Window) /\ Len(now) = k
      /\ \A j \in 1..k : now[j] = started'[j].age /\ started'[j] \in Start
  BY <1>1, <1>2, ElementOfSeq DEF Drained
<1>6. /\ k <= RequestBudget
      /\ m < Len(i) => k >= RequestBudget
      /\ m = Len(i) /\ n < Len(b) => k >= BackgroundBudget
      /\ m \in 0..Len(i) /\ n \in 0..Len(b)
  BY <1>1, <1>2 DEF Drained
<1>7. /\ starts' = IF i = << >> /\ b = << >> THEN starts ELSE now
      /\ wake' = IF m < Len(i) THEN Window - Blocking(now, RequestBudget)
                 ELSE IF n < Len(b) THEN Window - Blocking(now, BackgroundBudget) ELSE None
      /\ cleanup' = IF m = Len(i) /\ n = Len(b) THEN StateTtl ELSE None
  BY <1>1 DEF Drained
<1>8. i = << >> /\ b = << >> => m = 0 /\ n = 0
  BY <1>2, <1>6, EmptySeq
<1> HIDE DEF k
<1>9. k = u + m + n
  BY DEF k
<1> HIDE DEF u
<1>10. ASSUME interactive' # << >> \/ background' # << >>
       PROVE  /\ Budget' \in Nat \ {0} /\ k >= Budget' /\ cleanup' = None
              /\ wake' = Window - started'[Len(started') - Budget' + 1].age
              /\ wake' \in 1..Window /\ wake' # None
  <2>1. Budget' = IF m < Len(i) THEN RequestBudget ELSE BackgroundBudget
    BY <1>2, <1>3, <1>6 DEF Budget
  <2>2. Budget' \in Nat \ {0} /\ k >= Budget' /\ cleanup' = None
    BY <1>2, <1>3, <1>4, <1>6, <1>7, <1>10, <2>1
  <2>3. wake' = Window - Blocking(now, Budget')
    BY <1>2, <1>3, <1>4, <1>6, <1>7, <1>10, <2>1
  <2> DEFINE budget == Budget'
  <2>b. budget \in Nat \ {0} /\ k >= budget
    BY <2>2
  <2> HIDE DEF budget
  <2>4. Blocking(now, budget) = started'[Len(started') - budget + 1].age
    BY <1>2, <1>5, <2>b, BlockingAge
  <2>5. Len(started') - budget + 1 \in 1..k
    BY <1>2, <1>5, <2>b
  <2>6. started'[Len(started') - budget + 1].age \in 0..(Window - 1)
    BY <1>5, <2>5 DEF Start
  <2>7. Window - started'[Len(started') - budget + 1].age \in 1..Window
    BY <2>6
  <2> QED BY <2>2, <2>3, <2>4, <2>7 DEF budget
<1>11. ASSUME interactive' = << >>, background' = << >>
       PROVE  wake' = None /\ cleanup' = StateTtl
  BY <1>2, <1>3, <1>4, <1>7, <1>11
<1>12. TypeOK'
  <2>1. starts' \in Seq(0..Window)
    BY <1>2, <1>5, <1>7
  <2>2. wake' \in 0..Window \cup {None} /\ cleanup' \in 0..StateTtl \cup {None}
    BY <1>10, <1>11
  <2> QED BY <1>3, <1>4, <1>5, <2>1, <2>2 DEF TypeOK
<1>13. OneQueueEach'
  BY <1>3, <1>4 DEF OneQueueEach
<1>14. StartsAreKnown'
  <2>1. CASE i = << >> /\ b = << >>
    <3>1. starts' = starts /\ k = u /\ Len(started') = Len(started)
      BY <1>2, <1>5, <1>7, <1>8, <1>9, <2>1 DEF u
    <3> QED BY <1>5, <3>1 DEF IInv, StartsAreKnown, u
  <2>2. CASE ~ (i = << >> /\ b = << >>)
    <3>1. starts' = now /\ Len(starts') - Len(started') = 0
      BY <1>2, <1>5, <1>7, <2>2
    <3>2. \A j \in 1..Len(started') : 0 + j = j
      BY <1>2, <1>5
    <3> QED BY <1>2, <1>5, <3>1, <3>2 DEF StartsAreKnown
  <2> QED BY <2>1, <2>2
<1>15. OldestFirst'
  <2> SUFFICES ASSUME NEW p \in 1..k, NEW q \in 1..k, p < q
               PROVE  started'[p].age >= started'[q].age
    BY <1>5 DEF OldestFirst
  <2>1. CASE q <= u
    <3>1. p \in 1..u /\ q \in 1..u
      BY <1>2, <2>1
    <3>2. started[p].age >= started[q].age
      BY <3>1 DEF IInv, OldestFirst, u
    <3> QED BY <1>5, <3>1, <3>2
  <2>2. CASE q > u
    <3>1. started'[q].age = 0 /\ started'[p].age \in Nat
      BY <1>2, <1>5, <2>2 DEF Start
    <3> QED BY <3>1
  <2> QED BY <1>2, <2>1, <2>2
<1>16. BudgetIsKept'
  BY <1>5, <1>6 DEF BudgetIsKept
<1>17. WakeIsExact' /\ WakeIsDue'
  <2>1. CASE interactive' = << >> /\ background' = << >>
    BY <1>11, <2>1 DEF WakeIsExact, WakeIsDue
  <2>2. CASE interactive' # << >> \/ background' # << >>
    <3>1. ~ (Len(started') < Budget') /\ wake' # 0 /\ wake' # None
      BY <1>2, <1>5, <1>10, <2>2
    <3> QED BY <1>10, <2>2, <3>1 DEF WakeIsExact, WakeIsDue
  <2> QED BY <2>1, <2>2
<1>18. CleanupIsLate' /\ StateIsForgotten'
  <2>1. CASE interactive' = << >> /\ background' = << >>
    <3>1. wake' = None /\ cleanup' = StateTtl /\ cleanup' # None /\ cleanup' # 0
      BY <1>11, <2>1
    <3>2. \A j \in 1..Len(started') : started'[j].age \in Nat
      BY <1>5 DEF Start
    <3>3. \A j \in 1..Len(started') : started'[j].age + cleanup' >= StateTtl
      BY <3>1, <3>2
    <3> QED BY <3>1, <3>3 DEF CleanupIsLate, StateIsForgotten
  <2>2. CASE interactive' # << >> \/ background' # << >>
    BY <1>10, <2>2 DEF CleanupIsLate, StateIsForgotten
  <2> QED BY <2>1, <2>2
<1> QED BY <1>12, <1>13, <1>14, <1>15, <1>16, <1>17, <1>18 DEF IInv
(* Nothing is to be forgotten while somebody waits.                        *)
LEMMA WaitersKeepState ==
  ASSUME IInv, interactive # << >> \/ background # << >> \/ wake = 0
  PROVE  cleanup = None
BY SlotsAssumption DEF IInv, WakeIsExact, CleanupIsLate

LEMMA AcquireOK ==
  ASSUME IInv, NEW r \in Requests, NEW priority, Acquire(r, priority)
  PROVE  IInv'
<1>1. /\ interactive \in Seq(Requests) /\ background \in Seq(Requests)
      /\ \A x \in Requests : x \notin Waiting(interactive) \cap Waiting(background)
      /\ r \notin Waiting(interactive) /\ r \notin Waiting(background)
  BY DEF IInv, TypeOK, OneQueueEach, Acquire, IsIdle
<1>2. ASSUME NEW q \in Seq(Requests)
      PROVE  Append(q, r) \in Seq(Requests) /\ Waiting(Append(q, r)) \subseteq Waiting(q) \cup {r}
  <2> DEFINE a == Append(q, r)
  <2>1. /\ a \in Seq(Requests) /\ Len(a) = Len(q) + 1
        /\ \A k \in 1..Len(q) : a[k] = q[k]
        /\ a[Len(q) + 1] = r
    BY AppendProperties
  <2> HIDE DEF a
  <2>2. Len(q) \in Nat /\ DOMAIN q = 1..Len(q) /\ DOMAIN a = 1..Len(a)
    BY <2>1, LenProperties
  <2>3. \A k \in DOMAIN a : a[k] = r \/ (k \in DOMAIN q /\ a[k] = q[k])
    BY <2>1, <2>2
  <2>4. Waiting(a) \subseteq Waiting(q) \cup {r}
    BY <2>3 DEF Waiting
  <2> QED BY <2>1, <2>4 DEF a
<1>3. CASE priority = "interactive"
  BY <1>1, <1>2, <1>3, DrainOK DEF Acquire
<1>4. CASE priority # "interactive"
  <2>1. Drain(interactive, Append(background, r), None)
    BY <1>4 DEF Acquire
  <2>2. /\ Append(background, r) \in Seq(Requests)
        /\ \A x \in Requests : x \notin Waiting(interactive) \cap Waiting(Append(background, r))
    BY <1>1, <1>2
  <2> QED BY <1>1, <2>1, <2>2, DrainOK
<1> QED BY <1>3, <1>4

LEMMA AbortOK ==
  ASSUME IInv, NEW r \in Requests, Abort(r)
  PROVE  IInv'
<1>1. /\ interactive \in Seq(Requests) /\ background \in Seq(Requests)
      /\ \A x \in Requests : x \notin Waiting(interactive) \cap Waiting(background)
  BY DEF IInv, TypeOK, OneQueueEach
<1>2. ASSUME NEW q \in Seq(Requests)
      PROVE  /\ Filter(q, Requests \ {r}) \in Seq(Requests)
             /\ Waiting(Filter(q, Requests \ {r})) \subseteq Waiting(q)
  <2> DEFINE S == Requests \ {r}
             f == Filter(q, S)
  <2> HIDE DEF S
  <2>1. /\ f \in Seq(Requests)
        /\ \A j \in 1..Len(f) : \E k \in 1..Len(q) : f[j] = q[k]
    BY FilterElements
  <2> HIDE DEF f
  <2>2. DOMAIN f = 1..Len(f) /\ DOMAIN q = 1..Len(q)
    BY <2>1, LenProperties
  <2>4. Waiting(f) \subseteq Waiting(q)
    BY <2>1, <2>2 DEF Waiting
  <2> QED BY <2>1, <2>4 DEF f, S
<1>3. interactive # << >> \/ background # << >>
  BY <1>1, EmptySeq, LenProperties DEF Abort, IsIdle, Waiting
<1>4. cleanup = None
  BY <1>3, WaitersKeepState
<1>5. Drain(Filter(interactive, Requests \ {r}), Filter(background, Requests \ {r}), None)
  BY <1>4 DEF Abort
<1> QED BY <1>1, <1>2, <1>5, DrainOK

LEMMA WakeOK ==
  ASSUME IInv, Wake
  PROVE  IInv'
<1>1. cleanup = None
  BY WaitersKeepState DEF Wake
<1>2. Drain(interactive, background, None)
  BY <1>1 DEF Wake
<1> QED BY <1>2, DrainOK DEF IInv, TypeOK, OneQueueEach

(* What is forgotten does not count any more.                              *)
LEMMA CleanupOK ==
  ASSUME IInv, Cleanup
  PROVE  IInv'
<1> USE SlotsAssumption
<1>1. /\ wake = None /\ started = << >> /\ wake' = None /\ cleanup' = None /\ starts' = << >>
      /\ UNCHANGED <<interactive, background, started>>
  BY DEF Cleanup, IInv, CleanupIsLate, StateIsForgotten
<1>2. TypeOK' /\ OneQueueEach'
  BY <1>1, EmptySeq DEF IInv, TypeOK, OneQueueEach, Waiting
<1>3. StartsAreKnown' /\ OldestFirst' /\ BudgetIsKept'
  BY <1>1, EmptySeq DEF IInv, StartsAreKnown, OldestFirst, BudgetIsKept
<1>4. WakeIsExact' /\ WakeIsDue'
  BY <1>1 DEF IInv, WakeIsExact, WakeIsDue
<1>5. CleanupIsLate' /\ StateIsForgotten'
  BY <1>1 DEF CleanupIsLate, StateIsForgotten
<1> QED BY <1>2, <1>3, <1>4, <1>5 DEF IInv

(* The first p starts are out of the window after a tick, and the others   *)
(* are older.                                                              *)
Aged(p) ==
  /\ p \in 0..Len(started)
  /\ started' \in Seq(Start) /\ Len(started') = Len(started) - p
  /\ \A k \in 1..p : started[k].age = Window - 1
  /\ \A k \in 1..(Len(started) - p) : started'[k].age = started[p + k].age + 1

LEMMA TickAges ==
  ASSUME IInv, Tick
  PROVE  \E p : Aged(p)
<1> USE SlotsAssumption
<1> DEFINE Recent == {s \in Start : s.age + 1 < Window}
           recent == Filter(started, Recent)
           Older(s) == [s EXCEPT !.age = @ + 1]
<1>1. /\ started \in Seq(Start) /\ Len(started) \in Nat
      /\ \A k \in 1..Len(started) : started[k] \in Start
  BY LenProperties, ElementOfSeq DEF IInv, TypeOK
<1>2. \A k, j \in 1..Len(started) : k < j /\ started[k] \in Recent => started[j] \in Recent
  <2> SUFFICES ASSUME NEW k \in 1..Len(started), NEW j \in 1..Len(started), k < j,
                      started[k] \in Recent
               PROVE  started[j] \in Recent
    OBVIOUS
  <2>1. started[k].age >= started[j].age
    BY DEF IInv, OldestFirst
  <2>2. started[k].age \in Nat /\ started[j].age \in Nat
    BY <1>1 DEF Start
  <2> QED BY <1>1, <2>1, <2>2
<1>3. Enters(started, Recent, Len(started))
  <2> HIDE DEF Recent
  <2> QED BY <1>1, <1>2, EntryPoint
<1>4. PICK p \in 0..Len(started) :
        /\ \A k \in 1..p : started[k] \notin Recent
        /\ \A k \in (p + 1)..Len(started) : started[k] \in Recent
  BY <1>3 DEF Enters
<1>5. recent = SubSeq(started, p + 1, Len(started))
  <2> HIDE DEF Recent
  <2> QED BY <1>1, <1>4, FilterSuffix
<1> HIDE DEF recent
<1>6. /\ recent \in Seq(Start) /\ Len(recent) = Len(started) - p
      /\ \A k \in 1..(Len(started) - p) : recent[k] = started[p + k]
  BY <1>1, <1>5, SuffixProperties
<1>7. DOMAIN recent = 1..Len(recent) /\ Len(recent) \in Nat
  BY <1>6, LenProperties
<1>8. \A k \in 1..Len(recent) : recent[k] \in Start /\ recent[k].age + 1 < Window
  <2> SUFFICES ASSUME NEW k \in 1..Len(recent)
               PROVE  recent[k] \in Recent
    OBVIOUS
  <2>1. p + k \in (p + 1)..Len(started)
    BY <1>1, <1>6
  <2> QED BY <1>4, <1>6, <2>1
<1>9. started' = [k \in 1..Len(recent) |-> Older(recent[k])]
  BY <1>7 DEF Tick, recent
<1>10. \A k \in 1..Len(recent) : Older(recent[k]) \in Start /\ Older(recent[k]).age = recent[k].age + 1
  BY <1>8 DEF Start
<1> HIDE DEF Older, Recent
<1>11. started' \in [1..Len(recent) -> Start]
  BY <1>9, <1>10
<1>12. started' \in Seq(Start)
  BY <1>7, <1>11, SeqDef
<1>13. Len(started') = Len(recent)
  BY <1>7, <1>11, <1>12, LenProperties
<1>14. \A k \in 1..(Len(started) - p) : started'[k].age = started[p + k].age + 1
  BY <1>6, <1>9, <1>10
<1>15. \A k \in 1..p : started[k].age = Window - 1
  <2> SUFFICES ASSUME NEW k \in 1..p
               PROVE  started[k].age = Window - 1
    OBVIOUS
  <2>1. started[k] \in Start /\ started[k] \notin Recent
    BY <1>1, <1>4
  <2> QED BY <2>1 DEF Start, Recent
<1> QED BY <1>6, <1>12, <1>13, <1>14, <1>15 DEF Aged
LEMMA TickOK ==
  ASSUME IInv, Tick
  PROVE  IInv'
<1> USE SlotsAssumption
<1> DEFINE u == Len(started)
           t == Len(starts)
<1>1. PICK p : Aged(p)
  BY TickAges
<1>2. /\ interactive' = interactive /\ background' = background
      /\ starts' = [k \in DOMAIN starts |-> Least(starts[k] + 1, Window)]
      /\ wake' = Elapsed(wake) /\ cleanup' = Elapsed(cleanup)
  BY DEF Tick
<1>3. /\ starts \in Seq(0..Window) /\ started \in Seq(Start) /\ DOMAIN starts = 1..t
      /\ t \in Nat /\ u \in Nat /\ u <= t /\ p \in 0..u
      /\ \A k \in 1..t : starts[k] \in 0..Window
      /\ \A k \in 1..u : started[k] \in Start
  BY <1>1, LenProperties, ElementOfSeq DEF IInv, TypeOK, StartsAreKnown, Aged
<1>4. /\ started' \in Seq(Start) /\ Len(started') = u - p
      /\ \A k \in 1..p : started[k].age = Window - 1
      /\ \A k \in 1..(u - p) : started'[k].age = started[p + k].age + 1 /\ started'[k] \in Start
  BY <1>1, ElementOfSeq DEF Aged
<1>5. /\ \A k \in 1..(t - u) : starts[k] = Window
      /\ \A k \in 1..u : starts[t - u + k] = started[k].age
  BY DEF IInv, StartsAreKnown
<1> HIDE DEF u, t
<1>6. starts' \in Seq(0..Window) /\ Len(starts') = t
  <2>1. \A k \in 1..t : Least(starts[k] + 1, Window) \in 0..Window
    BY <1>3 DEF Least
  <2>2. starts' \in [1..t -> 0..Window]
    BY <1>2, <1>3, <2>1
  <2>3. starts' \in Seq(0..Window)
    BY <1>3, <2>2, SeqDef
  <2> QED BY <1>3, <2>2, <2>3, LenProperties
<1>7. \A k \in 1..t : starts'[k] = Least(starts[k] + 1, Window)
  BY <1>2, <1>3
<1>8. wake' \in 0..Window \cup {None} /\ cleanup' \in 0..StateTtl \cup {None}
  BY <1>2 DEF IInv, TypeOK, Elapsed
<1>9. TypeOK' /\ OneQueueEach'
  BY <1>2, <1>4, <1>6, <1>8 DEF IInv, TypeOK, OneQueueEach, Waiting
<1>10. StartsAreKnown'
  <2>1. Len(starts') - Len(started') = (t - u) + p /\ Len(started') <= Len(starts')
    BY <1>3, <1>4, <1>6
  <2>2. ASSUME NEW k \in 1..((t - u) + p)
        PROVE  starts'[k] = Window
    <3>1. CASE k <= t - u
      <4>1. k \in 1..(t - u) /\ k \in 1..t
        BY <1>3, <3>1
      <4>2. starts'[k] = Least(Window + 1, Window)
        BY <1>5, <1>7, <4>1
      <4> QED BY <4>2 DEF Least
    <3>2. CASE ~ (k <= t - u)
      <4>1. k - (t - u) \in 1..p /\ k - (t - u) \in 1..u /\ t - u + (k - (t - u)) = k
            /\ k \in 1..t
        BY <1>3, <3>2
      <4>2. starts[k] = Window - 1
        BY <1>4, <1>5, <4>1
      <4> QED BY <1>7, <4>1, <4>2 DEF Least
    <3> QED BY <3>1, <3>2
  <2>3. ASSUME NEW k \in 1..(u - p)
        PROVE  starts'[(t - u) + p + k] = started'[k].age
    <3>1. p + k \in 1..u /\ t - u + (p + k) = (t - u) + p + k /\ (t - u) + p + k \in 1..t
      BY <1>3
    <3>2. starts[(t - u) + p + k] = started[p + k].age
      BY <1>5, <3>1
    <3>3. started'[k].age = started[p + k].age + 1 /\ started'[k].age \in 0..(Window - 1)
      BY <1>4 DEF Start
    <3>4. started[p + k].age \in 0..(Window - 1)
      BY <1>3, <3>1 DEF Start
    <3> QED BY <1>7, <3>1, <3>2, <3>3, <3>4 DEF Least
  <2> QED BY <1>4, <2>1, <2>2, <2>3 DEF StartsAreKnown
<1>11. OldestFirst'
  <2> SUFFICES ASSUME NEW k \in 1..(u - p), NEW j \in 1..(u - p), k < j
               PROVE  started'[k].age >= started'[j].age
    BY <1>4 DEF OldestFirst
  <2>1. p + k \in 1..u /\ p + j \in 1..u /\ p + k < p + j
    BY <1>3
  <2>2. started[p + k].age >= started[p + j].age
    BY <2>1 DEF IInv, OldestFirst, u
  <2>3. started[p + k].age \in Nat /\ started[p + j].age \in Nat
    BY <1>3, <2>1 DEF Start
  <2> QED BY <1>4, <2>2, <2>3
<1>12. BudgetIsKept'
  BY <1>3, <1>4 DEF IInv, BudgetIsKept, u
<1>13. Budget' = Budget /\ Budget \in Nat \ {0}
  BY <1>2 DEF Budget
<1>14. ASSUME wake # None
       PROVE  wake' = IF u - p < Budget THEN 0
                      ELSE Window - started'[u - p - Budget + 1].age
  <2>1. wake = IF u < Budget THEN 0 ELSE Window - started[u - Budget + 1].age
    BY <1>14 DEF IInv, WakeIsDue, u
  <2>2. wake' = IF wake = 0 THEN 0 ELSE wake - 1
    BY <1>2, <1>14 DEF Elapsed
  <2> DEFINE budget == Budget
  <2>b. budget \in Nat \ {0}
    BY <1>13
  <2> HIDE DEF budget
  <2>3. CASE u < budget
    <3>1. u - p < budget
      BY <1>3, <2>b, <2>3
    <3>2. wake' = 0
      BY <2>1, <2>2, <2>3 DEF budget
    <3> QED BY <3>1, <3>2 DEF budget
  <2>4. CASE ~ (u < budget)
    <3> DEFINE at == u - budget + 1
    <3>1. at \in 1..u
      BY <1>3, <2>b, <2>4
    <3>2. wake = Window - started[at].age /\ started[at].age \in 0..(Window - 1)
      BY <1>3, <2>1, <2>4, <3>1 DEF Start, budget
    <3>3. wake' = Window - started[at].age - 1
      BY <2>2, <3>2
    <3>4. CASE at <= p
      <4>1. wake' = 0
        BY <1>4, <3>1, <3>3, <3>4
      <4>2. u - p < budget
        BY <1>3, <2>b, <3>4
      <4> QED BY <4>1, <4>2 DEF budget
    <3>5. CASE ~ (at <= p)
      <4> DEFINE k == u - p - budget + 1
      <4>1. k \in 1..(u - p) /\ p + k = at /\ ~ (u - p < budget)
        BY <1>3, <2>b, <3>1, <3>5
      <4>2. started'[k].age = started[at].age + 1
        BY <1>4, <4>1
      <4>3. wake' = Window - started'[k].age
        BY <3>2, <3>3, <4>2
      <4> QED BY <4>1, <4>3 DEF budget
    <3> QED BY <3>4, <3>5
  <2> QED BY <2>3, <2>4
<1>15. wake' = None <=> wake = None
  BY <1>2, <1>14 DEF IInv, TypeOK, Elapsed
<1>16. WakeIsDue'
  BY <1>4, <1>13, <1>14, <1>15 DEF WakeIsDue
<1>17. WakeIsExact'
  <2>1. CASE interactive = << >> /\ background = << >>
    BY <1>2, <1>15, <2>1 DEF IInv, WakeIsExact
  <2>2. CASE ~ (interactive = << >> /\ background = << >>)
    <3>1. wake # None /\ wake' # None
      BY <1>15, <2>2 DEF IInv, WakeIsExact
    <3>2. wake' = 0 <=> Len(started') < Budget'
      <4>1. CASE u - p < Budget
        BY <1>4, <1>13, <1>14, <3>1, <4>1
      <4>2. CASE ~ (u - p < Budget)
        <5>1. u - p - Budget + 1 \in 1..(u - p)
          BY <1>3, <1>13, <4>2
        <5>2. started'[u - p - Budget + 1].age \in 0..(Window - 1)
          BY <1>4, <5>1 DEF Start
        <5>3. wake' # 0
          BY <1>14, <3>1, <4>2, <5>2
        <5> QED BY <1>4, <1>13, <4>2, <5>3
      <4> QED BY <4>1, <4>2
    <3> QED BY <1>2, <2>2, <3>1, <3>2 DEF WakeIsExact
  <2> QED BY <2>1, <2>2
<1>18. CleanupIsLate' /\ StateIsForgotten'
  <2>1. cleanup' = None <=> cleanup = None
    BY <1>2 DEF IInv, TypeOK, Elapsed
  <2>2. ASSUME cleanup # None
        PROVE  wake' = None /\ \A k \in 1..(u - p) : started'[k].age + cleanup' >= StateTtl
    <3>1. wake = None /\ \A k \in 1..u : started[k].age + cleanup >= StateTtl
      BY <2>2 DEF IInv, CleanupIsLate, u
    <3>2. cleanup \in Nat /\ cleanup' \in Nat /\ cleanup' >= cleanup - 1
      BY <1>2, <2>2 DEF IInv, TypeOK, Elapsed
    <3> SUFFICES ASSUME NEW k \in 1..(u - p)
                 PROVE  started'[k].age + cleanup' >= StateTtl
      BY <1>15, <3>1
    <3>3. p + k \in 1..u
      BY <1>3
    <3>4. started[p + k].age \in Nat /\ started[p + k].age + cleanup >= StateTtl
      BY <1>3, <3>1, <3>3 DEF Start
    <3> QED BY <1>4, <3>2, <3>4
  <2>3. CleanupIsLate'
    BY <1>4, <2>1, <2>2 DEF CleanupIsLate
  <2>4. wake' = None /\ starts' # << >> => cleanup' # None
    <3>1. starts = << >> => starts' = << >>
      <4>1. starts = << >> => t = 0
        BY EmptySeq DEF t
      <4> QED BY <1>6, <4>1, EmptySeq
    <3> QED BY <1>15, <2>1, <3>1 DEF IInv, StateIsForgotten
  <2>5. cleanup' = 0 => started' = << >>
    <3> SUFFICES ASSUME cleanup' = 0
                 PROVE  started' = << >>
      OBVIOUS
    <3>1. \A k \in 1..(u - p) : started'[k].age + 0 >= StateTtl /\ started'[k].age \in 0..(Window - 1)
      BY <1>4, <2>1, <2>2 DEF Start
    <3>2. \A k \in 1..(u - p) : FALSE
      BY <3>1
    <3>3. u - p = 0
      <4>1. CASE u - p > 0
        <5>1. 1 \in 1..(u - p)
          BY <1>3, <4>1
        <5> QED BY <3>2, <5>1
      <4> QED BY <1>3, <4>1
    <3> QED BY <1>4, <3>3, EmptySeq
  <2> QED BY <2>3, <2>4, <2>5 DEF StateIsForgotten
<1> QED BY <1>9, <1>10, <1>11, <1>12, <1>16, <1>17, <1>18 DEF IInv
-----------------------------------------------------------------------------
(* The theorems.                                                           *)

LEMMA InitOK == Init => IInv
<1> SUFFICES ASSUME Init
             PROVE  IInv
  OBVIOUS
<1> USE SlotsAssumption
<1>1. Len(<< >>) = 0 /\ \A S : << >> \in Seq(S)
  BY EmptySeq
<1>2. TypeOK /\ OneQueueEach
  BY <1>1 DEF Init, TypeOK, OneQueueEach, Waiting
<1>3. StartsAreKnown /\ OldestFirst /\ BudgetIsKept
  BY <1>1 DEF Init, StartsAreKnown, OldestFirst, BudgetIsKept
<1>4. WakeIsExact /\ WakeIsDue /\ CleanupIsLate /\ StateIsForgotten
  BY DEF Init, WakeIsExact, WakeIsDue, CleanupIsLate, StateIsForgotten
<1> QED BY <1>2, <1>3, <1>4 DEF IInv

\* The invariant of the slots is inductive: it holds for any budgets and window, any number
\* of requests of both priorities, and any order of arrivals, aborts and timers.
THEOREM Invariance == Spec => []IInv
<1>1. IInv /\ [Next]_vars => IInv'
  <2> SUFFICES ASSUME IInv, [Next]_vars
               PROVE  IInv'
    OBVIOUS
  <2>1. ASSUME NEW r \in Requests,
               Acquire(r, "interactive") \/ Acquire(r, "background") \/ Abort(r)
        PROVE  IInv'
    BY <2>1, AcquireOK, AbortOK
  <2>2. CASE Wake \/ Cleanup \/ Tick
    BY <2>2, WakeOK, CleanupOK, TickOK
  <2>3. CASE UNCHANGED vars
    BY <2>3 DEF vars, IInv, TypeOK, OneQueueEach, Waiting, StartsAreKnown, OldestFirst,
                BudgetIsKept, WakeIsExact, WakeIsDue, Budget, CleanupIsLate, StateIsForgotten
  <2> QED BY <2>1, <2>2, <2>3 DEF Next
<1> QED BY <1>1, InitOK, PTL DEF Spec

\* Type correctness of the slots.
THEOREM SlotsTypeCorrect == Spec => []TypeOK
<1>1. IInv => TypeOK
  BY DEF IInv
<1> QED BY <1>1, Invariance, PTL

\* A credential never starts more requests within a window than its budget.
THEOREM BudgetAlwaysKept == Spec => []BudgetIsKept
<1>1. IInv => BudgetIsKept
  BY DEF IInv
<1> QED BY <1>1, Invariance, PTL

\* Whoever waits is woken when there is room, and not before.
THEOREM WakeAlwaysExact == Spec => []WakeIsExact
<1>1. IInv => WakeIsExact
  BY DEF IInv
<1> QED BY <1>1, Invariance, PTL

\* The starts of a credential are forgotten only when none counts any more, and a timer
\* for that runs whenever nobody waits.
THEOREM StateGoes == Spec => []StateIsForgotten
<1>1. IInv => StateIsForgotten
  BY DEF IInv
<1> QED BY <1>1, Invariance, PTL

(* Background work starts in its part of the budget, when no interactive   *)
(* request is left.                                                        *)
LEMMA DrainYields ==
  ASSUME IInv, NEW i \in Seq(Requests), NEW b \in Seq(Requests), NEW c, Drain(i, b, c),
         NEW k \in (Len(started) + 1)..Len(started'), started'[k].of = "background"
  PROVE  k <= BackgroundBudget /\ interactive' = << >>
<1> USE SlotsAssumption
<1>1. PICK m, n, now : Drained(i, b, c, m, n, now)
  BY DrainDrains
<1>2. /\ m \in 0..Len(i) /\ n \in 0..Len(b) /\ Len(i) \in Nat /\ Len(b) \in Nat
      /\ Len(started) \in Nat /\ Len(started') = Len(started) + m + n
  BY <1>1, LenProperties DEF Drained, IInv, TypeOK
<1>3. n > 0
  BY <1>1, <1>2 DEF Drained
<1>4. m = Len(i) /\ Len(started) + m + n <= BackgroundBudget
  BY <1>1, <1>3 DEF Drained
<1>5. interactive' = SubSeq(i, m + 1, Len(i))
  BY <1>1 DEF Drained
<1> QED BY <1>2, <1>4, <1>5, RestOfQueue

\* Background work never takes a slot that interactive work waits for, nor the part of the
\* budget that is reserved.
THEOREM BackgroundAlwaysYields == Spec => BackgroundYields
<1> DEFINE Yields ==
      \A n \in Len(started) + 1 .. Len(started') :
        started'[n].of = "background" => n <= BackgroundBudget /\ interactive' = << >>
<1>1. IInv /\ [Next]_vars => [Yields]_vars
  <2> SUFFICES ASSUME IInv, Next
               PROVE  Yields
    OBVIOUS
  <2>1. interactive \in Seq(Requests) /\ background \in Seq(Requests) /\ started \in Seq(Start)
    BY DEF IInv, TypeOK
  <2>2. Len(started) \in Nat
    BY <2>1, LenProperties
  <2>3. ASSUME NEW r \in Requests, Acquire(r, "interactive") \/ Acquire(r, "background")
        PROVE  Yields
    <3>1. Append(interactive, r) \in Seq(Requests) /\ Append(background, r) \in Seq(Requests)
      BY <2>1, AppendProperties
    <3> QED BY <2>1, <2>3, <3>1, DrainYields DEF Acquire
  <2>4. ASSUME NEW r \in Requests, Abort(r)
        PROVE  Yields
    <3>1. /\ Filter(interactive, Requests \ {r}) \in Seq(Requests)
          /\ Filter(background, Requests \ {r}) \in Seq(Requests)
      BY <2>1, FilterElements
    <3> QED BY <2>4, <3>1, DrainYields DEF Abort
  <2>5. CASE Wake
    BY <2>1, <2>5, DrainYields DEF Wake
  <2>6. CASE Cleanup
    BY <2>2, <2>6 DEF Cleanup
  <2>7. CASE Tick
    <3>1. PICK p : Aged(p)
      BY <2>7, TickAges
    <3>2. Len(started') <= Len(started) /\ Len(started') \in Int
      BY <2>2, <3>1 DEF Aged
    <3> QED BY <2>2, <3>2
  <2> QED BY <2>3, <2>4, <2>5, <2>6, <2>7 DEF Next
<1> QED BY <1>1, Invariance, PTL DEF Spec, BackgroundYields
=============================================================================
