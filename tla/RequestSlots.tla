---------------------------- MODULE RequestSlots ----------------------------
(***************************************************************************)
(* The starts of the requests that use one credential: a rolling window    *)
(* with a budget, of which a part is out of reach for background work, a   *)
(* queue for each priority, and one timer for whoever waits.               *)
(*                                                                         *)
(* Time is counted in ticks, and starts are kept by their age. A timer     *)
(* fires at its time or later. A drain of the queues is one action, since  *)
(* it awaits nothing: its loop starts what the budget has room for.        *)
(***************************************************************************)
EXTENDS Filters

CONSTANTS
  Requests,          \* requests that wait at a time
  RequestBudget,     \* RATE_LIMIT_REQUEST_BUDGET
  BackgroundBudget,  \* RATE_LIMIT_BACKGROUND_BUDGET
  Window,            \* RATE_LIMIT_WINDOW_MS, in ticks
  StateTtl,          \* RATE_LIMIT_STATE_TTL_MS, in ticks
  None

ASSUME SlotsAssumption ==
  /\ BackgroundBudget \in 1..RequestBudget /\ RequestBudget \in Nat
  /\ Window \in Nat \ {0} /\ StateTtl \in Nat /\ Window <= StateTtl
  /\ None \notin Nat

VARIABLES
  interactive, background,  \* the queues
  starts,   \* requestStartsByKey: ages, the oldest start first; Window is "older"
  wake,     \* wakeTimer: the ticks that are left
  cleanup,  \* rateLimitCleanupTimers: the ticks that are left
  started   \* what really started within the window: its age and its queue

vars == <<interactive, background, starts, wake, cleanup, started>>

Start == [age : 0..(Window - 1), of : {"interactive", "background"}]

Waiting(q) == {q[i] : i \in DOMAIN q}
IsIdle(r) == r \notin Waiting(interactive) \cup Waiting(background)

Least(m, n) == IF m < n THEN m ELSE n
Times(n, x) == [i \in 1..n |-> x]

-----------------------------------------------------------------------------
(* drainRequestSlots. *)

\* (Mutant: a start of the last tick of the window does not count.)
InShortWindow(s) == Filter(s, {age \in 0..Window : age + 1 < Window})
InWindow(s) == Filter(s, {age \in 0..Window : age < Window})

\* How many of the waiting start.
Starting(waiting, budget, used) ==
  IF used < budget THEN Least(waiting, budget - used) ELSE 0

\* (Mutant: background work has the whole budget.)
StartingAnywhere(waiting, used) == Starting(waiting, RequestBudget, used)
StartingBehind(waiting, used) == Starting(waiting, BackgroundBudget, used)

\* (Mutant: the oldest start is waited for.)
OldestBlocks(s, budget) == s[1]

\* The age of the start that ends the wait: when it leaves the window, fewer than budget
\* are left.
Blocking(s, budget) == s[Len(s) - budget + 1]

\* i and b: the queues to drain. c: the cleanup timer until now.
Drain(i, b, c) ==
  LET recent == InWindow(starts)
      m == Starting(Len(i), RequestBudget, Len(recent))
      n == IF m < Len(i) THEN 0 ELSE StartingBehind(Len(b), Len(recent) + m)
      now == recent \o Times(m + n, 0)
  IN /\ interactive' = SubSeq(i, m + 1, Len(i))
     /\ background' = SubSeq(b, n + 1, Len(b))
     /\ starts' = IF i = << >> /\ b = << >> THEN starts ELSE now
     /\ wake' =
          IF m < Len(i) THEN Window - Blocking(now, RequestBudget)
          ELSE IF n < Len(b) THEN Window - Blocking(now, BackgroundBudget)
          ELSE None
     /\ cleanup' = IF m = Len(i) /\ n = Len(b) THEN StateTtl ELSE c
     /\ started' = started \o Times(m, [age |-> 0, of |-> "interactive"])
                           \o Times(n, [age |-> 0, of |-> "background"])

\* The timer.
Wake ==
  /\ wake = 0
  /\ Drain(interactive, background, cleanup)

-----------------------------------------------------------------------------
(* acquireOmniRequestSlot. *)

\* (Mutant: the cleanup goes on.)
AcquireInCleanup(r, priority) ==
  /\ IsIdle(r)
  /\ IF priority = "interactive"
       THEN Drain(Append(interactive, r), background, cleanup)
       ELSE Drain(interactive, Append(background, r), cleanup)

Acquire(r, priority) ==
  /\ IsIdle(r)
  /\ IF priority = "interactive"
       THEN Drain(Append(interactive, r), background, None)
       ELSE Drain(interactive, Append(background, r), None)

\* (Mutant: who leaves takes the timer along.)
AbortWithTimer(r) ==
  /\ ~ IsIdle(r)
  /\ interactive' = Filter(interactive, Requests \ {r})
  /\ background' = Filter(background, Requests \ {r})
  /\ wake' = None
  /\ UNCHANGED <<starts, cleanup, started>>

\* onAbort, while the request waits.
Abort(r) ==
  /\ ~ IsIdle(r)
  /\ Drain(Filter(interactive, Requests \ {r}), Filter(background, Requests \ {r}), cleanup)

\* scheduleRateLimitStateCleanup.
Cleanup ==
  /\ cleanup = 0
  /\ starts' = << >>
  /\ cleanup' = None
  /\ UNCHANGED <<interactive, background, wake, started>>

Elapsed(timer) == IF timer \in {None, 0} THEN timer ELSE timer - 1

Tick ==
  LET recent == Filter(started, {s \in Start : s.age + 1 < Window})
      Older(s) == [s EXCEPT !.age = @ + 1]
  IN /\ starts' = [i \in DOMAIN starts |-> Least(starts[i] + 1, Window)]
     /\ wake' = Elapsed(wake)
     /\ cleanup' = Elapsed(cleanup)
     /\ started' = [i \in DOMAIN recent |-> Older(recent[i])]
     /\ UNCHANGED <<interactive, background>>

-----------------------------------------------------------------------------
Init ==
  /\ interactive = << >> /\ background = << >>
  /\ starts = << >> /\ started = << >>
  /\ wake = None /\ cleanup = None

Next ==
  \/ \E r \in Requests : Acquire(r, "interactive") \/ Acquire(r, "background") \/ Abort(r)
  \/ Wake \/ Cleanup \/ Tick

Spec == Init /\ [][Next]_vars

\* Time goes on, and a timer fires.
FairSpec == Spec /\ WF_vars(Tick) /\ WF_vars(Wake)

-----------------------------------------------------------------------------
(* Properties. *)

TypeOK ==
  /\ interactive \in Seq(Requests) /\ background \in Seq(Requests)
  /\ starts \in Seq(0..Window)
  /\ wake \in 0..Window \cup {None}
  /\ cleanup \in 0..StateTtl \cup {None}
  /\ started \in Seq(Start)

\* No window of time has more starts than the budget, whatever was aborted, forgotten or
\* late.
BudgetIsKept == Len(started) <= RequestBudget

\* Background work starts only when no interactive request waits, and only in its part of
\* the budget, to which interactive starts count.
BackgroundYields ==
  [][\A n \in Len(started) + 1 .. Len(started') :
       started'[n].of = "background" => n <= BackgroundBudget /\ interactive' = << >>]_vars

Budget == IF interactive # << >> THEN RequestBudget ELSE BackgroundBudget

\* Whoever waits has a timer, which fires when there is room and not before: nobody waits
\* beside a free slot, and the timer does not fire in vain.
WakeIsExact ==
  IF interactive = << >> /\ background = << >>
    THEN wake = None
    ELSE wake # None /\ (wake = 0 <=> Len(started) < Budget)

\* What is known of a credential is forgotten in the end, and not while it counts.
StateIsForgotten ==
  /\ wake = None /\ starts # << >> => cleanup # None
  /\ cleanup = 0 => started = << >>

\* The starts that are known are those that count, behind some that are past.
StartsAreKnown ==
  LET past == Len(starts) - Len(started)
  IN /\ Len(started) <= Len(starts)
     /\ \A n \in 1..past : starts[n] = Window
     /\ \A n \in 1..Len(started) : starts[past + n] = started[n].age

OldestFirst ==
  \A m, n \in 1..Len(started) : m < n => started[m].age >= started[n].age

\* The timer fires when the start that blocks leaves the window.
WakeIsDue ==
  wake # None => wake = IF Len(started) < Budget THEN 0
                        ELSE Window - started[Len(started) - Budget + 1].age

\* What is to be forgotten will be older than the window by then; and nothing is forgotten
\* while somebody waits.
CleanupIsLate ==
  cleanup # None =>
    wake = None /\ \A n \in 1..Len(started) : started[n].age + cleanup >= StateTtl

OneQueueEach == \A r \in Requests : r \notin Waiting(interactive) \cap Waiting(background)

\* The inductive invariant behind the properties above.
IInv ==
  /\ TypeOK /\ OneQueueEach
  /\ StartsAreKnown /\ OldestFirst /\ BudgetIsKept
  /\ WakeIsExact /\ WakeIsDue
  /\ CleanupIsLate /\ StateIsForgotten

\* An interactive request gets its slot, or was aborted, whatever else arrives.
InteractiveStarts == \A r \in Requests : r \in Waiting(interactive) ~> r \notin Waiting(interactive)
=============================================================================
