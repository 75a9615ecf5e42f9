--------------------------- MODULE Filters_proofs ---------------------------
(***************************************************************************)
(* What the filter of a sequence keeps. Its definition is a recursive      *)
(* function over the positions of the sequence: that the function exists,  *)
(* and what it computes, is proved by an induction over the numbers that   *)
(* are in a set, which WFMin gives.                                        *)
(***************************************************************************)
EXTENDS Filters, TLAPS, SequenceTheorems, WellFoundedInduction

(* Induction over the numbers of a set.                                    *)
LEMMA SetInduction ==
  ASSUME NEW T, 0 \in T, \A n \in Nat : n \in T => n + 1 \in T
  PROVE  Nat \subseteq T
<1> DEFINE Less == OpToRel(<, Nat)
<1>1. \A x, y \in Nat : x < y => <<x, y>> \in Less
  BY DEF OpToRel
<1>2. IsWellFoundedOn(Less, Nat)
  BY NatLessThanWellFounded
<1> HIDE DEF Less
<1> SUFFICES ASSUME Nat \ T # {}
             PROVE  FALSE
  OBVIOUS
<1>3. PICK x \in Nat \ T : \A y \in Nat \ T : ~ (<<y, x>> \in Less)
  BY <1>2, WFMin
<1>4. x - 1 \in Nat /\ x - 1 \in T
  <2>1. x # 0
    OBVIOUS
  <2>2. x - 1 \in Nat /\ x - 1 < x
    BY <2>1
  <2>3. <<x - 1, x>> \in Less
    BY <1>1, <2>2
  <2> QED BY <1>3, <2>2, <2>3
<1>5. x - 1 + 1 = x
  BY <1>4
<1> QED BY <1>3, <1>4, <1>5

(* The value of the filter at each position.                               *)
Step(s, S, f, i) ==
  IF i = 0 THEN << >> ELSE IF s[i] \in S THEN Append(f[i - 1], s[i]) ELSE f[i - 1]

(* The recursive function exists.                                          *)
LEMMA FilterExists ==
  ASSUME NEW s, NEW S
  PROVE  \A n \in Nat : \E f : f = [i \in 0..n |-> Step(s, S, f, i)]
<1> DEFINE T == {n \in Nat : \E f : f = [i \in 0..n |-> Step(s, S, f, i)]}
<1>1. 0 \in T
  <2>1. [i \in 0..0 |-> << >>] = [i \in 0..0 |-> Step(s, S, [j \in 0..0 |-> << >>], i)]
    BY DEF Step
  <2> QED BY <2>1
<1>2. ASSUME NEW n \in Nat, n \in T
      PROVE  n + 1 \in T
  <2>1. PICK f : f = [i \in 0..n |-> Step(s, S, f, i)]
    BY <1>2
  <2> DEFINE g == [i \in 0..(n + 1) |-> IF i <= n THEN f[i] ELSE Step(s, S, f, i)]
  <2>2. ASSUME NEW i \in 0..(n + 1)
        PROVE  g[i] = Step(s, S, g, i)
    <3>1. CASE i = 0
      BY <2>1, <3>1 DEF Step
    <3>2. CASE i # 0
      <4>1. i - 1 \in 0..n /\ i - 1 \in 0..(n + 1) /\ g[i - 1] = f[i - 1]
        BY <3>2
      <4>2. Step(s, S, g, i) = Step(s, S, f, i)
        BY <3>2, <4>1 DEF Step
      <4>3. g[i] = Step(s, S, f, i)
        BY <2>1
      <4> QED BY <4>2, <4>3
    <3> QED BY <3>1, <3>2
  <2>3. g = [i \in 0..(n + 1) |-> Step(s, S, g, i)]
    <3> DEFINE h == [i \in 0..(n + 1) |-> Step(s, S, g, i)]
    <3>1. \A i \in 0..(n + 1) : g[i] = h[i]
      BY <2>2
    <3> QED BY <3>1
  <2> HIDE DEF g
  <2> QED BY <2>3
<1> HIDE DEF T
<1>3. Nat \subseteq T
  BY <1>1, <1>2, SetInduction
<1> QED BY <1>3 DEF T

(* What is kept of the first n elements.                                   *)
LEMMA FilterSteps ==
  ASSUME NEW U, NEW s \in Seq(U), NEW S
  PROVE  \E kept : /\ kept = [i \in 0..Len(s) |-> Step(s, S, kept, i)]
                   /\ Filter(s, S) = kept[Len(s)]
<1> DEFINE kept == CHOOSE f : f = [i \in 0..Len(s) |-> Step(s, S, f, i)]
<1>1. Len(s) \in Nat
  BY LenProperties
<1>2. \E f : f = [i \in 0..Len(s) |-> Step(s, S, f, i)]
  BY <1>1, FilterExists
<1>3. kept = [i \in 0..Len(s) |-> Step(s, S, kept, i)]
  BY <1>2
<1>4. Filter(s, S) = kept[Len(s)]
  BY DEF Filter, Step
<1> HIDE DEF kept
<1> QED BY <1>3, <1>4

(* k holds what the first n elements of s leave: elements of the set, each  *)
(* from a later position than the one before it.                           *)
Comes(s, S, k, n) ==
  \E from \in [1..Len(k) -> 1..n] :
    /\ \A j \in 1..Len(k) : k[j] = s[from[j]] /\ s[from[j]] \in S
    /\ \A i, j \in 1..Len(k) : i < j => from[i] < from[j]

Leaves(U, s, S, k, n) ==
  /\ k \in Seq(U) /\ Len(k) <= n
  /\ \A i \in 1..n : s[i] \in S => \E j \in 1..Len(k) : k[j] = s[i]
  /\ Comes(s, S, k, n)

LEMMA NothingLeaves ==
  ASSUME NEW U, NEW s, NEW S
  PROVE  Leaves(U, s, S, << >>, 0)
<1>1. << >> \in Seq(U) /\ Len(<< >>) = 0
  BY EmptySeq
<1> DEFINE none == [i \in 1..0 |-> i]
<1>2. none \in [1..Len(<< >>) -> 1..0]
  BY <1>1
<1>3. Comes(s, S, << >>, 0)
  <2>1. \A j \in 1..Len(<< >>) : FALSE
    BY <1>1
  <2> HIDE DEF none
  <2> QED BY <1>2, <2>1 DEF Comes
<1> QED BY <1>1, <1>3 DEF Leaves

LEMMA SkipLeaves ==
  ASSUME NEW U, NEW s, NEW S, NEW n \in Nat, NEW k, Leaves(U, s, S, k, n), s[n + 1] \notin S
  PROVE  Leaves(U, s, S, k, n + 1)
<1>1. PICK from \in [1..Len(k) -> 1..n] :
        /\ \A j \in 1..Len(k) : k[j] = s[from[j]] /\ s[from[j]] \in S
        /\ \A i, j \in 1..Len(k) : i < j => from[i] < from[j]
  BY DEF Leaves, Comes
<1>2. from \in [1..Len(k) -> 1..(n + 1)]
  OBVIOUS
<1>3. Comes(s, S, k, n + 1)
  BY <1>1, <1>2 DEF Comes
<1>4. Len(k) \in Nat
  BY LenProperties DEF Leaves
<1> QED BY <1>3, <1>4 DEF Leaves

LEMMA AppendLeaves ==
  ASSUME NEW U, NEW s, NEW S, NEW n \in Nat, NEW k, Leaves(U, s, S, k, n),
         NEW e \in S \cap U, s[n + 1] = e
  PROVE  Leaves(U, s, S, Append(k, e), n + 1)
<1> DEFINE m == Len(k)
           a == Append(k, e)
<1>1. /\ a \in Seq(U) /\ Len(a) = m + 1 /\ a[m + 1] = e
      /\ \A j \in 1..m : a[j] = k[j]
  BY AppendProperties DEF Leaves
<1>2. m \in Nat /\ m <= n
  BY LenProperties DEF Leaves
<1>3. PICK from \in [1..m -> 1..n] :
        /\ \A j \in 1..m : k[j] = s[from[j]] /\ s[from[j]] \in S
        /\ \A i, j \in 1..m : i < j => from[i] < from[j]
  BY DEF Leaves, Comes
<1>4. \A i \in 1..n : s[i] \in S => \E j \in 1..m : k[j] = s[i]
  BY DEF Leaves
<1> HIDE DEF a, m
<1>5. \A i \in 1..(n + 1) : s[i] \in S => \E j \in 1..Len(a) : a[j] = s[i]
  <2> SUFFICES ASSUME NEW i \in 1..(n + 1), s[i] \in S
               PROVE  \E j \in 1..Len(a) : a[j] = s[i]
    OBVIOUS
  <2>1. CASE i = n + 1
    BY <1>1, <1>2, <2>1
  <2>2. CASE i # n + 1
    BY <1>1, <1>2, <1>4, <2>2
  <2> QED BY <2>1, <2>2
<1>6. Comes(s, S, a, n + 1)
  <2> DEFINE more == [j \in 1..(m + 1) |-> IF j = m + 1 THEN n + 1 ELSE from[j]]
  <2>1. more \in [1..Len(a) -> 1..(n + 1)]
    BY <1>1, <1>2
  <2>2. \A j \in 1..(m + 1) : a[j] = s[more[j]] /\ s[more[j]] \in S
    BY <1>1, <1>2, <1>3
  <2>3. \A i, j \in 1..(m + 1) : i < j => more[i] < more[j]
    BY <1>2, <1>3
  <2> HIDE DEF more
  <2> QED BY <1>1, <2>1, <2>2, <2>3 DEF Comes
<1> QED BY <1>1, <1>2, <1>5, <1>6 DEF Leaves, a

(* What the filter of a sequence leaves.                                   *)
LEMMA FilterLeaves ==
  ASSUME NEW U, NEW s \in Seq(U), NEW S
  PROVE  Leaves(U, s, S, Filter(s, S), Len(s))
<1>1. PICK kept : /\ kept = [i \in 0..Len(s) |-> Step(s, S, kept, i)]
                  /\ Filter(s, S) = kept[Len(s)]
  BY FilterSteps
<1> DEFINE T == {n \in Nat : n <= Len(s) => Leaves(U, s, S, kept[n], n)}
<1>2. Len(s) \in Nat /\ \A i \in 1..Len(s) : s[i] \in U
  BY LenProperties, ElementOfSeq
<1>3. 0 \in T
  <2>1. kept[0] = << >>
    BY <1>1, <1>2 DEF Step
  <2> QED BY <2>1, NothingLeaves
<1>4. ASSUME NEW n \in Nat, n \in T
      PROVE  n + 1 \in T
  <2> SUFFICES ASSUME n + 1 <= Len(s)
               PROVE  Leaves(U, s, S, kept[n + 1], n + 1)
    OBVIOUS
  <2>1. Leaves(U, s, S, kept[n], n)
    BY <1>2, <1>4
  <2>2. n + 1 \in 0..Len(s) /\ n + 1 # 0 /\ n + 1 - 1 = n
    BY <1>2
  <2>3. kept[n + 1] = Step(s, S, kept, n + 1)
    BY <1>1, <2>2
  <2>4. s[n + 1] \in U
    BY <1>2
  <2>5. CASE s[n + 1] \notin S
    <3>1. kept[n + 1] = kept[n]
      BY <2>2, <2>3, <2>5 DEF Step
    <3> QED BY <2>1, <2>5, <3>1, SkipLeaves
  <2>6. CASE s[n + 1] \in S
    <3>1. kept[n + 1] = Append(kept[n], s[n + 1])
      BY <2>2, <2>3, <2>6 DEF Step
    <3> QED BY <2>1, <2>4, <2>6, <3>1, AppendLeaves
  <2> QED BY <2>5, <2>6
<1> HIDE DEF T
<1>5. Len(s) \in T
  BY <1>2, <1>3, <1>4, SetInduction
<1> QED BY <1>1, <1>2, <1>5 DEF T

-----------------------------------------------------------------------------
(* The filter keeps the elements of the set, and no others.                *)
LEMMA FilterElements ==
  ASSUME NEW U, NEW s \in Seq(U), NEW S
  PROVE  /\ Filter(s, S) \in Seq(U)
         /\ Len(Filter(s, S)) <= Len(s)
         /\ \A j \in 1..Len(Filter(s, S)) :
              Filter(s, S)[j] \in S /\ \E i \in 1..Len(s) : Filter(s, S)[j] = s[i]
         /\ \A i \in 1..Len(s) :
              s[i] \in S => \E j \in 1..Len(Filter(s, S)) : Filter(s, S)[j] = s[i]
<1>1. Leaves(U, s, S, Filter(s, S), Len(s))
  BY FilterLeaves
<1>2. PICK from \in [1..Len(Filter(s, S)) -> 1..Len(s)] :
        \A j \in 1..Len(Filter(s, S)) :
          Filter(s, S)[j] = s[from[j]] /\ s[from[j]] \in S
  BY <1>1 DEF Leaves, Comes
<1> QED BY <1>1, <1>2 DEF Leaves

(* No element twice, and none after that.                                  *)
LEMMA FilterInjective ==
  ASSUME NEW U, NEW s \in Seq(U), NEW S,
         \A i, j \in 1..Len(s) : s[i] = s[j] => i = j
  PROVE  \A i, j \in 1..Len(Filter(s, S)) : Filter(s, S)[i] = Filter(s, S)[j] => i = j
<1>1. Leaves(U, s, S, Filter(s, S), Len(s))
  BY FilterLeaves
<1>2. PICK from \in [1..Len(Filter(s, S)) -> 1..Len(s)] :
        /\ \A j \in 1..Len(Filter(s, S)) : Filter(s, S)[j] = s[from[j]]
        /\ \A i, j \in 1..Len(Filter(s, S)) : i < j => from[i] < from[j]
  BY <1>1 DEF Leaves, Comes
<1>3. Len(Filter(s, S)) \in Nat /\ Len(s) \in Nat
  BY <1>1, LenProperties DEF Leaves
<1> SUFFICES ASSUME NEW i \in 1..Len(Filter(s, S)), NEW j \in 1..Len(Filter(s, S)),
                    Filter(s, S)[i] = Filter(s, S)[j]
             PROVE  i = j
  OBVIOUS
<1>4. from[i] = from[j] /\ from[i] \in Nat
  BY <1>2, <1>3
<1> QED BY <1>2, <1>3, <1>4

(* A sequence whose first n elements are not in the set, and whose others  *)
(* are, leaves the others.                                                 *)
LEMMA FilterSuffix ==
  ASSUME NEW U, NEW s \in Seq(U), NEW S, NEW n \in 0..Len(s),
         \A i \in 1..n : s[i] \notin S, \A i \in (n + 1)..Len(s) : s[i] \in S
  PROVE  Filter(s, S) = SubSeq(s, n + 1, Len(s))
<1>1. PICK kept : /\ kept = [i \in 0..Len(s) |-> Step(s, S, kept, i)]
                  /\ Filter(s, S) = kept[Len(s)]
  BY FilterSteps
<1>2. Len(s) \in Nat /\ n \in Nat /\ n <= Len(s) /\ \A i \in 1..Len(s) : s[i] \in U
  BY LenProperties, ElementOfSeq
<1> DEFINE T == {m \in Nat : m <= Len(s) => kept[m] = SubSeq(s, n + 1, m)}
<1>3. 0 \in T
  <2>1. SubSeq(s, n + 1, 0) = << >>
    BY <1>2, SubSeqEmpty
  <2> QED BY <1>1, <1>2, <2>1 DEF Step
<1>4. ASSUME NEW m \in Nat, m \in T
      PROVE  m + 1 \in T
  <2> SUFFICES ASSUME m + 1 <= Len(s)
               PROVE  kept[m + 1] = SubSeq(s, n + 1, m + 1)
    OBVIOUS
  <2>1. kept[m] = SubSeq(s, n + 1, m)
    BY <1>2, <1>4
  <2>2. m + 1 \in 0..Len(s) /\ m + 1 # 0 /\ m + 1 - 1 = m
    BY <1>2
  <2>3. kept[m + 1] = IF s[m + 1] \in S THEN Append(kept[m], s[m + 1]) ELSE kept[m]
    <3>1. kept[m + 1] = Step(s, S, kept, m + 1)
      BY <1>1, <2>2
    <3> QED BY <2>2, <3>1 DEF Step
  <2>4. CASE m + 1 <= n
    <3>1. kept[m + 1] = kept[m]
      BY <1>2, <2>3, <2>4
    <3>2. SubSeq(s, n + 1, m) = << >> /\ SubSeq(s, n + 1, m + 1) = << >>
      BY <1>2, <2>4, SubSeqEmpty
    <3> QED BY <2>1, <3>1, <3>2
  <2>5. CASE m + 1 > n
    <3>1. kept[m + 1] = Append(SubSeq(s, n + 1, m), s[m + 1])
      BY <1>2, <2>1, <2>3, <2>5
    <3>2. n + 1 \in 1..Len(s) /\ m + 1 \in (n + 1)..Len(s)
      BY <1>2, <2>5
    <3>3. SubSeq(s, n + 1, m + 1) = SubSeq(s, n + 1, m) \o <<s[m + 1]>>
      BY <2>2, <3>2, SubSeqRecursiveSecond
    <3>4. SubSeq(s, n + 1, m) \in Seq(U)
      <4>1. \A i \in (n + 1)..m : s[i] \in U
        BY <1>2
      <4> QED BY <1>2, <4>1, SubSeqProperties
    <3>5. Append(SubSeq(s, n + 1, m), s[m + 1]) = SubSeq(s, n + 1, m) \o <<s[m + 1]>>
      BY <1>2, <3>2, <3>4, AppendIsConcat
    <3> QED BY <3>1, <3>3, <3>5
  <2> QED BY <1>2, <2>4, <2>5
<1>5. Len(s) \in T
  <2> HIDE DEF T
  <2> QED BY <1>2, <1>3, <1>4, SetInduction
<1> QED BY <1>1, <1>2, <1>5

(* The place where the first n elements of s enter S for good.             *)
Enters(s, S, n) ==
  \E m \in 0..n : /\ \A i \in 1..m : s[i] \notin S
                  /\ \A i \in (m + 1)..n : s[i] \in S

(* A sequence whose elements enter a set once, and stay, does so at a      *)
(* place.                                                                  *)
LEMMA EntryPoint ==
  ASSUME NEW U, NEW s \in Seq(U), NEW S,
         \A i, j \in 1..Len(s) : i < j /\ s[i] \in S => s[j] \in S
  PROVE  Enters(s, S, Len(s))
<1>1. Len(s) \in Nat
  BY LenProperties
<1> DEFINE T == {n \in Nat : n <= Len(s) => Enters(s, S, n)}
<1>2. 0 \in T
  BY <1>1 DEF Enters
<1>3. ASSUME NEW n \in Nat, n \in T
      PROVE  n + 1 \in T
  <2> SUFFICES ASSUME n + 1 <= Len(s)
               PROVE  Enters(s, S, n + 1)
    OBVIOUS
  <2>1. Enters(s, S, n)
    BY <1>1, <1>3
  <2>2. PICK m \in 0..n : /\ \A i \in 1..m : s[i] \notin S
                          /\ \A i \in (m + 1)..n : s[i] \in S
    BY <2>1 DEF Enters
  <2>3. CASE s[n + 1] \in S
    <3>1. m \in 0..(n + 1) /\ \A i \in (m + 1)..(n + 1) : s[i] \in S
      BY <2>2, <2>3
    <3> QED BY <2>2, <3>1 DEF Enters
  <2>4. CASE s[n + 1] \notin S
    <3>1. \A i \in 1..(n + 1) : s[i] \notin S
      <4>1. \A i \in 1..n : i < n + 1 /\ i \in 1..Len(s) /\ n + 1 \in 1..Len(s)
        BY <1>1
      <4> QED BY <2>4, <4>1
    <3>2. n + 1 \in 0..(n + 1) /\ \A i \in (n + 1 + 1)..(n + 1) : s[i] \in S
      OBVIOUS
    <3> QED BY <3>1, <3>2 DEF Enters
  <2> QED BY <2>3, <2>4
<1>4. Len(s) \in T
  <2> HIDE DEF T
  <2> QED BY <1>1, <1>2, <1>3, SetInduction
<1> QED BY <1>1, <1>4
=============================================================================
