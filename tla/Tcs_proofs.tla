----------------------------- MODULE Tcs_proofs -----------------------------
(***************************************************************************)
(* Proofs about the sockets of a process, for any number of descriptors,   *)
(* connections and failing calls, any MINIMUM_CAPACITY and FD_SETSIZE.     *)
(*                                                                         *)
(* From the bottom: the arrays and maps of tinydatastructures.h hold what  *)
(* they count, or are one reallocation away from it (Holds, Whole); a poll *)
(* set made of them keeps every socket once, in its map and on Windows in  *)
(* its lists too (PollHolds, PollWhole, PollOK), whatever an add or a      *)
(* remove can not allocate; a wait tells of the sockets found ready, each  *)
(* once, as far as there is room (Tells); and the process, at each place   *)
(* it can be, has open and polls just what it should (TcsInv).  What the   *)
(* runs check of Tcs follows, and that its poll sets implement PollSet.    *)
(*                                                                         *)
(* The orders in which events come are CHOOSEn, so the proofs need that    *)
(* there is one: induction over the naturals is done with the least        *)
(* element of a set of counterexamples.                                    *)
(***************************************************************************)
EXTENDS Tcs, TLAPS, WellFoundedInduction, SequenceTheorems, FiniteSetTheorems

USE CapacityAssumption, SocketAssumption, NoPollAssumption

-----------------------------------------------------------------------------
(* TdsUList: an array is as large as it must be.                           *)

(* A set of naturals has a least element.                                  *)
LEMMA LeastElement ==
  ASSUME NEW T \in SUBSET Nat, T # {}
  PROVE  \E x \in T : \A y \in T : x <= y
<1> DEFINE R == OpToRel(<, Nat)
<1>1. \A x, y \in Nat : <<x, y>> \in R <=> x < y
  BY DEF OpToRel
<1>2. IsWellFoundedOn(R, Nat)
  BY NatLessThanWellFounded
<1> HIDE DEF R
<1>3. PICK x \in T : \A y \in T : ~ (<<y, x>> \in R)
  BY <1>2, WFMin
<1>4. ASSUME NEW y \in T
      PROVE  x <= y
  <2>1. x \in Nat /\ y \in Nat
    OBVIOUS
  <2>2. ~ (y < x)
    BY <1>1, <1>3, <2>1
  <2> QED
    BY <2>1, <2>2
<1> QED
  BY <1>4

(* Induction, over a set of naturals.                                      *)
LEMMA Induction ==
  ASSUME NEW T \in SUBSET Nat, 0 \in T, \A n \in T : n + 1 \in T
  PROVE  T = Nat
<1> SUFFICES ASSUME T # Nat
             PROVE  FALSE
  OBVIOUS
<1>1. PICK x \in Nat \ T : \A y \in Nat \ T : x <= y
  BY LeastElement
<1>2. x - 1 \in Nat /\ x - 1 \in T
  BY <1>1
<1> QED
  BY <1>1, <1>2

(* f starts with a and goes on by step.                                    *)
Recurs(f, A, a, step) ==
  f \in [Nat -> A] /\ f[0] = a /\ \A n \in Nat : f[n + 1] = step[n][f[n]]

(* There is such a function.                                               *)
LEMMA Recursion ==
  ASSUME NEW A, NEW a \in A, NEW step \in [Nat -> [A -> A]]
  PROVE  \E f : Recurs(f, A, a, step)
<1> DEFINE Starts(f, n) == f \in [0 .. n -> A] /\ f[0] = a /\ \A m \in 0 .. n - 1 : f[m + 1] = step[m][f[m]]
           T == {n \in Nat : \E f : Starts(f, n)}
<1>1. 0 \in T
  <2> DEFINE f == [m \in 0 .. 0 |-> a]
  <2>1. Starts(f, 0)
    OBVIOUS
  <2> QED
    BY <2>1
<1>2. ASSUME NEW n \in T
      PROVE  n + 1 \in T
  <2>1. n \in Nat
    OBVIOUS
  <2>2. PICK f : Starts(f, n)
    OBVIOUS
  <2>3. f[n] \in A /\ step[n][f[n]] \in A
    BY <2>1, <2>2
  <2> DEFINE g == [m \in 0 .. n + 1 |-> IF m = n + 1 THEN step[n][f[n]] ELSE f[m]]
  <2>4. g \in [0 .. n + 1 -> A]
    BY <2>1, <2>2, <2>3
  <2>5. g[0] = a
    BY <2>1, <2>2
  <2>6. ASSUME NEW m \in 0 .. n
        PROVE  g[m + 1] = step[m][g[m]]
    <3>1. g[m] = f[m]
      BY <2>1
    <3>2. CASE m = n
      BY <2>1, <3>1, <3>2
    <3>3. CASE m # n
      <4>1. m \in 0 .. n - 1
        BY <2>1, <3>3
      <4> QED
        BY <2>1, <2>2, <3>1, <4>1
    <3> QED
      BY <3>2, <3>3
  <2> HIDE DEF g
  <2>7. 0 .. (n + 1) - 1 = 0 .. n
    BY <2>1
  <2>8. Starts(g, n + 1)
    BY <2>4, <2>5, <2>6, <2>7
  <2> HIDE DEF Starts
  <2> QED
    BY <2>1, <2>8
<1> HIDE DEF T
<1>3. T = Nat
  BY <1>1, <1>2, Induction DEF T
<1>4. \A n \in Nat : \E f : Starts(f, n)
  BY <1>3 DEF T
<1> DEFINE Part(n) == CHOOSE f : Starts(f, n)
<1>5. \A n \in Nat : Starts(Part(n), n)
  BY <1>4
<1> HIDE DEF Part
<1>6. ASSUME NEW n \in Nat
      PROVE  \A m \in 0 .. n : Part(n + 1)[m] = Part(n)[m]
  <2> DEFINE U == {m \in Nat : m <= n => Part(n + 1)[m] = Part(n)[m]}
  <2>0. Starts(Part(n), n) /\ Starts(Part(n + 1), n + 1)
    BY <1>5
  <2>1. 0 \in U
    BY <2>0
  <2>2. ASSUME NEW m \in U
        PROVE  m + 1 \in U
    <3> SUFFICES ASSUME m + 1 <= n
                 PROVE  Part(n + 1)[m + 1] = Part(n)[m + 1]
      OBVIOUS
    <3>1. Part(n + 1)[m] = Part(n)[m] /\ m \in 0 .. n - 1 /\ m \in 0 .. (n + 1) - 1
      OBVIOUS
    <3> QED
      BY <2>0, <3>1
  <2>3. U = Nat
    BY <2>1, <2>2, Induction
  <2> QED
    BY <2>3
<1> DEFINE f == [n \in Nat |-> Part(n)[n]]
<1>7. f \in [Nat -> A]
  <2> SUFFICES ASSUME NEW n \in Nat PROVE Part(n)[n] \in A
    OBVIOUS
  <2> QED
    BY <1>5
<1>8. f[0] = a
  BY <1>5
<1>9. ASSUME NEW n \in Nat
      PROVE  f[n + 1] = step[n][f[n]]
  <2>1. Part(n + 1)[n] = Part(n)[n]
    BY <1>6
  <2>2. n \in 0 .. (n + 1) - 1
    OBVIOUS
  <2>3. Part(n + 1)[n + 1] = step[n][Part(n + 1)[n]]
    BY <1>5, <2>2
  <2> QED
    BY <2>1, <2>3
<1> QED
  BY <1>7, <1>8, <1>9 DEF Recurs

(* MINIMUM_CAPACITY and what is doubled from it.                           *)
LEMMA DoubleSteps ==
  /\ Double \in [Nat -> Nat \ {0}]
  /\ Double[0] = MinimumCapacity
  /\ \A n \in Nat : Double[n + 1] = 2 * Double[n]
<1> DEFINE Def(f) == f = [n \in Nat |-> IF n = 0 THEN MinimumCapacity ELSE 2 * f[n - 1]]
           A == Nat \ {0}
           step == [n \in Nat |-> [x \in A |-> 2 * x]]
<1>1. PICK f : Recurs(f, A, MinimumCapacity, step)
  <2>1. MinimumCapacity \in A
    OBVIOUS
  <2>2. step \in [Nat -> [A -> A]]
    OBVIOUS
  <2> HIDE DEF step, A
  <2> QED
    BY <2>1, <2>2, Recursion
<1>2. /\ f \in [Nat -> A] /\ f[0] = MinimumCapacity
      /\ \A n \in Nat : f[n + 1] = 2 * f[n]
  BY <1>1 DEF Recurs
<1>3. Def(f)
  <2>1. ASSUME NEW n \in Nat
        PROVE  f[n] = IF n = 0 THEN MinimumCapacity ELSE 2 * f[n - 1]
    <3>1. CASE n = 0
      BY <1>2, <3>1
    <3>2. CASE n # 0
      <4>1. n - 1 \in Nat /\ (n - 1) + 1 = n
        BY <3>2
      <4> QED
        BY <1>2, <3>2, <4>1
    <3> QED
      BY <3>1, <3>2
  <2> QED
    BY <1>2, <2>1
<1>4. Double = CHOOSE g : Def(g)
  BY DEF Double
<1> HIDE DEF Def
<1>5. Def(Double)
  BY <1>3, <1>4
<1>6. Double = f
  <2> DEFINE U == {n \in Nat : Double[n] = f[n]}
  <2>0. Double = [n \in Nat |-> IF n = 0 THEN MinimumCapacity ELSE 2 * Double[n - 1]]
    BY <1>5 DEF Def
  <2>1. 0 \in U
    BY <1>2, <2>0
  <2>2. ASSUME NEW n \in U
        PROVE  n + 1 \in U
    <3>1. Double[n + 1] = 2 * Double[n]
      BY <2>0
    <3> QED
      BY <1>2, <3>1
  <2>3. U = Nat
    BY <2>1, <2>2, Induction
  <2>4. \A n \in Nat : Double[n] = f[n]
    BY <2>3
  <2> QED
    BY <1>2, <2>0, <2>4
<1> QED
  BY <1>2, <1>6

(* There is always one that is enough.                                     *)
LEMMA DoubleGrows ==
  \A n \in Nat : Double[n] > n
<1> DEFINE T == {n \in Nat : Double[n] > n}
<1>1. 0 \in T
  BY DoubleSteps
<1>2. ASSUME NEW n \in T
      PROVE  n + 1 \in T
  BY DoubleSteps
<1>3. T = Nat
  BY <1>1, <1>2, Induction
<1> QED
  BY <1>3

(* The least of them.                                                      *)
LEMMA DoubledIsLeast ==
  ASSUME NEW new \in Nat
  PROVE  \E k \in Nat : /\ Doubled(new) = Double[k] /\ Double[k] >= new
                        /\ \A j \in 0 .. k - 1 : Double[j] < new
<1> DEFINE enough == {n \in 0 .. new : Double[n] >= new}
           k == CHOOSE n \in enough : \A m \in enough : n <= m
<1>1. new \in enough
  BY DoubleGrows, DoubleSteps
<1>2. \E n \in enough : \A m \in enough : n <= m
  <2>1. enough \in SUBSET Nat /\ enough # {}
    BY <1>1
  <2> HIDE DEF enough
  <2> QED
    BY <2>1, LeastElement
<1>3. k \in enough /\ \A m \in enough : k <= m
  <2> HIDE DEF enough
  <2> QED
    BY <1>2
<1>4. Doubled(new) = Double[k]
  BY DEF Doubled
<1> HIDE DEF k
<1>5. ASSUME NEW j \in 0 .. k - 1
      PROVE  Double[j] < new
  BY <1>3, DoubleSteps
<1> QED
  BY <1>3, <1>4, <1>5

(* tds_ulist_best_capacity_fit: enough, never less than MINIMUM_CAPACITY,  *)
(* and less than twice what is needed unless it is that.                   *)
LEMMA DoubledIsEnough ==
  ASSUME NEW new \in Nat
  PROVE  /\ Doubled(new) \in Nat /\ Doubled(new) >= new /\ Doubled(new) >= MinimumCapacity
         /\ Doubled(new) = MinimumCapacity \/ (Doubled(new) < 2 * new)
<1>1. \A n \in Nat : Double[n] >= MinimumCapacity
  <2> DEFINE T == {n \in Nat : Double[n] >= MinimumCapacity}
  <2>1. 0 \in T
    BY DoubleSteps
  <2>2. ASSUME NEW n \in T
        PROVE  n + 1 \in T
    BY DoubleSteps
  <2>3. T = Nat
    BY <2>1, <2>2, Induction
  <2> QED
    BY <2>3
<1>2. PICK k \in Nat : /\ Doubled(new) = Double[k] /\ Double[k] >= new
                       /\ \A j \in 0 .. k - 1 : Double[j] < new
  BY DoubledIsLeast
<1>3. CASE k = 0
  BY <1>2, <1>3, DoubleSteps
<1>4. CASE k # 0
  <2>1. k - 1 \in Nat /\ (k - 1) + 1 = k /\ k - 1 \in 0 .. k - 1
    BY <1>4
  <2>2. Double[k - 1] < new /\ Double[k - 1] \in Nat /\ Double[k] = 2 * Double[k - 1]
    BY <1>2, <2>1, DoubleSteps
  <2> QED
    BY <1>1, <1>2, <2>2, DoubleSteps
<1> QED
  BY <1>3, <1>4

(* One more is enough as well, or asks for twice as much.                  *)
LEMMA DoubledForOneMore ==
  ASSUME NEW new \in Nat
  PROVE  IF Doubled(new) > new THEN Doubled(new + 1) = Doubled(new)
                               ELSE Doubled(new + 1) = 2 * Doubled(new)
<1>1. PICK k \in Nat : /\ Doubled(new) = Double[k] /\ Double[k] >= new
                       /\ \A j \in 0 .. k - 1 : Double[j] < new
  BY DoubledIsLeast
<1>2. PICK l \in Nat : /\ Doubled(new + 1) = Double[l] /\ Double[l] >= new + 1
                       /\ \A j \in 0 .. l - 1 : Double[j] < new + 1
  BY DoubledIsLeast
<1>3. Double \in [Nat -> Nat \ {0}]
  BY DoubleSteps
<1>4. k <= l
  BY <1>1, <1>2, <1>3
<1>5. CASE Double[k] > new
  <2>1. l <= k
    BY <1>1, <1>2, <1>3, <1>5
  <2> QED
    BY <1>1, <1>2, <1>4, <1>5, <2>1
<1>6. CASE ~ (Double[k] > new)
  <2>1. Double[k] = new /\ new # 0
    BY <1>1, <1>3, <1>6
  <2>2. Double[k + 1] = 2 * Double[k] /\ Double[k + 1] >= new + 1
    BY <1>3, <2>1, DoubleSteps
  <2>3. k # l
    BY <1>2, <2>1
  <2>4. l <= k + 1
    BY <1>2, <1>3, <2>2
  <2>5. l = k + 1
    BY <1>4, <2>3, <2>4
  <2> QED
    BY <1>1, <1>2, <1>6, <2>2, <2>5
<1> QED
  BY <1>1, <1>5, <1>6

(* An array of count elements would not be made smaller.                   *)
Settled(capacity, count) ==
  count < capacity \div 2 => BestCapacityFit(capacity, count) = capacity

(* What an array is given is enough.                                       *)
LEMMA FitIsEnough ==
  ASSUME NEW old \in Nat, old >= MinimumCapacity \/ old = 0, NEW new \in Nat
  PROVE  /\ BestCapacityFit(old, new) \in Nat
         /\ BestCapacityFit(old, new) >= MinimumCapacity
         /\ BestCapacityFit(old, new) >= new
BY DoubledIsEnough DEF BestCapacityFit

(* The first array is settled.                                             *)
LEMMA SettledFirst ==
  Settled(BestCapacityFit(0, 1), 0)
<1>1. Doubled(0) \in Nat /\ Doubled(1) \in Nat /\ Doubled(0) >= MinimumCapacity
  BY DoubledIsEnough
<1>2. Doubled(0 + 1) = Doubled(0)
  BY <1>1, DoubledForOneMore
<1>3. Doubled(1) = Doubled(0)
  BY <1>2
<1> QED
  BY <1>1, <1>3 DEF Settled, BestCapacityFit

(* An element more in the same array.                                      *)
LEMMA SettledAdd ==
  ASSUME NEW capacity \in Nat, NEW n \in Nat, Settled(capacity, n)
  PROVE  Settled(capacity, n + 1)
<1> SUFFICES ASSUME n + 1 < capacity \div 2
             PROVE  BestCapacityFit(capacity, n + 1) = capacity
  BY DEF Settled
<1>1. BestCapacityFit(capacity, n) = capacity
  BY DEF Settled
<1>2. Doubled(n) \in Nat /\ Doubled(n) >= n /\ (Doubled(n) * 2 = capacity \/ Doubled(n) = capacity)
  BY <1>1, DoubledIsEnough DEF BestCapacityFit
<1>3. Doubled(n + 1) = Doubled(n)
  BY <1>2, DoubledForOneMore
<1> QED
  BY <1>1, <1>3 DEF BestCapacityFit

(* An element more in a larger array: neither it nor its removal, right    *)
(* away, makes the array smaller again.                                    *)
LEMMA SettledGrow ==
  ASSUME NEW capacity \in Nat, capacity >= MinimumCapacity,
         NEW n \in Nat, n <= capacity, n + 1 > capacity
  PROVE  /\ Settled(BestCapacityFit(capacity, n + 1), n + 1)
         /\ Settled(BestCapacityFit(capacity, n + 1), n)
<1> DEFINE c == BestCapacityFit(capacity, n + 1)
<1>1. /\ Doubled(n + 1) \in Nat /\ Doubled(n + 1) >= n + 1
      /\ Doubled(n + 1) = MinimumCapacity \/ Doubled(n + 1) < 2 * (n + 1)
  BY DoubledIsEnough
<1>2. c = Doubled(n + 1)
  BY <1>1 DEF BestCapacityFit
<1>3. Settled(c, n + 1)
  BY <1>1, <1>2 DEF Settled, BestCapacityFit
<1>4. Settled(c, n)
  <2> SUFFICES ASSUME n < c \div 2
               PROVE  FALSE
    BY DEF Settled
  <2>1. c # MinimumCapacity
    BY <1>1, <1>2
  <2> QED
    BY <1>1, <1>2, <2>1
<1> QED
  BY <1>3, <1>4

(* An array that was made smaller.                                         *)
LEMMA SettledShrink ==
  ASSUME NEW capacity \in Nat, NEW n \in Nat
  PROVE  Settled(BestCapacityFit(capacity, n), n)
<1>1. Doubled(n) \in Nat /\ Doubled(n) >= MinimumCapacity
  BY DoubledIsEnough
<1> QED
  BY <1>1 DEF Settled, BestCapacityFit

-----------------------------------------------------------------------------
(* A list, and a column of a map, whose elements are in S.  The memory is  *)
(* as large as is believed, but for a column that was made smaller when    *)
(* the other column was not.                                               *)
Holds(l, S) ==
  /\ l \in [data : Seq(S), count : Nat, capacity : Nat]
  /\ l.count <= l.capacity /\ MinimumCapacity <= l.capacity
  /\ \/ l.capacity <= Len(l.data)
     \/ /\ l.count # 0 /\ l.count - 1 < l.capacity \div 2
        /\ Len(l.data) = BestCapacityFit(l.capacity, l.count - 1)

Whole(l, S) == Holds(l, S) /\ l.capacity <= Len(l.data)

(* realloc: the elements are where they were.                              *)
LEMMA ReserveKeeps ==
  ASSUME NEW S, Zero \in S, NEW l \in [data : Seq(S), count : Nat, capacity : Nat],
         MinimumCapacity <= l.capacity \/ l.capacity = 0,
         NEW n \in Nat, NEW ok \in BOOLEAN,
         NEW c, c = BestCapacityFit(l.capacity, n),
         l.capacity <= Len(l.data) \/ Len(l.data) = c,
         NEW r, r = Reserve(l, n, ok)
  PROVE  /\ r.sts \in {0, -1} /\ (ok => r.sts = 0) /\ (c = l.capacity => r.sts = 0)
         /\ r.list \in [data : Seq(S), count : Nat, capacity : Nat]
         /\ r.list.count = l.count
         /\ r.sts # 0 => r.list = l
         /\ r.sts = 0 => r.list.capacity = c /\ c <= Len(r.list.data)
         /\ r.sts = 0 /\ c # l.capacity => c = Len(r.list.data)
         /\ \A i \in 1 .. l.capacity : i <= Len(r.list.data) => r.list.data[i] = l.data[i]
<1> DEFINE data == [i \in 1 .. c |-> IF i <= l.capacity THEN l.data[i] ELSE Zero]
           new == [l EXCEPT !.data = data, !.capacity = c]
<1>1. c \in Nat /\ c >= n
  BY FitIsEnough
<1>2. l.data \in Seq(S) /\ Len(l.data) \in Nat /\ l.capacity \in Nat
  BY LenProperties
<1>3. CASE c = l.capacity
  <2>1. r = [list |-> l, sts |-> 0]
    BY <1>3 DEF Reserve, Done
  <2> QED
    BY <1>2, <1>3, <2>1
<1>4. CASE c # l.capacity /\ ~ ok
  <2>1. r = [list |-> l, sts |-> -1]
    BY <1>4 DEF Reserve, Failed
  <2> QED
    BY <1>2, <1>4, <2>1
<1>5. CASE c # l.capacity /\ ok
  <2>1. r = [list |-> new, sts |-> 0]
    BY <1>5 DEF Reserve, Done
  <2>2. data \in [1 .. c -> S]
    <3>1. ASSUME NEW i \in 1 .. c, i <= l.capacity
          PROVE  l.data[i] \in S
      <4>1. i \in 1 .. Len(l.data)
        BY <1>1, <1>2, <3>1
      <4> QED
        BY <1>2, <4>1, ElementOfSeq
    <3> QED
      BY <3>1
  <2>3. \A i \in 1 .. c : i <= l.capacity => data[i] = l.data[i]
    OBVIOUS
  <2>4. data \in Seq(S) /\ Len(data) = c
    <3> HIDE DEF data
    <3> QED
      BY <1>1, <2>2, LenProperties, SeqDef
  <2> HIDE DEF data
  <2>5. new.data = data /\ new.count = l.count /\ new.capacity = c
        /\ new \in [data : Seq(S), count : Nat, capacity : Nat]
    BY <1>1, <2>4
  <2> HIDE DEF new
  <2>6. r.list = new /\ r.sts = 0
    BY <2>1
  <2>7. \A i \in 1 .. l.capacity : i <= Len(new.data) => new.data[i] = l.data[i]
    BY <1>1, <1>2, <2>3, <2>4, <2>5
  <2>8. /\ r.sts \in {0, -1} /\ (ok => r.sts = 0) /\ (c = l.capacity => r.sts = 0)
        /\ r.list \in [data : Seq(S), count : Nat, capacity : Nat]
        /\ r.list.count = l.count
        /\ r.sts # 0 => r.list = l
        /\ r.sts = 0 => r.list.capacity = c /\ c <= Len(r.list.data)
        /\ r.sts = 0 /\ c # l.capacity => c = Len(r.list.data)
    <3>1. r.sts = 0 /\ r.sts \in {0, -1}
      BY <2>6
    <3>2. r.list \in [data : Seq(S), count : Nat, capacity : Nat]
      BY <2>5, <2>6
    <3>3. r.list.count = l.count /\ r.list.capacity = c /\ c = Len(r.list.data) /\ c <= Len(r.list.data)
      BY <1>1, <2>4, <2>5, <2>6
    <3> QED
      BY <3>1, <3>2, <3>3
  <2>9. \A i \in 1 .. l.capacity : i <= Len(r.list.data) => r.list.data[i] = l.data[i]
    BY <2>6, <2>7
  <2> QED
    BY <2>8, <2>9
<1> QED
  BY <1>3, <1>4, <1>5

(* tds_ulist_add.                                                          *)
LEMMA AddKeeps ==
  ASSUME NEW S, Zero \in S, NEW l, Whole(l, S), NEW x \in S, NEW ok \in BOOLEAN,
         NEW r, r = UListAdd(l, x, ok)
  PROVE  /\ r.sts \in {0, -1} /\ (ok => r.sts = 0)
         /\ r.sts # 0 => r.list = l
         /\ r.sts = 0 =>
              /\ Whole(r.list, S) /\ r.list.count = l.count + 1
              /\ r.list.capacity = IF l.count + 1 > l.capacity
                                   THEN BestCapacityFit(l.capacity, l.count + 1) ELSE l.capacity
              /\ r.list.data[l.count + 1] = x
              /\ \A i \in 1 .. l.count : r.list.data[i] = l.data[i]
<1> DEFINE q == IF l.count + 1 > l.capacity THEN Reserve(l, l.count + 1, ok) ELSE Done(l)
           c == IF l.count + 1 > l.capacity
                THEN BestCapacityFit(l.capacity, l.count + 1) ELSE l.capacity
           new == [q.list EXCEPT !.data = [@ EXCEPT ![l.count + 1] = x], !.count = @ + 1]
<1>1. /\ l \in [data : Seq(S), count : Nat, capacity : Nat]
      /\ l.count <= l.capacity /\ MinimumCapacity <= l.capacity /\ l.capacity <= Len(l.data)
      /\ Len(l.data) \in Nat
  BY LenProperties DEF Whole, Holds
<1>2. /\ q.sts \in {0, -1} /\ (ok => q.sts = 0) /\ (q.sts # 0 => q.list = l)
      /\ q.list \in [data : Seq(S), count : Nat, capacity : Nat] /\ q.list.count = l.count
      /\ q.sts = 0 => q.list.capacity = c /\ c <= Len(q.list.data) /\ l.count + 1 <= c
      /\ \A i \in 1 .. l.count : i <= Len(q.list.data) => q.list.data[i] = l.data[i]
  <2>1. CASE l.count + 1 > l.capacity
    <3>1. q = Reserve(l, l.count + 1, ok) /\ c = BestCapacityFit(l.capacity, l.count + 1)
          /\ c >= l.count + 1 /\ c \in Nat
      BY <1>1, <2>1, FitIsEnough
    <3> DEFINE n == l.count + 1
    <3>2. n \in Nat
      BY <1>1
    <3> HIDE DEF n
    <3>3. q = Reserve(l, n, ok) /\ c = BestCapacityFit(l.capacity, n) /\ n <= c
      BY <3>1 DEF n
    <3> HIDE DEF q, c
    <3>4. /\ q.sts \in {0, -1} /\ (ok => q.sts = 0)
          /\ q.list \in [data : Seq(S), count : Nat, capacity : Nat]
          /\ q.list.count = l.count
          /\ q.sts # 0 => q.list = l
          /\ q.sts = 0 => q.list.capacity = c /\ c <= Len(q.list.data)
          /\ \A i \in 1 .. l.capacity : i <= Len(q.list.data) => q.list.data[i] = l.data[i]
      BY <1>1, <3>2, <3>3, ReserveKeeps
    <3> QED
      BY <1>1, <3>1, <3>3, <3>4 DEF n
  <2>2. CASE ~ (l.count + 1 > l.capacity)
    <3>1. q = [list |-> l, sts |-> 0] /\ c = l.capacity
      BY <2>2 DEF Done
    <3> QED
      BY <1>1, <2>2, <3>1
  <2> QED
    BY <2>1, <2>2
<1>3. r = IF q.sts # 0 THEN q ELSE [list |-> new, sts |-> 0]
  BY DEF UListAdd, Done
<1> HIDE DEF q, c
<1>4. CASE q.sts # 0
  BY <1>2, <1>3, <1>4
<1>5. CASE q.sts = 0
  <2> DEFINE data == [q.list.data EXCEPT ![l.count + 1] = x]
  <2>1. /\ q.list.data \in Seq(S) /\ Len(q.list.data) \in Nat /\ l.count + 1 \in 1 .. Len(q.list.data)
        /\ c <= Len(q.list.data) /\ l.count + 1 <= c /\ c \in Nat
    BY <1>1, <1>2, <1>5, LenProperties
  <2>2. data \in Seq(S) /\ Len(data) = Len(q.list.data) /\ data[l.count + 1] = x
        /\ \A i \in 1 .. l.count : data[i] = q.list.data[i]
    <3> DEFINE d == q.list.data
               n == l.count + 1
    <3>1. d \in Seq(S) /\ n \in 1 .. Len(d) /\ l.count < n /\ l.count \in Nat /\ n \in Nat
      BY <1>1, <2>1
    <3>2. data = [d EXCEPT ![n] = x]
      OBVIOUS
    <3> HIDE DEF d, n, data
    <3>3. data \in Seq(S) /\ Len(data) = Len(d) /\ \A i \in 1 .. Len(d) : data[i] = IF i = n THEN x ELSE d[i]
      BY <3>1, <3>2, ExceptSeq
    <3>4. data[n] = x /\ \A i \in 1 .. l.count : data[i] = d[i]
      BY <3>1, <3>3, LenProperties
    <3> QED
      BY <3>3, <3>4 DEF d, n
  <2>3. new.data = data /\ new.count = l.count + 1 /\ new.capacity = c
        /\ new \in [data : Seq(S), count : Nat, capacity : Nat]
    <3> DEFINE li == q.list
    <3>1. new = [li EXCEPT !.data = data, !.count = li.count + 1]
      OBVIOUS
    <3>2. li \in [data : Seq(S), count : Nat, capacity : Nat] /\ li.count = l.count /\ li.capacity = c
      BY <1>2, <1>5
    <3> HIDE DEF li, new, data
    <3>3. new = [data |-> data, count |-> l.count + 1, capacity |-> c]
      BY <3>1, <3>2
    <3>4. l.count + 1 \in Nat /\ c \in Nat
      BY <1>1, <2>1
    <3> QED
      BY <2>2, <3>3, <3>4
  <2>4. r.list = new /\ r.sts = 0
    BY <1>3, <1>5
  <2> HIDE DEF new, data
  <2>5. \A i \in 1 .. l.count : data[i] = l.data[i]
    BY <1>1, <1>2, <2>1, <2>2
  <2>6. MinimumCapacity <= c
    BY <1>1, FitIsEnough DEF c
  <2>7. Whole(new, S)
    BY <2>1, <2>2, <2>3, <2>6 DEF Whole, Holds
  <2> QED
    BY <2>2, <2>3, <2>4, <2>5, <2>7 DEF c
<1> QED
  BY <1>4, <1>5

(* tds_ulist_remove: the last element is where the removed one was.  What  *)
(* fails is at most to make the memory smaller.                            *)
LEMMA RemoveKeeps ==
  ASSUME NEW S, Zero \in S, NEW l, Holds(l, S), l.count <= Len(l.data),
         NEW i \in 1 .. l.count, NEW ok \in BOOLEAN,
         NEW c, c = BestCapacityFit(l.capacity, l.count - 1),
         NEW r, r = UListRemove(l, i, ok)
  PROVE  /\ r.sts \in {0, -1} /\ (ok => r.sts = 0)
         /\ r.list \in [data : Seq(S), count : Nat, capacity : Nat] /\ r.list.count = l.count - 1
         /\ \A j \in 1 .. l.count : j <= Len(r.list.data) =>
              r.list.data[j] = IF j = i THEN l.data[l.count] ELSE l.data[j]
         /\ r.sts = 0 =>
              /\ Whole(r.list, S)
              /\ r.list.capacity = IF l.count - 1 < l.capacity \div 2 THEN c ELSE l.capacity
              /\ Len(r.list.data) = IF l.count - 1 < l.capacity \div 2 /\ c # l.capacity
                                    THEN c ELSE Len(l.data)
         /\ r.sts # 0 =>
              /\ l.count - 1 < l.capacity \div 2 /\ c # l.capacity
              /\ r.list.capacity = l.capacity /\ Len(r.list.data) = Len(l.data)
         /\ Whole(l, S) => Whole(r.list, S)
<1> DEFINE n    == l.count - 1
           data == [l.data EXCEPT ![i] = l.data[l.count]]
           kept == [l EXCEPT !.data = data, !.count = l.count - 1]
           q    == IF kept.count < kept.capacity \div 2 THEN Reserve(kept, kept.count, ok) ELSE Done(kept)
<1>1. /\ l \in [data : Seq(S), count : Nat, capacity : Nat]
      /\ l.count <= l.capacity /\ MinimumCapacity <= l.capacity
      /\ Len(l.data) \in Nat /\ n \in Nat /\ l.count = n + 1
      /\ i \in 1 .. Len(l.data) /\ l.count \in 1 .. Len(l.data)
      /\ l.capacity <= Len(l.data) \/ (n < l.capacity \div 2 /\ Len(l.data) = c)
  BY LenProperties DEF Holds
<1>2. data \in Seq(S) /\ Len(data) = Len(l.data)
      /\ \A j \in 1 .. Len(l.data) : data[j] = IF j = i THEN l.data[l.count] ELSE l.data[j]
  <2> DEFINE d == l.data
             x == l.data[l.count]
  <2>1. d \in Seq(S) /\ i \in 1 .. Len(d) /\ x \in S
    BY <1>1, ElementOfSeq
  <2>2. data = [d EXCEPT ![i] = x]
    OBVIOUS
  <2> HIDE DEF d, x, data
  <2>3. data \in Seq(S) /\ Len(data) = Len(d) /\ \A j \in 1 .. Len(d) : data[j] = IF j = i THEN x ELSE d[j]
    BY <2>1, <2>2, ExceptSeq
  <2> QED
    BY <2>3 DEF d, x
<1> HIDE DEF data
<1>3. kept = [data |-> data, count |-> n, capacity |-> l.capacity]
  <2>1. l \in [data : Seq(S), count : Nat, capacity : Nat]
    BY <1>1
  <2>2. kept = [l EXCEPT !.data = data, !.count = n]
    OBVIOUS
  <2> HIDE DEF kept, n
  <2> QED
    BY <2>1, <2>2
<1>4. r = q
  BY <1>1 DEF UListRemove, Done, Failed, data
<1>5. kept \in [data : Seq(S), count : Nat, capacity : Nat]
      /\ kept.data = data /\ kept.count = n /\ kept.capacity = l.capacity
  BY <1>1, <1>2, <1>3
<1> HIDE DEF kept, n
<1>6. c \in Nat /\ c >= n /\ c >= MinimumCapacity
  BY <1>1, FitIsEnough DEF n
<1>7. CASE n < l.capacity \div 2
  <2>1. r = Reserve(kept, n, ok) /\ c = BestCapacityFit(kept.capacity, n)
    BY <1>4, <1>5, <1>7 DEF n
  <2>2. /\ r.sts \in {0, -1} /\ (ok => r.sts = 0) /\ (c = kept.capacity => r.sts = 0)
        /\ r.list \in [data : Seq(S), count : Nat, capacity : Nat]
        /\ r.list.count = kept.count
        /\ r.sts # 0 => r.list = kept
        /\ r.sts = 0 => r.list.capacity = c /\ c <= Len(r.list.data)
        /\ r.sts = 0 /\ c # kept.capacity => c = Len(r.list.data)
        /\ \A j \in 1 .. kept.capacity : j <= Len(r.list.data) => r.list.data[j] = kept.data[j]
    <3>1. kept.capacity <= Len(kept.data) \/ Len(kept.data) = c
      BY <1>1, <1>2, <1>5
    <3>2. MinimumCapacity <= kept.capacity \/ kept.capacity = 0
      BY <1>1, <1>5
    <3> QED
      BY <1>1, <1>5, <2>1, <3>1, <3>2, ReserveKeeps
  <2>3. Len(r.list.data) \in Nat /\ (r.sts = 0 /\ c = kept.capacity => r.list = kept)
    <3>1. Len(r.list.data) \in Nat
      BY <2>2, LenProperties
    <3>2. c = kept.capacity => r = [list |-> kept, sts |-> 0]
      BY <2>1 DEF Reserve, Done
    <3> QED
      BY <3>1, <3>2
  <2>4. \A j \in 1 .. l.count : j <= Len(r.list.data) =>
          r.list.data[j] = IF j = i THEN l.data[l.count] ELSE l.data[j]
    <3> SUFFICES ASSUME NEW j \in 1 .. l.count, j <= Len(r.list.data)
                 PROVE  r.list.data[j] = IF j = i THEN l.data[l.count] ELSE l.data[j]
      OBVIOUS
    <3>1. j \in 1 .. kept.capacity /\ j \in 1 .. Len(l.data)
      BY <1>1, <1>5
    <3>2. r.list.data[j] = kept.data[j]
      BY <2>2, <3>1
    <3> QED
      BY <1>2, <1>5, <3>1, <3>2
  <2>5. r.sts = 0 => Whole(r.list, S) /\ r.list.capacity = c
                     /\ Len(r.list.data) = IF c # l.capacity THEN c ELSE Len(l.data)
    <3> SUFFICES ASSUME r.sts = 0
                 PROVE  /\ Whole(r.list, S) /\ r.list.capacity = c
                        /\ Len(r.list.data) = IF c # l.capacity THEN c ELSE Len(l.data)
      OBVIOUS
    <3>1. r.list.capacity = c /\ c <= Len(r.list.data) /\ r.list.count = n
      BY <1>5, <2>2
    <3>2. Whole(r.list, S)
      BY <1>6, <2>2, <3>1 DEF Whole, Holds
    <3>3. Len(r.list.data) = IF c # l.capacity THEN c ELSE Len(l.data)
      BY <1>2, <1>5, <2>2, <2>3
    <3> QED
      BY <3>1, <3>2, <3>3
  <2>6. r.sts # 0 => c # l.capacity /\ r.list.capacity = l.capacity /\ Len(r.list.data) = Len(l.data)
    BY <1>2, <1>5, <2>2
  <2>7. Whole(l, S) /\ r.sts # 0 => Whole(r.list, S)
    BY <1>1, <1>2, <1>5, <2>2 DEF Whole, Holds
  <2> QED
    BY <1>5, <1>7, <2>2, <2>4, <2>5, <2>6, <2>7 DEF n
<1>8. CASE ~ (n < l.capacity \div 2)
  <2>1. r = [list |-> kept, sts |-> 0]
    BY <1>4, <1>5, <1>8 DEF Done
  <2>2. r.list = kept /\ r.sts = 0
    BY <2>1
  <2>3. Whole(kept, S)
    BY <1>1, <1>2, <1>5, <1>8 DEF Whole, Holds
  <2>4. \A j \in 1 .. l.count : j <= Len(kept.data) =>
          kept.data[j] = IF j = i THEN l.data[l.count] ELSE l.data[j]
    <3> SUFFICES ASSUME NEW j \in 1 .. l.count
                 PROVE  data[j] = IF j = i THEN l.data[l.count] ELSE l.data[j]
      BY <1>5
    <3>1. j \in 1 .. Len(l.data)
      BY <1>1
    <3> QED
      BY <1>2, <3>1
  <2> QED
    BY <1>2, <1>5, <1>8, <2>2, <2>3, <2>4 DEF n
<1> QED
  BY <1>7, <1>8

-----------------------------------------------------------------------------
(* TdsMap: two arrays of one length, of which one may fail.                *)

(* A map whose keys and values are in S.                                   *)
MapHolds(m, S) ==
  /\ m \in [keys : Seq(S), values : Seq(S), count : Nat, capacity : Nat]
  /\ Holds(Column(m, m.keys), S) /\ Holds(Column(m, m.values), S)

MapWhole(m, S) ==
  /\ MapHolds(m, S)
  /\ m.capacity <= Len(m.keys) /\ m.capacity <= Len(m.values)
  /\ Settled(m.capacity, m.count)

(* What a column is.                                                       *)
LEMMA ColumnIs ==
  ASSUME NEW m, NEW d
  PROVE  /\ Column(m, d) = [data |-> d, count |-> m.count, capacity |-> m.capacity]
         /\ Column(m, d).data = d /\ Column(m, d).count = m.count
         /\ Column(m, d).capacity = m.capacity
BY DEF Column

(* Both columns hold the entries that are counted.                         *)
LEMMA MapWholeColumns ==
  ASSUME NEW S, NEW m, MapWhole(m, S)
  PROVE  /\ Whole(Column(m, m.keys), S) /\ Whole(Column(m, m.values), S)
         /\ m.count \in Nat /\ m.capacity \in Nat /\ m.count <= m.capacity
         /\ MinimumCapacity <= m.capacity
         /\ m.keys \in Seq(S) /\ m.values \in Seq(S)
         /\ Len(m.keys) \in Nat /\ Len(m.values) \in Nat
         /\ m.count <= Len(m.keys) /\ m.count <= Len(m.values)
<1>1. /\ m.count \in Nat /\ m.capacity \in Nat /\ m.keys \in Seq(S) /\ m.values \in Seq(S)
      /\ m.capacity <= Len(m.keys) /\ m.capacity <= Len(m.values)
      /\ Holds(Column(m, m.keys), S) /\ Holds(Column(m, m.values), S)
  BY DEF MapWhole, MapHolds
<1>2. Whole(Column(m, m.keys), S) /\ Whole(Column(m, m.values), S)
  BY <1>1, ColumnIs DEF Whole
<1>3. m.count <= m.capacity /\ MinimumCapacity <= m.capacity
  BY <1>1, ColumnIs DEF Holds
<1>4. Len(m.keys) \in Nat /\ Len(m.values) \in Nat
  BY <1>1, LenProperties
<1> QED
  BY <1>1, <1>2, <1>3, <1>4

(* A map of two columns that are whole.                                    *)
LEMMA MapOfColumns ==
  ASSUME NEW S, NEW ks, NEW vs, NEW n, NEW c,
         Whole([data |-> ks, count |-> n, capacity |-> c], S),
         Whole([data |-> vs, count |-> n, capacity |-> c], S), Settled(c, n),
         NEW m, m = [keys |-> ks, values |-> vs, count |-> n, capacity |-> c]
  PROVE  MapWhole(m, S)
<1>1. Column(m, m.keys) = [data |-> ks, count |-> n, capacity |-> c]
      /\ Column(m, m.values) = [data |-> vs, count |-> n, capacity |-> c]
  BY DEF Column
<1>2. m.keys = ks /\ m.values = vs /\ m.count = n /\ m.capacity = c
  OBVIOUS
<1>3. /\ [data |-> ks, count |-> n, capacity |-> c] \in [data : Seq(S), count : Nat, capacity : Nat]
      /\ [data |-> vs, count |-> n, capacity |-> c] \in [data : Seq(S), count : Nat, capacity : Nat]
      /\ c <= Len(ks) /\ c <= Len(vs)
  BY DEF Whole, Holds
<1>4. ks \in Seq(S) /\ vs \in Seq(S) /\ n \in Nat /\ c \in Nat
  BY <1>3
<1> QED
  BY <1>1, <1>2, <1>3, <1>4 DEF MapWhole, MapHolds, Whole

(* A list is its three fields.                                             *)
LEMMA ListIs ==
  ASSUME NEW S, NEW l, Whole(l, S)
  PROVE  l = [data |-> l.data, count |-> l.count, capacity |-> l.capacity]
BY DEF Whole, Holds

(* tds_ulist_create.                                                       *)
LEMMA CreateKeeps ==
  ASSUME NEW S, Zero \in S, NEW ok \in BOOLEAN, NEW r, r = UListCreate(ok)
  PROVE  /\ r.sts \in {0, -1} /\ (ok => r.sts = 0)
         /\ r.sts = 0 => /\ Whole(r.list, S) /\ r.list.count = 0
                         /\ r.list.capacity = BestCapacityFit(0, 1)
<1> DEFINE c == BestCapacityFit(0, 1)
           l == NoList
<1>1. c \in Nat /\ c >= 1 /\ c >= MinimumCapacity
  BY FitIsEnough
<1>2. l \in [data : Seq(S), count : Nat, capacity : Nat] /\ l.capacity = 0 /\ l.count = 0
      /\ Len(l.data) = 0
  <2>1. l = [data |-> << >>, count |-> 0, capacity |-> 0]
    BY DEF NoList
  <2>2. << >> \in Seq(S) /\ Len(<< >>) = 0
    BY EmptySeq
  <2> DEFINE e == << >>
  <2>3. l = [data |-> e, count |-> 0, capacity |-> 0] /\ e \in Seq(S) /\ Len(e) = 0
    BY <2>1, <2>2
  <2> HIDE DEF l, e
  <2> QED
    BY <2>3
<1>3. r = Reserve(l, 1, ok) /\ c = BestCapacityFit(l.capacity, 1)
  BY <1>2 DEF UListCreate
<1> HIDE DEF l, c
<1>4. /\ r.sts \in {0, -1} /\ (ok => r.sts = 0) /\ (c = l.capacity => r.sts = 0)
      /\ r.list \in [data : Seq(S), count : Nat, capacity : Nat]
      /\ r.list.count = l.count
      /\ r.sts = 0 => r.list.capacity = c /\ c <= Len(r.list.data)
  BY <1>2, <1>3, ReserveKeeps
<1>5. r.sts = 0 => Whole(r.list, S)
  BY <1>1, <1>2, <1>4 DEF Whole, Holds
<1> QED
  BY <1>2, <1>4, <1>5 DEF c

(* tds_map_create: both arrays, or none.                                   *)
LEMMA MapCreateKeeps ==
  ASSUME NEW S, Zero \in S, NEW bad, NEW r, r = MapCreate(bad)
  PROVE  /\ r.sts \in {0, -1} /\ (bad = {} => r.sts = 0)
         /\ r.sts = 0 => MapWhole(r.map, S) /\ r.map.count = 0
<1> DEFINE key   == UListCreate("keys" \notin bad)
           value == UListCreate("values" \notin bad)
           m == [keys |-> key.list.data, values |-> value.list.data,
                 count |-> key.list.count, capacity |-> key.list.capacity]
<1>1. /\ key.sts \in {0, -1} /\ (bad = {} => key.sts = 0)
      /\ key.sts = 0 => /\ Whole(key.list, S) /\ key.list.count = 0
                        /\ key.list.capacity = BestCapacityFit(0, 1)
  <2>1. ("keys" \notin bad) \in BOOLEAN
    OBVIOUS
  <2> QED
    BY <2>1, CreateKeeps
<1>2. /\ value.sts \in {0, -1} /\ (bad = {} => value.sts = 0)
      /\ value.sts = 0 => /\ Whole(value.list, S) /\ value.list.count = 0
                          /\ value.list.capacity = BestCapacityFit(0, 1)
  <2>1. ("values" \notin bad) \in BOOLEAN
    OBVIOUS
  <2> QED
    BY <2>1, CreateKeeps
<1>3. r = IF key.sts # 0 \/ value.sts # 0 THEN [map |-> NoMap, sts |-> -1] ELSE [map |-> m, sts |-> 0]
  BY DEF MapCreate
<1> HIDE DEF key, value
<1>4. CASE key.sts # 0 \/ value.sts # 0
  BY <1>1, <1>2, <1>3, <1>4
<1>5. CASE key.sts = 0 /\ value.sts = 0
  <2>1. /\ key.list = [data |-> key.list.data, count |-> 0, capacity |-> BestCapacityFit(0, 1)]
        /\ value.list = [data |-> value.list.data, count |-> 0, capacity |-> BestCapacityFit(0, 1)]
    BY <1>1, <1>2, <1>5, ListIs
  <2>2. m = [keys |-> key.list.data, values |-> value.list.data,
             count |-> 0, capacity |-> BestCapacityFit(0, 1)]
    BY <1>1, <1>5
  <2> DEFINE c  == BestCapacityFit(0, 1)
             ks == key.list.data
             vs == value.list.data
  <2>3. /\ Whole([data |-> ks, count |-> 0, capacity |-> c], S)
        /\ Whole([data |-> vs, count |-> 0, capacity |-> c], S)
    BY <1>1, <1>2, <1>5, <2>1
  <2>4. Settled(c, 0)
    BY SettledFirst
  <2>5. m = [keys |-> ks, values |-> vs, count |-> 0, capacity |-> c]
    BY <2>2
  <2>6. r.sts = 0 /\ r.map = m
    BY <1>3, <1>5
  <2> HIDE DEF c, ks, vs, m
  <2>7. MapWhole(m, S)
    BY <2>3, <2>4, <2>5, MapOfColumns
  <2>8. m.count = 0
    BY <2>5
  <2> QED
    BY <1>5, <2>6, <2>7, <2>8
<1> QED
  BY <1>1, <1>2, <1>4, <1>5

(* tds_map_add: an entry more, or the entries there were.  The new entry   *)
(* could be taken back without making the arrays smaller.                  *)
LEMMA MapAddKeeps ==
  ASSUME NEW S, Zero \in S, NEW m, MapWhole(m, S), NEW k \in S, NEW v \in S, NEW bad,
         NEW r, r = MapAdd(m, k, v, bad)
  PROVE  /\ r.sts \in {0, -1} /\ (bad = {} => r.sts = 0)
         /\ MapWhole(r.map, S)
         /\ \A i \in 1 .. m.count : r.map.keys[i] = m.keys[i] /\ r.map.values[i] = m.values[i]
         /\ r.sts # 0 => r.map.count = m.count
         /\ r.sts = 0 => /\ r.map.count = m.count + 1
                         /\ r.map.keys[m.count + 1] = k /\ r.map.values[m.count + 1] = v
                         /\ Settled(r.map.capacity, m.count)
<1> DEFINE n     == m.count
           c     == IF n + 1 > m.capacity THEN BestCapacityFit(m.capacity, n + 1) ELSE m.capacity
           key   == UListAdd(Column(m, m.keys), k, "keys" \notin bad)
           value == UListAdd(Column(m, m.values), v, "values" \notin bad)
           ks    == key.list.data
           vs    == value.list.data
           grown == [m EXCEPT !.keys = key.list.data, !.values = value.list.data]
           full  == [grown EXCEPT !.count = @ + 1, !.capacity = key.list.capacity]
<1>1. /\ n \in Nat /\ m.capacity \in Nat /\ n <= m.capacity /\ MinimumCapacity <= m.capacity
      /\ Whole(Column(m, m.keys), S) /\ Whole(Column(m, m.values), S)
      /\ m \in [keys : Seq(S), values : Seq(S), count : Nat, capacity : Nat]
      /\ Settled(m.capacity, n) /\ n <= Len(m.keys) /\ n <= Len(m.values)
  BY MapWholeColumns DEF MapWhole, MapHolds
<1>2. /\ key.sts \in {0, -1} /\ (bad = {} => key.sts = 0)
      /\ key.sts # 0 => key.list = Column(m, m.keys)
      /\ key.sts = 0 => /\ Whole(key.list, S) /\ key.list.count = n + 1 /\ key.list.capacity = c
                        /\ ks[n + 1] = k /\ \A i \in 1 .. n : ks[i] = m.keys[i]
  <2> DEFINE l == Column(m, m.keys)
             ok == "keys" \notin bad
  <2>1. ok \in BOOLEAN /\ (bad = {} => ok) /\ key = UListAdd(l, k, ok) /\ Whole(l, S)
    BY <1>1
  <2>2. l.data = m.keys /\ l.count = n /\ l.capacity = m.capacity
    BY ColumnIs
  <2> HIDE DEF l, ok, key
  <2>3. /\ key.sts \in {0, -1} /\ (ok => key.sts = 0)
        /\ key.sts # 0 => key.list = l
        /\ key.sts = 0 =>
              /\ Whole(key.list, S) /\ key.list.count = l.count + 1
              /\ key.list.capacity = IF l.count + 1 > l.capacity
                                     THEN BestCapacityFit(l.capacity, l.count + 1) ELSE l.capacity
              /\ key.list.data[l.count + 1] = k
              /\ \A i \in 1 .. l.count : key.list.data[i] = l.data[i]
    BY SMTT(25), <2>1, AddKeeps
  <2> QED
    BY <2>1, <2>2, <2>3 DEF l
<1>3. /\ value.sts \in {0, -1} /\ (bad = {} => value.sts = 0)
      /\ value.sts # 0 => value.list = Column(m, m.values)
      /\ value.sts = 0 => /\ Whole(value.list, S) /\ value.list.count = n + 1 /\ value.list.capacity = c
                          /\ vs[n + 1] = v /\ \A i \in 1 .. n : vs[i] = m.values[i]
  <2> DEFINE l == Column(m, m.values)
             ok == "values" \notin bad
  <2>1. ok \in BOOLEAN /\ (bad = {} => ok) /\ value = UListAdd(l, v, ok) /\ Whole(l, S)
    BY <1>1
  <2>2. l.data = m.values /\ l.count = n /\ l.capacity = m.capacity
    BY ColumnIs
  <2> HIDE DEF l, ok, value
  <2>3. /\ value.sts \in {0, -1} /\ (ok => value.sts = 0)
        /\ value.sts # 0 => value.list = l
        /\ value.sts = 0 =>
              /\ Whole(value.list, S) /\ value.list.count = l.count + 1
              /\ value.list.capacity = IF l.count + 1 > l.capacity
                                       THEN BestCapacityFit(l.capacity, l.count + 1) ELSE l.capacity
              /\ value.list.data[l.count + 1] = v
              /\ \A i \in 1 .. l.count : value.list.data[i] = l.data[i]
    BY SMTT(25), <2>1, AddKeeps
  <2> QED
    BY <2>1, <2>2, <2>3 DEF l
<1>4. r = IF key.sts # 0 \/ value.sts # 0 THEN [map |-> grown, sts |-> -1] ELSE [map |-> full, sts |-> 0]
  BY DEF MapAdd
<1>5. m.capacity <= c /\ c \in Nat
  <2> DEFINE o == m.capacity
             w == n + 1
  <2>1. o \in Nat /\ w \in Nat /\ o >= MinimumCapacity /\ c = IF w > o THEN BestCapacityFit(o, w) ELSE o
    BY <1>1
  <2> HIDE DEF o, w, c
  <2>2. BestCapacityFit(o, w) \in Nat /\ BestCapacityFit(o, w) >= w
    BY <2>1, FitIsEnough
  <2>3. o <= c /\ c \in Nat
    BY <2>1, <2>2
  <2> QED
    BY <2>3 DEF o
<1> HIDE DEF key, value, c
<1>6. grown = [keys |-> ks, values |-> vs, count |-> n, capacity |-> m.capacity]
  <2>1. m \in [keys : Seq(S), values : Seq(S), count : Nat, capacity : Nat]
    BY <1>1
  <2>2. grown = [m EXCEPT !.keys = ks, !.values = vs]
    OBVIOUS
  <2> HIDE DEF grown, ks, vs
  <2> QED
    BY <2>1, <2>2
<1>7. full = [keys |-> ks, values |-> vs, count |-> n + 1, capacity |-> key.list.capacity]
  <2> DEFINE cap == key.list.capacity
  <2>1. full = [grown EXCEPT !.count = @ + 1, !.capacity = cap]
    OBVIOUS
  <2> HIDE DEF grown, full, ks, vs, n, cap
  <2>2. full = [keys |-> ks, values |-> vs, count |-> n + 1, capacity |-> cap]
    BY <1>6, <2>1
  <2> QED
    BY <2>2 DEF cap
<1> HIDE DEF grown, full
<1>8. CASE key.sts # 0 \/ value.sts # 0
  (* Each column is as it was, or has an entry more that is not counted.   *)
  <2>1. r.map = grown /\ r.sts = -1
    BY <1>4, <1>8
  <2>2. ks \in Seq(S) /\ m.capacity <= Len(ks) /\ \A i \in 1 .. n : ks[i] = m.keys[i]
    <3>1. CASE key.sts # 0
      BY <1>1, <1>2, <3>1, ColumnIs DEF MapWhole, Whole, Holds
    <3>2. CASE key.sts = 0
      <4>1. Whole(key.list, S) /\ key.list.capacity = c
        BY <1>2, <3>2
      <4>2. ks \in Seq(S) /\ c <= Len(ks) /\ Len(ks) \in Nat
        BY <4>1, LenProperties DEF Whole, Holds
      <4>3. m.capacity <= c /\ c \in Nat
        BY <1>5
      <4> QED
        BY <1>1, <1>2, <3>2, <4>2, <4>3
    <3> QED
      BY <3>1, <3>2
  <2>3. vs \in Seq(S) /\ m.capacity <= Len(vs) /\ \A i \in 1 .. n : vs[i] = m.values[i]
    <3>1. CASE value.sts # 0
      BY <1>1, <1>3, <3>1, ColumnIs DEF MapWhole, Whole, Holds
    <3>2. CASE value.sts = 0
      <4>1. Whole(value.list, S) /\ value.list.capacity = c
        BY <1>3, <3>2
      <4>2. vs \in Seq(S) /\ c <= Len(vs) /\ Len(vs) \in Nat
        BY <4>1, LenProperties DEF Whole, Holds
      <4>3. m.capacity <= c /\ c \in Nat
        BY <1>5
      <4> QED
        BY <1>1, <1>3, <3>2, <4>2, <4>3
    <3> QED
      BY <3>1, <3>2
  <2> HIDE DEF ks, vs
  <2>4. /\ Whole([data |-> ks, count |-> n, capacity |-> m.capacity], S)
        /\ Whole([data |-> vs, count |-> n, capacity |-> m.capacity], S)
    BY <1>1, <2>2, <2>3 DEF Whole, Holds
  <2>5. MapWhole(grown, S)
    BY <1>1, <1>6, <2>4, MapOfColumns
  <2>6. grown.keys = ks /\ grown.values = vs /\ grown.count = n
    BY <1>6
  <2> QED
    BY <1>2, <1>3, <1>8, <2>1, <2>2, <2>3, <2>5, <2>6
<1>9. CASE key.sts = 0 /\ value.sts = 0
  <2>1. r.map = full /\ r.sts = 0
    BY <1>4, <1>9
  <2>2. /\ Whole(key.list, S) /\ key.list.count = n + 1 /\ key.list.capacity = c
        /\ Whole(value.list, S) /\ value.list.count = n + 1 /\ value.list.capacity = c
    BY <1>2, <1>3, <1>9
  <2>3. /\ key.list = [data |-> ks, count |-> n + 1, capacity |-> c]
        /\ value.list = [data |-> vs, count |-> n + 1, capacity |-> c]
    BY <2>2, ListIs
  <2>4. /\ Whole([data |-> ks, count |-> n + 1, capacity |-> c], S)
        /\ Whole([data |-> vs, count |-> n + 1, capacity |-> c], S)
    BY <2>2, <2>3
  <2>5. Settled(c, n + 1) /\ Settled(c, n)
    <3>1. CASE n + 1 > m.capacity
      BY <1>1, <3>1, SettledGrow DEF c
    <3>2. CASE ~ (n + 1 > m.capacity)
      BY <1>1, <3>2, SettledAdd DEF c
    <3> QED
      BY <3>1, <3>2
  <2>6. full = [keys |-> ks, values |-> vs, count |-> n + 1, capacity |-> c]
    BY <1>7, <2>2
  <2>7. ks[n + 1] = k /\ vs[n + 1] = v /\ \A i \in 1 .. n : ks[i] = m.keys[i] /\ vs[i] = m.values[i]
    BY <1>2, <1>3, <1>9
  <2> HIDE DEF ks, vs, n
  <2>8. MapWhole(full, S)
    BY <2>4, <2>5, <2>6, MapOfColumns
  <2>9. full.keys = ks /\ full.values = vs /\ full.count = n + 1 /\ full.capacity = c
    BY <2>6
  <2> QED
    BY <2>1, <2>5, <2>7, <2>8, <2>9 DEF n
<1> QED
  BY <1>2, <1>3, <1>8, <1>9

(* tds_ulist_remove of a column, in the terms of the map.                  *)
LEMMA ColumnRemoveKeeps ==
  ASSUME NEW S, Zero \in S, NEW l, Holds(l, S), l.count <= Len(l.data),
         NEW i \in 1 .. l.count, NEW ok \in BOOLEAN,
         NEW c, c = BestCapacityFit(l.capacity, l.count - 1),
         NEW fits, fits = ~ (l.count - 1 < l.capacity \div 2 /\ c # l.capacity),
         NEW r, r = UListRemove(l, i, ok), NEW d, d = r.list.data
  PROVE  /\ r.sts \in {0, -1} /\ (ok \/ fits => r.sts = 0)
         /\ d \in Seq(S)
         /\ \A j \in 1 .. l.count : j <= Len(d) => d[j] = IF j = i THEN l.data[l.count] ELSE l.data[j]
         /\ r.sts = 0 =>
              /\ r.list.count = l.count - 1
              /\ r.list.capacity = IF l.count - 1 < l.capacity \div 2 THEN c ELSE l.capacity
              /\ Whole([data |-> d, count |-> l.count - 1, capacity |-> r.list.capacity], S)
         /\ ~ fits => Holds([data |-> d, count |-> l.count, capacity |-> l.capacity], S)
<1> DEFINE n == l.count
           cap == l.capacity
<1>1. /\ r.sts \in {0, -1} /\ (ok => r.sts = 0)
      /\ r.list \in [data : Seq(S), count : Nat, capacity : Nat] /\ r.list.count = n - 1
      /\ \A j \in 1 .. n : j <= Len(d) => d[j] = IF j = i THEN l.data[n] ELSE l.data[j]
      /\ r.sts = 0 =>
           /\ Whole(r.list, S)
           /\ r.list.capacity = IF n - 1 < cap \div 2 THEN c ELSE cap
           /\ Len(d) = IF n - 1 < cap \div 2 /\ c # cap THEN c ELSE Len(l.data)
      /\ r.sts # 0 =>
           /\ n - 1 < cap \div 2 /\ c # cap
           /\ r.list.capacity = cap /\ Len(d) = Len(l.data)
  BY RemoveKeeps
<1>2. d \in Seq(S)
  BY <1>1
<1>3. r.sts = 0 => Whole([data |-> d, count |-> n - 1, capacity |-> r.list.capacity], S)
  <2> SUFFICES ASSUME r.sts = 0
               PROVE  Whole([data |-> d, count |-> n - 1, capacity |-> r.list.capacity], S)
    OBVIOUS
  <2>1. r.list = [data |-> d, count |-> n - 1, capacity |-> r.list.capacity]
    BY <1>1, ListIs
  <2> QED
    BY <1>1, <2>1
<1>4. ASSUME ~ fits
      PROVE  Holds([data |-> d, count |-> n, capacity |-> cap], S)
  <2>1. /\ n \in Nat /\ cap \in Nat /\ n <= cap /\ MinimumCapacity <= cap /\ n # 0
        /\ n - 1 < cap \div 2 /\ c # cap
        /\ cap <= Len(l.data) \/ Len(l.data) = c
    <3>1. /\ n \in Nat /\ cap \in Nat /\ n <= cap /\ MinimumCapacity <= cap
          /\ cap <= Len(l.data) \/ Len(l.data) = c
      BY DEF Holds
    <3>2. n - 1 < cap \div 2 /\ c # cap
      BY <1>4, Zenon
    <3>3. n # 0
      BY <3>1
    <3> QED
      BY <3>1, <3>2, <3>3
  <2>2. Len(d) = c \/ Len(d) = Len(l.data)
    BY <1>1, <2>1
  <2>3. cap <= Len(d) \/ Len(d) = BestCapacityFit(cap, n - 1)
    BY <2>1, <2>2
  <2> DEFINE q == [data |-> d, count |-> n, capacity |-> cap]
  <2>4. q.data = d /\ q.count = n /\ q.capacity = cap /\ q \in [data : Seq(S), count : Nat, capacity : Nat]
    BY <1>2, <2>1
  <2> HIDE DEF q
  <2>5. Holds(q, S)
    BY <2>1, <2>3, <2>4 DEF Holds
  <2> QED
    BY <2>5 DEF q
<1> QED
  BY <1>1, <1>2, <1>3, <1>4

(* tds_map_remove, of a map that holds what it counts: an entry less, or   *)
(* a map of which a column was made smaller and the count was not.         *)
LEMMA MapRemoveKeeps ==
  ASSUME NEW S, Zero \in S, NEW m, MapHolds(m, S), ~ Damaged(m),
         NEW i \in 1 .. m.count, NEW bad, NEW r, r = MapRemove(m, i, bad)
  PROVE  /\ r.sts \in {0, -2} /\ (bad = {} \/ Settled(m.capacity, m.count - 1) => r.sts = 0)
         /\ MapHolds(r.map, S)
         /\ r.sts = 0 => MapWhole(r.map, S) /\ r.map.count = m.count - 1
         /\ r.sts # 0 => r.map.count = m.count
         /\ \A j \in 1 .. m.count :
              /\ j <= Len(r.map.keys) => r.map.keys[j] = IF j = i THEN m.keys[m.count] ELSE m.keys[j]
              /\ j <= Len(r.map.values) =>
                   r.map.values[j] = IF j = i THEN m.values[m.count] ELSE m.values[j]
<1> DEFINE n     == m.count
           cap   == m.capacity
           c     == BestCapacityFit(cap, n - 1)
           fits  == ~ (n - 1 < cap \div 2 /\ c # cap)
           key   == UListRemove(Column(m, m.keys), i, "keys" \notin bad)
           value == UListRemove(Column(m, m.values), i, "values" \notin bad)
           ks    == key.list.data
           vs    == value.list.data
           moved == [m EXCEPT !.keys = key.list.data, !.values = value.list.data]
           less  == [moved EXCEPT !.count = key.list.count, !.capacity = key.list.capacity]
<1>1. /\ n \in Nat /\ cap \in Nat /\ m.keys \in Seq(S) /\ m.values \in Seq(S)
      /\ Holds(Column(m, m.keys), S) /\ Holds(Column(m, m.values), S)
      /\ m \in [keys : Seq(S), values : Seq(S), count : Nat, capacity : Nat]
      /\ n <= Len(m.keys) /\ n <= Len(m.values) /\ n # 0 /\ i <= n
  BY LenProperties DEF MapHolds, Damaged
<1>2. /\ key.sts \in {0, -1} /\ ("keys" \notin bad \/ fits => key.sts = 0)
      /\ ks \in Seq(S)
      /\ \A j \in 1 .. n : j <= Len(ks) => ks[j] = IF j = i THEN m.keys[n] ELSE m.keys[j]
      /\ key.sts = 0 =>
           /\ key.list.count = n - 1
           /\ key.list.capacity = IF n - 1 < cap \div 2 THEN c ELSE cap
           /\ Whole([data |-> ks, count |-> n - 1, capacity |-> key.list.capacity], S)
      /\ ~ fits => Holds([data |-> ks, count |-> n, capacity |-> cap], S)
  <2> DEFINE l == Column(m, m.keys)
             ok == "keys" \notin bad
  <2>1. ok \in BOOLEAN /\ (bad = {} => ok) /\ key = UListRemove(l, i, ok) /\ Holds(l, S)
    BY <1>1
  <2>2. l.data = m.keys /\ l.count = n /\ l.capacity = cap
    BY ColumnIs
  <2>3. c = BestCapacityFit(l.capacity, l.count - 1) /\ l.count <= Len(l.data) /\ i \in 1 .. l.count
        /\ fits = ~ (l.count - 1 < l.capacity \div 2 /\ c # l.capacity)
    BY <1>1, <2>2
  <2> HIDE DEF l, ok, key, c, fits
  <2>4. /\ key.sts \in {0, -1} /\ (ok \/ fits => key.sts = 0)
        /\ ks \in Seq(S)
        /\ \A j \in 1 .. l.count : j <= Len(ks) =>
             ks[j] = IF j = i THEN l.data[l.count] ELSE l.data[j]
        /\ key.sts = 0 =>
             /\ key.list.count = l.count - 1
             /\ key.list.capacity = IF l.count - 1 < l.capacity \div 2 THEN c ELSE l.capacity
             /\ Whole([data |-> ks, count |-> l.count - 1, capacity |-> key.list.capacity], S)
        /\ ~ fits => Holds([data |-> ks, count |-> l.count, capacity |-> l.capacity], S)
    BY <2>1, <2>3, ColumnRemoveKeeps
  <2> HIDE DEF ks
  <2> QED
    BY <2>2, <2>4 DEF ok
<1>3. /\ value.sts \in {0, -1} /\ ("values" \notin bad \/ fits => value.sts = 0)
      /\ vs \in Seq(S)
      /\ \A j \in 1 .. n : j <= Len(vs) => vs[j] = IF j = i THEN m.values[n] ELSE m.values[j]
      /\ value.sts = 0 =>
           /\ value.list.capacity = IF n - 1 < cap \div 2 THEN c ELSE cap
           /\ Whole([data |-> vs, count |-> n - 1, capacity |-> value.list.capacity], S)
      /\ ~ fits => Holds([data |-> vs, count |-> n, capacity |-> cap], S)
  <2> DEFINE l == Column(m, m.values)
             ok == "values" \notin bad
  <2>1. ok \in BOOLEAN /\ (bad = {} => ok) /\ value = UListRemove(l, i, ok) /\ Holds(l, S)
    BY <1>1
  <2>2. l.data = m.values /\ l.count = n /\ l.capacity = cap
    BY ColumnIs
  <2>3. c = BestCapacityFit(l.capacity, l.count - 1) /\ l.count <= Len(l.data) /\ i \in 1 .. l.count
        /\ fits = ~ (l.count - 1 < l.capacity \div 2 /\ c # l.capacity)
    BY <1>1, <2>2
  <2> HIDE DEF l, ok, value, c, fits
  <2>4. /\ value.sts \in {0, -1} /\ (ok \/ fits => value.sts = 0)
        /\ vs \in Seq(S)
        /\ \A j \in 1 .. l.count : j <= Len(vs) =>
             vs[j] = IF j = i THEN l.data[l.count] ELSE l.data[j]
        /\ value.sts = 0 =>
             /\ value.list.capacity = IF l.count - 1 < l.capacity \div 2 THEN c ELSE l.capacity
             /\ Whole([data |-> vs, count |-> l.count - 1, capacity |-> value.list.capacity], S)
        /\ ~ fits => Holds([data |-> vs, count |-> l.count, capacity |-> l.capacity], S)
    BY <2>1, <2>3, ColumnRemoveKeeps
  <2> HIDE DEF vs
  <2> QED
    BY <2>2, <2>4 DEF ok
<1>4. r = IF key.sts # 0 \/ value.sts # 0 THEN [map |-> moved, sts |-> -2] ELSE [map |-> less, sts |-> 0]
  <2>1. ~ (i > m.count)
    BY <1>1
  <2> QED
    BY <2>1 DEF MapRemove
<1> HIDE DEF key, value
<1>5. moved = [keys |-> ks, values |-> vs, count |-> n, capacity |-> cap]
  <2>1. m \in [keys : Seq(S), values : Seq(S), count : Nat, capacity : Nat]
    BY <1>1
  <2>2. moved = [m EXCEPT !.keys = ks, !.values = vs]
    OBVIOUS
  <2> HIDE DEF moved, ks, vs
  <2> QED
    BY <2>1, <2>2
<1>6. less = [keys |-> ks, values |-> vs, count |-> key.list.count, capacity |-> key.list.capacity]
  <2> DEFINE e == key.list.capacity
             w == key.list.count
  <2>1. less = [moved EXCEPT !.count = w, !.capacity = e]
    OBVIOUS
  <2> HIDE DEF moved, less, ks, vs, n, cap, e, w
  <2>2. less = [keys |-> ks, values |-> vs, count |-> w, capacity |-> e]
    BY <1>5, <2>1
  <2> QED
    BY <2>2 DEF e, w
<1> HIDE DEF moved, less
<1>7. Settled(cap, n - 1) => fits
  BY DEF Settled
<1>8. CASE key.sts # 0 \/ value.sts # 0
  <2>1. r.map = moved /\ r.sts = -2 /\ ~ fits
    BY <1>2, <1>3, <1>4, <1>8
  <2>2. /\ Holds([data |-> ks, count |-> n, capacity |-> cap], S)
        /\ Holds([data |-> vs, count |-> n, capacity |-> cap], S)
    BY <1>2, <1>3, <2>1
  <2>3. moved.keys = ks /\ moved.values = vs /\ moved.count = n /\ moved.capacity = cap
    BY <1>5
  <2>4. Column(moved, moved.keys) = [data |-> ks, count |-> n, capacity |-> cap]
        /\ Column(moved, moved.values) = [data |-> vs, count |-> n, capacity |-> cap]
    BY <2>3 DEF Column
  <2>5. moved \in [keys : Seq(S), values : Seq(S), count : Nat, capacity : Nat]
    BY <1>1, <1>2, <1>3, <1>5
  <2>6. MapHolds(moved, S)
    BY <2>2, <2>4, <2>5 DEF MapHolds
  <2> HIDE DEF ks, vs, fits
  <2> QED
    BY <1>2, <1>3, <1>7, <1>8, <2>1, <2>3, <2>6
<1>9. CASE key.sts = 0 /\ value.sts = 0
  <2> DEFINE e == IF n - 1 < cap \div 2 THEN c ELSE cap
             w == n - 1
  <2>1. r.map = less /\ r.sts = 0
    BY <1>4, <1>9
  <2>2. /\ Whole([data |-> ks, count |-> w, capacity |-> e], S)
        /\ Whole([data |-> vs, count |-> w, capacity |-> e], S)
        /\ less = [keys |-> ks, values |-> vs, count |-> w, capacity |-> e]
    BY <1>2, <1>3, <1>6, <1>9
  <2>3. Settled(e, w)
    <3>1. CASE w < cap \div 2
      <4>1. w \in Nat /\ e = BestCapacityFit(cap, w)
        BY <1>1, <3>1
      <4> QED
        BY <1>1, <4>1, SettledShrink
    <3>2. CASE ~ (w < cap \div 2)
      BY <3>2 DEF Settled
    <3> QED
      BY <3>1, <3>2
  <2> HIDE DEF e, w, ks, vs, fits
  <2>4. MapWhole(less, S)
    BY <2>2, <2>3, MapOfColumns
  <2>5. less.keys = ks /\ less.values = vs /\ less.count = w
    BY <2>2
  <2>6. MapHolds(less, S)
    BY <2>4 DEF MapWhole
  <2> QED
    BY <1>2, <1>3, <1>9, <2>1, <2>4, <2>5, <2>6 DEF w
<1> QED
  BY <1>2, <1>3, <1>8, <1>9

-----------------------------------------------------------------------------
(* Sets of positions, in their order.                                      *)

(* A finite set of naturals has its elements in order.                     *)
Increasing(f, n, set) ==
  f \in [1 .. n -> set] /\ \A i, j \in 1 .. n : i < j => f[i] < f[j]

(* A finite set of naturals can be put in order.                           *)
LEMMA OrderExists ==
  ASSUME NEW set \in SUBSET Nat, IsFiniteSet(set)
  PROVE  \E f : Increasing(f, Cardinality(set), set)
<1> DEFINE Ordered(n) == \A s \in SUBSET Nat :
             IsFiniteSet(s) /\ Cardinality(s) = n => \E f : Increasing(f, n, s)
           T == {n \in Nat : Ordered(n)}
<1>1. 0 \in T
  <2> SUFFICES ASSUME NEW s \in SUBSET Nat, Cardinality(s) = 0
               PROVE  \E f : Increasing(f, 0, s)
    OBVIOUS
  <2> DEFINE f == [i \in 1 .. 0 |-> 0]
  <2>1. Increasing(f, 0, s)
    BY DEF Increasing
  <2> QED
    BY <2>1
<1>2. ASSUME NEW n \in T
      PROVE  n + 1 \in T
  <2>1. n \in Nat /\ Ordered(n)
    OBVIOUS
  <2> SUFFICES ASSUME NEW s \in SUBSET Nat, IsFiniteSet(s), Cardinality(s) = n + 1
               PROVE  \E f : Increasing(f, n + 1, s)
    BY <2>1
  <2>2. s # {}
    BY <2>1, FS_EmptySet
  <2>3. PICK x \in s : \A y \in s : x <= y
    BY <2>2, LeastElement
  <2>4. IsFiniteSet(s \ {x}) /\ Cardinality(s \ {x}) = n
    <3>1. x \in s /\ (n + 1) - 1 = n
      BY <2>1
    <3>2. Cardinality(s \ {x}) = Cardinality(s) - 1
      BY <3>1, FS_RemoveElement
    <3>3. IsFiniteSet(s \ {x})
      BY FS_RemoveElement
    <3> QED
      BY <3>1, <3>2, <3>3
  <2>5. PICK g : Increasing(g, n, s \ {x})
    BY <2>1, <2>4
  <2> DEFINE f == [i \in 1 .. n + 1 |-> IF i = 1 THEN x ELSE g[i - 1]]
  <2>6. ASSUME NEW i \in 1 .. n + 1, i # 1
        PROVE  i - 1 \in 1 .. n /\ f[i] = g[i - 1] /\ f[i] \in s /\ x < f[i]
    <3>1. i - 1 \in 1 .. n /\ f[i] = g[i - 1]
      BY <2>1, <2>6
    <3>2. g[i - 1] \in s \ {x}
      BY <2>5, <3>1 DEF Increasing
    <3>3. f[i] \in s /\ f[i] # x
      BY <3>1, <3>2
    <3>4. x \in Nat /\ f[i] \in Nat /\ x <= f[i]
      BY <2>3, <3>3
    <3>5. x < f[i]
      BY <3>3, <3>4
    <3> QED
      BY <3>1, <3>3, <3>5
  <2>7. f[1] = x /\ f \in [1 .. n + 1 -> s]
    BY <2>1, <2>6
  <2>8. ASSUME NEW i \in 1 .. n + 1, NEW j \in 1 .. n + 1, i < j
        PROVE  f[i] < f[j]
    <3>1. CASE i = 1
      BY <2>6, <2>7, <2>8, <3>1
    <3>2. CASE i # 1
      <4>1. j # 1 /\ i - 1 < j - 1
        BY <2>1, <2>8, <3>2
      <4> QED
        BY <2>5, <2>6, <3>2, <4>1 DEF Increasing
    <3> QED
      BY <3>1, <3>2
  <2> HIDE DEF f
  <2>9. Increasing(f, n + 1, s)
    BY <2>7, <2>8 DEF Increasing
  <2> QED
    BY <2>9
<1> HIDE DEF T, Ordered
<1>3. T = Nat
  BY <1>1, <1>2, Induction DEF T
<1>4. Cardinality(set) \in Nat
  BY FS_CardinalityType
<1>5. Ordered(Cardinality(set))
  BY <1>3, <1>4 DEF T
<1> QED
  BY <1>5 DEF Ordered

(* InOrder does that: its CHOOSE has something to choose.                  *)
LEMMA InOrderIs ==
  ASSUME NEW set \in SUBSET Nat, IsFiniteSet(set), NEW f, f = InOrder(set)
  PROVE  /\ Cardinality(set) \in Nat /\ f \in [1 .. Cardinality(set) -> set]
         /\ DOMAIN f = 1 .. Cardinality(set) /\ Len(f) = Cardinality(set)
         /\ \A i, j \in 1 .. Cardinality(set) : i # j => f[i] # f[j]
<1> DEFINE n == Cardinality(set)
           Ordered(g) == \A i, j \in 1 .. n : i < j => g[i] < g[j]
<1>1. n \in Nat
  BY FS_CardinalityType
<1>2. \E g \in [1 .. n -> set] : Ordered(g)
  BY OrderExists DEF Increasing
<1>3. f = CHOOSE g \in [1 .. n -> set] : Ordered(g)
  BY DEF InOrder
<1> HIDE DEF Ordered
<1>4. f \in [1 .. n -> set] /\ Ordered(f)
  BY <1>2, <1>3
<1>5. Len(f) = n
  BY <1>1, <1>4, LenProperties
<1>6. ASSUME NEW i \in 1 .. n, NEW j \in 1 .. n, i # j
      PROVE  f[i] # f[j]
  <2>1. i < j \/ j < i
    BY <1>1, <1>6
  <2>2. f[i] \in Nat /\ f[j] \in Nat
    BY <1>4
  <2> QED
    BY <1>4, <2>1, <2>2 DEF Ordered
<1> QED
  BY <1>1, <1>4, <1>5, <1>6

(* The first place of a socket in a list, if it is there.                  *)
LEMMA FirstOfIs ==
  ASSUME NEW n \in Nat, NEW socks, DOMAIN socks = 1 .. n, NEW s, NEW i, i = FirstOf(socks, s)
  PROVE  /\ (\A j \in 1 .. n : socks[j] # s) => i = 0
         /\ (\E j \in 1 .. n : socks[j] = s) => i \in 1 .. n /\ socks[i] = s
<1> DEFINE at == {j \in DOMAIN socks : socks[j] = s}
           First(k) == \A j \in at : k <= j
<1>1. i = IF at = {} THEN 0 ELSE CHOOSE k \in at : First(k)
  BY DEF FirstOf
<1>2. CASE at = {}
  BY <1>1, <1>2
<1>3. CASE at # {}
  <2>1. at \in SUBSET Nat
    OBVIOUS
  <2>2. \E k \in at : First(k)
    <3> HIDE DEF at
    <3> QED
      BY <1>3, <2>1, LeastElement
  <2>3. i \in at
    <3> HIDE DEF at, First
    <3> QED
      BY <1>1, <1>3, <2>2
  <2> QED
    BY <1>3, <2>3
<1> QED
  BY <1>2, <1>3

(* The sockets of a list.                                                  *)
LEMMA SocksAre ==
  ASSUME NEW S, NEW l, Whole(l, S), NEW socks, socks = Socks(l)
  PROVE  /\ l.count \in Nat /\ socks \in [1 .. l.count -> S]
         /\ DOMAIN socks = 1 .. l.count /\ Len(socks) = l.count
         /\ \A i \in 1 .. l.count : socks[i] = l.data[i]
<1> DEFINE d == l.data
           n == l.count
<1>1. n \in Nat /\ d \in Seq(S) /\ n <= Len(d) /\ Len(d) \in Nat
  BY LenProperties DEF Whole, Holds
<1>2. \A i \in 1 .. n : d[i] \in S
  BY <1>1, ElementOfSeq
<1>3. socks = SubSeq(d, 1, n)
  BY DEF Socks
<1> HIDE DEF d, n
<1>4. 1 \in Int /\ n \in Int
  BY <1>1
<1>5. /\ socks \in Seq(S) /\ Len(socks) = (IF 1 <= n THEN n - 1 + 1 ELSE 0)
      /\ \A i \in 1 .. n - 1 + 1 : socks[i] = d[1 + i - 1]
  BY <1>2, <1>3, <1>4, SubSeqProperties
<1>6. Len(socks) = n /\ \A i \in 1 .. n : socks[i] = d[i]
  BY <1>1, <1>5
<1>7. DOMAIN socks = 1 .. n
  BY <1>5, <1>6, LenProperties
<1> QED
  BY <1>1, <1>2, <1>5, <1>6, <1>7, LenProperties DEF d, n

-----------------------------------------------------------------------------
(* The sockets a list names, and those of a map.                           *)

(* The first n values of a function, and that they are different.          *)
Vals(f, n) == {f[j] : j \in 1 .. n}
Apart(f, n) == \A j, k \in 1 .. n : j # k => f[j] # f[k]

(* Without one of n different things, the last of which takes its place.   *)
TakesOut(g, f, i, n) == \A j \in 1 .. n - 1 : g[j] = IF j = i THEN f[n] ELSE f[j]
PutsIn(g, f, n, x) == (\A j \in 1 .. n : g[j] = f[j]) /\ g[n + 1] = x

(* Taking out one of n different things leaves the others, still different.*)
LEMMA TakenOut ==
  ASSUME NEW n \in Nat, NEW i \in 1 .. n, NEW f, NEW g, TakesOut(g, f, i, n), Apart(f, n)
  PROVE  Vals(g, n - 1) = Vals(f, n) \ {f[i]} /\ Apart(g, n - 1)
<1>1. ASSUME NEW j \in 1 .. n - 1
      PROVE  j \in 1 .. n /\ n \in 1 .. n /\ j # n /\ (j = i => g[j] = f[n]) /\ (j # i => g[j] = f[j])
  BY DEF TakesOut
<1>2. ASSUME NEW j \in 1 .. n - 1
      PROVE  g[j] \in Vals(f, n) \ {f[i]}
  BY <1>1 DEF Apart, Vals
<1>3. ASSUME NEW k \in 1 .. n, f[k] # f[i]
      PROVE  \E j \in 1 .. n - 1 : g[j] = f[k]
  <2>1. CASE k = n
    <3>1. i \in 1 .. n - 1
      BY <1>3, <2>1
    <3> QED
      BY <1>1, <2>1, <3>1
  <2>2. CASE k # n
    <3>1. k \in 1 .. n - 1 /\ k # i
      BY <1>3, <2>2
    <3> QED
      BY <1>1, <3>1
  <2> QED
    BY <2>1, <2>2
<1>4. ASSUME NEW j \in 1 .. n - 1, NEW k \in 1 .. n - 1, j # k
      PROVE  g[j] # g[k]
  BY <1>1, <1>4 DEF Apart
<1>5. Apart(g, n - 1)
  BY <1>4 DEF Apart
<1>6. Vals(g, n - 1) = Vals(f, n) \ {f[i]}
  BY <1>2, <1>3 DEF Vals
<1> QED
  BY <1>5, <1>6

(* With one thing more.                                                    *)
LEMMA PutIn ==
  ASSUME NEW n \in Nat, NEW f, NEW g, NEW x, PutsIn(g, f, n, x)
  PROVE  /\ Vals(g, n + 1) = Vals(f, n) \cup {x}
         /\ Apart(f, n) /\ x \notin Vals(f, n) => Apart(g, n + 1)
<1>1. \A j \in 1 .. n + 1 : j \in 1 .. n \/ j = n + 1
  OBVIOUS
<1>2. \A j \in 1 .. n : j \in 1 .. n + 1 /\ g[j] = f[j]
  BY DEF PutsIn
<1>3. n + 1 \in 1 .. n + 1 /\ g[n + 1] = x
  BY DEF PutsIn
<1>4. Vals(g, n + 1) = Vals(f, n) \cup {x}
  BY <1>1, <1>2, <1>3 DEF Vals
<1>5. ASSUME Apart(f, n), x \notin Vals(f, n), NEW j \in 1 .. n + 1, NEW k \in 1 .. n + 1, j # k
      PROVE  g[j] # g[k]
  BY <1>1, <1>2, <1>3, <1>5 DEF Apart, Vals
<1>6. Apart(f, n) /\ x \notin Vals(f, n) => Apart(g, n + 1)
  BY <1>5 DEF Apart
<1> QED
  BY <1>4, <1>6

-----------------------------------------------------------------------------
(* The sockets in a list, each once.                                       *)
Names(l) == Vals(l.data, l.count)
NoTwice(l) == Apart(l.data, l.count)

(* The same elements.                                                      *)
SameList(l, k) == l.count = k.count /\ \A i \in 1 .. k.count : l.data[i] = k.data[i]

(* A list that was reallocated names the same sockets.                     *)
LEMMA SameListNames ==
  ASSUME NEW l, NEW k, SameList(l, k)
  PROVE  Names(l) = Names(k) /\ (NoTwice(k) => NoTwice(l))
BY DEF SameList, Names, NoTwice, Vals, Apart

(* Adding to a list adds the name.                                         *)
LEMMA AddNames ==
  ASSUME NEW S, Zero \in S, NEW l, Whole(l, S), NEW x \in S, NEW ok \in BOOLEAN,
         NEW r, r = UListAdd(l, x, ok), r.sts = 0
  PROVE  /\ Whole(r.list, S) /\ r.list.count = l.count + 1 /\ r.list.count > l.count
         /\ Names(r.list) = Names(l) \cup {x}
         /\ NoTwice(l) /\ x \notin Names(l) => NoTwice(r.list)
<1>1. /\ Whole(r.list, S) /\ r.list.count = l.count + 1
      /\ r.list.data[l.count + 1] = x
      /\ \A i \in 1 .. l.count : r.list.data[i] = l.data[i]
  BY AddKeeps
<1>2. l.count \in Nat
  BY DEF Whole, Holds
<1> DEFINE n == l.count
           f == l.data
           g == r.list.data
<1>3. n \in Nat /\ PutsIn(g, f, n, x)
  BY <1>1, <1>2 DEF PutsIn
<1>4. /\ Names(r.list) = Vals(g, n + 1) /\ Names(l) = Vals(f, n)
      /\ NoTwice(l) = Apart(f, n) /\ NoTwice(r.list) = Apart(g, n + 1)
  BY <1>1 DEF Names, NoTwice
<1>5. r.list.count > l.count
  BY <1>1, <1>2
<1> HIDE DEF n, f, g
<1>6. /\ Vals(g, n + 1) = Vals(f, n) \cup {x}
      /\ Apart(f, n) /\ x \notin Vals(f, n) => Apart(g, n + 1)
  BY <1>3, PutIn
<1> QED
  BY <1>1, <1>4, <1>5, <1>6

(* What was added last can be taken out again.                             *)
LEMMA AddThenRemove ==
  ASSUME NEW S, Zero \in S, NEW l, Whole(l, S), NEW x \in S, NEW ok \in BOOLEAN,
         NEW r, r = UListAdd(l, x, ok), r.sts = 0, NEW again \in BOOLEAN,
         NEW q, q = UListRemove(r.list, r.list.count, again).list
  PROVE  Whole(q, S) /\ SameList(q, l)
<1>1. /\ Whole(r.list, S) /\ r.list.count = l.count + 1
      /\ \A i \in 1 .. l.count : r.list.data[i] = l.data[i]
  BY AddKeeps
<1> DEFINE k == r.list
           n == k.count
           c == BestCapacityFit(k.capacity, n - 1)
           z == UListRemove(k, n, again)
<1>2. Holds(k, S) /\ n \in Nat /\ n = l.count + 1 /\ l.count \in Nat /\ n \in 1 .. n /\ n <= Len(k.data)
  BY <1>1, LenProperties DEF Whole, Holds
<1>3. Whole(k, S) /\ z.list = q /\ z = UListRemove(k, n, again) /\ c = BestCapacityFit(k.capacity, k.count - 1)
      /\ n \in 1 .. k.count /\ k.count <= Len(k.data)
  BY <1>1, <1>2
<1> HIDE DEF z, c, k, n
<1>4. /\ z.list.count = k.count - 1
      /\ \A j \in 1 .. k.count : j <= Len(z.list.data) =>
           z.list.data[j] = IF j = n THEN k.data[k.count] ELSE k.data[j]
      /\ Whole(z.list, S)
    <2>1. Holds(k, S) /\ k.count <= Len(k.data) /\ n \in 1 .. k.count /\ Whole(k, S)
    BY <1>2, <1>3
  <2> QED
    BY <1>3, <2>1, RemoveKeeps
<1>5. Whole(q, S) /\ q.count = l.count
  BY <1>2, <1>3, <1>4 DEF n
<1>6. q.count <= Len(q.data) /\ Len(q.data) \in Nat
  BY <1>5, LenProperties DEF Whole, Holds
<1>7. ASSUME NEW j \in 1 .. l.count
      PROVE  q.data[j] = l.data[j]
  <2>1. j \in 1 .. k.count /\ j # n /\ j <= Len(q.data)
    BY <1>2, <1>5, <1>6 DEF n
  <2>2. q.data[j] = k.data[j]
    BY <1>3, <1>4, <2>1
  <2> QED
    BY <1>1, <2>2 DEF k
<1> QED
  BY <1>5, <1>7 DEF SameList

(* What a list is after a socket was taken out of it, if it was there.     *)
LEMMA RemoveNames ==
  ASSUME NEW S, Zero \in S, NEW l, Whole(l, S), NEW x, NEW ok \in BOOLEAN,
         NEW i, i = FirstOf(Socks(l), x),
         NEW q, q = IF i = 0 THEN l ELSE UListRemove(l, i, ok).list
  PROVE  /\ Whole(q, S) /\ (l.count = 0 => q = l) /\ Names(q) \subseteq Names(l)
         /\ NoTwice(l) => NoTwice(q) /\ Names(q) = Names(l) \ {x}
<1> DEFINE socks == Socks(l)
           n == l.count
           f == l.data
<1>1. /\ n \in Nat /\ DOMAIN socks = 1 .. n /\ \A j \in 1 .. n : socks[j] = f[j]
      /\ n <= Len(f) /\ Holds(l, S)
  BY SocksAre, LenProperties DEF Whole, Holds
<1>2. /\ (\A j \in 1 .. n : f[j] # x) => i = 0
      /\ (\E j \in 1 .. n : f[j] = x) => i \in 1 .. n /\ f[i] = x
  <2> HIDE DEF socks, n, f
  <2>1. /\ (\A j \in 1 .. n : socks[j] # x) => i = 0
        /\ (\E j \in 1 .. n : socks[j] = x) => i \in 1 .. n /\ socks[i] = x
    BY <1>1, FirstOfIs DEF socks
  <2> QED
    BY <1>1, <2>1
<1>3. CASE i = 0
  BY <1>1, <1>2, <1>3 DEF Names, Vals
<1>4. CASE i # 0
  <2>1. i \in 1 .. n /\ f[i] = x
    BY <1>2, <1>4
  <2> DEFINE c == BestCapacityFit(l.capacity, l.count - 1)
             z == UListRemove(l, i, ok)
  <2>2. z.list = q /\ z = UListRemove(l, i, ok) /\ c = BestCapacityFit(l.capacity, l.count - 1)
    BY <1>4
  <2> HIDE DEF z, c
  <2>3. /\ z.list.count = l.count - 1
        /\ \A j \in 1 .. l.count : j <= Len(z.list.data) =>
             z.list.data[j] = IF j = i THEN l.data[l.count] ELSE l.data[j]
        /\ Whole(z.list, S)
    BY <1>1, <2>1, <2>2, RemoveKeeps
  <2> DEFINE g == q.data
  <2>4. Whole(q, S) /\ q.count = n - 1 /\ n - 1 <= Len(g) /\ Len(g) \in Nat
    BY <2>2, <2>3, LenProperties DEF Whole, Holds
  <2>5. TakesOut(g, f, i, n)
    <3> SUFFICES ASSUME NEW j \in 1 .. n - 1
                 PROVE  g[j] = IF j = i THEN f[n] ELSE f[j]
      BY DEF TakesOut
    <3>1. j \in 1 .. n /\ j <= Len(g)
      BY <1>1, <2>4
    <3> QED
      BY <2>2, <2>3, <3>1
  <2>6. /\ Names(l) = Vals(f, n) /\ Names(q) = Vals(g, n - 1)
        /\ NoTwice(l) = Apart(f, n) /\ NoTwice(q) = Apart(g, n - 1)
    BY <2>4 DEF Names, NoTwice
  <2>7. n \in Nat /\ i \in 1 .. n /\ l.count # 0
    BY <1>1, <2>1
  <2> HIDE DEF n, f, g
  <2>8. Apart(f, n) => Vals(g, n - 1) = Vals(f, n) \ {f[i]} /\ Apart(g, n - 1)
    BY <2>5, <2>7, TakenOut
  <2>9. Vals(g, n - 1) \subseteq Vals(f, n)
    <3>1. \A j \in 1 .. n - 1 : j \in 1 .. n /\ n \in 1 .. n
      BY <2>7
    <3> QED
      BY <2>5, <3>1 DEF TakesOut, Vals
  <2> QED
    BY <2>1, <2>4, <2>6, <2>7, <2>8, <2>9
<1> QED
  BY <1>3, <1>4

-----------------------------------------------------------------------------
(* The entries of a poll set, and their sockets.                           *)
Fds(p)       == [i \in 1 .. p.map.count |-> KeyFd(p, i)]
Entries(p)   == [i \in 1 .. p.map.count |-> <<KeyFd(p, i), p.map.values[i]>>]
SocketsIn(p) == Vals(Fds(p), p.map.count)
Distinct(p)  == Apart(Fds(p), p.map.count)

(* The entries of a poll set, as pairs and by their position.              *)
LEMMA RegisteredIs ==
  ASSUME NEW p, p # NoPoll
  PROVE  /\ Registered(p) = Vals(Entries(p), p.map.count)
         /\ SocketsIn(p) = {r[1] : r \in Registered(p)}
         /\ Distinct(p) => \A r, t \in Registered(p) : r[1] = t[1] => r = t
         /\ \A r \in Registered(p) : \E i \in 1 .. p.map.count : r = <<KeyFd(p, i), p.map.values[i]>>
         /\ \A i \in 1 .. p.map.count : <<KeyFd(p, i), p.map.values[i]>> \in Registered(p)
<1> DEFINE n == p.map.count
<1>1. \A i \in 1 .. n : Fds(p)[i] = KeyFd(p, i) /\ Entries(p)[i] = <<KeyFd(p, i), p.map.values[i]>>
  BY DEF Fds, Entries
<1>2. Registered(p) = {<<KeyFd(p, i), p.map.values[i]>> : i \in 1 .. n}
  BY DEF Registered
<1>3. SocketsIn(p) = {KeyFd(p, i) : i \in 1 .. n}
  BY <1>1 DEF SocketsIn, Vals
<1>4. Registered(p) = Vals(Entries(p), n)
  BY <1>1, <1>2 DEF Vals
<1>5. SocketsIn(p) = {r[1] : r \in Registered(p)}
  <2>1. ASSUME NEW r \in Registered(p)
        PROVE  r[1] \in SocketsIn(p)
    <3>1. PICK i \in 1 .. n : r = <<KeyFd(p, i), p.map.values[i]>>
      BY <1>2
    <3> QED
      BY <1>3, <3>1
  <2>2. ASSUME NEW s \in SocketsIn(p)
        PROVE  \E r \in Registered(p) : r[1] = s
    <3>1. PICK i \in 1 .. n : s = KeyFd(p, i)
      BY <1>3
    <3>2. <<KeyFd(p, i), p.map.values[i]>> \in Registered(p)
      BY <1>2
    <3> QED
      BY <3>1, <3>2
  <2> QED
    BY <2>1, <2>2
<1>6. ASSUME Distinct(p), NEW r \in Registered(p), NEW t \in Registered(p), r[1] = t[1]
      PROVE  r = t
  <2>1. PICK i \in 1 .. n : r = <<KeyFd(p, i), p.map.values[i]>>
    BY <1>2
  <2>2. PICK j \in 1 .. n : t = <<KeyFd(p, j), p.map.values[j]>>
    BY <1>2
  <2>3. KeyFd(p, i) = KeyFd(p, j)
    BY <1>6, <2>1, <2>2
  <2>4. i = j
    BY <1>1, <1>6, <2>3 DEF Distinct, Apart
  <2> QED
    BY <2>1, <2>2, <2>4
<1> QED
  BY <1>2, <1>4, <1>5, <1>6

(* An entry more.                                                          *)
LEMMA EntryAdded ==
  ASSUME NEW p, NEW q, p # NoPoll, q # NoPoll, NEW n \in Nat, p.map.count = n,
         q.map.count = n + 1, NEW s, NEW u,
         \A i \in 1 .. n : KeyFd(q, i) = KeyFd(p, i) /\ q.map.values[i] = p.map.values[i],
         KeyFd(q, n + 1) = s, q.map.values[n + 1] = u
  PROVE  /\ Registered(q) = Registered(p) \cup {<<s, u>>}
         /\ SocketsIn(q) = SocketsIn(p) \cup {s}
         /\ Distinct(p) /\ s \notin SocketsIn(p) => Distinct(q)
<1>1. /\ \A i \in 1 .. n : i \in 1 .. n + 1
      /\ n + 1 \in 1 .. n + 1
  OBVIOUS
<1> DEFINE f == Fds(p)
           g == Fds(q)
           e == Entries(p)
           h == Entries(q)
           x == <<s, u>>
<1>2. PutsIn(g, f, n, s)
  BY <1>1 DEF PutsIn, Fds
<1>3. PutsIn(h, e, n, x)
  BY <1>1 DEF PutsIn, Entries
<1>4. /\ SocketsIn(p) = Vals(f, n) /\ SocketsIn(q) = Vals(g, n + 1)
      /\ Distinct(p) = Apart(f, n) /\ Distinct(q) = Apart(g, n + 1)
  BY DEF SocketsIn, Distinct
<1>5. Registered(p) = Vals(e, n) /\ Registered(q) = Vals(h, n + 1)
  BY RegisteredIs
<1> HIDE DEF f, g, e, h, x
<1>6. Vals(g, n + 1) = Vals(f, n) \cup {s} /\ (Apart(f, n) /\ s \notin Vals(f, n) => Apart(g, n + 1))
  BY <1>2, PutIn
<1>7. Vals(h, n + 1) = Vals(e, n) \cup {x}
  BY <1>3, PutIn
<1> QED
  BY <1>4, <1>5, <1>6, <1>7 DEF x

(* An entry less.                                                          *)
LEMMA EntryRemoved ==
  ASSUME NEW p, NEW q, p # NoPoll, q # NoPoll, NEW n \in Nat, p.map.count = n, Distinct(p),
         q.map.count = n - 1, NEW i \in 1 .. n, NEW s, s = KeyFd(p, i),
         \A j \in 1 .. n - 1 : /\ KeyFd(q, j) = IF j = i THEN KeyFd(p, n) ELSE KeyFd(p, j)
                               /\ q.map.values[j] = IF j = i THEN p.map.values[n] ELSE p.map.values[j]
  PROVE  /\ Registered(q) = {r \in Registered(p) : r[1] # s}
         /\ SocketsIn(q) = SocketsIn(p) \ {s}
         /\ Distinct(q)
<1>1. /\ \A j \in 1 .. n - 1 : j \in 1 .. n
      /\ n \in 1 .. n
  OBVIOUS
<1> DEFINE f == Fds(p)
           g == Fds(q)
           e == Entries(p)
           h == Entries(q)
           x == e[i]
<1>2. TakesOut(g, f, i, n) /\ f[i] = s
  BY <1>1 DEF TakesOut, Fds
<1>3. TakesOut(h, e, i, n)
  BY <1>1 DEF TakesOut, Entries
<1>4. /\ SocketsIn(p) = Vals(f, n) /\ SocketsIn(q) = Vals(g, n - 1)
      /\ Distinct(p) = Apart(f, n) /\ Distinct(q) = Apart(g, n - 1)
  BY DEF SocketsIn, Distinct
<1>5. /\ Registered(p) = Vals(e, n) /\ Registered(q) = Vals(h, n - 1)
      /\ \A r, t \in Registered(p) : r[1] = t[1] => r = t
  BY RegisteredIs
<1>6. Apart(e, n)
  <2> SUFFICES ASSUME NEW j \in 1 .. n, NEW k \in 1 .. n, j # k
               PROVE  e[j] # e[k]
    BY DEF Apart
  <2>1. e[j] = <<KeyFd(p, j), p.map.values[j]>> /\ e[k] = <<KeyFd(p, k), p.map.values[k]>>
    BY DEF Entries
  <2>2. KeyFd(p, j) # KeyFd(p, k)
    BY DEF Distinct, Apart, Fds
  <2> QED
    BY <2>1, <2>2
<1>7. e[i][1] = s /\ e[i] \in Vals(e, n)
  BY DEF Entries, Vals
<1> HIDE DEF f, g, e, h
<1>8. Vals(g, n - 1) = Vals(f, n) \ {s} /\ Apart(g, n - 1)
  BY <1>2, <1>4, TakenOut
<1>9. Vals(h, n - 1) = Vals(e, n) \ {e[i]}
  BY <1>3, <1>6, TakenOut
<1>10. Registered(q) = {r \in Registered(p) : r[1] # s}
  BY <1>5, <1>7, <1>9
<1> QED
  BY <1>4, <1>8, <1>10

(* The same entries.                                                       *)
LEMMA EntriesSame ==
  ASSUME NEW p, NEW q, p # NoPoll, q # NoPoll, q.map.count = p.map.count,
         \A i \in 1 .. p.map.count : KeyFd(q, i) = KeyFd(p, i) /\ q.map.values[i] = p.map.values[i]
  PROVE  /\ Registered(q) = Registered(p)
         /\ SocketsIn(q) = SocketsIn(p)
         /\ Distinct(p) => Distinct(q)
<1>1. Fds(q) = Fds(p)
  BY DEF Fds
<1>2. Registered(q) = Registered(p)
  BY DEF Registered
<1> QED
  BY <1>1, <1>2 DEF SocketsIn, Distinct

(* Where the entry of a socket is.                                         *)
LEMMA PlaceIs ==
  ASSUME NEW p, p # NoPoll, p.map.count \in Nat, NEW s, NEW i, i = PlaceOf(p, s)
  PROVE  /\ s \notin SocketsIn(p) => i = 0
         /\ s \in SocketsIn(p) => i \in 1 .. p.map.count /\ KeyFd(p, i) = s
         /\ i # 0 => i \in 1 .. p.map.count /\ KeyFd(p, i) = s
<1> DEFINE n == p.map.count
           f == Fds(p)
<1>1. n \in Nat /\ DOMAIN f = 1 .. n /\ i = FirstOf(f, s)
  BY DEF PlaceOf, Fds
<1>2. \A j \in 1 .. n : f[j] = KeyFd(p, j)
  BY DEF Fds
<1>3. SocketsIn(p) = Vals(f, n)
  BY DEF SocketsIn
<1> HIDE DEF f, n
<1>4. /\ (\A j \in 1 .. n : f[j] # s) => i = 0
      /\ (\E j \in 1 .. n : f[j] = s) => i \in 1 .. n /\ f[i] = s
  BY <1>1, FirstOfIs
<1>5. s \notin SocketsIn(p) => i = 0
  BY <1>3, <1>4 DEF Vals
<1>6. s \in SocketsIn(p) => i \in 1 .. n /\ KeyFd(p, i) = s
  BY <1>2, <1>3, <1>4 DEF Vals
<1> QED
  BY <1>5, <1>6 DEF n

-----------------------------------------------------------------------------
(* A poll set of which an entry may be left that could not be removed.     *)
PollHolds(p) ==
  /\ p \in PollSets(Cell)
  /\ MapHolds(p.map, Cell)
  /\ \A i \in 1 .. p.map.count : i <= Len(p.map.keys) => KeyFd(p, i) \in Socket
  /\ p.backend = "win32" => Whole(p.read, Cell) /\ Whole(p.write, Cell) /\ Whole(p.error, Cell)

(* Its sockets, in the map and in the lists, are of a set.                 *)
PollIn(p, X) ==
  /\ \A i \in 1 .. p.map.count : i <= Len(p.map.keys) => KeyFd(p, i) \in X
  /\ p.backend = "win32" => Names(p.read) \subseteq X /\ Names(p.write) \subseteq X /\ Names(p.error) \subseteq X

(* One that holds what it counts.                                          *)
PollWhole(p) ==
  /\ PollHolds(p)
  /\ MapWhole(p.map, Cell)
  /\ \A i \in 1 .. p.map.count : KeyFd(p, i) \in Socket /\ p.map.values[i] \in User \cup {NoUser}

(* One that polls each of its sockets for reading.                         *)
PollOK(p) ==
  /\ PollWhole(p) /\ Distinct(p)
  /\ p.backend = "posix" => \A i \in 1 .. p.map.count : p.map.keys[i].events = {"in", "err"}
  /\ p.backend = "win32" =>
       /\ NoTwice(p.read) /\ NoTwice(p.error) /\ p.write.count = 0
       /\ Names(p.read) = SocketsIn(p) /\ Names(p.error) = SocketsIn(p)

(* What the arrays may hold.                                               *)
LEMMA CellHas ==
  /\ Zero \in Cell
  /\ \A s \in Socket : s \in Cell
  /\ \A u \in User \cup {NoUser} : u \in Cell
  /\ \A s \in Socket, e \in SUBSET {"in", "out", "err"} : [fd |-> s, events |-> e] \in Cell
BY DEF Cell

(* A poll set is what its system makes of it.                              *)
LEMMA PollShape ==
  ASSUME NEW p \in PollSets(Cell)
  PROVE  /\ p # NoPoll /\ p.backend \in {"posix", "win32"}
         /\ p.backend = "posix" => p = [backend |-> "posix", map |-> p.map]
         /\ p.backend = "win32" =>
              /\ p = [backend |-> "win32", map |-> p.map,
                      read |-> p.read, write |-> p.write, error |-> p.error]
              /\ {p.read, p.write, p.error} \subseteq [data : Seq(Cell), count : Nat, capacity : Nat]
         /\ p.map \in [keys : Seq(Cell), values : Seq(Cell), count : Nat, capacity : Nat]
         /\ p.map.count \in Nat
<1> DEFINE maps == [keys : Seq(Cell), values : Seq(Cell), count : Nat, capacity : Nat]
           lists == [data : Seq(Cell), count : Nat, capacity : Nat]
<1>1. PollSets(Cell) = [backend : {"posix"}, map : maps]
        \cup [backend : {"win32"}, map : maps, read : lists, write : lists, error : lists]
  BY DEF PollSets
<1>2. \A m \in maps : m.count \in Nat
  OBVIOUS
<1>3. p # NoPoll
  OBVIOUS
<1> HIDE DEF maps, lists
<1>4. p \in [backend : {"posix"}, map : maps]
      \/ p \in [backend : {"win32"}, map : maps, read : lists, write : lists, error : lists]
  BY <1>1
<1>5. CASE p \in [backend : {"posix"}, map : maps]
  BY <1>2, <1>3, <1>5 DEF maps
<1>6. CASE p \in [backend : {"win32"}, map : maps, read : lists, write : lists, error : lists]
  BY <1>2, <1>3, <1>6 DEF maps, lists
<1> QED
  BY <1>4, <1>5, <1>6

(* A map is all there is to a poll set of POSIX ...                        *)
LEMMA PosixPoll ==
  ASSUME NEW m, m \in [keys : Seq(Cell), values : Seq(Cell), count : Nat, capacity : Nat],
         NEW p, p = [backend |-> "posix", map |-> m]
  PROVE  /\ p \in PollSets(Cell) /\ p # NoPoll /\ p.backend = "posix" /\ p.map = m
         /\ \A i : KeyFd(p, i) = m.keys[i].fd
<1>1. p \in PollSets(Cell)
  BY DEF PollSets
<1>2. p # NoPoll
  BY <1>1
<1> QED
  BY <1>1, <1>2 DEF KeyFd

(* ... and a map with three lists to one of Windows.                       *)
LEMMA Win32Poll ==
  ASSUME NEW m, m \in [keys : Seq(Cell), values : Seq(Cell), count : Nat, capacity : Nat],
         NEW a, NEW b, NEW c, {a, b, c} \subseteq [data : Seq(Cell), count : Nat, capacity : Nat],
         NEW p, p = [backend |-> "win32", map |-> m, read |-> a, write |-> b, error |-> c]
  PROVE  /\ p \in PollSets(Cell) /\ p # NoPoll /\ p.backend = "win32" /\ p.map = m
         /\ p.read = a /\ p.write = b /\ p.error = c
         /\ \A i : KeyFd(p, i) = m.keys[i]
<1>1. p \in PollSets(Cell)
  BY DEF PollSets
<1>2. p # NoPoll
  BY <1>1
<1> QED
  BY <1>1, <1>2 DEF KeyFd

(* A whole map is a map.                                                   *)
LEMMA WholeTypes ==
  ASSUME NEW S
  PROVE  /\ \A m : MapWhole(m, S) => /\ m \in [keys : Seq(S), values : Seq(S), count : Nat, capacity : Nat]
                                     /\ MapHolds(m, S) /\ m.count \in Nat
                                     /\ m.count <= Len(m.keys) /\ m.count <= Len(m.values)
                                     /\ ~ Damaged(m)
         /\ \A l : Whole(l, S) => l \in [data : Seq(S), count : Nat, capacity : Nat]
<1>1. ASSUME NEW m, MapWhole(m, S)
      PROVE  /\ m \in [keys : Seq(S), values : Seq(S), count : Nat, capacity : Nat]
             /\ MapHolds(m, S)
    BY <1>1 DEF MapWhole, MapHolds
<1>2. ASSUME NEW m, MapWhole(m, S)
      PROVE  m.count \in Nat /\ m.count <= Len(m.keys) /\ m.count <= Len(m.values) /\ ~ Damaged(m)
  <2>1. /\ m.count \in Nat /\ Len(m.keys) \in Nat /\ Len(m.values) \in Nat
        /\ m.count <= Len(m.keys) /\ m.count <= Len(m.values)
    BY <1>2, MapWholeColumns
  <2> QED
    BY <2>1 DEF Damaged
<1>3. ASSUME NEW l, Whole(l, S)
      PROVE  l \in [data : Seq(S), count : Nat, capacity : Nat]
  BY <1>3 DEF Whole, Holds
<1> QED
  BY <1>1, <1>2, <1>3

(* A new poll set.                                                         *)
LEMMA PollCreateKeeps ==
  ASSUME NEW b \in {"posix", "win32"}, NEW bad, NEW r, r = PollCreate(b, bad).poll
  PROVE  /\ Registered(r) = {} /\ (bad = {} => r # NoPoll)
         /\ r # NoPoll => PollOK(r) /\ r.backend = b /\ r.map.count = 0
<1> DEFINE m == MapCreate(bad)
<1>1. /\ m.sts \in {0, -1} /\ (bad = {} => m.sts = 0)
      /\ m.sts = 0 => MapWhole(m.map, Cell) /\ m.map.count = 0
  BY CellHas, MapCreateKeeps
<1>2. m.sts = 0 => m.map \in [keys : Seq(Cell), values : Seq(Cell), count : Nat, capacity : Nat]
                   /\ MapHolds(m.map, Cell)
  BY <1>1, WholeTypes
<1>3. Registered(NoPoll) = {}
  BY DEF Registered
<1>4. CASE b = "posix"
  <2>1. r = IF "poll" \in bad \/ m.sts # 0 THEN NoPoll ELSE [backend |-> "posix", map |-> m.map]
    BY <1>4 DEF PollCreate, PosixCreate, Gives
  <2> HIDE DEF m
  <2>2. CASE "poll" \in bad \/ m.sts # 0
    BY <1>1, <1>3, <2>1, <2>2
  <2>3. CASE ~ ("poll" \in bad \/ m.sts # 0)
    <3>1. r = [backend |-> "posix", map |-> m.map] /\ m.sts = 0
      BY <2>1, <2>3
    <3>2. r \in PollSets(Cell) /\ r # NoPoll /\ r.backend = "posix" /\ r.map = m.map
      BY <1>2, <3>1, PosixPoll
    <3>3. PollWhole(r)
      BY <1>1, <1>2, <3>1, <3>2 DEF PollWhole, PollHolds
    <3>4. PollOK(r)
      BY <1>1, <3>1, <3>2, <3>3 DEF PollOK, Distinct, Apart
    <3>5. Registered(r) = {}
      BY <1>1, <3>1, <3>2 DEF Registered
    <3> QED
      BY <1>1, <1>4, <3>1, <3>2, <3>4, <3>5
  <2> QED
    BY <2>2, <2>3
<1>5. CASE b = "win32"
  <2> DEFINE A == UListCreate("read" \notin bad)
             B == UListCreate("write" \notin bad)
             C == UListCreate("error" \notin bad)
             p == [backend |-> "win32", map |-> m.map, read |-> A.list, write |-> B.list, error |-> C.list]
             fails == "poll" \in bad \/ m.sts # 0 \/ A.sts # 0 \/ B.sts # 0 \/ C.sts # 0
  <2>1. r = IF fails THEN NoPoll ELSE p
    BY <1>5 DEF PollCreate, Win32Create, Win32Destroy, Gives, Lists
  <2>2. \A x : (x \notin bad) \in BOOLEAN
    OBVIOUS
  <2>3. /\ A.sts \in {0, -1} /\ (bad = {} => A.sts = 0)
        /\ A.sts = 0 => Whole(A.list, Cell) /\ A.list.count = 0
    BY <2>2, CellHas, CreateKeeps
  <2>4. /\ B.sts \in {0, -1} /\ (bad = {} => B.sts = 0)
        /\ B.sts = 0 => Whole(B.list, Cell) /\ B.list.count = 0
    BY <2>2, CellHas, CreateKeeps
  <2>5. /\ C.sts \in {0, -1} /\ (bad = {} => C.sts = 0)
        /\ C.sts = 0 => Whole(C.list, Cell) /\ C.list.count = 0
    BY <2>2, CellHas, CreateKeeps
  <2> HIDE DEF m, A, B, C
  <2>6. CASE fails
    BY <1>1, <1>3, <2>1, <2>3, <2>4, <2>5, <2>6
  <2>7. CASE ~ fails
    <3>1. /\ Whole(A.list, Cell) /\ A.list.count = 0 /\ Whole(B.list, Cell) /\ B.list.count = 0
          /\ Whole(C.list, Cell) /\ C.list.count = 0 /\ m.sts = 0 /\ r = p
      BY <2>1, <2>3, <2>4, <2>5, <2>7
    <3>2. /\ r \in PollSets(Cell) /\ r # NoPoll /\ r.backend = "win32" /\ r.map = m.map
          /\ r.read = A.list /\ r.write = B.list /\ r.error = C.list
      <4>1. {A.list, B.list, C.list} \subseteq [data : Seq(Cell), count : Nat, capacity : Nat]
        BY <3>1, WholeTypes
      <4> QED
        BY SMTT(25), <1>2, <3>1, <4>1, Win32Poll
    <3> HIDE DEF p
    <3>3. PollWhole(r)
      BY <1>1, <1>2, <3>1, <3>2 DEF PollWhole, PollHolds
    <3>4. r.map.count = 0 /\ r.read.count = 0 /\ r.error.count = 0
      BY <1>1, <3>1, <3>2
    <3>5. PollOK(r)
      BY <3>1, <3>2, <3>3, <3>4 DEF PollOK, Distinct, Apart, NoTwice, Names, SocketsIn, Vals
    <3>6. Registered(r) = {}
      BY <3>4 DEF Registered
    <3> QED
      BY <1>5, <3>2, <3>4, <3>5, <3>6
  <2> QED
    BY <2>6, <2>7
<1> QED
  BY <1>4, <1>5

-----------------------------------------------------------------------------
(* Adding to a poll set.                                                   *)

(* What a poll set that an entry was added to is, if that succeeded, and   *)
(* if not.                                                                 *)
AddedTo(p, s, u, q) ==
  /\ q # NoPoll /\ PollWhole(q) /\ q.backend = p.backend
  /\ Registered(q) = Registered(p) \cup {<<s, u>>}
  /\ q.map.count = p.map.count + 1 /\ Settled(q.map.capacity, p.map.count)
  /\ PollOK(p) /\ s \notin SocketsIn(p) => Distinct(q)

AsBefore(p, q) ==
  /\ q # NoPoll /\ PollWhole(q) /\ q.backend = p.backend
  /\ Registered(q) = Registered(p) /\ q.map.count = p.map.count

(* tcs_poll_add of POSIX: it adds the entry, or leaves the set as it was.  *)
LEMMA PosixAddKeeps ==
  ASSUME NEW p, PollWhole(p), p.backend = "posix", NEW s \in Socket, NEW u \in User \cup {NoUser},
         NEW flags \in SUBSET {"in", "out"}, NEW bad, NEW r, r = PosixAdd(p, s, u, flags, bad)
  PROVE  /\ r.res \in {"SUCCESS", "MEMORY"} /\ (bad = {} => r.res = "SUCCESS")
         /\ r.res = "SUCCESS" => AddedTo(p, s, u, r.poll)
         /\ r.res # "SUCCESS" => AsBefore(p, r.poll)
         /\ PollOK(p) /\ s \notin SocketsIn(p) /\ flags = {"in"} => PollOK(r.poll)
<1> DEFINE k == [fd |-> s, events |-> flags \cup {"err"}]
           m == MapAdd(p.map, k, u, bad)
           q == [p EXCEPT !.map = m.map]
           n == p.map.count
<1>1. /\ p \in PollSets(Cell) /\ MapWhole(p.map, Cell)
      /\ \A i \in 1 .. n : KeyFd(p, i) \in Socket /\ p.map.values[i] \in User \cup {NoUser}
  BY DEF PollWhole, PollHolds
<1>2. /\ p # NoPoll /\ p = [backend |-> "posix", map |-> p.map] /\ n \in Nat
      /\ \A i : KeyFd(p, i) = p.map.keys[i].fd
  BY <1>1, PollShape DEF KeyFd
<1>3. k \in Cell /\ u \in Cell /\ k.fd = s /\ k.events = flags \cup {"err"}
  BY CellHas
<1>4. r.poll = q /\ r.res = IF m.sts = 0 THEN "SUCCESS" ELSE "MEMORY"
  BY DEF PosixAdd, Gives
<1> HIDE DEF k
<1>5. /\ m.sts \in {0, -1} /\ (bad = {} => m.sts = 0)
      /\ MapWhole(m.map, Cell)
      /\ \A i \in 1 .. n : m.map.keys[i] = p.map.keys[i] /\ m.map.values[i] = p.map.values[i]
      /\ m.sts # 0 => m.map.count = n
      /\ m.sts = 0 => /\ m.map.count = n + 1
                      /\ m.map.keys[n + 1] = k /\ m.map.values[n + 1] = u
                      /\ Settled(m.map.capacity, n)
  BY <1>1, <1>3, CellHas, MapAddKeeps
<1> HIDE DEF m
<1>6. q = [backend |-> "posix", map |-> m.map]
  BY <1>2
<1>7. m.map \in [keys : Seq(Cell), values : Seq(Cell), count : Nat, capacity : Nat] /\ MapHolds(m.map, Cell)
  BY <1>5, WholeTypes
<1> HIDE DEF q
<1>8. /\ q \in PollSets(Cell) /\ q # NoPoll /\ q.backend = "posix" /\ q.map = m.map
      /\ \A i : KeyFd(q, i) = m.map.keys[i].fd
  BY <1>6, <1>7, PosixPoll
<1>9. \A i \in 1 .. n : KeyFd(q, i) = KeyFd(p, i) /\ q.map.values[i] = p.map.values[i]
  BY <1>2, <1>5, <1>8
<1>10. CASE m.sts = 0
  <2>1. q.map.count = n + 1 /\ KeyFd(q, n + 1) = s /\ q.map.values[n + 1] = u
        /\ Settled(q.map.capacity, n) /\ q.map.keys[n + 1].events = flags \cup {"err"}
    BY <1>3, <1>5, <1>8, <1>10
  <2>2. \A i \in 1 .. n + 1 : i \in 1 .. n \/ i = n + 1
    BY <1>2
  <2>3. \A i \in 1 .. q.map.count : KeyFd(q, i) \in Socket /\ q.map.values[i] \in User \cup {NoUser}
    BY <1>1, <1>9, <2>1, <2>2
  <2>4. PollWhole(q)
    BY <1>5, <1>7, <1>8, <2>3 DEF PollWhole, PollHolds
  <2>5. /\ Registered(q) = Registered(p) \cup {<<s, u>>}
        /\ Distinct(p) /\ s \notin SocketsIn(p) => Distinct(q)
    <3>1. /\ p # NoPoll /\ q # NoPoll /\ p.map.count = n /\ n \in Nat
          /\ q.map.count = n + 1 /\ KeyFd(q, n + 1) = s /\ q.map.values[n + 1] = u
      BY <1>2, <1>8, <2>1
    <3> HIDE DEF n
    <3> QED
      BY <1>9, <3>1, EntryAdded
  <2>6. AddedTo(p, s, u, q)
    BY <1>8, <2>1, <2>4, <2>5 DEF AddedTo, PollOK
  <2>7. ASSUME PollOK(p), s \notin SocketsIn(p), flags = {"in"}
        PROVE  PollOK(q)
    <3>1. \A i \in 1 .. n : q.map.keys[i].events = {"in", "err"}
      BY <1>5, <1>8, <2>7 DEF PollOK
    <3>2. \A i \in 1 .. q.map.count : q.map.keys[i].events = {"in", "err"}
      BY <2>1, <2>2, <2>7, <3>1
    <3>3. Distinct(q)
      BY <2>5, <2>7 DEF PollOK
    <3> QED
      BY <1>8, <2>4, <3>2, <3>3 DEF PollOK
  <2> QED
    BY <1>4, <1>10, <2>6, <2>7
<1>11. CASE m.sts # 0
  <2>1. q.map.count = n
    BY <1>5, <1>8, <1>11
  <2>2. PollWhole(q)
    BY <1>1, <1>5, <1>7, <1>8, <1>9, <2>1 DEF PollWhole, PollHolds
  <2>3. Registered(q) = Registered(p) /\ (Distinct(p) => Distinct(q))
    BY <1>2, <1>8, <1>9, <2>1, EntriesSame
  <2>4. AsBefore(p, q)
    BY <1>8, <2>1, <2>2, <2>3 DEF AsBefore
  <2>5. ASSUME PollOK(p)
        PROVE  PollOK(q)
    BY <1>5, <1>8, <2>1, <2>2, <2>3, <2>5 DEF PollOK
  <2> QED
    BY <1>4, <1>5, <1>11, <2>4, <2>5
<1> QED
  BY <1>10, <1>11

(* What becomes of one of the lists, and what it is when it is taken back. *)
LEMMA ListAdded ==
  ASSUME NEW k, Whole(k, Cell), NEW s \in Socket, NEW ok \in BOOLEAN, NEW asked \in BOOLEAN,
         NEW x, x = IF asked THEN UListAdd(k, s, ok) ELSE Done(k),
         NEW y, y = IF x.list.count > k.count THEN UListRemove(x.list, x.list.count, ok).list ELSE k
  PROVE  /\ x.sts \in {0, -1} /\ (ok => x.sts = 0)
         /\ x.sts = 0 => Whole(x.list, Cell)
         /\ x.sts = 0 /\ asked => /\ Names(x.list) = Names(k) \cup {s}
                                  /\ NoTwice(k) /\ s \notin Names(k) => NoTwice(x.list)
         /\ ~ asked => x.list = k
         /\ Whole(y, Cell) /\ SameList(y, k)
<1>1. SameList(k, k)
  BY DEF SameList
<1>2. CASE ~ asked
  <2>1. x.list = k /\ x.sts = 0
    BY <1>2 DEF Done
  <2>2. ~ (x.list.count > k.count)
    BY <2>1 DEF Whole, Holds
  <2> QED
    BY <1>1, <1>2, <2>1, <2>2
<1>3. CASE asked
  <2>1. x = UListAdd(k, s, ok) /\ s \in Cell /\ Zero \in Cell
    BY <1>3, CellHas
  <2>2. x.sts \in {0, -1} /\ (ok => x.sts = 0) /\ (x.sts # 0 => x.list = k)
    BY <2>1, AddKeeps
  <2>3. CASE x.sts # 0
    <3>1. ~ (x.list.count > k.count)
      BY <2>2, <2>3 DEF Whole, Holds
    <3> QED
      BY <1>1, <1>3, <2>2, <2>3, <3>1
  <2>4. CASE x.sts = 0
    <3>1. /\ Whole(x.list, Cell) /\ x.list.count = k.count + 1 /\ x.list.count > k.count
          /\ Names(x.list) = Names(k) \cup {s}
          /\ NoTwice(k) /\ s \notin Names(k) => NoTwice(x.list)
      BY <2>1, <2>4, AddNames
    <3>2. y = UListRemove(x.list, x.list.count, ok).list
      BY <3>1
    <3>3. Whole(y, Cell) /\ SameList(y, k)
      BY <2>1, <2>4, <3>2, AddThenRemove
    <3> QED
      BY <1>3, <2>2, <2>4, <3>1, <3>3
  <2> QED
    BY <2>2, <2>3, <2>4
<1> QED
  BY <1>2, <1>3

(* The map and the three lists of a poll set that select() is called with. *)
LEMMA Win32Holds ==
  ASSUME NEW m, MapWhole(m, Cell),
         \A i \in 1 .. m.count : m.keys[i] \in Socket /\ m.values[i] \in User \cup {NoUser},
         NEW a, NEW b, NEW c, Whole(a, Cell), Whole(b, Cell), Whole(c, Cell),
         NEW q, q = [backend |-> "win32", map |-> m, read |-> a, write |-> b, error |-> c]
  PROVE  /\ PollWhole(q) /\ q # NoPoll /\ q.backend = "win32" /\ q.map = m
         /\ q.read = a /\ q.write = b /\ q.error = c
         /\ \A i : KeyFd(q, i) = m.keys[i]
<1>1. /\ m \in [keys : Seq(Cell), values : Seq(Cell), count : Nat, capacity : Nat] /\ MapHolds(m, Cell)
      /\ {a, b, c} \subseteq [data : Seq(Cell), count : Nat, capacity : Nat]
  BY WholeTypes
<1>2. /\ q \in PollSets(Cell) /\ q # NoPoll /\ q.backend = "win32" /\ q.map = m
      /\ q.read = a /\ q.write = b /\ q.error = c
      /\ \A i : KeyFd(q, i) = m.keys[i]
  BY <1>1, Win32Poll
<1>3. PollWhole(q)
  BY ZenonT(40), <1>1, <1>2 DEF PollWhole, PollHolds
<1> QED
  BY <1>2, <1>3

(* A poll set with another map, and with other lists.                      *)
WithMap(p, m)            == [p EXCEPT !.map = m]
WithTwo(p, m, a, c)      == [p EXCEPT !.map = m, !.error = c, !.read = a]
WithThree(p, m, a, b, c) == [p EXCEPT !.map = m, !.read = a, !.write = b, !.error = c]

(* The fields that Windows changes, of a record with all five.             *)
LEMMA Win32Except ==
  ASSUME NEW p, p.backend = "win32", p \in PollSets(Cell), NEW m, NEW a, NEW b, NEW c
  PROVE  /\ WithMap(p, m) =
              [backend |-> "win32", map |-> m, read |-> p.read, write |-> p.write, error |-> p.error]
         /\ WithTwo(p, m, a, c) =
              [backend |-> "win32", map |-> m, read |-> a, write |-> p.write, error |-> c]
         /\ WithThree(p, m, a, b, c) =
              [backend |-> "win32", map |-> m, read |-> a, write |-> b, error |-> c]
<1>1. p = [backend |-> "win32", map |-> p.map, read |-> p.read, write |-> p.write, error |-> p.error]
  BY PollShape
<1> DEFINE rec(x, e, f, g) == [backend |-> "win32", map |-> x, read |-> e, write |-> f, error |-> g]
<1>2. \A w, x, e, f, g : w = rec(x, e, f, g) => [w EXCEPT !.map = m] = rec(m, e, f, g)
  OBVIOUS
<1>3. \A w, x, e, f, g : w = rec(x, e, f, g) => [w EXCEPT !.read = a] = rec(x, a, f, g)
  OBVIOUS
<1>4. \A w, x, e, f, g : w = rec(x, e, f, g) => [w EXCEPT !.write = b] = rec(x, e, b, g)
  OBVIOUS
<1>5. \A w, x, e, f, g : w = rec(x, e, f, g) => [w EXCEPT !.error = c] = rec(x, e, f, c)
  OBVIOUS
<1> DEFINE q == [p EXCEPT !.map = m]
           qe == [q EXCEPT !.error = c]
           qr == [q EXCEPT !.read = a]
           qw == [qr EXCEPT !.write = b]
<1>6. p = rec(p.map, p.read, p.write, p.error)
  BY <1>1
<1>7. /\ [p EXCEPT !.map = m, !.error = c, !.read = a] = [qe EXCEPT !.read = a]
      /\ [p EXCEPT !.map = m, !.read = a, !.write = b, !.error = c] = [qw EXCEPT !.error = c]
  OBVIOUS
<1> HIDE DEF rec
<1>8. q = rec(m, p.read, p.write, p.error)
  BY <1>2, <1>6
<1> HIDE DEF q
<1>9. qe = rec(m, p.read, p.write, c) /\ qr = rec(m, a, p.write, p.error)
  BY <1>3, <1>5, <1>8
<1> HIDE DEF qe, qr
<1>10. qw = rec(m, a, b, p.error)
  BY <1>4, <1>9
<1> HIDE DEF qw
<1>11. [qe EXCEPT !.read = a] = rec(m, a, p.write, c) /\ [qw EXCEPT !.error = c] = rec(m, a, b, c)
  BY <1>3, <1>5, <1>9, <1>10
<1>12. /\ [p EXCEPT !.map = m] = rec(m, p.read, p.write, p.error)
       /\ [p EXCEPT !.map = m, !.error = c, !.read = a] = rec(m, a, p.write, c)
       /\ [p EXCEPT !.map = m, !.read = a, !.write = b, !.error = c] = rec(m, a, b, c)
  <2>1. [p EXCEPT !.map = m] = rec(m, p.read, p.write, p.error)
    BY <1>8 DEF q
  <2>2. [p EXCEPT !.map = m, !.error = c, !.read = a] = rec(m, a, p.write, c)
    BY <1>7, <1>11
  <2>3. [p EXCEPT !.map = m, !.read = a, !.write = b, !.error = c] = rec(m, a, b, c)
    BY <1>7, <1>11
  <2> QED
    BY <2>1, <2>2, <2>3
<1> QED
  BY <1>12 DEF rec, WithMap, WithTwo, WithThree

(* tcs_poll_add of Windows, its results named.                             *)
LEMMA Win32AddIs ==
  ASSUME NEW p, NEW s, NEW u, NEW flags, NEW bad, NEW r, r = Win32Add(p, s, u, flags, bad),
         NEW m, m = MapAdd(p.map, s, u, bad),
         NEW undo, undo = MapRemove(m.map, m.map.count, bad).map,
         NEW a, a = IF "in" \in flags THEN UListAdd(p.read, s, "read" \notin bad) ELSE Done(p.read),
         NEW b, b = IF "out" \in flags THEN UListAdd(p.write, s, "write" \notin bad) ELSE Done(p.write),
         NEW c, c = UListAdd(p.error, s, "error" \notin bad),
         NEW x, x = (IF a.list.count > p.read.count
                     THEN UListRemove(a.list, a.list.count, "read" \notin bad).list ELSE p.read),
         NEW y, y = (IF c.list.count > p.error.count
                     THEN UListRemove(c.list, c.list.count, "error" \notin bad).list ELSE p.error)
  PROVE  r = IF m.sts # 0 THEN [poll |-> WithMap(p, m.map), res |-> "MEMORY"]
             ELSE IF a.sts # 0 \/ b.sts # 0 \/ c.sts # 0
             THEN [poll |-> WithTwo(p, undo, IF c.sts = 0 THEN x ELSE p.read, y), res |-> "MEMORY"]
             ELSE [poll |-> WithThree(p, m.map, a.list, b.list, c.list), res |-> "SUCCESS"]
<1> DEFINE asked == {"error"} \cup {k \in {"read"} : "in" \in flags} \cup {k \in {"write"} : "out" \in flags}
           l == [k \in Lists |-> IF k \in asked THEN UListAdd(p[k], s, k \notin bad) ELSE Done(p[k])]
           back(k) == IF l[k].list.count > p[k].count
                      THEN UListRemove(l[k].list, l[k].list.count, k \notin bad).list ELSE p[k]
<1>1. l["read"] = a /\ l["write"] = b /\ l["error"] = c
  BY DEF Lists
<1>2. back("read") = x /\ back("error") = y
  <2> HIDE DEF l
  <2> QED
    BY <1>1
<1>3. (\E k \in Lists : l[k].sts # 0) <=> a.sts # 0 \/ b.sts # 0 \/ c.sts # 0
  <2> HIDE DEF l
  <2> QED
    BY <1>1 DEF Lists
<1>4. r = IF m.sts # 0 THEN Gives([p EXCEPT !.map = m.map], "MEMORY")
          ELSE IF \E k \in Lists : l[k].sts # 0
          THEN Gives([p EXCEPT !.map = undo, !.error = back("error"),
                               !.read = IF l["error"].sts = 0 THEN back("read") ELSE @], "MEMORY")
          ELSE Gives([p EXCEPT !.map = m.map, !.read = l["read"].list,
                               !.write = l["write"].list, !.error = l["error"].list], "SUCCESS")
  BY SMTT(25) DEF Win32Add
<1> HIDE DEF l, back
<1>5. [p EXCEPT !.map = undo, !.error = back("error"),
                !.read = IF l["error"].sts = 0 THEN back("read") ELSE @] =
      [p EXCEPT !.map = undo, !.error = y, !.read = IF c.sts = 0 THEN x ELSE p.read]
  BY <1>1, <1>2
<1> QED
  BY <1>1, <1>3, <1>4, <1>5 DEF Gives, WithMap, WithTwo, WithThree

(* It adds the entry to the map and the lists, or leaves the set as it was.*)
LEMMA Win32AddKeeps ==
  ASSUME NEW p, PollWhole(p), p.backend = "win32", NEW s \in Socket, NEW u \in User \cup {NoUser},
         NEW flags \in SUBSET {"in", "out"}, NEW bad, NEW r, r = Win32Add(p, s, u, flags, bad)
  PROVE  /\ r.res \in {"SUCCESS", "MEMORY"} /\ (bad = {} => r.res = "SUCCESS")
         /\ r.res = "SUCCESS" => AddedTo(p, s, u, r.poll)
         /\ r.res # "SUCCESS" => AsBefore(p, r.poll)
         /\ PollOK(p) /\ s \notin SocketsIn(p) /\ flags = {"in"} => PollOK(r.poll)
<1> DEFINE n == p.map.count
<1>20. PICK m : m = MapAdd(p.map, s, u, bad)
  OBVIOUS
<1>21. PICK undo : undo = MapRemove(m.map, m.map.count, bad)
  OBVIOUS
<1>22. PICK a : a = IF "in" \in flags THEN UListAdd(p.read, s, "read" \notin bad) ELSE Done(p.read)
  OBVIOUS
<1>23. PICK b : b = IF "out" \in flags THEN UListAdd(p.write, s, "write" \notin bad) ELSE Done(p.write)
  OBVIOUS
<1>24. PICK c : c = UListAdd(p.error, s, "error" \notin bad)
  OBVIOUS
<1>25. PICK x : x = IF a.list.count > p.read.count
                    THEN UListRemove(a.list, a.list.count, "read" \notin bad).list ELSE p.read
  OBVIOUS
<1>26. PICK y : y = IF c.list.count > p.error.count
                    THEN UListRemove(c.list, c.list.count, "error" \notin bad).list ELSE p.error
  OBVIOUS
<1>27. PICK z : z = IF c.sts = 0 THEN x ELSE p.read
  OBVIOUS
<1>28. PICK q1 : q1 = WithMap(p, m.map)
  OBVIOUS
<1>29. PICK q2 : q2 = WithTwo(p, undo.map, z, y)
  OBVIOUS
<1>30. PICK q3 : q3 = WithThree(p, m.map, a.list, b.list, c.list)
  OBVIOUS
<1>1. /\ p \in PollSets(Cell) /\ MapWhole(p.map, Cell)
      /\ \A i \in 1 .. n : KeyFd(p, i) \in Socket /\ p.map.values[i] \in User \cup {NoUser}
      /\ Whole(p.read, Cell) /\ Whole(p.write, Cell) /\ Whole(p.error, Cell)
  BY DEF PollWhole, PollHolds
<1>2. p # NoPoll /\ n \in Nat
  BY <1>1, PollShape
<1>3. \A i \in 1 .. n : KeyFd(p, i) = p.map.keys[i]
  BY DEF KeyFd
<1>4. s \in Cell /\ u \in Cell /\ Zero \in Cell
  BY CellHas
<1>5. r = IF m.sts # 0 THEN [poll |-> q1, res |-> "MEMORY"]
          ELSE IF a.sts # 0 \/ b.sts # 0 \/ c.sts # 0 THEN [poll |-> q2, res |-> "MEMORY"]
          ELSE [poll |-> q3, res |-> "SUCCESS"]
  <2>1. PICK v : v = undo.map
    OBVIOUS
  <2>2. r = IF m.sts # 0 THEN [poll |-> WithMap(p, m.map), res |-> "MEMORY"]
             ELSE IF a.sts # 0 \/ b.sts # 0 \/ c.sts # 0
             THEN [poll |-> WithTwo(p, v, IF c.sts = 0 THEN x ELSE p.read, y), res |-> "MEMORY"]
             ELSE [poll |-> WithThree(p, m.map, a.list, b.list, c.list), res |-> "SUCCESS"]
    <3>1. v = MapRemove(m.map, m.map.count, bad).map
      BY <1>21, <2>1
    <3> QED
      BY <1>20, <1>22, <1>23, <1>24, <1>25, <1>26, <3>1, Win32AddIs
  <2> QED
    BY <1>27, <1>28, <1>29, <1>30, <2>1, <2>2
<1>6. /\ m.sts \in {0, -1} /\ (bad = {} => m.sts = 0)
      /\ MapWhole(m.map, Cell)
      /\ \A i \in 1 .. n : m.map.keys[i] = p.map.keys[i] /\ m.map.values[i] = p.map.values[i]
      /\ m.sts # 0 => m.map.count = n
      /\ m.sts = 0 => /\ m.map.count = n + 1
                      /\ m.map.keys[n + 1] = s /\ m.map.values[n + 1] = u
                      /\ Settled(m.map.capacity, n)
  BY <1>1, <1>4, <1>20, MapAddKeeps
<1>7. /\ q1 = [backend |-> "win32", map |-> m.map, read |-> p.read, write |-> p.write, error |-> p.error]
      /\ q2 = [backend |-> "win32", map |-> undo.map, read |-> z, write |-> p.write, error |-> y]
      /\ q3 = [backend |-> "win32", map |-> m.map, read |-> a.list, write |-> b.list, error |-> c.list]
  <2>1. PICK m1 : m1 = m.map
    OBVIOUS
  <2>2. PICK m2 : m2 = undo.map
    OBVIOUS
  <2>3. PICK a1 : a1 = a.list
    OBVIOUS
  <2>4. PICK b1 : b1 = b.list
    OBVIOUS
  <2>5. PICK c1 : c1 = c.list
    OBVIOUS
  <2>6. /\ q1 = WithMap(p, m1) /\ q2 = WithTwo(p, m2, z, y) /\ q3 = WithThree(p, m1, a1, b1, c1)
    BY <1>28, <1>29, <1>30, <2>1, <2>2, <2>3, <2>4, <2>5
  <2>7. q1 = [backend |-> "win32", map |-> m1, read |-> p.read, write |-> p.write, error |-> p.error]
    BY <1>1, <2>6, Win32Except
  <2>8. q2 = [backend |-> "win32", map |-> m2, read |-> z, write |-> p.write, error |-> y]
    BY <1>1, <2>6, Win32Except
  <2>9. q3 = [backend |-> "win32", map |-> m1, read |-> a1, write |-> b1, error |-> c1]
    BY <1>1, <2>6, Win32Except
  <2> QED
    BY <2>1, <2>2, <2>3, <2>4, <2>5, <2>7, <2>8, <2>9
<1>8. /\ a.sts \in {0, -1} /\ ("read" \notin bad => a.sts = 0)
      /\ a.sts = 0 => Whole(a.list, Cell)
      /\ a.sts = 0 /\ "in" \in flags => /\ Names(a.list) = Names(p.read) \cup {s}
                                        /\ NoTwice(p.read) /\ s \notin Names(p.read) => NoTwice(a.list)
      /\ Whole(x, Cell) /\ SameList(x, p.read)
  <2>1. PICK ok \in BOOLEAN : ok = ("read" \notin bad)
    OBVIOUS
  <2>2. PICK asked \in BOOLEAN : asked <=> ("in" \in flags)
    OBVIOUS
  <2>3. PICK k : k = p.read
    OBVIOUS
  <2>4. /\ a = IF asked THEN UListAdd(k, s, ok) ELSE Done(k)
        /\ x = IF a.list.count > k.count THEN UListRemove(a.list, a.list.count, ok).list ELSE k
        /\ Whole(k, Cell)
    BY <1>1, <1>22, <1>25, <2>1, <2>2, <2>3
  <2>5. /\ a.sts \in {0, -1} /\ (ok => a.sts = 0)
        /\ a.sts = 0 => Whole(a.list, Cell)
        /\ a.sts = 0 /\ asked => /\ Names(a.list) = Names(k) \cup {s}
                                 /\ NoTwice(k) /\ s \notin Names(k) => NoTwice(a.list)
        /\ ~ asked => a.list = k
        /\ Whole(x, Cell) /\ SameList(x, k)
    BY <2>4, ListAdded
  <2> QED
    BY <2>1, <2>2, <2>3, <2>5
<1>9. /\ b.sts \in {0, -1} /\ ("write" \notin bad => b.sts = 0)
      /\ b.sts = 0 => Whole(b.list, Cell)
      /\ "out" \notin flags => b.list = p.write
  <2>1. PICK ok \in BOOLEAN : ok = ("write" \notin bad)
    OBVIOUS
  <2>2. PICK asked \in BOOLEAN : asked <=> ("out" \in flags)
    OBVIOUS
  <2>3. PICK k : k = p.write
    OBVIOUS
  <2>6. PICK w : w = IF b.list.count > k.count THEN UListRemove(b.list, b.list.count, ok).list ELSE k
    OBVIOUS
  <2>4. /\ b = IF asked THEN UListAdd(k, s, ok) ELSE Done(k)
        /\ w = IF b.list.count > k.count THEN UListRemove(b.list, b.list.count, ok).list ELSE k
        /\ Whole(k, Cell)
    BY <1>1, <1>23, <2>6, <2>1, <2>2, <2>3
  <2>5. /\ b.sts \in {0, -1} /\ (ok => b.sts = 0)
        /\ b.sts = 0 => Whole(b.list, Cell)
        /\ b.sts = 0 /\ asked => /\ Names(b.list) = Names(k) \cup {s}
                                 /\ NoTwice(k) /\ s \notin Names(k) => NoTwice(b.list)
        /\ ~ asked => b.list = k
        /\ Whole(w, Cell) /\ SameList(w, k)
    BY <2>4, ListAdded
  <2> QED
    BY <2>1, <2>2, <2>3, <2>5
<1>10. /\ c.sts \in {0, -1} /\ ("error" \notin bad => c.sts = 0)
       /\ c.sts = 0 => Whole(c.list, Cell)
       /\ c.sts = 0 => /\ Names(c.list) = Names(p.error) \cup {s}
                       /\ NoTwice(p.error) /\ s \notin Names(p.error) => NoTwice(c.list)
       /\ Whole(y, Cell) /\ SameList(y, p.error)
  <2>1. PICK ok \in BOOLEAN : ok = ("error" \notin bad)
    OBVIOUS
  <2>2. PICK asked \in BOOLEAN : asked
    OBVIOUS
  <2>3. PICK k : k = p.error
    OBVIOUS
  <2>4. /\ c = IF asked THEN UListAdd(k, s, ok) ELSE Done(k)
        /\ y = IF c.list.count > k.count THEN UListRemove(c.list, c.list.count, ok).list ELSE k
        /\ Whole(k, Cell)
    BY <1>1, <1>24, <1>26, <2>1, <2>2, <2>3
  <2>5. /\ c.sts \in {0, -1} /\ (ok => c.sts = 0)
        /\ c.sts = 0 => Whole(c.list, Cell)
        /\ c.sts = 0 /\ asked => /\ Names(c.list) = Names(k) \cup {s}
                                 /\ NoTwice(k) /\ s \notin Names(k) => NoTwice(c.list)
        /\ ~ asked => c.list = k
        /\ Whole(y, Cell) /\ SameList(y, k)
    BY <2>4, ListAdded
  <2> QED
    BY <2>1, <2>2, <2>3, <2>5
<1>11. Whole(z, Cell) /\ SameList(z, p.read)
  BY <1>1, <1>8, <1>27 DEF SameList
<1>12. CASE m.sts # 0
  <2>1. r.poll = q1 /\ r.res = "MEMORY"
    BY <1>5, <1>12
  <2>2. \A i \in 1 .. m.map.count : m.map.keys[i] \in Socket /\ m.map.values[i] \in User \cup {NoUser}
    BY <1>1, <1>3, <1>6, <1>12
  <2>3. /\ PollWhole(q1) /\ q1 # NoPoll /\ q1.backend = "win32" /\ q1.map = m.map
        /\ q1.read = p.read /\ q1.write = p.write /\ q1.error = p.error
        /\ \A i : KeyFd(q1, i) = m.map.keys[i]
    BY <1>1, <1>6, <1>7, <2>2, Win32Holds
  <2>4. /\ Registered(q1) = Registered(p) /\ SocketsIn(q1) = SocketsIn(p)
        /\ Distinct(p) => Distinct(q1)
    <3>1. /\ q1.map.count = p.map.count
          /\ \A i \in 1 .. p.map.count : KeyFd(q1, i) = KeyFd(p, i) /\ q1.map.values[i] = p.map.values[i]
      BY <1>3, <1>6, <1>12, <2>3
    <3> QED
      BY <1>2, <2>3, <3>1, EntriesSame
  <2>5. AsBefore(p, q1)
    BY <1>6, <1>12, <2>3, <2>4 DEF AsBefore
  <2>6. PollOK(p) => PollOK(q1)
    BY <2>3, <2>4 DEF PollOK
  <2> QED
    BY <1>6, <1>12, <2>1, <2>5, <2>6
<1>13. CASE m.sts = 0 /\ (a.sts # 0 \/ b.sts # 0 \/ c.sts # 0)
  <2>1. r.poll = q2 /\ r.res = "MEMORY"
    BY <1>5, <1>13
  <2> DEFINE k == n + 1
             o == m.map
  <2>2. MapHolds(o, Cell) /\ ~ Damaged(o) /\ k \in 1 .. o.count /\ o.count = k /\ Settled(o.capacity, o.count - 1)
        /\ undo = MapRemove(o, k, bad) /\ k \in Nat /\ k - 1 = n
    <3>1. MapHolds(o, Cell) /\ ~ Damaged(o)
      BY <1>6, WholeTypes
    <3>2. o.count = k /\ k \in 1 .. o.count /\ k - 1 = n /\ k \in Nat
      BY <1>2, <1>6, <1>13
    <3>3. undo = MapRemove(o, k, bad)
      BY <1>21, <3>2
    <3> QED
      BY <1>6, <1>13, <3>1, <3>2, <3>3
  <2> HIDE DEF o, k
  <2>3. /\ undo.sts = 0 /\ MapWhole(undo.map, Cell) /\ undo.map.count = o.count - 1
        /\ \A j \in 1 .. o.count :
              /\ j <= Len(undo.map.keys) => undo.map.keys[j] = IF j = k THEN o.keys[o.count] ELSE o.keys[j]
              /\ j <= Len(undo.map.values) =>
                   undo.map.values[j] = IF j = k THEN o.values[o.count] ELSE o.values[j]
    BY SMTT(25), <1>4, <2>2, MapRemoveKeeps
  <2>4. undo.map.count = n /\ n <= Len(undo.map.keys) /\ n <= Len(undo.map.values)
        /\ Len(undo.map.keys) \in Nat /\ Len(undo.map.values) \in Nat
    BY <2>2, <2>3, MapWholeColumns
  <2>5. \A i \in 1 .. n : undo.map.keys[i] = p.map.keys[i] /\ undo.map.values[i] = p.map.values[i]
    <3> SUFFICES ASSUME NEW i \in 1 .. n
                 PROVE  undo.map.keys[i] = p.map.keys[i] /\ undo.map.values[i] = p.map.values[i]
      OBVIOUS
    <3>1. i \in 1 .. o.count /\ i # k /\ i <= Len(undo.map.keys) /\ i <= Len(undo.map.values)
      BY <1>2, <2>2, <2>4
    <3>2. undo.map.keys[i] = o.keys[i] /\ undo.map.values[i] = o.values[i]
      BY <2>3, <3>1
    <3> QED
      BY <1>6, <3>2 DEF o
  <2>6. \A i \in 1 .. undo.map.count :
          undo.map.keys[i] \in Socket /\ undo.map.values[i] \in User \cup {NoUser}
    BY <1>1, <1>3, <2>4, <2>5
  <2>7. /\ PollWhole(q2) /\ q2 # NoPoll /\ q2.backend = "win32" /\ q2.map = undo.map
        /\ q2.read = z /\ q2.write = p.write /\ q2.error = y
        /\ \A i : KeyFd(q2, i) = undo.map.keys[i]
    BY <1>1, <1>7, <1>10, <1>11, <2>3, <2>6, Win32Holds
  <2>8. /\ Registered(q2) = Registered(p) /\ SocketsIn(q2) = SocketsIn(p)
        /\ Distinct(p) => Distinct(q2)
    <3>1. /\ q2.map.count = p.map.count
          /\ \A i \in 1 .. p.map.count : KeyFd(q2, i) = KeyFd(p, i) /\ q2.map.values[i] = p.map.values[i]
      BY <1>3, <2>4, <2>5, <2>7
    <3> QED
      BY <1>2, <2>7, <3>1, EntriesSame
  <2>9. AsBefore(p, q2)
    BY <2>4, <2>7, <2>8 DEF AsBefore
  <2>10. /\ Names(z) = Names(p.read) /\ (NoTwice(p.read) => NoTwice(z))
         /\ Names(y) = Names(p.error) /\ (NoTwice(p.error) => NoTwice(y))
    BY <1>10, <1>11, SameListNames
  <2>11. PollOK(p) => PollOK(q2)
    BY <2>7, <2>8, <2>10 DEF PollOK
  <2>12. bad # {}
    BY <1>8, <1>9, <1>10, <1>13
  <2> QED
    BY <2>1, <2>9, <2>11, <2>12
<1>14. CASE m.sts = 0 /\ a.sts = 0 /\ b.sts = 0 /\ c.sts = 0
  <2>1. r.poll = q3 /\ r.res = "SUCCESS"
    BY <1>5, <1>14
  <2>2. \A i \in 1 .. n + 1 : i \in 1 .. n \/ i = n + 1
    BY <1>2
  <2>3. \A i \in 1 .. m.map.count : m.map.keys[i] \in Socket /\ m.map.values[i] \in User \cup {NoUser}
    BY <1>1, <1>3, <1>6, <1>14, <2>2
  <2>4. /\ PollWhole(q3) /\ q3 # NoPoll /\ q3.backend = "win32" /\ q3.map = m.map
        /\ q3.read = a.list /\ q3.write = b.list /\ q3.error = c.list
        /\ \A i : KeyFd(q3, i) = m.map.keys[i]
    BY <1>6, <1>7, <1>8, <1>9, <1>10, <1>14, <2>3, Win32Holds
  <2>5. /\ Registered(q3) = Registered(p) \cup {<<s, u>>} /\ SocketsIn(q3) = SocketsIn(p) \cup {s}
        /\ Distinct(p) /\ s \notin SocketsIn(p) => Distinct(q3)
    <3>1. /\ p # NoPoll /\ q3 # NoPoll /\ p.map.count = n /\ n \in Nat
          /\ q3.map.count = n + 1 /\ KeyFd(q3, n + 1) = s /\ q3.map.values[n + 1] = u
      BY <1>2, <1>6, <1>14, <2>4
    <3>2. \A i \in 1 .. n : KeyFd(q3, i) = KeyFd(p, i) /\ q3.map.values[i] = p.map.values[i]
      BY <1>3, <1>6, <2>4
    <3> HIDE DEF n
    <3> QED
      BY <3>1, <3>2, EntryAdded
  <2>6. AddedTo(p, s, u, q3)
    BY <1>6, <1>14, <2>4, <2>5 DEF AddedTo, PollOK
  <2>7. ASSUME PollOK(p), s \notin SocketsIn(p), flags = {"in"}
        PROVE  PollOK(q3)
    <3>1. /\ NoTwice(p.read) /\ NoTwice(p.error) /\ p.write.count = 0 /\ Distinct(p)
          /\ Names(p.read) = SocketsIn(p) /\ Names(p.error) = SocketsIn(p)
      BY <2>7 DEF PollOK
    <3>2. /\ Names(q3.read) = SocketsIn(q3) /\ Names(q3.error) = SocketsIn(q3)
          /\ NoTwice(q3.read) /\ NoTwice(q3.error) /\ q3.write.count = 0
      BY <1>8, <1>9, <1>10, <1>14, <2>4, <2>5, <2>7, <3>1
    <3> QED
      BY <2>4, <2>5, <2>7, <3>1, <3>2 DEF PollOK
  <2> QED
    BY <2>1, <2>6, <2>7
<1> QED
  BY <1>6, <1>8, <1>9, <1>10, <1>12, <1>13, <1>14

-----------------------------------------------------------------------------
(* Removing from a poll set.                                               *)

(* tcs_poll_add.                                                           *)
LEMMA PollAddKeeps ==
  ASSUME NEW p, PollWhole(p), NEW s \in Socket, NEW u \in User \cup {NoUser},
         NEW flags \in SUBSET {"in", "out"}, NEW bad, NEW r, r = PollAdd(p, s, u, flags, bad)
  PROVE  /\ r.res \in {"SUCCESS", "MEMORY"} /\ (bad = {} => r.res = "SUCCESS")
         /\ r.res = "SUCCESS" => AddedTo(p, s, u, r.poll)
         /\ r.res # "SUCCESS" => AsBefore(p, r.poll)
         /\ PollOK(p) /\ s \notin SocketsIn(p) /\ flags = {"in"} => PollOK(r.poll)
<1>1. p # NoPoll /\ p.backend \in {"posix", "win32"}
  BY PollShape DEF PollWhole, PollHolds
<1>2. s # InvalidSocket
  OBVIOUS
<1>3. CASE p.backend = "posix"
  <2>1. r = PosixAdd(p, s, u, flags, bad)
    BY <1>1, <1>2, <1>3 DEF PollAdd
  <2> QED
    BY <1>3, <2>1, PosixAddKeeps
<1>4. CASE p.backend = "win32"
  <2>1. r = Win32Add(p, s, u, flags, bad)
    BY <1>1, <1>2, <1>4 DEF PollAdd
  <2> QED
    BY <1>4, <2>1, Win32AddKeeps
<1> QED
  BY <1>1, <1>3, <1>4

-----------------------------------------------------------------------------
(* What a poll set that a socket was taken out of is, if it was there.     *)
RemovedFrom(p, s, q) ==
  /\ PollOK(q)
  /\ Registered(q) = {r \in Registered(p) : r[1] # s}
  /\ s \in SocketsIn(p) => q.map.count = p.map.count - 1

(* The removal of an entry of the map, from keys that are read with key(_). *)
LEMMA PosixRemoveKeeps ==
  ASSUME NEW p, PollHolds(p), ~ Damaged(p.map), p.backend = "posix", NEW s, NEW bad,
         NEW q, q = PosixRemove(p, s, bad).poll
  PROVE  /\ PollHolds(q) /\ q.backend = "posix" /\ (\A X : PollIn(p, X) => PollIn(q, X))
         /\ PollOK(p) => RemovedFrom(p, s, q) \/ StillThere(p, q, s)
         /\ PollOK(p) /\ (bad = {} \/ Settled(p.map.capacity, p.map.count - 1)) => RemovedFrom(p, s, q)
<1>1. PICK i : i = PlaceOf(p, s)
  OBVIOUS
<1>2. PICK m : m = MapRemove(p.map, i, bad)
  OBVIOUS
<1> DEFINE n == p.map.count
<1>3. /\ p \in PollSets(Cell) /\ p # NoPoll /\ p = [backend |-> "posix", map |-> p.map] /\ n \in Nat
      /\ MapHolds(p.map, Cell) /\ Zero \in Cell
  BY PollShape, CellHas DEF PollHolds
<1>4. n <= Len(p.map.keys) /\ n <= Len(p.map.values)
  BY <1>3, LenProperties DEF Damaged, MapHolds
<1>5. \A j \in 1 .. n : KeyFd(p, j) \in Socket /\ KeyFd(p, j) = p.map.keys[j].fd
  <2>1. \A j \in 1 .. n : j <= Len(p.map.keys)
    BY <1>3, <1>4, LenProperties DEF MapHolds
  <2> QED
    BY <2>1 DEF PollHolds, KeyFd
<1>6. /\ s \notin SocketsIn(p) => i = 0
      /\ s \in SocketsIn(p) => i \in 1 .. n /\ KeyFd(p, i) = s
      /\ i # 0 => i \in 1 .. n /\ KeyFd(p, i) = s
  BY <1>1, <1>3, PlaceIs
<1>7. q = IF i = 0 THEN p ELSE [p EXCEPT !.map = m.map]
  BY <1>1, <1>2 DEF PosixRemove, Gives
<1>8. CASE i = 0
  <2>1. s \notin SocketsIn(p)
    BY <1>3, <1>6, <1>8
  <2>2. \A r \in Registered(p) : r[1] # s
    BY <1>3, <2>1, RegisteredIs
  <2>3. Registered(p) = {r \in Registered(p) : r[1] # s}
    BY <2>2
  <2>4. PollOK(p) => RemovedFrom(p, s, p)
    BY <2>1, <2>3 DEF RemovedFrom
  <2> QED
    BY <1>7, <1>8, <2>4
<1>9. CASE i # 0
  <2>1. i \in 1 .. n /\ KeyFd(p, i) = s /\ n # 0
    BY <1>3, <1>6, <1>9
  <2>2. /\ m.sts \in {0, -2} /\ (bad = {} \/ Settled(p.map.capacity, n - 1) => m.sts = 0)
        /\ MapHolds(m.map, Cell)
        /\ m.sts = 0 => MapWhole(m.map, Cell) /\ m.map.count = n - 1
        /\ m.sts # 0 => m.map.count = n
        /\ \A j \in 1 .. n :
              /\ j <= Len(m.map.keys) => m.map.keys[j] = IF j = i THEN p.map.keys[n] ELSE p.map.keys[j]
              /\ j <= Len(m.map.values) =>
                   m.map.values[j] = IF j = i THEN p.map.values[n] ELSE p.map.values[j]
    BY <1>2, <1>3, <2>1, MapRemoveKeeps
  <2>3. PICK o : o = m.map
    OBVIOUS
  <2>4. q = [backend |-> "posix", map |-> o]
    BY <1>3, <1>7, <1>9, <2>3
  <2>5. o \in [keys : Seq(Cell), values : Seq(Cell), count : Nat, capacity : Nat]
    BY <2>2, <2>3 DEF MapHolds
  <2>6. /\ q \in PollSets(Cell) /\ q # NoPoll /\ q.backend = "posix" /\ q.map = o
        /\ \A j : KeyFd(q, j) = o.keys[j].fd
    BY <2>4, <2>5, PosixPoll
  <2>7. o.count \in {n - 1, n} /\ \A j \in 1 .. o.count : j \in 1 .. n /\ n \in 1 .. n
    BY <1>3, <2>1, <2>2, <2>3
  <2>8. \A j \in 1 .. o.count : j <= Len(o.keys) =>
          KeyFd(q, j) = IF j = i THEN KeyFd(p, n) ELSE KeyFd(p, j)
    BY <1>5, <2>2, <2>3, <2>6, <2>7
  <2>9. PollHolds(q)
    BY <1>5, <2>2, <2>3, <2>6, <2>7, <2>8 DEF PollHolds
  <2>10. m.sts # 0 => StillThere(p, q, s)
    <3>1. <<KeyFd(p, i), p.map.values[i]>> \in Registered(p)
      BY <1>3, <2>1, RegisteredIs
    <3> QED
      BY <2>1, <2>2, <2>3, <2>6, <3>1 DEF StillThere
  <2>11. ASSUME PollOK(p), m.sts = 0
         PROVE  RemovedFrom(p, s, q)
    <3>1. MapWhole(o, Cell) /\ o.count = n - 1
      BY <2>2, <2>3, <2>11
    <3>2. o.count \in Nat /\ o.count <= Len(o.keys) /\ o.count <= Len(o.values)
          /\ Len(o.keys) \in Nat /\ Len(o.values) \in Nat
      BY <3>1, MapWholeColumns
    <3>3. \A j \in 1 .. n - 1 : j \in 1 .. o.count /\ j \in 1 .. n /\ j <= Len(o.keys) /\ j <= Len(o.values)
      BY <1>3, <3>1, <3>2
    <3>4. \A j \in 1 .. n - 1 : /\ KeyFd(q, j) = IF j = i THEN KeyFd(p, n) ELSE KeyFd(p, j)
                                /\ q.map.values[j] = IF j = i THEN p.map.values[n] ELSE p.map.values[j]
                                /\ o.keys[j] = IF j = i THEN p.map.keys[n] ELSE p.map.keys[j]
      BY <2>2, <2>3, <2>6, <2>8, <3>3
    <3>5. \A j \in 1 .. n : p.map.values[j] \in User \cup {NoUser} /\ p.map.keys[j].events = {"in", "err"}
      BY <2>11 DEF PollOK, PollWhole
    <3>6. PollWhole(q)
      BY <1>5, <2>6, <2>7, <2>9, <3>1, <3>4, <3>5 DEF PollWhole
    <3>7. Registered(q) = {r \in Registered(p) : r[1] # s} /\ Distinct(q)
      <4>1. /\ p # NoPoll /\ q # NoPoll /\ n \in Nat /\ p.map.count = n /\ Distinct(p)
            /\ q.map.count = n - 1 /\ i \in 1 .. n /\ s = KeyFd(p, i)
        BY <1>3, <2>1, <2>6, <2>11, <3>1 DEF PollOK
      <4> HIDE DEF n
      <4> QED
        BY <3>4, <4>1, EntryRemoved
    <3>8. \A j \in 1 .. q.map.count : q.map.keys[j].events = {"in", "err"}
      BY <2>6, <2>7, <3>1, <3>4, <3>5
    <3>9. PollOK(q)
      BY <2>6, <3>6, <3>7, <3>8 DEF PollOK
    <3> QED
      BY <2>6, <3>1, <3>7, <3>9 DEF RemovedFrom
  <2>12. ASSUME NEW X, PollIn(p, X)
         PROVE  PollIn(q, X)
    <3>1. \A j \in 1 .. n : KeyFd(p, j) \in X
      <4>1. \A j \in 1 .. n : j <= Len(p.map.keys)
        BY <1>3, <1>4, LenProperties DEF MapHolds
      <4> QED
        BY <2>12, <4>1 DEF PollIn
    <3>2. \A j \in 1 .. o.count : j <= Len(o.keys) => KeyFd(q, j) \in X
      BY <2>7, <2>8, <3>1
    <3> QED
      BY <2>6, <3>2 DEF PollIn
  <2> QED
    BY <2>2, <2>6, <2>9, <2>10, <2>11, <2>12
<1> QED
  BY <1>8, <1>9

(* tcs_poll_remove of Windows, its results named.                          *)
LEMMA Win32RemoveIs ==
  ASSUME NEW p, NEW s, NEW bad,
         NEW i, i = PlaceOf(p, s),
         NEW m, m = IF i = 0 THEN p.map ELSE MapRemove(p.map, i, bad).map,
         NEW ia, ia = FirstOf(Socks(p.read), s),
         NEW ib, ib = FirstOf(Socks(p.write), s),
         NEW ic, ic = FirstOf(Socks(p.error), s),
         NEW a, a = IF ia = 0 THEN p.read ELSE UListRemove(p.read, ia, "read" \notin bad).list,
         NEW b, b = IF ib = 0 THEN p.write ELSE UListRemove(p.write, ib, "write" \notin bad).list,
         NEW c, c = IF ic = 0 THEN p.error ELSE UListRemove(p.error, ic, "error" \notin bad).list
  PROVE  Win32Remove(p, s, bad).poll = WithThree(p, m, a, b, c)
<1> DEFINE at == [k \in Lists |-> FirstOf(Socks(p[k]), s)]
           l(k) == IF at[k] = 0 THEN p[k] ELSE UListRemove(p[k], at[k], k \notin bad).list
<1>1. at["read"] = ia /\ at["write"] = ib /\ at["error"] = ic
  BY DEF Lists
<1>2. l("read") = a /\ l("write") = b /\ l("error") = c
  <2> HIDE DEF at
  <2> QED
    BY <1>1
<1>3. Win32Remove(p, s, bad).poll =
        [p EXCEPT !.map = m, !.read = l("read"), !.write = l("write"), !.error = l("error")]
  BY DEF Win32Remove, Gives
<1> HIDE DEF l
<1> QED
  BY <1>2, <1>3 DEF WithThree

(* A list without a socket: at worst it keeps its memory.                  *)
LEMMA ListRemoved ==
  ASSUME NEW k, Whole(k, Cell), NEW s, NEW ok \in BOOLEAN, NEW i, i = FirstOf(Socks(k), s),
         NEW q, q = IF i = 0 THEN k ELSE UListRemove(k, i, ok).list
  PROVE  /\ Whole(q, Cell) /\ (k.count = 0 => q = k) /\ Names(q) \subseteq Names(k)
         /\ NoTwice(k) => NoTwice(q) /\ Names(q) = Names(k) \ {s}
BY CellHas, RemoveNames

(* The lists are always rid of the socket; the map may keep it.            *)
LEMMA Win32RemoveKeeps ==
  ASSUME NEW p, PollHolds(p), ~ Damaged(p.map), p.backend = "win32", NEW s, NEW bad,
         NEW q, q = Win32Remove(p, s, bad).poll
  PROVE  /\ PollHolds(q) /\ q.backend = "win32" /\ (\A X : PollIn(p, X) => PollIn(q, X))
         /\ PollOK(p) => RemovedFrom(p, s, q) \/ StillThere(p, q, s)
         /\ PollOK(p) /\ (bad = {} \/ Settled(p.map.capacity, p.map.count - 1)) => RemovedFrom(p, s, q)
<1>1. PICK i : i = PlaceOf(p, s)
  OBVIOUS
<1>2. PICK m : m = MapRemove(p.map, i, bad)
  OBVIOUS
<1>20. PICK o : o = IF i = 0 THEN p.map ELSE m.map
  OBVIOUS
<1>21. PICK ia : ia = FirstOf(Socks(p.read), s)
  OBVIOUS
<1>22. PICK ib : ib = FirstOf(Socks(p.write), s)
  OBVIOUS
<1>23. PICK ic : ic = FirstOf(Socks(p.error), s)
  OBVIOUS
<1>24. PICK a : a = IF ia = 0 THEN p.read ELSE UListRemove(p.read, ia, "read" \notin bad).list
  OBVIOUS
<1>25. PICK b : b = IF ib = 0 THEN p.write ELSE UListRemove(p.write, ib, "write" \notin bad).list
  OBVIOUS
<1>26. PICK c : c = IF ic = 0 THEN p.error ELSE UListRemove(p.error, ic, "error" \notin bad).list
  OBVIOUS
<1> DEFINE n == p.map.count
<1>3. /\ p \in PollSets(Cell) /\ p # NoPoll /\ n \in Nat
      /\ MapHolds(p.map, Cell) /\ Zero \in Cell
      /\ Whole(p.read, Cell) /\ Whole(p.write, Cell) /\ Whole(p.error, Cell)
  BY PollShape, CellHas DEF PollHolds
<1>4. n <= Len(p.map.keys) /\ n <= Len(p.map.values)
  BY <1>3, LenProperties DEF Damaged, MapHolds
<1>5. \A j \in 1 .. n : KeyFd(p, j) \in Socket /\ KeyFd(p, j) = p.map.keys[j]
  <2>1. \A j \in 1 .. n : j <= Len(p.map.keys)
    BY <1>3, <1>4, LenProperties DEF MapHolds
  <2> QED
    BY <2>1 DEF PollHolds, KeyFd
<1>6. /\ s \notin SocketsIn(p) => i = 0
      /\ s \in SocketsIn(p) => i \in 1 .. n /\ KeyFd(p, i) = s
      /\ i # 0 => i \in 1 .. n /\ KeyFd(p, i) = s
  BY <1>1, <1>3, PlaceIs
<1>7. q = [backend |-> "win32", map |-> o, read |-> a, write |-> b, error |-> c]
  <2>1. o = IF i = 0 THEN p.map ELSE MapRemove(p.map, i, bad).map
    BY <1>2, <1>20
  <2>2. Win32Remove(p, s, bad).poll = WithThree(p, o, a, b, c)
    BY <1>1, <1>21, <1>22, <1>23, <1>24, <1>25, <1>26, <2>1, Win32RemoveIs
  <2>3. WithThree(p, o, a, b, c) = [backend |-> "win32", map |-> o, read |-> a, write |-> b, error |-> c]
    BY <1>3, Win32Except
  <2> QED
    BY <2>2, <2>3
<1>8. /\ Whole(a, Cell) /\ Whole(b, Cell) /\ Whole(c, Cell)
      /\ p.write.count = 0 => b = p.write
      /\ Names(a) \subseteq Names(p.read) /\ Names(b) \subseteq Names(p.write) /\ Names(c) \subseteq Names(p.error)
      /\ NoTwice(p.read) => NoTwice(a) /\ Names(a) = Names(p.read) \ {s}
      /\ NoTwice(p.error) => NoTwice(c) /\ Names(c) = Names(p.error) \ {s}
  <2>1. PICK ka \in BOOLEAN : ka <=> "read" \notin bad
    OBVIOUS
  <2>2. PICK kb \in BOOLEAN : kb <=> "write" \notin bad
    OBVIOUS
  <2>3. PICK kc \in BOOLEAN : kc <=> "error" \notin bad
    OBVIOUS
  <2>4. a = IF ia = 0 THEN p.read ELSE UListRemove(p.read, ia, ka).list
    BY <1>24, <2>1
  <2>5. b = IF ib = 0 THEN p.write ELSE UListRemove(p.write, ib, kb).list
    BY <1>25, <2>2
  <2>6. c = IF ic = 0 THEN p.error ELSE UListRemove(p.error, ic, kc).list
    BY <1>26, <2>3
  <2>7. Whole(a, Cell) /\ Names(a) \subseteq Names(p.read) /\ (NoTwice(p.read) => NoTwice(a) /\ Names(a) = Names(p.read) \ {s})
    BY <1>3, <1>21, <2>4, ListRemoved
  <2>8. Whole(b, Cell) /\ Names(b) \subseteq Names(p.write) /\ (p.write.count = 0 => b = p.write)
    BY <1>3, <1>22, <2>5, ListRemoved
  <2>9. Whole(c, Cell) /\ Names(c) \subseteq Names(p.error) /\ (NoTwice(p.error) => NoTwice(c) /\ Names(c) = Names(p.error) \ {s})
    BY <1>3, <1>23, <2>6, ListRemoved
  <2> QED
    BY <2>7, <2>8, <2>9
<1>9. o \in [keys : Seq(Cell), values : Seq(Cell), count : Nat, capacity : Nat] =>
        /\ q \in PollSets(Cell) /\ q # NoPoll /\ q.backend = "win32" /\ q.map = o
        /\ q.read = a /\ q.write = b /\ q.error = c
        /\ \A j : KeyFd(q, j) = o.keys[j]
  <2>1. {a, b, c} \subseteq [data : Seq(Cell), count : Nat, capacity : Nat]
    BY <1>8, WholeTypes
  <2> QED
    BY <1>7, <2>1, Win32Poll
<1>10. CASE i = 0
  <2>1. o = p.map /\ o \in [keys : Seq(Cell), values : Seq(Cell), count : Nat, capacity : Nat]
    BY <1>3, <1>10, <1>20 DEF MapHolds
  <2>2. /\ q \in PollSets(Cell) /\ q # NoPoll /\ q.backend = "win32" /\ q.map = p.map
        /\ q.read = a /\ q.write = b /\ q.error = c
        /\ \A j \in 1 .. n : KeyFd(q, j) = KeyFd(p, j)
    BY <1>5, <1>9, <2>1
  <2>3. s \notin SocketsIn(p)
    BY <1>3, <1>6, <1>10
  <2>4. /\ Registered(q) = Registered(p) /\ SocketsIn(q) = SocketsIn(p)
        /\ Distinct(p) => Distinct(q)
    <3>1. /\ q.map.count = p.map.count
          /\ \A j \in 1 .. p.map.count : KeyFd(q, j) = KeyFd(p, j) /\ q.map.values[j] = p.map.values[j]
      BY <2>2
    <3> QED
      BY <1>3, <2>2, <3>1, EntriesSame
  <2>5. PollHolds(q)
    BY <1>3, <1>5, <1>8, <2>2 DEF PollHolds
  <2>6. ASSUME PollOK(p)
        PROVE  RemovedFrom(p, s, q)
    <3>1. \A r \in Registered(p) : r[1] # s
      BY <1>3, <2>3, RegisteredIs
    <3>2. Registered(q) = {r \in Registered(p) : r[1] # s}
      BY <2>4, <3>1
    <3>3. PollWhole(q) /\ Distinct(q)
      BY <2>2, <2>4, <2>5, <2>6 DEF PollOK, PollWhole
    <3>4. /\ NoTwice(p.read) /\ NoTwice(p.error) /\ p.write.count = 0
          /\ Names(p.read) = SocketsIn(p) /\ Names(p.error) = SocketsIn(p)
      BY <2>6 DEF PollOK
    <3>5. PollOK(q)
      BY <1>8, <2>2, <2>3, <2>4, <3>3, <3>4 DEF PollOK
    <3> QED
      BY <2>3, <3>2, <3>5 DEF RemovedFrom
  <2>7. ASSUME NEW X, PollIn(p, X)
        PROVE  PollIn(q, X)
    <3>1. \A j \in 1 .. n : KeyFd(p, j) \in X
      <4>1. \A j \in 1 .. n : j <= Len(p.map.keys)
        BY <1>3, <1>4, LenProperties DEF MapHolds
      <4> QED
        BY <2>7, <4>1 DEF PollIn
    <3>2. Names(p.read) \subseteq X /\ Names(p.write) \subseteq X /\ Names(p.error) \subseteq X
      BY <2>7 DEF PollIn
    <3> QED
      BY <1>8, <2>2, <3>1, <3>2 DEF PollIn
  <2> QED
    BY <2>2, <2>5, <2>6, <2>7
<1>11. CASE i # 0
  <2>1. i \in 1 .. n /\ KeyFd(p, i) = s /\ n # 0
    BY <1>3, <1>6, <1>11
  <2>2. /\ m.sts \in {0, -2} /\ (bad = {} \/ Settled(p.map.capacity, n - 1) => m.sts = 0)
        /\ MapHolds(m.map, Cell)
        /\ m.sts = 0 => MapWhole(m.map, Cell) /\ m.map.count = n - 1
        /\ m.sts # 0 => m.map.count = n
        /\ \A j \in 1 .. n :
              /\ j <= Len(m.map.keys) => m.map.keys[j] = IF j = i THEN p.map.keys[n] ELSE p.map.keys[j]
              /\ j <= Len(m.map.values) =>
                   m.map.values[j] = IF j = i THEN p.map.values[n] ELSE p.map.values[j]
    BY SMTT(25), <1>2, <1>3, <2>1, MapRemoveKeeps
  <2>3. o = m.map
    BY <1>11, <1>20
  <2>5. o \in [keys : Seq(Cell), values : Seq(Cell), count : Nat, capacity : Nat]
    BY <2>2, <2>3 DEF MapHolds
  <2>6. /\ q \in PollSets(Cell) /\ q # NoPoll /\ q.backend = "win32" /\ q.map = o
        /\ q.read = a /\ q.write = b /\ q.error = c
        /\ \A j : KeyFd(q, j) = o.keys[j]
    BY <1>9, <2>5
  <2>7. o.count \in {n - 1, n} /\ \A j \in 1 .. o.count : j \in 1 .. n /\ n \in 1 .. n
    BY <1>3, <2>1, <2>2, <2>3
  <2>8. \A j \in 1 .. o.count : j <= Len(o.keys) =>
          KeyFd(q, j) = IF j = i THEN KeyFd(p, n) ELSE KeyFd(p, j)
    BY <1>5, <2>2, <2>3, <2>6, <2>7
  <2>9. PollHolds(q)
    BY <1>5, <1>8, <2>2, <2>3, <2>6, <2>7, <2>8 DEF PollHolds
  <2>10. m.sts # 0 => StillThere(p, q, s)
    <3>1. <<KeyFd(p, i), p.map.values[i]>> \in Registered(p)
      BY <1>3, <2>1, RegisteredIs
    <3> QED
      BY <2>1, <2>2, <2>3, <2>6, <3>1 DEF StillThere
  <2>11. ASSUME PollOK(p), m.sts = 0
         PROVE  RemovedFrom(p, s, q)
    <3>1. MapWhole(o, Cell) /\ o.count = n - 1
      BY <2>2, <2>3, <2>11
    <3>2. o.count \in Nat /\ o.count <= Len(o.keys) /\ o.count <= Len(o.values)
          /\ Len(o.keys) \in Nat /\ Len(o.values) \in Nat
      BY <3>1, MapWholeColumns
    <3>3. \A j \in 1 .. n - 1 : j \in 1 .. o.count /\ j \in 1 .. n /\ j <= Len(o.keys) /\ j <= Len(o.values)
      BY <1>3, <3>1, <3>2
    <3>4. \A j \in 1 .. n - 1 : /\ KeyFd(q, j) = IF j = i THEN KeyFd(p, n) ELSE KeyFd(p, j)
                                /\ q.map.values[j] = IF j = i THEN p.map.values[n] ELSE p.map.values[j]
      BY <2>2, <2>3, <2>6, <2>8, <3>3
    <3>5. \A j \in 1 .. n : p.map.values[j] \in User \cup {NoUser}
      BY <2>11 DEF PollOK, PollWhole
    <3>6. PollWhole(q)
      BY <1>5, <2>6, <2>7, <2>9, <3>1, <3>4, <3>5 DEF PollWhole
    <3>7. /\ Registered(q) = {r \in Registered(p) : r[1] # s} /\ Distinct(q)
          /\ SocketsIn(q) = SocketsIn(p) \ {s}
      <4>1. /\ p # NoPoll /\ q # NoPoll /\ n \in Nat /\ p.map.count = n /\ Distinct(p)
            /\ q.map.count = n - 1 /\ i \in 1 .. n /\ s = KeyFd(p, i)
        BY <1>3, <2>1, <2>6, <2>11, <3>1 DEF PollOK
      <4> HIDE DEF n
      <4> QED
        BY <3>4, <4>1, EntryRemoved
    <3>8. /\ NoTwice(p.read) /\ NoTwice(p.error) /\ p.write.count = 0
          /\ Names(p.read) = SocketsIn(p) /\ Names(p.error) = SocketsIn(p)
      BY <2>11 DEF PollOK
    <3>9. PollOK(q)
      BY <1>8, <2>6, <3>6, <3>7, <3>8 DEF PollOK
    <3> QED
      BY <2>6, <3>1, <3>7, <3>9 DEF RemovedFrom
  <2>12. ASSUME NEW X, PollIn(p, X)
         PROVE  PollIn(q, X)
    <3>1. \A j \in 1 .. n : KeyFd(p, j) \in X
      <4>1. \A j \in 1 .. n : j <= Len(p.map.keys)
        BY <1>3, <1>4, LenProperties DEF MapHolds
      <4> QED
        BY <2>12, <4>1 DEF PollIn
    <3>2. Names(p.read) \subseteq X /\ Names(p.write) \subseteq X /\ Names(p.error) \subseteq X
      BY <2>12 DEF PollIn
    <3>3. \A j \in 1 .. o.count : j <= Len(o.keys) => KeyFd(q, j) \in X
      BY <2>7, <2>8, <3>1
    <3> QED
      BY <1>8, <2>6, <3>2, <3>3 DEF PollIn
  <2> QED
    BY <2>2, <2>6, <2>9, <2>10, <2>11, <2>12
<1> QED
  BY <1>10, <1>11

(* tcs_poll_remove.                                                        *)
LEMMA PollRemoveKeeps ==
  ASSUME NEW p, PollHolds(p), ~ Damaged(p.map), NEW s, NEW bad,
         NEW q, q = PollRemove(p, s, bad).poll
  PROVE  /\ PollHolds(q) /\ q # NoPoll /\ q.backend = p.backend
         /\ \A X : PollIn(p, X) => PollIn(q, X)
         /\ PollOK(p) => RemovedFrom(p, s, q) \/ StillThere(p, q, s)
         /\ PollOK(p) /\ (bad = {} \/ Settled(p.map.capacity, p.map.count - 1)) => RemovedFrom(p, s, q)
<1>1. /\ p # NoPoll /\ p.backend \in {"posix", "win32"} /\ p.map.count \in Nat
      /\ \A i \in 1 .. p.map.count : KeyFd(p, i) \in Socket
  <2>1. /\ p # NoPoll /\ p.backend \in {"posix", "win32"} /\ p.map.count \in Nat
    BY PollShape DEF PollHolds
  <2>2. \A i \in 1 .. p.map.count : i <= Len(p.map.keys)
    BY <2>1, LenProperties DEF PollHolds, MapHolds, Damaged
  <2> QED
    BY <2>1, <2>2 DEF PollHolds
<1>2. CASE s = InvalidSocket
  <2>1. q = p
    BY <1>1, <1>2 DEF PollRemove, Gives
  <2>2. \A r \in Registered(p) : r[1] # s
    BY <1>1, <1>2, RegisteredIs
  <2>3. s \notin SocketsIn(p) /\ Registered(p) = {r \in Registered(p) : r[1] # s}
    BY <1>1, <2>2, RegisteredIs
  <2> QED
    BY <1>1, <2>1, <2>3 DEF RemovedFrom
<1>3. CASE s # InvalidSocket /\ p.backend = "posix"
  <2>1. q = PosixRemove(p, s, bad).poll
    BY <1>1, <1>3 DEF PollRemove
  <2>2. /\ PollHolds(q) /\ q.backend = "posix" /\ (\A X : PollIn(p, X) => PollIn(q, X))
        /\ PollOK(p) => RemovedFrom(p, s, q) \/ StillThere(p, q, s)
        /\ PollOK(p) /\ (bad = {} \/ Settled(p.map.capacity, p.map.count - 1)) => RemovedFrom(p, s, q)
    BY <1>3, <2>1, PosixRemoveKeeps
  <2> QED
    BY <1>3, <2>2 DEF PollHolds
<1>4. CASE s # InvalidSocket /\ p.backend = "win32"
  <2>1. q = Win32Remove(p, s, bad).poll
    BY <1>1, <1>4 DEF PollRemove
  <2>2. /\ PollHolds(q) /\ q.backend = "win32" /\ (\A X : PollIn(p, X) => PollIn(q, X))
        /\ PollOK(p) => RemovedFrom(p, s, q) \/ StillThere(p, q, s)
        /\ PollOK(p) /\ (bad = {} \/ Settled(p.map.capacity, p.map.count - 1)) => RemovedFrom(p, s, q)
    BY <1>4, <2>1, Win32RemoveKeeps
  <2> QED
    BY <1>4, <2>2 DEF PollHolds
<1> QED
  BY <1>1, <1>2, <1>3, <1>4

-----------------------------------------------------------------------------
(* What a wait tells.                                                      *)

(* n different values are a set of n elements.                             *)
LEMMA ApartCount ==
  ASSUME NEW n \in Nat, NEW f, Apart(f, n)
  PROVE  IsFiniteSet(Vals(f, n)) /\ Cardinality(Vals(f, n)) = n
<1> DEFINE S == 1 .. n
           T == Vals(f, n)
           g == [j \in S |-> f[j]]
<1>1. g \in Bijection(S, T)
  <2>1. g \in [S -> T] /\ \A t \in T : \E j \in S : g[j] = t
    BY DEF Vals
  <2>2. \A j, k \in S : g[j] = g[k] => j = k
    BY DEF Apart
  <2> HIDE DEF g, S, T
  <2>3. g \in Injection(S, T)
    BY <2>1, <2>2 DEF Injection, IsInjective
  <2>4. g \in Surjection(S, T)
    BY <2>1 DEF Surjection
  <2> QED
    BY <2>3, <2>4 DEF Bijection
<1>2. IsFiniteSet(S) /\ Cardinality(S) = n
  BY FS_Interval
<1>3. ExistsBijection(S, T)
  BY <1>1 DEF ExistsBijection
<1> HIDE DEF S, T
<1>4. IsFiniteSet(T) /\ Cardinality(T) = Cardinality(S)
  BY <1>2, <1>3, FS_Bijection
<1> QED
  BY <1>2, <1>4 DEF T

(* The positions in order are those of the set.                            *)
LEMMA InOrderOnto ==
  ASSUME NEW set \in SUBSET Nat, IsFiniteSet(set), NEW f, f = InOrder(set)
  PROVE  Vals(f, Cardinality(set)) = set
<1>1. PICK n : n = Cardinality(set)
  OBVIOUS
<1>2. n \in Nat /\ f \in [1 .. n -> set] /\ Apart(f, n)
  BY <1>1, InOrderIs DEF Apart
<1>3. PICK T : T = Vals(f, n)
  OBVIOUS
<1>4. T \subseteq set
  BY <1>2, <1>3 DEF Vals
<1>5. Cardinality(T) = n
  BY <1>2, <1>3, ApartCount
<1> QED
  BY <1>1, <1>3, <1>4, <1>5, FS_Subset

-----------------------------------------------------------------------------
(* Events of sockets of a set.                                             *)
Ev(X) == [socket : X, user : Cell, can_read : {0, 1}, can_write : {0, 1}, error : {0, 1}]

SocksOf(es) == [i \in 1 .. Len(es) |-> es[i].socket]

(* Events of the sockets that were found, as far as there is room: of each *)
(* one, with its user data.                                                *)
Tells(p, es, found, length) ==
  /\ Len(es) <= length
  /\ Apart(SocksOf(es), Len(es))
  /\ Vals(SocksOf(es), Len(es)) \subseteq found
  /\ Len(es) < length => Vals(SocksOf(es), Len(es)) = found
  /\ \A i \in 1 .. Len(es) : <<es[i].socket, es[i].user>> \in Registered(p)

(* The event of a socket, in which one thing is set.                       *)
EventOf(p, s, what) == [EventFor(p, s) EXCEPT ![what] = 1]

IsEventOf(p, s, e, X) ==
  /\ e \in Ev(X) /\ e.socket = s
  /\ s \in SocketsIn(p) => <<e.socket, e.user>> \in Registered(p)

(* The user data of a socket.                                              *)
LEMMA UserOfIs ==
  ASSUME NEW p, PollHolds(p), ~ Damaged(p.map), NEW s, NEW u, u = UserOf(p, s)
  PROVE  u \in Cell /\ (s \in SocketsIn(p) => <<s, u>> \in Registered(p))
<1>1. PICK i : i = PlaceOf(p, s)
  OBVIOUS
<1>2. u = IF i = 0 THEN NoUser ELSE p.map.values[i]
  BY <1>1 DEF UserOf
<1>3. /\ p # NoPoll /\ p.map.count \in Nat /\ p.map.values \in Seq(Cell)
      /\ p.map.count <= Len(p.map.values)
  <2>1. p # NoPoll /\ p.map.count \in Nat /\ p.map.values \in Seq(Cell)
    BY PollShape DEF PollHolds
  <2> QED
    BY <2>1, LenProperties DEF Damaged
<1>4. /\ s \in SocketsIn(p) => i \in 1 .. p.map.count /\ KeyFd(p, i) = s
      /\ i # 0 => i \in 1 .. p.map.count /\ KeyFd(p, i) = s
  BY <1>1, <1>3, PlaceIs
<1>5. u \in Cell
  <2>1. CASE i = 0
    BY <1>2, <2>1, CellHas
  <2>2. CASE i # 0
    <3>1. i \in 1 .. Len(p.map.values) /\ u = p.map.values[i]
      BY <1>2, <1>3, <1>4, <2>2, LenProperties
    <3> QED
      BY <1>3, <3>1, ElementOfSeq
  <2> QED
    BY <2>1, <2>2
<1>6. ASSUME s \in SocketsIn(p)
      PROVE  <<s, u>> \in Registered(p)
  <2>1. i \in 1 .. p.map.count /\ KeyFd(p, i) = s /\ u = p.map.values[i]
    BY <1>2, <1>3, <1>4, <1>6
  <2> QED
    BY <1>3, <2>1, RegisteredIs
<1> QED
  BY <1>5, <1>6

(* The event of a socket that is found.                                    *)
LEMMA EventForIs ==
  ASSUME NEW p, PollHolds(p), ~ Damaged(p.map), NEW X, NEW s \in X,
         NEW what \in {"can_read", "can_write", "error"},
         NEW e, e = EventOf(p, s, what)
  PROVE  IsEventOf(p, s, e, X)
<1>1. PICK u : u = UserOf(p, s)
  OBVIOUS
<1>2. u \in Cell /\ (s \in SocketsIn(p) => <<s, u>> \in Registered(p))
  BY <1>1, UserOfIs
<1>3. PICK v : v = [socket |-> s, user |-> u, can_read |-> 0, can_write |-> 0, error |-> 0]
  OBVIOUS
<1>4. EventFor(p, s) = v
  <2>1. PICK w : w = [socket |-> InvalidSocket, user |-> NoUser, can_read |-> 0, can_write |-> 0, error |-> 0]
    OBVIOUS
  <2>2. EventFor(p, s) = [[w EXCEPT !.socket = s] EXCEPT !.user = u]
    BY <1>1, <2>1 DEF EventFor, NoEvent
  <2>3. PICK z : z = [w EXCEPT !.socket = s]
    OBVIOUS
  <2>4. z = [socket |-> s, user |-> NoUser, can_read |-> 0, can_write |-> 0, error |-> 0]
    BY <2>1, <2>3
  <2>5. [z EXCEPT !.user = u] = v
    BY <1>3, <2>4
  <2> QED
    BY <2>2, <2>3, <2>5
<1>5. e = [v EXCEPT ![what] = 1]
  BY <1>4 DEF EventOf
<1>6. v \in Ev(X) /\ v.socket = s /\ v.user = u
  BY <1>2, <1>3 DEF Ev
<1>7. e \in Ev(X) /\ e.socket = s /\ e.user = u
  BY <1>5, <1>6 DEF Ev
<1> QED
  BY <1>2, <1>7 DEF IsEventOf

(* What is left of events when one more socket is found: there is no room, *)
(* or its event is marked, or there is one more.                           *)
Marked(p, es, x, length, r, S) ==
  \/ Len(es) >= length /\ r = es
  \/ /\ Len(r) = Len(es) /\ x \in Vals(SocksOf(es), Len(es))
     /\ \A j \in 1 .. Len(es) : r[j].socket = es[j].socket /\ r[j].user = es[j].user
  \/ /\ Len(es) < length /\ x \notin Vals(SocksOf(es), Len(es))
     /\ \E e \in S : /\ r = Append(es, e) /\ e.socket = x
                     /\ x \in SocketsIn(p) => <<e.socket, e.user>> \in Registered(p)

(* A mark changes an event in place, adds one at the end or does nothing   *)
(* ...                                                                     *)
LEMMA MarkTyped ==
  ASSUME NEW p, PollHolds(p), ~ Damaged(p.map), NEW X, NEW es \in Seq(Ev(X)), NEW x \in X,
         NEW length \in Nat, NEW what \in {"can_write", "error"},
         NEW r, r = Mark(p, es, x, length, what)
  PROVE  /\ r \in Seq(Ev(X)) /\ (Len(es) <= length => Len(r) <= length)
         /\ Marked(p, es, x, length, r, Ev(X))
<1>1. PICK m : m = FirstOf([i \in DOMAIN es |-> es[i].socket], x)
  OBVIOUS
<1>2. PICK n : n = Len(es)
  OBVIOUS
<1>3. n \in Nat /\ DOMAIN es = 1 .. n /\ \A j \in 1 .. n : es[j] \in Ev(X)
  BY <1>2, LenProperties, ElementOfSeq
<1>4. PICK f : f = SocksOf(es)
  OBVIOUS
<1>5. DOMAIN f = 1 .. n /\ (\A j \in 1 .. n : f[j] = es[j].socket) /\ m = FirstOf(f, x)
  BY <1>1, <1>2, <1>3, <1>4 DEF SocksOf
<1>6. /\ (\A j \in 1 .. n : f[j] # x) => m = 0
      /\ (\E j \in 1 .. n : f[j] = x) => m \in 1 .. n /\ f[m] = x
  BY <1>3, <1>5, FirstOfIs
<1>7. PICK fresh : fresh = EventOf(p, x, what)
  OBVIOUS
<1>71. IsEventOf(p, x, fresh, X)
  BY <1>7, EventForIs
<1>8. /\ fresh \in Ev(X) /\ fresh.socket = x
      /\ x \in SocketsIn(p) => <<fresh.socket, fresh.user>> \in Registered(p)
  BY <1>71 DEF IsEventOf
<1>9. PICK old : old = [es[m] EXCEPT ![what] = 1]
  OBVIOUS
<1>10. r = IF n >= length THEN es ELSE IF m # 0 THEN [es EXCEPT ![m] = old] ELSE Append(es, fresh)
  BY <1>1, <1>2, <1>7, <1>9 DEF Mark, EventOf
<1>11. CASE n >= length
  BY <1>2, <1>10, <1>11 DEF Marked
<1>12. CASE ~ (n >= length) /\ m # 0
  <2>1. m \in 1 .. n /\ f[m] = x
    BY <1>6, <1>12
  <2>2. x \in Vals(f, n)
    BY <2>1 DEF Vals
  <2>3. es[m] \in Ev(X)
    BY <1>3, <2>1
  <2>4. old \in Ev(X) /\ old.socket = es[m].socket /\ old.user = es[m].user
    BY <1>9, <2>3 DEF Ev
  <2>5. r = [es EXCEPT ![m] = old]
    BY <1>10, <1>12
  <2>6. /\ r \in Seq(Ev(X)) /\ Len(r) = Len(es)
        /\ \A j \in 1 .. Len(es) : r[j] = IF j = m THEN old ELSE es[j]
    BY <1>2, <2>1, <2>4, <2>5, ExceptSeq
  <2>7. \A j \in 1 .. Len(es) : r[j].socket = es[j].socket /\ r[j].user = es[j].user
    BY <2>4, <2>6
  <2> QED
    BY <1>2, <1>4, <2>2, <2>6, <2>7 DEF Marked
<1>13. CASE ~ (n >= length) /\ m = 0
  <2>1. r = Append(es, fresh)
    BY <1>10, <1>13
  <2>2. r \in Seq(Ev(X)) /\ Len(r) = n + 1
    BY <1>2, <1>8, <2>1, AppendProperties
  <2>3. x \notin Vals(f, n)
    BY <1>6, <1>13 DEF Vals
  <2>4. n < length /\ Len(r) <= length
    BY <1>3, <1>13, <2>2
  <2> QED
    BY <1>2, <1>4, <1>8, <2>1, <2>2, <2>3, <2>4 DEF Marked
<1> QED
  BY <1>11, <1>12, <1>13

(* ... and tells of the socket, if there is room.                          *)
LEMMA MarkTells ==
  ASSUME NEW p, PollHolds(p), ~ Damaged(p.map), NEW X, NEW es \in Seq(Ev(X)), NEW x \in X,
         NEW length \in Nat, NEW what \in {"can_write", "error"},
         NEW r, r = Mark(p, es, x, length, what), x \in SocketsIn(p),
         NEW found, Tells(p, es, found, length)
  PROVE  Tells(p, r, found \cup {x}, length)
<1>1. Marked(p, es, x, length, r, Ev(X))
  BY MarkTyped
<1>2. PICK n \in Nat : n = Len(es)
  BY LenProperties
<1>3. PICK f : f = SocksOf(es)
  OBVIOUS
<1>4. PICK g : g = SocksOf(r)
  OBVIOUS
<1>5. /\ n <= length /\ Apart(f, n) /\ Vals(f, n) \subseteq found /\ (n < length => Vals(f, n) = found)
      /\ \A i \in 1 .. n : <<es[i].socket, es[i].user>> \in Registered(p)
  BY <1>2, <1>3 DEF Tells
<1>6. CASE n >= length /\ r = es
  BY <1>2, <1>3, <1>5, <1>6 DEF Tells
<1>7. CASE /\ Len(r) = n /\ x \in Vals(f, n)
           /\ \A j \in 1 .. n : r[j].socket = es[j].socket /\ r[j].user = es[j].user
  <2>1. g = f
    BY <1>2, <1>3, <1>4, <1>7 DEF SocksOf
  <2>2. \A i \in 1 .. n : <<r[i].socket, r[i].user>> \in Registered(p)
    BY <1>5, <1>7
  <2>3. Vals(g, n) \subseteq found \cup {x} /\ (n < length => Vals(g, n) = found \cup {x})
    BY <1>5, <1>7, <2>1
  <2> QED
    BY <1>4, <1>5, <1>7, <2>1, <2>2, <2>3 DEF Tells
<1>8. CASE /\ n < length /\ x \notin Vals(f, n)
           /\ \E e \in Ev(X) : /\ r = Append(es, e) /\ e.socket = x
                               /\ x \in SocketsIn(p) => <<e.socket, e.user>> \in Registered(p)
  <2>0. PICK e \in Ev(X) : /\ r = Append(es, e) /\ e.socket = x
                           /\ <<e.socket, e.user>> \in Registered(p)
    BY <1>8
  <2>1. Len(r) = n + 1 /\ r[n + 1] = e /\ \A i \in 1 .. n : r[i] = es[i]
    BY <1>2, <2>0, AppendProperties
  <2>2. \A i \in 1 .. n + 1 : i \in 1 .. n \/ i = n + 1
    OBVIOUS
  <2>3. PutsIn(g, f, n, x)
    <3>1. \A i \in 1 .. n : i \in 1 .. n + 1
      OBVIOUS
    <3>2. n + 1 \in 1 .. n + 1
      OBVIOUS
    <3>3. /\ \A i \in 1 .. n : f[i] = es[i].socket
          /\ \A i \in 1 .. n + 1 : g[i] = r[i].socket
      BY <1>2, <1>3, <1>4, <2>1 DEF SocksOf
    <3> QED
      BY <2>0, <2>1, <3>1, <3>2, <3>3 DEF PutsIn
  <2>4. Vals(g, n + 1) = Vals(f, n) \cup {x} /\ Apart(g, n + 1)
    BY <1>5, <1>8, <2>3, PutIn
  <2>5. \A i \in 1 .. n + 1 : <<r[i].socket, r[i].user>> \in Registered(p)
    BY <1>5, <2>0, <2>1, <2>2
  <2>6. n + 1 <= length
    BY <1>8
  <2>7. Vals(g, n + 1) = found \cup {x}
    BY <1>5, <1>8, <2>4
  <2> QED
    BY <1>4, <2>1, <2>4, <2>5, <2>6, <2>7 DEF Tells
<1> QED
  <2>1. Marked(p, es, x, length, r, Ev(X)) <=>
          \/ n >= length /\ r = es
          \/ /\ Len(r) = n /\ x \in Vals(f, n)
             /\ \A j \in 1 .. n : r[j].socket = es[j].socket /\ r[j].user = es[j].user
          \/ /\ n < length /\ x \notin Vals(f, n)
             /\ \E e \in Ev(X) : /\ r = Append(es, e) /\ e.socket = x
                                 /\ x \in SocketsIn(p) => <<e.socket, e.user>> \in Registered(p)
    BY <1>2, <1>3 DEF Marked
  <2> QED
    BY <1>1, <1>6, <1>7, <1>8, <2>1

(* One socket after the other.                                             *)
MarksEach(f, p, es, socks, length, what) ==
  /\ f[0] = es
  /\ \A n \in Nat : f[n + 1] = Mark(p, f[n], socks[n + 1], length, what)

MarkedInTheEnd(p, es, socks, length, what, r) ==
  \E f : MarksEach(f, p, es, socks, length, what) /\ r = f[Len(socks)]

(* The marks of a pass, as a sequence from the first events to the last.   *)
LEMMA MarkAllIs ==
  ASSUME NEW p, PollHolds(p), ~ Damaged(p.map), NEW Y, NEW es \in Seq(Ev(Y)), NEW socks,
         NEW length \in Nat, NEW what \in {"can_write", "error"}
  PROVE  MarkedInTheEnd(p, es, socks, length, what, MarkAll(p, es, socks, length, what))
<1> DEFINE X == Y \cup {socks[n + 1] : n \in Nat}
           A == Seq(Ev(X))
           step == [n \in Nat |-> [e \in A |-> Mark(p, e, socks[n + 1], length, what)]]
           Def(g) == g = [n \in Nat |-> IF n = 0 THEN es ELSE Mark(p, g[n - 1], socks[n], length, what)]
<1>1. step \in [Nat -> [A -> A]]
  <2> SUFFICES ASSUME NEW n \in Nat, NEW e \in A
               PROVE  Mark(p, e, socks[n + 1], length, what) \in A
    OBVIOUS
  <2>1. PICK x : x = socks[n + 1]
    OBVIOUS
  <2>2. x \in X
    BY <2>1
  <2> HIDE DEF X
  <2>3. Mark(p, e, x, length, what) \in Seq(Ev(X))
    BY <2>2, MarkTyped
  <2> QED
    BY <2>1, <2>3
<1>2. es \in A
  <2>1. Ev(Y) \subseteq Ev(X)
    BY DEF Ev
  <2> HIDE DEF X
  <2> QED
    BY <2>1, SeqMonotonic
<1>3. PICK f : Recurs(f, A, es, step)
  <2> HIDE DEF A, step
  <2> QED
    BY <1>1, <1>2, Recursion
<1>4. /\ f \in [Nat -> A] /\ f[0] = es
      /\ \A n \in Nat : f[n + 1] = step[n][f[n]]
  BY <1>3 DEF Recurs
<1>5. \A n \in Nat : f[n + 1] = Mark(p, f[n], socks[n + 1], length, what)
  <2> HIDE DEF A
  <2> QED
    BY <1>4
<1>6. Def(f)
  <2>1. ASSUME NEW n \in Nat
        PROVE  f[n] = IF n = 0 THEN es ELSE Mark(p, f[n - 1], socks[n], length, what)
    <3>1. CASE n = 0
      BY <1>4, <3>1
    <3>2. CASE n # 0
      <4>1. n - 1 \in Nat /\ (n - 1) + 1 = n
        BY <3>2
      <4>2. f[(n - 1) + 1] = Mark(p, f[n - 1], socks[(n - 1) + 1], length, what)
        BY <1>5, <4>1
      <4> QED
        BY <3>2, <4>1, <4>2
    <3> QED
      BY <3>1, <3>2
  <2>2. DOMAIN f = Nat
    BY <1>4
  <2> HIDE DEF A
  <2> QED
    BY <1>4, <2>1
<1>7. MarkAll(p, es, socks, length, what) = (CHOOSE g : Def(g))[Len(socks)]
  BY DEF MarkAll
<1> DEFINE h == CHOOSE g : Def(g)
<1> HIDE DEF Def, A, step
<1>8. Def(h)
  BY <1>6
<1> HIDE DEF h
<1>9. h = [n \in Nat |-> IF n = 0 THEN es ELSE Mark(p, h[n - 1], socks[n], length, what)]
  BY <1>8 DEF Def
<1>10. h[0] = es
  BY <1>9
<1>11. \A n \in Nat : h[n + 1] = Mark(p, h[n], socks[n + 1], length, what)
  <2> SUFFICES ASSUME NEW n \in Nat
               PROVE  h[n + 1] = Mark(p, h[n], socks[n + 1], length, what)
    OBVIOUS
  <2>1. PICK m \in Nat : m = n + 1
    OBVIOUS
  <2>2. h[m] = Mark(p, h[m - 1], socks[m], length, what)
    BY <1>9, <2>1
  <2>3. m - 1 = n
    BY <2>1
  <2> QED
    BY <2>1, <2>2, <2>3
<1>12. MarksEach(h, p, es, socks, length, what)
  BY <1>10, <1>11 DEF MarksEach
<1> QED
  BY <1>7, <1>12 DEF h, MarkedInTheEnd

(* What every mark keeps, all of them keep: the room ...                   *)
LEMMA MarkAllTyped ==
  ASSUME NEW p, PollHolds(p), ~ Damaged(p.map), NEW Y, NEW es \in Seq(Ev(Y)), NEW socks,
         Len(socks) \in Nat, \A n \in 1 .. Len(socks) : socks[n] \in Y,
         NEW length \in Nat, NEW what \in {"can_write", "error"}, Len(es) <= length,
         NEW r, r = MarkAll(p, es, socks, length, what)
  PROVE  r \in Seq(Ev(Y)) /\ Len(r) <= length
<1>0. MarkedInTheEnd(p, es, socks, length, what, r)
  BY MarkAllIs
<1>1. PICK f : /\ f[0] = es
               /\ \A n \in Nat : f[n + 1] = Mark(p, f[n], socks[n + 1], length, what)
               /\ r = f[Len(socks)]
  BY <1>0 DEF MarkedInTheEnd, MarksEach
<1>2. PICK k \in Nat : k = Len(socks)
  OBVIOUS
<1> DEFINE T == {n \in Nat : n <= k => f[n] \in Seq(Ev(Y)) /\ Len(f[n]) <= length}
<1>3. 0 \in T
  BY <1>1
<1>4. ASSUME NEW n \in T
      PROVE  n + 1 \in T
  <2>1. SUFFICES ASSUME n + 1 <= k
                 PROVE  f[n + 1] \in Seq(Ev(Y)) /\ Len(f[n + 1]) <= length
    OBVIOUS
  <2>2. n \in Nat /\ f[n] \in Seq(Ev(Y)) /\ Len(f[n]) <= length
    BY <2>1
  <2>3. n + 1 \in 1 .. k
    BY <2>1, <2>2
  <2>4. PICK x : x = socks[n + 1]
    OBVIOUS
  <2>5. x \in Y
    BY <1>2, <2>3, <2>4
  <2>6. f[n + 1] = Mark(p, f[n], x, length, what)
    BY <1>1, <2>2, <2>4
  <2>7. PICK e : e = f[n]
    OBVIOUS
  <2>8. PICK g : g = f[n + 1]
    OBVIOUS
  <2>9. g \in Seq(Ev(Y)) /\ (Len(e) <= length => Len(g) <= length)
    BY <2>2, <2>5, <2>6, <2>7, <2>8, MarkTyped
  <2> QED
    BY <2>2, <2>7, <2>8, <2>9
<1>5. T = Nat
  BY <1>3, <1>4, Induction
<1>6. k \in T
  BY <1>5
<1> QED
  BY <1>1, <1>2, <1>6

(* ... and that the events tell of what has been found.                    *)
LEMMA MarkAllTells ==
  ASSUME NEW p, PollHolds(p), ~ Damaged(p.map), NEW es \in Seq(Ev(Cell)), NEW socks,
         Len(socks) \in Nat, \A n \in 1 .. Len(socks) : socks[n] \in Cell /\ socks[n] \in SocketsIn(p),
         NEW length \in Nat, NEW what \in {"can_write", "error"},
         NEW found, Tells(p, es, found, length),
         NEW r, r = MarkAll(p, es, socks, length, what)
  PROVE  Tells(p, r, found \cup Vals(socks, Len(socks)), length)
<1>0. MarkedInTheEnd(p, es, socks, length, what, r)
  BY MarkAllIs
<1>1. PICK f : /\ f[0] = es
               /\ \A n \in Nat : f[n + 1] = Mark(p, f[n], socks[n + 1], length, what)
               /\ r = f[Len(socks)]
  BY <1>0 DEF MarkedInTheEnd, MarksEach
<1>2. PICK k \in Nat : k = Len(socks)
  OBVIOUS
<1> DEFINE OK(e, n) == e \in Seq(Ev(Cell)) /\ Tells(p, e, found \cup Vals(socks, n), length)
           T == {n \in Nat : n <= k => OK(f[n], n)}
<1>3. 0 \in T
  <2>1. found \cup Vals(socks, 0) = found
    BY DEF Vals
  <2> QED
    BY <1>1, <2>1
<1>4. ASSUME NEW n \in T
      PROVE  n + 1 \in T
  <2>1. SUFFICES ASSUME n + 1 <= k
                 PROVE  OK(f[n + 1], n + 1)
    OBVIOUS
  <2>2. n \in Nat /\ OK(f[n], n)
    BY <2>1
  <2>3. n + 1 \in 1 .. k
    BY <2>1, <2>2
  <2>4. PICK x : x = socks[n + 1]
    OBVIOUS
  <2>5. x \in Cell /\ x \in SocketsIn(p)
    BY <1>2, <2>3, <2>4
  <2>6. f[n + 1] = Mark(p, f[n], x, length, what)
    BY <1>1, <2>2, <2>4
  <2>7. PICK e : e = f[n]
    OBVIOUS
  <2>8. PICK g : g = f[n + 1]
    OBVIOUS
  <2>9. PICK all : all = found \cup Vals(socks, n)
    OBVIOUS
  <2>10. e \in Seq(Ev(Cell)) /\ Tells(p, e, all, length) /\ g = Mark(p, e, x, length, what)
    BY <2>2, <2>6, <2>7, <2>8, <2>9
  <2>11. g \in Seq(Ev(Cell))
    BY <2>5, <2>10, MarkTyped
  <2>12. Tells(p, g, all \cup {x}, length)
    BY <2>5, <2>10, MarkTells
  <2>13. all \cup {x} = found \cup Vals(socks, n + 1)
    <3>1. PutsIn(socks, socks, n, x)
      BY <2>4 DEF PutsIn
    <3>2. Vals(socks, n + 1) = Vals(socks, n) \cup {x}
      BY <2>2, <3>1, PutIn
    <3> QED
      BY <2>9, <3>2
  <2> QED
    BY <2>8, <2>11, <2>12, <2>13
<1>5. T = Nat
  <2> HIDE DEF OK
  <2> QED
    BY <1>3, <1>4, Induction
<1>6. k \in T
  BY <1>5
<1> QED
  BY <1>1, <1>2, <1>6

-----------------------------------------------------------------------------
(* The elements of a list at some of its positions, in order.              *)
Elements(socks, hit) == [j \in DOMAIN hit |-> socks[hit[j]]]

Picks(s, l, at) ==
  /\ Len(s) \in Nat /\ DOMAIN s = 1 .. Len(s)
  /\ \A n \in 1 .. Len(s) : s[n] \in Cell
  /\ Vals(s, Len(s)) = {l.data[i] : i \in at}
  /\ NoTwice(l) => Apart(s, Len(s))

(* The elements of a sequence at the positions that are picked.            *)
LEMMA PickedAre ==
  ASSUME NEW l, Whole(l, Cell), NEW socks, socks = Socks(l), NEW at \in SUBSET (1 .. l.count),
         NEW hit, hit = InOrder(at), NEW s, s = Elements(socks, hit)
  PROVE  Picks(s, l, at)
<1>1. PICK n : n = l.count
  OBVIOUS
<1>2. /\ n \in Nat /\ socks \in [1 .. n -> Cell]
      /\ \A i \in 1 .. n : socks[i] = l.data[i]
  BY <1>1, SocksAre
<1>3. at \in SUBSET Nat /\ IsFiniteSet(at)
  <2>1. at \subseteq 1 .. n
    BY <1>1
  <2>2. IsFiniteSet(1 .. n)
    BY <1>2, FS_Interval
  <2>3. IsFiniteSet(at)
    BY <2>1, <2>2, FS_Subset
  <2>4. at \subseteq Nat
    BY <1>2, <2>1
  <2> QED
    BY <2>3, <2>4
<1>4. PICK k : k = Cardinality(at)
  OBVIOUS
<1>5. /\ k \in Nat /\ hit \in [1 .. k -> at] /\ DOMAIN hit = 1 .. k
      /\ \A i, j \in 1 .. k : i # j => hit[i] # hit[j]
  BY <1>3, <1>4, InOrderIs
<1>6. Vals(hit, k) = at
  BY <1>3, <1>4, InOrderOnto
<1>7. DOMAIN s = 1 .. k /\ \A j \in 1 .. k : s[j] = socks[hit[j]]
  BY <1>5 DEF Elements
<1>8. Len(s) = k
  BY <1>5, <1>7
<1>9. \A j \in 1 .. k : hit[j] \in 1 .. n /\ s[j] = l.data[hit[j]] /\ s[j] \in Cell
  <2> SUFFICES ASSUME NEW j \in 1 .. k
               PROVE  hit[j] \in 1 .. n /\ s[j] = l.data[hit[j]] /\ s[j] \in Cell
    OBVIOUS
  <2>1. PICK i : i = hit[j]
    OBVIOUS
  <2>2. i \in at
    BY <1>5, <2>1
  <2>3. i \in 1 .. n
    BY <1>1, <2>2
  <2>4. socks[i] = l.data[i] /\ socks[i] \in Cell
    BY <1>2, <2>3
  <2>5. s[j] = socks[i]
    BY <1>7, <2>1
  <2> QED
    BY <2>1, <2>3, <2>4, <2>5
<1>10. Vals(s, k) = {l.data[i] : i \in at}
  <2>1. Vals(s, k) \subseteq {l.data[i] : i \in at}
    BY <1>5, <1>9 DEF Vals
  <2>2. ASSUME NEW i \in at
        PROVE  l.data[i] \in Vals(s, k)
    <3>1. PICK j \in 1 .. k : hit[j] = i
      BY <1>6 DEF Vals
    <3> QED
      BY <1>9, <3>1 DEF Vals
  <2> QED
    BY <2>1, <2>2
<1>11. NoTwice(l) => Apart(s, k)
  <2> SUFFICES ASSUME Apart(l.data, n), NEW i \in 1 .. k, NEW j \in 1 .. k, i # j
               PROVE  s[i] # s[j]
    BY <1>1 DEF NoTwice, Apart
  <2>1. PICK x : x = hit[i]
    OBVIOUS
  <2>2. PICK y : y = hit[j]
    OBVIOUS
  <2>3. x \in 1 .. n /\ y \in 1 .. n /\ x # y
    BY <1>5, <1>9, <2>1, <2>2
  <2>4. l.data[x] # l.data[y]
    BY <2>3 DEF Apart
  <2> QED
    BY <1>9, <2>1, <2>2, <2>4
<1> QED
  BY <1>7, <1>8, <1>9, <1>10, <1>11, <1>5 DEF Picks

(* What select() finds in a list: each of the sockets that have one of the *)
(* conditions once, if the list has it once.                               *)
Finds(s, l, cond, of) ==
  /\ Len(s) \in Nat /\ DOMAIN s = 1 .. Len(s)
  /\ \A n \in 1 .. Len(s) : s[n] \in Cell
  /\ Vals(s, Len(s)) = {x \in Names(l) : cond[x] \cap of # {}}
  /\ NoTwice(l) => Apart(s, Len(s))

(* What a list finds is in the list.                                       *)
LEMMA FoundIn ==
  ASSUME NEW l, Whole(l, Cell), NEW cond, NEW of, NEW socks, socks = Socks(l),
         NEW s,
         s = LET hit == InOrder({i \in DOMAIN socks : cond[socks[i]] \cap of # {}}) IN
             [j \in DOMAIN hit |-> socks[hit[j]]]
  PROVE  Finds(s, l, cond, of)
<1>1. PICK n : n = l.count
  OBVIOUS
<1>2. /\ n \in Nat /\ DOMAIN socks = 1 .. n
      /\ \A i \in 1 .. n : socks[i] = l.data[i]
  BY <1>1, SocksAre
<1>3. PICK at : at = {i \in DOMAIN socks : cond[socks[i]] \cap of # {}}
  OBVIOUS
<1>4. at \in SUBSET (1 .. l.count)
  BY <1>1, <1>2, <1>3
<1>5. PICK hit : hit = InOrder(at)
  OBVIOUS
<1>6. s = Elements(socks, hit)
  BY <1>3, <1>5 DEF Elements
<1>0. Picks(s, l, at)
  BY <1>4, <1>5, <1>6, PickedAre
<1>7. /\ Len(s) \in Nat /\ DOMAIN s = 1 .. Len(s)
      /\ \A i \in 1 .. Len(s) : s[i] \in Cell
      /\ Vals(s, Len(s)) = {l.data[i] : i \in at}
      /\ NoTwice(l) => Apart(s, Len(s))
  BY <1>0 DEF Picks
<1>8. {l.data[i] : i \in at} = {x \in Names(l) : cond[x] \cap of # {}}
  BY <1>1, <1>2, <1>3 DEF Names, Vals
<1> QED
  BY <1>7, <1>8 DEF Finds

(* select() finds the sockets of a list that have the condition.           *)
LEMMA SelectedIs ==
  ASSUME NEW p
  PROVE  /\ Whole(p.read, Cell) =>
              \A cond : Finds(Selected(p, "read", cond), p.read, cond, {"in", "hup"})
         /\ Whole(p.write, Cell) =>
              \A cond : Finds(Selected(p, "write", cond), p.write, cond, {"out"})
         /\ Whole(p.error, Cell) =>
              \A cond : Finds(Selected(p, "error", cond), p.error, cond, {"err"})
<1>1. ASSUME NEW cond, Whole(p.read, Cell)
      PROVE  Finds(Selected(p, "read", cond), p.read, cond, {"in", "hup"})
  <2>1. PICK socks : socks = Socks(p.read)
    OBVIOUS
  <2>2. Selected(p, "read", cond) =
          LET hit == InOrder({i \in DOMAIN socks : cond[socks[i]] \cap {"in", "hup"} # {}}) IN
          [j \in DOMAIN hit |-> socks[hit[j]]]
    BY <2>1 DEF Selected
  <2> QED
    BY SMTT(25), <1>1, <2>1, <2>2, FoundIn
<1>2. ASSUME NEW cond, Whole(p.write, Cell)
      PROVE  Finds(Selected(p, "write", cond), p.write, cond, {"out"})
  <2>1. PICK socks : socks = Socks(p.write)
    OBVIOUS
  <2>2. Selected(p, "write", cond) =
          LET hit == InOrder({i \in DOMAIN socks : cond[socks[i]] \cap {"out"} # {}}) IN
          [j \in DOMAIN hit |-> socks[hit[j]]]
    BY <2>1 DEF Selected
  <2> QED
    BY <1>2, <2>1, <2>2, FoundIn
<1>3. ASSUME NEW cond, Whole(p.error, Cell)
      PROVE  Finds(Selected(p, "error", cond), p.error, cond, {"err"})
  <2>1. PICK socks : socks = Socks(p.error)
    OBVIOUS
  <2>2. Selected(p, "error", cond) =
          LET hit == InOrder({i \in DOMAIN socks : cond[socks[i]] \cap {"err"} # {}}) IN
          [j \in DOMAIN hit |-> socks[hit[j]]]
    BY <2>1 DEF Selected
  <2> QED
    BY <1>3, <2>1, <2>2, FoundIn
<1> QED
  BY <1>1, <1>2, <1>3

-----------------------------------------------------------------------------
(* The events of the two systems.                                          *)

(* Events of the first of the sockets f[1], ..., f[k], as far as there is  *)
(* room.                                                                   *)
FirstEvents(p, r, f, k, length) ==
  /\ Len(r) = IF k > length THEN length ELSE k
  /\ \A j \in 1 .. Len(r) : r[j].socket = f[j] /\ <<r[j].socket, r[j].user>> \in Registered(p)

(* The first of different sockets, as far as there is room, tell of them.  *)
LEMMA FirstTell ==
  ASSUME NEW p, NEW k \in Nat, NEW length \in Nat, NEW f, Apart(f, k),
         NEW r, FirstEvents(p, r, f, k, length)
  PROVE  Tells(p, r, Vals(f, k), length)
<1>1. PICK n \in Nat : n = Len(r)
  BY DEF FirstEvents
<1>2. n <= length /\ n <= k /\ (n < length => n = k)
  BY <1>1 DEF FirstEvents
<1>3. PICK g : g = SocksOf(r)
  OBVIOUS
<1>4. \A j \in 1 .. n : j \in 1 .. k /\ g[j] = f[j] /\ <<r[j].socket, r[j].user>> \in Registered(p)
  <2>1. \A j \in 1 .. n : j \in 1 .. k
    BY <1>2
  <2> QED
    BY <1>1, <1>3, <2>1 DEF FirstEvents, SocksOf
<1>5. Apart(g, n) /\ Vals(g, n) \subseteq Vals(f, k)
  BY <1>4 DEF Apart, Vals
<1>6. n < length => Vals(g, n) = Vals(f, k)
  BY <1>2, <1>4 DEF Vals
<1> QED
  BY <1>1, <1>2, <1>3, <1>4, <1>5, <1>6 DEF Tells

(* What is found in a list is of it.                                       *)
LEMMA FindsIn ==
  ASSUME NEW s, NEW l, NEW cond, NEW of, Finds(s, l, cond, of), NEW X, Names(l) \subseteq X
  PROVE  Len(s) \in Nat /\ \A n \in 1 .. Len(s) : s[n] \in X
<1>1. \A n \in 1 .. Len(s) : s[n] \in Vals(s, Len(s))
  BY DEF Vals
<1> QED
  BY <1>1 DEF Finds

(* A poll set has sockets, in cells.                                       *)
LEMMA HoldsIn ==
  ASSUME NEW p
  PROVE  /\ PollHolds(p) => PollIn(p, Cell)
         /\ \A X : PollOK(p) /\ SocketsIn(p) \subseteq X => PollIn(p, X)
<1>1. ASSUME PollHolds(p)
      PROVE  PollIn(p, Cell)
  <2>1. \A i \in 1 .. p.map.count : i <= Len(p.map.keys) => KeyFd(p, i) \in Cell
    BY <1>1, CellHas DEF PollHolds
  <2>2. ASSUME NEW l, Whole(l, Cell)
        PROVE  Names(l) \subseteq Cell
    <3>1. l.count \in Nat /\ l.data \in Seq(Cell) /\ l.count <= Len(l.data)
      BY <2>2, LenProperties DEF Whole, Holds
    <3>2. \A i \in 1 .. l.count : i \in 1 .. Len(l.data)
      BY <3>1, LenProperties
    <3>3. \A i \in 1 .. l.count : l.data[i] \in Cell
      BY <3>1, <3>2, ElementOfSeq
    <3> QED
      BY <3>3 DEF Names, Vals
  <2>3. p.backend = "win32" => Whole(p.read, Cell) /\ Whole(p.write, Cell) /\ Whole(p.error, Cell)
    BY <1>1 DEF PollHolds
  <2> QED
    BY <2>1, <2>2, <2>3 DEF PollIn
<1>2. ASSUME NEW X, PollOK(p), SocketsIn(p) \subseteq X
      PROVE  PollIn(p, X)
  <2>1. \A i \in 1 .. p.map.count : KeyFd(p, i) \in X
    BY <1>2 DEF SocketsIn, Vals, Fds
  <2>2. p.backend = "win32" =>
          Names(p.read) = SocketsIn(p) /\ Names(p.write) = {} /\ Names(p.error) = SocketsIn(p)
    BY <1>2 DEF PollOK, Names, Vals
  <2> QED
    BY <1>2, <2>1, <2>2 DEF PollIn
<1> QED
  BY <1>1, <1>2

(* The first pass of Windows.                                              *)
LEMMA ReadPassIs ==
  ASSUME NEW p, PollHolds(p), ~ Damaged(p.map), p.backend = "win32", NEW cond, NEW length \in Nat,
         NEW f, f = Selected(p, "read", cond), NEW r, r = ReadPass(p, cond, length),
         NEW X, PollIn(p, X)
  PROVE  /\ r \in Seq(Ev(X)) /\ Len(r) <= length
         /\ (\A j \in 1 .. Len(f) : f[j] \in SocketsIn(p)) => FirstEvents(p, r, f, Len(f), length)
<1>1. Finds(f, p.read, cond, {"in", "hup"})
  BY SelectedIs DEF PollHolds
<1>2. PICK k \in Nat : k = Len(f)
  BY <1>1 DEF Finds
<1>3. PICK n \in Nat : n = IF k > length THEN length ELSE k
  OBVIOUS
<1>4. r = [j \in 1 .. n |-> [EventFor(p, f[j]) EXCEPT !["can_read"] = 1]]
  BY <1>2, <1>3 DEF ReadPass
<1>5. ASSUME NEW j \in 1 .. n
      PROVE  /\ r[j] \in Ev(X) /\ r[j].socket = f[j]
             /\ f[j] \in SocketsIn(p) => <<r[j].socket, r[j].user>> \in Registered(p)
  <2>1. PICK s : s = f[j]
    OBVIOUS
  <2>2. j \in 1 .. k
    BY <1>3
  <2>3. s \in X
    BY <1>1, <1>2, <2>1, <2>2, FindsIn DEF PollIn
  <2>4. PICK e : e = r[j]
    OBVIOUS
  <2>0. PICK what \in {"can_read", "can_write", "error"} : what = "can_read"
    OBVIOUS
  <2>5. e = EventOf(p, s, what)
    BY <1>4, <2>0, <2>1, <2>4 DEF EventOf
  <2>7. IsEventOf(p, s, e, X)
    BY <2>3, <2>5, EventForIs
  <2>6. /\ e \in Ev(X) /\ e.socket = s
        /\ s \in SocketsIn(p) => <<e.socket, e.user>> \in Registered(p)
    BY <2>7 DEF IsEventOf
  <2> QED
    BY <2>1, <2>4, <2>6
<1>6. DOMAIN r = 1 .. n /\ Len(r) = n
  BY <1>4
<1>7. r \in Seq(Ev(X))
  <2>1. r = [j \in 1 .. n |-> r[j]]
    BY <1>4
  <2>2. r \in [1 .. n -> Ev(X)]
    BY <1>5, <2>1
  <2> HIDE DEF Ev
  <2> QED
    BY <2>2
<1>8. Len(r) <= length
  BY <1>3, <1>6
<1>9. ASSUME \A j \in 1 .. Len(f) : f[j] \in SocketsIn(p)
      PROVE  FirstEvents(p, r, f, Len(f), length)
  <2>1. \A j \in 1 .. n : j \in 1 .. k
    BY <1>3
  <2>2. \A j \in 1 .. n : r[j].socket = f[j] /\ <<r[j].socket, r[j].user>> \in Registered(p)
    BY <1>2, <1>5, <1>9, <2>1
  <2> QED
    BY <1>2, <1>3, <1>6, <2>2 DEF FirstEvents
<1> QED
  BY <1>7, <1>8, <1>9

(* All three passes: what they leave are events, no more than there is     *)
(* room for.                                                               *)
LEMMA Win32EventsTyped ==
  ASSUME NEW p, PollHolds(p), ~ Damaged(p.map), p.backend = "win32", NEW cond, NEW length \in Nat,
         NEW r, r = Win32Events(p, cond, length), NEW X, PollIn(p, X)
  PROVE  r \in Seq(Ev(X)) /\ Len(r) <= length
<1>1. PICK a : a = ReadPass(p, cond, length)
  OBVIOUS
<1>2. a \in Seq(Ev(X)) /\ Len(a) <= length
  BY <1>1, ReadPassIs
<1>3. PICK w : w = Selected(p, "write", cond)
  OBVIOUS
<1>4. Finds(w, p.write, cond, {"out"})
  BY <1>3, SelectedIs DEF PollHolds
<1>5. PICK b : b = MarkAll(p, a, w, length, "can_write")
  OBVIOUS
<1>6. Len(w) \in Nat /\ \A n \in 1 .. Len(w) : w[n] \in X
  <2>1. Names(p.write) \subseteq X
    BY DEF PollIn
  <2> QED
    BY <1>4, <2>1, FindsIn
<1>7. b \in Seq(Ev(X)) /\ Len(b) <= length
  BY <1>2, <1>5, <1>6, MarkAllTyped
<1>8. PICK x : x = Selected(p, "error", cond)
  OBVIOUS
<1>9. Finds(x, p.error, cond, {"err"})
  BY <1>8, SelectedIs DEF PollHolds
<1>10. Len(x) \in Nat /\ \A n \in 1 .. Len(x) : x[n] \in X
  <2>1. Names(p.error) \subseteq X
    BY DEF PollIn
  <2> QED
    BY <1>9, <2>1, FindsIn
<1>11. r = MarkAll(p, b, x, length, "error")
  BY <1>1, <1>3, <1>5, <1>8 DEF Win32Events, ErrorPass, WritePass
<1> QED
  BY <1>7, <1>10, <1>11, MarkAllTyped

(* The three passes of Windows tell of what select() has found.            *)
LEMMA Win32EventsTell ==
  ASSUME NEW p, PollOK(p), ~ Damaged(p.map), p.backend = "win32", NEW cond, NEW length \in Nat,
         NEW r, r = Win32Events(p, cond, length)
  PROVE  Tells(p, r, {s \in SocketsIn(p) : cond[s] \cap {"in", "hup", "err"} # {}}, length)
<1>00. PollIn(p, Cell)
  BY HoldsIn DEF PollOK, PollWhole
<1>0. /\ PollHolds(p) /\ NoTwice(p.read) /\ NoTwice(p.error) /\ p.write.count = 0
      /\ Names(p.read) = SocketsIn(p) /\ Names(p.error) = SocketsIn(p)
  BY DEF PollOK, PollWhole
<1>1. PICK f : f = Selected(p, "read", cond)
  OBVIOUS
<1>2. Finds(f, p.read, cond, {"in", "hup"})
  BY <1>0, <1>1, SelectedIs DEF PollHolds
<1>3. PICK a : a = ReadPass(p, cond, length)
  OBVIOUS
<1>4. PICK R : R = {s \in SocketsIn(p) : cond[s] \cap {"in", "hup"} # {}}
  OBVIOUS
<1>5. Vals(f, Len(f)) = R /\ Len(f) \in Nat /\ Apart(f, Len(f))
  BY <1>0, <1>2, <1>4 DEF Finds
<1>6. \A j \in 1 .. Len(f) : f[j] \in SocketsIn(p)
  BY <1>4, <1>5 DEF Vals
<1>7. a \in Seq(Ev(Cell)) /\ Len(a) <= length /\ FirstEvents(p, a, f, Len(f), length)
  BY <1>0, <1>1, <1>3, <1>6, <1>00, ReadPassIs
<1>8. Tells(p, a, R, length)
  BY <1>5, <1>7, FirstTell
<1>9. PICK w : w = Selected(p, "write", cond)
  OBVIOUS
<1>10. Finds(w, p.write, cond, {"out"})
  BY <1>0, <1>9, SelectedIs DEF PollHolds
<1>11. PICK b : b = MarkAll(p, a, w, length, "can_write")
  OBVIOUS
<1>12. Len(w) \in Nat /\ (\A n \in 1 .. Len(w) : w[n] \in Cell) /\ Vals(w, Len(w)) = {}
  <2>1. Names(p.write) = {}
    BY <1>0 DEF Names, Vals
  <2> QED
    BY <1>10, <2>1 DEF Finds
<1>13. \A n \in 1 .. Len(w) : w[n] \in Cell /\ w[n] \in SocketsIn(p)
  BY <1>12 DEF Vals
<1>14. Tells(p, b, R \cup Vals(w, Len(w)), length)
  BY <1>0, <1>7, <1>8, <1>11, <1>12, <1>13, MarkAllTells
<1>15. b \in Seq(Ev(Cell)) /\ Len(b) <= length
  BY <1>0, <1>7, <1>11, <1>12, MarkAllTyped
<1>16. Tells(p, b, R, length)
  <2>1. R \cup Vals(w, Len(w)) = R
    BY <1>12
  <2> QED
    BY <1>14, <2>1
<1>17. PICK x : x = Selected(p, "error", cond)
  OBVIOUS
<1>18. Finds(x, p.error, cond, {"err"})
  BY <1>0, <1>17, SelectedIs DEF PollHolds
<1>19. PICK E : E = {s \in SocketsIn(p) : cond[s] \cap {"err"} # {}}
  OBVIOUS
<1>20. Len(x) \in Nat /\ (\A n \in 1 .. Len(x) : x[n] \in Cell) /\ Vals(x, Len(x)) = E
  BY <1>0, <1>18, <1>19 DEF Finds
<1>21. \A n \in 1 .. Len(x) : x[n] \in Cell /\ x[n] \in SocketsIn(p)
  BY <1>19, <1>20 DEF Vals
<1>22. r = MarkAll(p, b, x, length, "error")
  BY <1>3, <1>9, <1>11, <1>17 DEF Win32Events, ErrorPass, WritePass
<1>23. Tells(p, r, R \cup Vals(x, Len(x)), length)
  BY <1>0, <1>15, <1>16, <1>20, <1>21, <1>22, MarkAllTells
<1>24. R \cup Vals(x, Len(x)) = {s \in SocketsIn(p) : cond[s] \cap {"in", "hup", "err"} # {}}
  BY <1>4, <1>19, <1>20
<1> QED
  BY <1>23, <1>24

-----------------------------------------------------------------------------
(* The event of an entry of a map.                                         *)
LEMMA PosixEventIs ==
  ASSUME NEW p, PollHolds(p), ~ Damaged(p.map), p.backend = "posix", NEW i \in 1 .. p.map.count,
         NEW cond, NEW e, e = PosixEvent(p, i, cond), NEW X, PollIn(p, X)
  PROVE  /\ e \in Ev(X) /\ e.socket = KeyFd(p, i)
         /\ <<e.socket, e.user>> \in Registered(p)
<1>1. /\ p # NoPoll /\ p.map.count \in Nat
      /\ p.map.keys \in Seq(Cell) /\ p.map.values \in Seq(Cell)
  BY PollShape DEF PollHolds
<1>2. i \in 1 .. Len(p.map.keys) /\ i \in 1 .. Len(p.map.values)
  <2>1. Len(p.map.keys) \in Nat /\ Len(p.map.values) \in Nat
    BY <1>1, LenProperties
  <2> QED
    BY <1>1, <2>1 DEF Damaged
<1>3. PICK s : s = KeyFd(p, i)
  OBVIOUS
<1>4. PICK u : u = p.map.values[i]
  OBVIOUS
<1>5. s \in X
  <2>1. i <= Len(p.map.keys)
    BY <1>2
  <2> QED
    BY <1>3, <2>1 DEF PollIn
<1>6. u \in Cell
  BY <1>1, <1>2, <1>4, ElementOfSeq
<1>7. <<s, u>> \in Registered(p)
  BY <1>1, <1>3, <1>4, RegisteredIs
<1>8. PICK r : r = Revents(p.map.keys[i], cond)
  OBVIOUS
<1>9. s = p.map.keys[i].fd
  BY <1>3 DEF KeyFd
<1>10. e = [socket |-> s, user |-> u, can_read |-> Has("in", r), can_write |-> Has("out", r),
            error |-> IF r \cap {"err", "hup"} # {} THEN 1 ELSE 0]
  BY <1>4, <1>8, <1>9 DEF PosixEvent
<1>11. Has("in", r) \in {0, 1} /\ Has("out", r) \in {0, 1}
  BY DEF Has
<1>12. e \in Ev(X)
  BY <1>5, <1>6, <1>10, <1>11 DEF Ev
<1>13. e.socket = s /\ e.user = u
  BY <1>10
<1> QED
  BY <1>3, <1>7, <1>12, <1>13

(* The entries that poll() reports.                                        *)
Reported(p, cond) == {i \in 1 .. p.map.count : Revents(p.map.keys[i], cond) # {}}

(* The events of POSIX, in the order of the map.                           *)
LEMMA PosixEventsAre ==
  ASSUME NEW p, PollHolds(p), ~ Damaged(p.map), p.backend = "posix", NEW cond, NEW length \in Nat,
         NEW hit, hit = InOrder(Reported(p, cond)), NEW f, f = [j \in DOMAIN hit |-> KeyFd(p, hit[j])],
         NEW r, r = PosixEvents(p, cond, length), NEW X, PollIn(p, X)
  PROVE  /\ r \in Seq(Ev(X)) /\ Len(r) <= length /\ Len(hit) \in Nat
         /\ FirstEvents(p, r, f, Len(hit), length)
         /\ Vals(f, Len(hit)) = {KeyFd(p, i) : i \in Reported(p, cond)}
         /\ Distinct(p) => Apart(f, Len(hit))
<1>1. PICK c \in Nat : c = p.map.count
  BY PollShape DEF PollHolds
<1>2. PICK at : at = Reported(p, cond)
  OBVIOUS
<1>3. at \subseteq 1 .. c
  BY <1>1, <1>2 DEF Reported
<1>4. at \in SUBSET Nat /\ IsFiniteSet(at)
  <2>1. IsFiniteSet(1 .. c)
    BY FS_Interval
  <2>2. IsFiniteSet(at)
    BY <1>3, <2>1, FS_Subset
  <2>3. at \subseteq Nat
    BY <1>3
  <2> QED
    BY <2>2, <2>3
<1>5. PICK k : k = Cardinality(at)
  OBVIOUS
<1>6. /\ k \in Nat /\ hit \in [1 .. k -> at] /\ DOMAIN hit = 1 .. k /\ Len(hit) = k
      /\ \A i, j \in 1 .. k : i # j => hit[i] # hit[j]
  BY <1>2, <1>4, <1>5, InOrderIs
<1>7. Vals(hit, k) = at
  BY <1>2, <1>4, <1>5, InOrderOnto
<1>8. \A j \in 1 .. k : hit[j] \in at /\ hit[j] \in 1 .. c /\ f[j] = KeyFd(p, hit[j])
  <2> SUFFICES ASSUME NEW j \in 1 .. k
               PROVE  hit[j] \in at /\ hit[j] \in 1 .. c /\ f[j] = KeyFd(p, hit[j])
    OBVIOUS
  <2>1. hit[j] \in at
    BY <1>6
  <2> QED
    BY <1>3, <1>6, <2>1
<1>9. PICK n \in Nat : n = IF k > length THEN length ELSE k
  BY <1>6
<1>10. r = [j \in 1 .. n |-> PosixEvent(p, hit[j], cond)]
  BY <1>6, <1>9 DEF PosixEvents, Reported
<1>11. DOMAIN r = 1 .. n /\ Len(r) = n
  BY <1>10
<1>12. ASSUME NEW j \in 1 .. n
       PROVE  /\ r[j] \in Ev(X) /\ r[j].socket = f[j]
              /\ <<r[j].socket, r[j].user>> \in Registered(p)
  <2>1. PICK i : i = hit[j]
    OBVIOUS
  <2>2. j \in 1 .. k
    BY <1>6, <1>9
  <2>3. i \in 1 .. p.map.count /\ f[j] = KeyFd(p, i)
    BY <1>1, <1>8, <2>1, <2>2
  <2>4. PICK e : e = r[j]
    OBVIOUS
  <2>5. e = PosixEvent(p, i, cond)
    BY <1>10, <2>1, <2>4
  <2>6. e \in Ev(X) /\ e.socket = KeyFd(p, i) /\ <<e.socket, e.user>> \in Registered(p)
    BY <2>3, <2>5, PosixEventIs
  <2> QED
    BY <2>3, <2>4, <2>6
<1>13. r \in Seq(Ev(X))
  <2>1. r = [j \in 1 .. n |-> r[j]]
    BY <1>10
  <2> HIDE DEF Ev
  <2>2. r \in [1 .. n -> Ev(X)]
    BY <1>12, <2>1
  <2> QED
    BY <2>2
<1>14. FirstEvents(p, r, f, k, length)
  BY <1>9, <1>11, <1>12 DEF FirstEvents
<1>15. Vals(f, k) = {KeyFd(p, i) : i \in at}
  <2>1. Vals(f, k) \subseteq {KeyFd(p, i) : i \in at}
    BY <1>8 DEF Vals
  <2>2. ASSUME NEW i \in at
        PROVE  KeyFd(p, i) \in Vals(f, k)
    <3>1. PICK j \in 1 .. k : hit[j] = i
      BY <1>7 DEF Vals
    <3> QED
      BY <1>8, <3>1 DEF Vals
  <2> QED
    BY <2>1, <2>2
<1>16. ASSUME Distinct(p)
       PROVE  Apart(f, k)
  <2> SUFFICES ASSUME NEW i \in 1 .. k, NEW j \in 1 .. k, i # j
               PROVE  f[i] # f[j]
    BY DEF Apart
  <2>1. PICK x : x = hit[i]
    OBVIOUS
  <2>2. PICK y : y = hit[j]
    OBVIOUS
  <2>3. x \in 1 .. c /\ y \in 1 .. c /\ x # y
    BY <1>6, <1>8, <2>1, <2>2
  <2>4. KeyFd(p, x) # KeyFd(p, y)
    BY <1>1, <1>16, <2>3 DEF Distinct, Apart, Fds
  <2> QED
    BY <1>8, <2>1, <2>2, <2>4
<1>17. Len(r) <= length
  BY <1>6, <1>9, <1>11
<1> QED
  BY <1>2, <1>6, <1>13, <1>14, <1>15, <1>16, <1>17

(* They tell of the sockets that poll() reports.                           *)
LEMMA PosixEventsTell ==
  ASSUME NEW p, PollOK(p), ~ Damaged(p.map), p.backend = "posix", NEW cond, NEW length \in Nat,
         NEW r, r = PosixEvents(p, cond, length)
  PROVE  Tells(p, r, {s \in SocketsIn(p) : CondOf(cond, s) \cap {"in", "err", "hup", "nval"} # {}}, length)
<1>0. /\ PollHolds(p) /\ Distinct(p)
      /\ \A i \in 1 .. p.map.count : p.map.keys[i].events = {"in", "err"}
  BY DEF PollOK, PollWhole
<1>1. PICK hit : hit = InOrder(Reported(p, cond))
  OBVIOUS
<1>2. PICK f : f = [j \in DOMAIN hit |-> KeyFd(p, hit[j])]
  OBVIOUS
<1>3. /\ Len(hit) \in Nat /\ FirstEvents(p, r, f, Len(hit), length)
      /\ Vals(f, Len(hit)) = {KeyFd(p, i) : i \in Reported(p, cond)}
      /\ Apart(f, Len(hit))
  BY <1>0, <1>1, <1>2, HoldsIn, PosixEventsAre
<1>4. Tells(p, r, Vals(f, Len(hit)), length)
  BY <1>3, FirstTell
<1>5. \A i \in 1 .. p.map.count :
        Revents(p.map.keys[i], cond) = CondOf(cond, KeyFd(p, i)) \cap {"in", "err", "hup", "nval"}
  BY <1>0 DEF Revents, KeyFd
<1>6. {KeyFd(p, i) : i \in Reported(p, cond)} =
        {s \in SocketsIn(p) : CondOf(cond, s) \cap {"in", "err", "hup", "nval"} # {}}
  <2>1. SocketsIn(p) = {KeyFd(p, i) : i \in 1 .. p.map.count}
    BY DEF SocketsIn, Vals, Fds
  <2> QED
    BY <1>5, <2>1 DEF Reported
<1> QED
  BY <1>3, <1>4, <1>6

-----------------------------------------------------------------------------
(* tcs_poll_wait.                                                          *)
LEMMA PollWaitTyped ==
  ASSUME NEW p, PollHolds(p), ~ Damaged(p.map), NEW cond, NEW length \in Nat,
         NEW interrupted \in BOOLEAN, NEW w, w = PollWait(p, cond, length, interrupted),
         NEW X, PollIn(p, X)
  PROVE  /\ w.events \in Seq(Ev(X)) /\ Len(w.events) <= length
         /\ w.res = "UNKNOWN" => w.events = <<>>
<1>1. p.backend \in {"posix", "win32"}
  BY PollShape DEF PollHolds
<1>2. PICK es : es = IF p.backend = "posix" THEN PosixEvents(p, cond, length) ELSE Win32Events(p, cond, length)
  OBVIOUS
<1>3. es \in Seq(Ev(X)) /\ Len(es) <= length
  <2>1. CASE p.backend = "posix"
    <3>1. es = PosixEvents(p, cond, length)
      BY <1>2, <2>1
    <3> QED
      BY <2>1, <3>1, PosixEventsAre
  <2>2. CASE p.backend = "win32"
    <3>1. es = Win32Events(p, cond, length)
      BY <1>2, <2>2
    <3> QED
      BY <2>2, <3>1, Win32EventsTyped
  <2> QED
    BY <1>1, <2>1, <2>2
<1>4. PICK fails \in BOOLEAN : fails <=> (interrupted \/ (p.backend = "win32" /\ SelectFails(p, cond)))
  OBVIOUS
<1>5. w = IF fails THEN [events |-> <<>>, res |-> "UNKNOWN"]
          ELSE [events |-> es, res |-> IF es = <<>> THEN "TIMED_OUT" ELSE "SUCCESS"]
  BY <1>2, <1>4 DEF PollWait
<1>6. <<>> \in Seq(Ev(X)) /\ Len(<<>>) <= length
  OBVIOUS
<1> QED
  BY <1>3, <1>5, <1>6

(* An event for each socket the kernel has something to say of, as far as  *)
(* there is room.                                                          *)
LEMMA PollWaitTells ==
  ASSUME NEW p, PollOK(p), ~ Damaged(p.map), NEW cond, NEW length \in Nat,
         \A s \in DOMAIN cond : cond[s] \subseteq {"in", "err", "hup"},
         NEW interrupted \in BOOLEAN, NEW w, w = PollWait(p, cond, length, interrupted),
         w.res # "UNKNOWN"
  PROVE  Tells(p, w.events, {s \in SocketsIn(p) : s \in DOMAIN cond => cond[s] # {}}, length)
<1>1. p.backend \in {"posix", "win32"} /\ PollHolds(p)
  BY PollShape DEF PollHolds, PollOK, PollWhole
<1>2. PICK es : es = IF p.backend = "posix" THEN PosixEvents(p, cond, length) ELSE Win32Events(p, cond, length)
  OBVIOUS
<1>3. PICK fails \in BOOLEAN : fails <=> (interrupted \/ (p.backend = "win32" /\ SelectFails(p, cond)))
  OBVIOUS
<1>4. w = IF fails THEN [events |-> <<>>, res |-> "UNKNOWN"]
          ELSE [events |-> es, res |-> IF es = <<>> THEN "TIMED_OUT" ELSE "SUCCESS"]
  BY <1>2, <1>3 DEF PollWait
<1>5. ~ fails /\ w.events = es
  BY <1>4
<1>6. CASE p.backend = "posix"
  <2>1. es = PosixEvents(p, cond, length)
    BY <1>2, <1>6
  <2>2. Tells(p, es, {s \in SocketsIn(p) : CondOf(cond, s) \cap {"in", "err", "hup", "nval"} # {}}, length)
    BY <1>6, <2>1, PosixEventsTell
  <2>3. {s \in SocketsIn(p) : CondOf(cond, s) \cap {"in", "err", "hup", "nval"} # {}} =
        {s \in SocketsIn(p) : s \in DOMAIN cond => cond[s] # {}}
    BY DEF CondOf
  <2> QED
    BY <1>5, <2>2, <2>3
<1>7. CASE p.backend = "win32"
  <2>1. es = Win32Events(p, cond, length)
    BY <1>2, <1>7
  <2>2. Tells(p, es, {s \in SocketsIn(p) : cond[s] \cap {"in", "hup", "err"} # {}}, length)
    BY <1>7, <2>1, Win32EventsTell
  <2>3. SocketsIn(p) \subseteq DOMAIN cond
    <3>1. ~ SelectFails(p, cond)
      BY <1>3, <1>5, <1>7
    <3>2. Range(Socks(p.read)) \subseteq DOMAIN cond
      <4>1. \A a \in Lists : Range(Socks(p[a])) \subseteq DOMAIN cond
        BY <3>1 DEF SelectFails
      <4> QED
        BY <4>1 DEF Lists
    <3>3. Names(p.read) = SocketsIn(p) /\ Whole(p.read, Cell)
      BY <1>1, <1>7 DEF PollOK, PollHolds
    <3>4. PICK l : l = p.read
      OBVIOUS
    <3>5. PICK socks : socks = Socks(l)
      OBVIOUS
    <3>6. DOMAIN socks = 1 .. l.count /\ \A i \in 1 .. l.count : socks[i] = l.data[i]
      BY <3>3, <3>4, <3>5, SocksAre
    <3>7. Names(l) \subseteq Range(socks)
      BY <3>6 DEF Names, Vals, Range
    <3> QED
      BY <3>2, <3>3, <3>4, <3>5, <3>7
  <2>4. {s \in SocketsIn(p) : cond[s] \cap {"in", "hup", "err"} # {}} =
        {s \in SocketsIn(p) : s \in DOMAIN cond => cond[s] # {}}
    BY <2>3
  <2> QED
    BY <1>5, <2>2, <2>4
<1> QED
  BY <1>1, <1>6, <1>7

-----------------------------------------------------------------------------
(* The process.  What its variables may be, wherever it is.                *)
Types ==
  /\ role \in {"server", "client"} /\ backend \in {"posix", "win32"}
  /\ open \subseteq Socket
  /\ sock \in open \cup {InvalidSocket}
  /\ sessions \subseteq Socket \X User
  /\ ready \subseteq Socket /\ made \subseteq Socket
  /\ known \in {0, 1} /\ connected \in {0, 1} /\ starved \in {0, 1} /\ corrupt \in {0, 1}
  /\ faults \in 0 .. MaxFaults
  /\ events \in Seq(Ev(Cell)) /\ Len(events) <= Length

(* Its poll sets: an entry that could not be removed is the sign that      *)
(* there was no memory, and without one the set can be relied on.          *)
Polls ==
  /\ attempt # NoPoll => PollWhole(attempt)
  /\ poll # NoPoll => PollHolds(poll) /\ poll.backend = backend
  /\ poll # NoPoll /\ corrupt = 0 => PollOK(poll)
  /\ corrupt = 1 => starved = 1

(* The client has polled at most the socket it has now.                    *)
ClientPolls ==
  role = "client" =>
    /\ corrupt = 0 /\ sessions = {}
    /\ poll # NoPoll => poll.map.count \in {0, 1} /\ Settled(poll.map.capacity, 0)
    /\ pc = "start" => known = 0 /\ poll = NoPoll
    /\ pc # "start" => known = 1 /\ (starved = 0 => poll # NoPoll)
    /\ pc \notin {"idle", "handle"} => Registered(poll) = {} /\ connected = 0
    /\ pc \in {"idle", "handle"} =>
         /\ Registered(poll) \subseteq {<<sock, NoUser>>}
         /\ connected = 1 /\ starved = 0 => Registered(poll) = {<<sock, NoUser>>}
    /\ pc # "handle" => events = <<>>
    /\ pc = "handle" => events # <<>>
    /\ pc \in {"connect", "poll", "await", "unblock"} => sock \in Socket
    /\ pc \in {"start", "resolve", "socket", "connect", "poll", "await", "unblock", "idle", "handle"}

SocketsOf(set) == {r[1] : r \in set}

(* What the server has open is what it serves, what it polls is part of    *)
(* that, and the events it has yet to handle are of different sessions.    *)
Serving ==
  /\ open = {sock} \cup SocketsOf(sessions) /\ sock \notin SocketsOf(sessions)
  /\ \A r, t \in sessions : r[1] = t[1] \/ r[2] = t[2] => r = t
  /\ Registered(poll) \subseteq sessions
  /\ starved = 0 => poll # NoPoll /\ Registered(poll) = sessions
  /\ Apart(SocksOf(events), Len(events))
  /\ \A i \in 1 .. Len(events) : <<events[i].socket, events[i].user>> \in sessions

(* Even when that is no longer so, the listening socket is never polled.   *)
Listening ==
  /\ sock \in Socket /\ sock \in open
  /\ poll # NoPoll => PollIn(poll, Cell \ {sock})
  /\ events \in Seq(Ev(Cell \ {sock}))

ServerStages ==
  role = "server" =>
    /\ pc \in {"start", "resolve", "socket", "bind", "listen", "accept", "wait", "handle",
               "stopped", "undefined"}
    /\ pc \in {"start", "resolve", "socket"} => open = {} /\ sock = InvalidSocket
    /\ pc \in {"bind", "listen"} => sock \in Socket /\ open = {sock}
    /\ pc = "stopped" => open = {sock} \ {InvalidSocket}
    /\ pc \notin {"accept", "wait", "handle", "undefined"} =>
         poll = NoPoll /\ sessions = {} /\ events = <<>>
    /\ pc \in {"accept", "wait"} => events = <<>>
    /\ pc = "handle" => events # <<>> /\ poll # NoPoll
    /\ pc \in {"accept", "wait", "handle"} => Listening /\ (corrupt = 0 => Serving)

TcsInv == Types /\ Polls /\ ClientPolls /\ ServerStages

-----------------------------------------------------------------------------
(* An allocation fails only as long as the bound is not reached.           *)
LEMMA AllocationsFail ==
  ASSUME NEW of, NEW bad \in FailingAllocations(of)
  PROVE  bad = {} \/ faults < MaxFaults
BY DEF FailingAllocations

(* A poll set is created empty, or not at all.                             *)
LEMMA CreatedAre ==
  ASSUME Types, NEW c \in Created
  PROVE  /\ Registered(c) = {} /\ (c = NoPoll => faults < MaxFaults)
         /\ c # NoPoll => PollOK(c) /\ c.backend = backend /\ c.map.count = 0
<1>1. PICK bad \in FailingAllocations(Allocation(backend)) : c = PollCreate(backend, bad).poll
  BY DEF Created
<1>2. backend \in {"posix", "win32"}
  BY DEF Types
<1> QED
  BY <1>1, <1>2, AllocationsFail, PollCreateKeeps

(* What is left of a poll set that a socket is added to, and the result.   *)
Adds(p, s, u, flags, a) ==
  /\ p = NoPoll => a.poll = NoPoll /\ a.res = "INVALID_ARGUMENT"
  /\ p # NoPoll => /\ a.res \in {"SUCCESS", "MEMORY"} /\ (a.res = "MEMORY" => faults < MaxFaults)
                   /\ a.res = "SUCCESS" => AddedTo(p, s, u, a.poll)
                   /\ a.res = "MEMORY" => AsBefore(p, a.poll)
                   /\ flags = {"in"} => PollOK(a.poll)

(* What the process finds after it has added a socket.                     *)
LEMMA AddedAre ==
  ASSUME NEW p, p # NoPoll => PollOK(p), NEW s \in Socket, \A r \in Registered(p) : r[1] # s,
         NEW u \in User \cup {NoUser}, NEW flags \in SUBSET {"in", "out"},
         NEW a \in Added(p, s, u, flags)
  PROVE  Adds(p, s, u, flags, a)
<1>1. PICK bad \in FailingAllocations(Arrays(backend)) : a = PollAdd(p, s, u, flags, bad)
  BY DEF Added
<1>2. CASE p = NoPoll
  BY <1>1, <1>2 DEF PollAdd, Gives, Adds
<1>3. CASE p # NoPoll
  <2>1. PollOK(p) /\ PollWhole(p) /\ s \notin SocketsIn(p)
    BY <1>3, RegisteredIs DEF PollOK
  <2>2. /\ a.res \in {"SUCCESS", "MEMORY"} /\ (bad = {} => a.res = "SUCCESS")
        /\ a.res = "SUCCESS" => AddedTo(p, s, u, a.poll)
        /\ a.res # "SUCCESS" => AsBefore(p, a.poll)
        /\ flags = {"in"} => PollOK(a.poll)
    BY <1>1, <2>1, PollAddKeeps
  <2>3. bad = {} \/ faults < MaxFaults
    BY AllocationsFail
  <2> QED
    BY <1>3, <2>2, <2>3 DEF Adds
<1> QED
  BY <1>2, <1>3

(* A poll set that can be relied on holds what it counts.                  *)
LEMMA NotBroken ==
  ASSUME NEW p, PollOK(p)
  PROVE  /\ p # NoPoll /\ PollHolds(p) /\ ~ Damaged(p.map) /\ ~ Broken(p)
         /\ p.map.count \in Nat /\ Registered(p) \subseteq Socket \X (User \cup {NoUser})
<1>1. PollHolds(p) /\ MapWhole(p.map, Cell)
  BY DEF PollOK, PollWhole
<1>2. p # NoPoll /\ p.map.count \in Nat
  BY <1>1, PollShape DEF PollHolds
<1>3. ~ Damaged(p.map)
  BY <1>1, WholeTypes
<1>4. \A i \in 1 .. p.map.count : KeyFd(p, i) \in Socket /\ p.map.values[i] \in User \cup {NoUser}
  BY DEF PollOK, PollWhole
<1>5. Registered(p) \subseteq Socket \X (User \cup {NoUser})
  BY <1>2, <1>4 DEF Registered
<1> QED
  BY <1>1, <1>2, <1>3, <1>5 DEF Broken

-----------------------------------------------------------------------------
(* The steps that open a socket.                                           *)

(* The process starts without poll sets.                                   *)
LEMMA InitTcsInv == Init => TcsInv
<1> SUFFICES ASSUME Init PROVE TcsInv
  OBVIOUS
<1>1. events \in Seq(Ev(Cell)) /\ Len(events) = 0 /\ Length \in Nat
  <2>1. \A S : <<>> \in Seq(S)
    OBVIOUS
  <2> QED
    BY <2>1 DEF Init, Length
<1>2. Types
  BY <1>1 DEF Init, Types
<1>3. Polls
  BY DEF Init, Polls
<1>4. ClientPolls
  BY DEF Init, ClientPolls, Registered
<1>5. ServerStages
  BY DEF Init, ServerStages
<1> QED
  BY <1>2, <1>3, <1>4, <1>5 DEF TcsInv

(* Steps of opening a socket that leave the poll sets and what was done    *)
(* with them alone.                                                        *)
LEMMA OpeningKeeps ==
  ASSUME TcsInv, Resolve \/ OpenSocket \/ Bind \/ Connect \/ AwaitConnect
  PROVE  TcsInv'
<1>1. UNCHANGED <<role, backend, poll, known, connected, sessions, events, ready, corrupt, made, starved>>
  <2>1. CASE Resolve
    BY <2>1 DEF Resolve, settled, Fault, NoFault
  <2>2. CASE OpenSocket
    BY <2>2 DEF OpenSocket, settled, Fault, NoFault
  <2>3. CASE Bind
    BY <2>3 DEF Bind, settled, Fault, NoFault
  <2>4. CASE Connect
    BY <2>4 DEF Connect, settled, Fault, NoFault
  <2>5. CASE AwaitConnect
    BY <2>5 DEF AwaitConnect, settled, Fault, NoFault
  <2> QED
    BY <2>1, <2>2, <2>3, <2>4, <2>5
<1>2. attempt' = attempt \/ attempt' = NoPoll
  BY DEF Resolve, OpenSocket, Bind, Connect, AwaitConnect, PollDestroy, PosixDestroy, Win32Destroy
<1>3. faults' \in 0 .. MaxFaults
  <2>1. Fault \/ NoFault
    BY DEF Resolve, OpenSocket, Bind, Connect, AwaitConnect
  <2> QED
    BY <2>1 DEF Fault, NoFault, TcsInv, Types
<1>4. open' \subseteq Socket /\ sock' \in open' \cup {InvalidSocket}
  <2>1. CASE Resolve
    BY <2>1 DEF Resolve, TcsInv, Types
  <2>2. CASE OpenSocket
    BY <2>2 DEF OpenSocket, NewDescriptor, TcsInv, Types
  <2>3. CASE Bind
    BY <2>3 DEF Bind, CloseOut, TcsInv, Types
  <2>4. CASE Connect
    BY <2>4 DEF Connect, CloseOut, TcsInv, Types
  <2>5. CASE AwaitConnect
    BY <2>5 DEF AwaitConnect, CloseOut, TcsInv, Types
  <2> QED
    BY <2>1, <2>2, <2>3, <2>4, <2>5
<1>5. Types'
  BY <1>1, <1>3, <1>4 DEF TcsInv, Types, Length
<1>6. Polls'
  BY <1>1, <1>2 DEF TcsInv, Polls
<1>7. ClientPolls'
  <2> SUFFICES ASSUME role = "client"
               PROVE  ClientPolls'
    BY <1>1 DEF ClientPolls
  <2>1. /\ pc \notin {"start", "idle", "handle"} /\ pc' \in {"socket", "connect", "poll", "unblock", "idle"}
        /\ pc' \in {"connect", "poll", "await", "unblock"} => sock' \in Socket
    <3>1. CASE Resolve
      BY <3>1 DEF Resolve, GivesUp
    <3>2. CASE OpenSocket
      BY <3>2 DEF OpenSocket, NewDescriptor, GivesUp
    <3>3. CASE Bind
      BY <3>3 DEF Bind, TcsInv, ClientPolls
    <3>4. CASE Connect
      BY <3>4 DEF Connect, GivesUp, TcsInv, ClientPolls
    <3>5. CASE AwaitConnect
      BY <3>5 DEF AwaitConnect, GivesUp, TcsInv, ClientPolls
    <3> QED
      BY <3>1, <3>2, <3>3, <3>4, <3>5
  <2>2. Registered(poll) = {} /\ Registered(poll') = {} /\ connected' = connected
    BY <1>1, <2>1 DEF TcsInv, ClientPolls
  <2>3. connected = 0
    BY <2>1 DEF TcsInv, ClientPolls
  <2> QED
    BY <1>1, <2>1, <2>2, <2>3 DEF TcsInv, ClientPolls
<1>8. ServerStages'
  <2> SUFFICES ASSUME role = "server"
               PROVE  ServerStages'
    BY <1>1 DEF ServerStages
  <2>1. /\ pc \in {"resolve", "socket", "bind"} /\ pc' \in {"socket", "bind", "listen", "stopped"}
        /\ pc' \in {"socket"} => open' = {} /\ sock' = InvalidSocket
        /\ pc' \in {"bind", "listen"} => sock' \in Socket /\ open' = {sock'}
        /\ pc' = "stopped" => open' = {sock'} \ {InvalidSocket}
    <3>1. CASE Resolve
      BY <3>1 DEF Resolve, GivesUp, TcsInv, ServerStages
    <3>2. CASE OpenSocket
      BY <3>2 DEF OpenSocket, NewDescriptor, GivesUp, TcsInv, ServerStages
    <3>3. CASE Bind
      BY <3>3 DEF Bind, CloseOut, GivesUp, TcsInv, ServerStages
    <3>4. CASE Connect
      BY <3>4 DEF Connect, TcsInv, ServerStages
    <3>5. CASE AwaitConnect
      BY <3>5 DEF AwaitConnect, TcsInv, ServerStages
    <3> QED
      BY <3>1, <3>2, <3>3, <3>4, <3>5
  <2>2. poll' = NoPoll /\ sessions' = {} /\ events' = <<>>
    BY <1>1, <2>1 DEF TcsInv, ServerStages
  <2> QED
    BY <1>1, <2>1, <2>2 DEF ServerStages
<1> QED
  BY <1>5, <1>6, <1>7, <1>8 DEF TcsInv

(* A poll set with nothing in it.                                          *)
LEMMA EmptyIs ==
  ASSUME NEW p, PollOK(p), Registered(p) = {}
  PROVE  p.map.count = 0 /\ Settled(p.map.capacity, 0)
<1>1. p # NoPoll /\ p.map.count \in Nat
  BY NotBroken
<1>2. p.map.count = 0
  <2>1. SUFFICES ASSUME p.map.count # 0
                 PROVE  FALSE
    OBVIOUS
  <2>2. 1 \in 1 .. p.map.count
    BY <1>1, <2>1
  <2> QED
    BY <1>1, <2>2, RegisteredIs
<1> QED
  BY <1>2 DEF PollOK, PollWhole, MapWhole

(* A fault that is a failed allocation.                                    *)
LEMMA StarvesIs ==
  ASSUME Types, NEW some \in BOOLEAN, some => faults < MaxFaults, Starves(some)
  PROVE  /\ faults' \in 0 .. MaxFaults /\ starved' \in {0, 1}
         /\ some => starved' = 1
         /\ starved = 1 => starved' = 1
         /\ ~ some => starved' = starved
<1>1. CASE some
  <2>1. faults' = faults + 1 /\ starved' = 1
    BY <1>1 DEF Starves
  <2> QED
    BY <1>1, <2>1 DEF Types
<1>2. CASE ~ some
  BY <1>2 DEF Starves, NoFault, Types
<1> QED
  BY <1>1, <1>2

(* The poll set of an attempt.                                             *)
LEMMA PollConnectKeeps ==
  ASSUME TcsInv, PollConnect
  PROVE  TcsInv'
<1>1. pc = "poll" /\ role = "client" /\ sock \in Socket /\ UNCHANGED <<settled, made>>
  <2>1. pc = "poll" /\ UNCHANGED <<settled, made>>
    BY DEF PollConnect
  <2>2. role # "server"
    BY <2>1 DEF TcsInv, ServerStages
  <2> QED
    BY <2>1, <2>2 DEF TcsInv, Types, ClientPolls
<1>2. PICK c \in Created : \E a \in Added(c, sock, NoUser, {"out"}) :
        LET fails == a.res # "SUCCESS" IN
          /\ Starves(fails)
          /\ IF fails THEN GivesUp /\ CloseOut /\ UNCHANGED attempt
             ELSE pc' = "await" /\ attempt' = a.poll /\ UNCHANGED <<open, sock>>
  BY DEF PollConnect
<1>3. PICK a \in Added(c, sock, NoUser, {"out"}) :
        LET fails == a.res # "SUCCESS" IN
          /\ Starves(fails)
          /\ IF fails THEN GivesUp /\ CloseOut /\ UNCHANGED attempt
             ELSE pc' = "await" /\ attempt' = a.poll /\ UNCHANGED <<open, sock>>
  BY <1>2
<1>4. PICK fails \in BOOLEAN : fails <=> a.res # "SUCCESS"
  OBVIOUS
<1>5. Starves(fails)
  BY <1>3, <1>4 DEF Starves
<1>6. IF fails THEN GivesUp /\ CloseOut /\ UNCHANGED attempt
      ELSE pc' = "await" /\ attempt' = a.poll /\ UNCHANGED <<open, sock>>
  BY <1>3, <1>4
<1>7. Adds(c, sock, NoUser, {"out"}, a) /\ (c = NoPoll => faults < MaxFaults)
  <2>1. /\ Registered(c) = {} /\ (c = NoPoll => faults < MaxFaults)
        /\ c # NoPoll => PollOK(c)
    BY CreatedAre DEF TcsInv
  <2>2. {"out"} \in SUBSET {"in", "out"} /\ NoUser \in User \cup {NoUser}
    OBVIOUS
  <2> QED
    BY <1>1, <2>1, <2>2, AddedAre
<1>8. /\ fails => faults < MaxFaults
      /\ ~ fails => PollWhole(a.poll)
  BY <1>4, <1>7 DEF Adds, AddedTo
<1>9. /\ faults' \in 0 .. MaxFaults /\ starved' \in {0, 1}
      /\ starved = 1 => starved' = 1
  BY <1>5, <1>8, StarvesIs DEF TcsInv
<1>10. open' \subseteq Socket /\ sock' \in open' \cup {InvalidSocket}
  BY <1>6 DEF CloseOut, TcsInv, Types
<1>11. Types'
  BY <1>1, <1>9, <1>10 DEF settled, TcsInv, Types, Length
<1>12. Polls'
  BY <1>1, <1>6, <1>8, <1>9 DEF settled, TcsInv, Polls
<1>13. ClientPolls'
  <2>1. /\ pc' \in {"idle", "await"} /\ (pc' = "await" => sock' = sock)
    BY <1>1, <1>6 DEF GivesUp
  <2>2. Registered(poll) = {} /\ Registered(poll') = {} /\ connected' = 0
    BY <1>1 DEF settled, TcsInv, ClientPolls
  <2>3. starved' = 0 => starved = 0
    BY <1>9 DEF TcsInv, Types
  <2> QED
    BY <1>1, <2>1, <2>2, <2>3 DEF settled, TcsInv, ClientPolls
<1>14. ServerStages'
  BY <1>1 DEF settled, ServerStages
<1> QED
  BY <1>11, <1>12, <1>13, <1>14 DEF TcsInv

(* The connection is made, and polled.                                     *)
LEMMA JoinsKeeps ==
  ASSUME TcsInv, Joins
  PROVE  TcsInv'
<1>1. /\ pc = "unblock" /\ role = "client" /\ sock \in Socket /\ role' = role
      /\ UNCHANGED <<backend, known, sessions, events, ready, corrupt, attempt>>
  <2>1. pc = "unblock" /\ UNCHANGED <<role, backend, known, sessions, events, ready, corrupt, attempt>>
    BY DEF Joins
  <2>2. role # "server"
    BY <2>1 DEF TcsInv, ServerStages
  <2> QED
    BY <2>1, <2>2 DEF TcsInv, Types, ClientPolls
<1>2. /\ Registered(poll) = {} /\ connected = 0 /\ corrupt = 0 /\ known = 1 /\ sessions = {}
      /\ events = <<>> /\ (starved = 0 => poll # NoPoll)
      /\ poll # NoPoll => PollOK(poll) /\ poll.map.count = 0 /\ Settled(poll.map.capacity, 0)
  <2>1. poll # NoPoll => PollOK(poll)
    BY <1>1 DEF TcsInv, Polls, ClientPolls
  <2>2. Registered(poll) = {}
    BY <1>1 DEF TcsInv, ClientPolls
  <2> QED
    BY <1>1, <2>1, <2>2, EmptyIs DEF TcsInv, ClientPolls
<1>3. ServerStages'
  BY <1>1 DEF ServerStages
<1>4. CASE GivesUp /\ Fault /\ CloseOut /\ UNCHANGED <<poll, connected, made>>
  <2>1. faults' \in 0 .. MaxFaults /\ starved' = starved
    BY <1>4 DEF Fault, TcsInv, Types
  <2>2. Types'
    BY <1>1, <1>4, <2>1 DEF CloseOut, TcsInv, Types, Length
  <2>3. Polls'
    BY <1>1, <1>4, <2>1 DEF TcsInv, Polls
  <2>4. Registered(poll') = {} /\ pc' = "idle"
    BY <1>1, <1>2, <1>4 DEF GivesUp
  <2>5. ClientPolls'
    BY <1>1, <1>2, <1>4, <2>1, <2>4 DEF TcsInv, ClientPolls
  <2> QED
    BY <1>3, <2>2, <2>3, <2>5 DEF TcsInv
<1>5. CASE /\ pc' = "idle"
           /\ connected' = 1
           /\ made' = made \cup {sock}
           /\ \E a \in Added(poll, sock, NoUser, {"in"}) :
                poll' = a.poll /\ Starves(a.res = "MEMORY")
           /\ UNCHANGED <<open, sock>>
  <2>1. PICK a \in Added(poll, sock, NoUser, {"in"}) : poll' = a.poll /\ Starves(a.res = "MEMORY")
    BY <1>5
  <2>2. Adds(poll, sock, NoUser, {"in"}, a)
    <3>1. {"in"} \in SUBSET {"in", "out"} /\ NoUser \in User \cup {NoUser}
      OBVIOUS
    <3>2. (poll # NoPoll => PollOK(poll)) /\ \A r \in Registered(poll) : r[1] # sock
      BY <1>2
    <3> QED
      BY <1>1, <3>1, <3>2, AddedAre
  <2>3. PICK some \in BOOLEAN : some <=> a.res = "MEMORY"
    OBVIOUS
  <2>4. Starves(some)
    BY <2>1, <2>3 DEF Starves
  <2>5. some => faults < MaxFaults
    BY <2>2, <2>3 DEF Adds
  <2>6. /\ faults' \in 0 .. MaxFaults /\ starved' \in {0, 1}
        /\ some => starved' = 1
        /\ starved = 1 => starved' = 1
    BY <2>4, <2>5, StarvesIs DEF TcsInv
  <2>7. CASE poll = NoPoll
    <3>1. poll' = NoPoll /\ starved = 1
      BY <1>2, <2>1, <2>2, <2>7 DEF Adds, TcsInv, Types
    <3>2. Registered(poll') = {}
      BY <3>1 DEF Registered
    <3>3. Types'
      BY <1>1, <1>5, <2>6 DEF TcsInv, Types, Length
    <3>4. Polls'
      BY <1>1, <1>2, <2>6, <3>1 DEF TcsInv, Polls
    <3>5. ClientPolls'
      BY <1>1, <1>2, <1>5, <2>6, <3>1, <3>2 DEF ClientPolls
    <3> QED
      BY <1>3, <3>3, <3>4, <3>5 DEF TcsInv
  <2>8. CASE poll # NoPoll
    <3>1. /\ poll' # NoPoll /\ PollOK(poll') /\ poll'.backend = poll.backend
          /\ ~ some => /\ Registered(poll') = Registered(poll) \cup {<<sock, NoUser>>}
                       /\ poll'.map.count = poll.map.count + 1
                       /\ Settled(poll'.map.capacity, poll.map.count)
          /\ some => Registered(poll') = Registered(poll)
      BY <2>1, <2>2, <2>3, <2>8 DEF Adds, AddedTo, AsBefore
    <3>2. /\ poll'.map.count \in {0, 1} /\ Settled(poll'.map.capacity, 0)
          /\ Registered(poll') \subseteq {<<sock, NoUser>>}
          /\ ~ some => Registered(poll') = {<<sock, NoUser>>}
      <4>1. CASE some
        <5>1. Registered(poll') = {}
          BY <1>2, <3>1, <4>1
        <5> QED
          BY <3>1, <4>1, <5>1, EmptyIs
      <4>2. CASE ~ some
        BY <1>2, <2>8, <3>1, <4>2
      <4> QED
        BY <4>1, <4>2
    <3>3. Types'
      BY <1>1, <1>5, <2>6 DEF TcsInv, Types, Length
    <3>4. Polls'
      <4>1. PollHolds(poll')
        BY <3>1 DEF PollOK, PollWhole
      <4> QED
        BY <1>1, <1>2, <2>6, <2>8, <3>1, <4>1 DEF TcsInv, Polls
    <3>5. ClientPolls'
      BY <1>1, <1>2, <1>5, <2>6, <3>1, <3>2 DEF ClientPolls
    <3> QED
      BY <1>3, <3>3, <3>4, <3>5 DEF TcsInv
  <2> QED
    BY <2>7, <2>8
<1> QED
  BY <1>4, <1>5 DEF Joins

-----------------------------------------------------------------------------
(* The steps of the client, and the wait.                                  *)

(* badcop_init's poll set, when its allocations in bad fail.               *)
InitPoll(b) == IF known = 0 THEN PollCreate(backend, b) ELSE PollRemove(poll, sock, b)

(* With at most one entry, nothing can go wrong when it is removed: the    *)
(* arrays have never been larger than they are at first.                   *)
LEMMA InitPollIs ==
  ASSUME TcsInv, role = "client", pc = "start" \/ (pc = "idle" /\ connected = 0),
         NEW bad, NEW q, q = InitPoll(bad).poll
  PROVE  /\ q # NoPoll => PollOK(q) /\ q.backend = backend
         /\ Registered(q) = {r \in Registered(poll) : r[1] # sock} /\ Registered(q) = {}
         /\ known = 1 => ~ StillThere(poll, q, sock) /\ (q = NoPoll <=> poll = NoPoll)
         /\ known = 0 /\ bad = {} => q # NoPoll
         /\ known = 1 /\ poll = NoPoll => q = NoPoll
<1>1. backend \in {"posix", "win32"} /\ known \in {0, 1}
  BY DEF TcsInv, Types
<1>2. CASE known = 0
  <2>1. pc = "start" /\ Registered(poll) = {}
    BY <1>2 DEF TcsInv, ClientPolls
  <2>2. q = PollCreate(backend, bad).poll
    BY <1>2 DEF InitPoll
  <2>3. /\ Registered(q) = {} /\ (bad = {} => q # NoPoll)
        /\ q # NoPoll => PollOK(q) /\ q.backend = backend
    BY SMTT(25), <1>1, <2>2, PollCreateKeeps
  <2> QED
    BY <1>2, <2>1, <2>3
<1>3. CASE known = 1
  <2>1. pc = "idle" /\ q = PollRemove(poll, sock, bad).poll
    BY <1>3 DEF TcsInv, ClientPolls, InitPoll
  <2>2. Registered(poll) \subseteq {<<sock, NoUser>>} /\ corrupt = 0
    BY <2>1 DEF TcsInv, ClientPolls
  <2>3. {r \in Registered(poll) : r[1] # sock} = {}
    BY <2>2
  <2>4. CASE poll = NoPoll
    <3>1. q = NoPoll /\ Registered(q) = {} /\ Registered(poll) = {}
      BY <2>1, <2>4 DEF PollRemove, Gives, Registered
    <3> QED
      BY <1>3, <2>4, <3>1 DEF StillThere
  <2>5. CASE poll # NoPoll
    <3>1. /\ PollOK(poll) /\ PollHolds(poll) /\ ~ Damaged(poll.map) /\ poll.backend = backend
          /\ poll.map.count \in {0, 1} /\ Settled(poll.map.capacity, 0)
      BY <2>2, <2>5, NotBroken DEF TcsInv, Polls, ClientPolls
    <3>2. /\ q # NoPoll /\ q.backend = poll.backend
          /\ RemovedFrom(poll, sock, q) \/ StillThere(poll, q, sock)
          /\ Settled(poll.map.capacity, poll.map.count - 1) => RemovedFrom(poll, sock, q)
      BY <2>1, <3>1, PollRemoveKeeps
    <3>3. RemovedFrom(poll, sock, q)
      <4>1. CASE poll.map.count = 1
        BY <3>1, <3>2, <4>1
      <4>2. CASE poll.map.count = 0
        <5>1. Registered(poll) = {}
          BY <2>5, <4>2 DEF Registered
        <5> QED
          BY <3>2, <5>1 DEF StillThere
      <4> QED
        BY <3>1, <4>1, <4>2
    <3>4. ~ StillThere(poll, q, sock)
      <4>1. SUFFICES ASSUME StillThere(poll, q, sock)
                     PROVE  FALSE
        OBVIOUS
      <4>2. sock \in SocketsIn(poll)
        BY <2>5, <4>1, RegisteredIs DEF StillThere
      <4>3. q.map.count = poll.map.count - 1 /\ q.map.count = poll.map.count
        BY <3>3, <4>1, <4>2 DEF RemovedFrom, StillThere
      <4> QED
        BY <3>1, <4>3
    <3> QED
      BY <1>3, <2>3, <2>5, <3>1, <3>2, <3>3, <3>4 DEF RemovedFrom
  <2> QED
    BY <2>4, <2>5
<1> QED
  BY <1>1, <1>2, <1>3

(* The reconnect: its removal can not fail.                                *)
LEMMA BadcopInitKeeps ==
  ASSUME TcsInv, BadcopInit
  PROVE  TcsInv'
<1>1. /\ role = "client" /\ (pc = "start" \/ (pc = "idle" /\ connected = 0))
      /\ known' = 1 /\ connected' = 0 /\ sock' = InvalidSocket
      /\ UNCHANGED <<role, backend, open, attempt, sessions, events, ready, made>>
  BY DEF BadcopInit
<1>2. PICK all : all = InitPoll({}).poll
  OBVIOUS
<1>3. PICK bad \in FailingAllocations(Allocation(backend)) :
        /\ poll' = InitPoll(bad).poll
        /\ corrupt' = IF known = 1 /\ StillThere(poll, poll', sock) THEN 1 ELSE corrupt
        /\ \/ pc' = "resolve" /\ Starves(poll' # all)
           \/ pc' = "idle" /\ poll' = all /\ LibInitFails
  BY <1>2 DEF BadcopInit, InitPoll
<1>4. /\ all # NoPoll => PollOK(all)
      /\ known = 0 => all # NoPoll
      /\ known = 1 => (all = NoPoll <=> poll = NoPoll)
  BY <1>1, <1>2, InitPollIs
<1>5. /\ poll' # NoPoll => PollOK(poll') /\ poll'.backend = backend
      /\ Registered(poll') = {}
      /\ known = 1 => ~ StillThere(poll, poll', sock) /\ (poll' = NoPoll <=> poll = NoPoll)
  BY <1>1, <1>3, InitPollIs
<1>6. corrupt = 0 /\ corrupt' = 0 /\ sessions = {} /\ events = <<>> /\ known \in {0, 1}
  BY <1>1, <1>3, <1>5 DEF TcsInv, Types, ClientPolls
<1>7. PICK some \in BOOLEAN : some <=> poll' # all
  OBVIOUS
<1>8. some => faults < MaxFaults
  BY <1>2, <1>3, <1>7, AllocationsFail
<1>9. /\ faults' \in 0 .. MaxFaults /\ starved' \in {0, 1}
      /\ some => starved' = 1
      /\ starved = 1 => starved' = 1
  <2>1. CASE Starves(poll' # all)
    <3>1. Starves(some)
      BY <1>7, <2>1 DEF Starves
    <3> QED
      BY <1>8, <3>1, StarvesIs DEF TcsInv
  <2>2. CASE poll' = all /\ LibInitFails
    BY <1>7, <2>2 DEF LibInitFails, Fault, TcsInv, Types
  <2> QED
    BY <1>3, <2>1, <2>2
<1>10. starved' = 0 => poll' # NoPoll
  <2>1. CASE known = 0
    BY <1>4, <1>7, <1>9, <2>1
  <2>2. CASE known = 1
    <3>1. pc # "start"
      BY <1>1, <2>2 DEF TcsInv, ClientPolls
    <3>2. starved' = 0 => poll # NoPoll
      BY <1>1, <1>9, <3>1 DEF TcsInv, Types, ClientPolls
    <3> QED
      BY <1>5, <2>2, <3>2
  <2> QED
    BY <1>6, <2>1, <2>2
<1>11. Types'
  BY <1>1, <1>6, <1>9 DEF TcsInv, Types, Length
<1>12. Polls'
  <2>1. poll' # NoPoll => PollHolds(poll')
    BY <1>5, NotBroken
  <2> QED
    BY <1>1, <1>5, <1>6, <1>9, <2>1 DEF TcsInv, Polls
<1>13. ClientPolls'
  <2>1. poll' # NoPoll => poll'.map.count = 0 /\ Settled(poll'.map.capacity, 0)
    BY <1>5, EmptyIs
  <2>2. pc' \in {"resolve", "idle"}
    BY <1>3
  <2> QED
    BY <1>1, <1>5, <1>6, <1>10, <2>1, <2>2 DEF ClientPolls
<1>14. ServerStages'
  BY <1>1 DEF ServerStages
<1> QED
  BY <1>11, <1>12, <1>13, <1>14 DEF TcsInv

(* The loss of the connection is noticed in a send ...                     *)
LEMMA SendFailsKeeps ==
  ASSUME TcsInv, SendFails
  PROVE  TcsInv'
<1>1. /\ role = "client" /\ pc = "idle" /\ connected' = 0
      /\ UNCHANGED <<role, backend, pc, open, sock, poll, attempt, known, sessions, events,
                     ready, made, faults, starved, corrupt>>
  BY DEF SendFails, history
<1>2. Types'
  BY <1>1 DEF TcsInv, Types, Length
<1>3. Polls'
  BY <1>1 DEF TcsInv, Polls
<1>4. ClientPolls'
  BY <1>1 DEF TcsInv, ClientPolls
<1>5. ServerStages'
  BY <1>1 DEF ServerStages
<1> QED
  BY <1>2, <1>3, <1>4, <1>5 DEF TcsInv

(* The first event is handled: the others are left.                        *)
LEMMA TailIs ==
  ASSUME NEW S, NEW s \in Seq(S), s # <<>>
  PROVE  /\ Tail(s) \in Seq(S) /\ Len(s) \in Nat \ {0} /\ Len(Tail(s)) = Len(s) - 1
         /\ Head(s) = s[1] /\ Head(s) \in S
         /\ \A i \in 1 .. Len(s) - 1 : i + 1 \in 1 .. Len(s) /\ Tail(s)[i] = s[i + 1]
<1>1. Len(s) \in Nat /\ Len(s) # 0
  BY EmptySeq, LenProperties
<1>2. Tail(s) \in Seq(S) /\ Len(Tail(s)) = Len(s) - 1 /\ Head(s) = s[1] /\ Head(s) \in S
      /\ \A i \in 1 .. Len(Tail(s)) : Tail(s)[i] = s[i + 1]
  BY HeadTailProperties
<1>3. \A i \in 1 .. Len(s) - 1 : i + 1 \in 1 .. Len(s)
  BY <1>1
<1> QED
  BY <1>1, <1>2, <1>3

(* ... or in the event, of which there is only one.                        *)
LEMMA ClientHandlesKeeps ==
  ASSUME TcsInv, ClientHandles
  PROVE  TcsInv' /\ events' = <<>>
<1>1. /\ role = "client" /\ pc = "handle" /\ pc' = "idle" /\ events' = Tail(events) /\ ready' = {}
      /\ UNCHANGED <<role, backend, open, sock, poll, attempt, known, sessions, made, faults, starved, corrupt>>
      /\ connected' \in {0, connected}
  BY DEF ClientHandles
<1>2. /\ events \in Seq(Ev(Cell)) /\ events # <<>> /\ Len(events) <= 1
  BY <1>1 DEF TcsInv, Types, ClientPolls, Length
<1>3. PICK S : S = Ev(Cell)
  OBVIOUS
<1>4. PICK es : es = events
  OBVIOUS
<1>5. events' \in Seq(S) /\ Len(events') = Len(es) - 1 /\ Len(es) \in Nat \ {0}
  BY <1>1, <1>2, <1>3, <1>4, TailIs
<1>6. events' = <<>>
  <2>1. Len(events') = 0
    BY <1>2, <1>4, <1>5
  <2> QED
    BY <1>5, <2>1, EmptySeq
<1>7. Types'
  <2>1. events' \in Seq(Ev(Cell)) /\ Len(events') = 0
    BY <1>3, <1>5, <1>6
  <2>2. role' = role /\ Length' = 1
    BY <1>1 DEF Length
  <2> QED
    BY <1>1, <2>1, <2>2 DEF TcsInv, Types
<1>8. Polls'
  BY <1>1 DEF TcsInv, Polls
<1>9. ClientPolls'
  <2>1. connected' = 1 => connected = 1
    BY <1>1
  <2> QED
    BY <1>1, <1>6, <2>1 DEF TcsInv, ClientPolls
<1>10. ServerStages'
  BY <1>1 DEF ServerStages
<1> QED
  BY <1>6, <1>7, <1>8, <1>9, <1>10 DEF TcsInv

(* The room for events: one for the client.                                *)
LEMMA LengthIs ==
  ASSUME Types
  PROVE  Length \in Nat \ {0} /\ (role = "client" => Length = 1) /\ (role = "server" => Length = MaxConnections)
BY DEF Types, Length

(* What a wait leaves: whatever happened to the poll set before, events of *)
(* sockets that are in it, and as long as it can be relied on, of those    *)
(* that are ready.                                                         *)
WaitGives(es, found) ==
  /\ poll # NoPoll /\ found \subseteq SocketsIn(poll) /\ SocketsIn(poll) \subseteq Socket
  /\ Len(es) <= Length
  /\ \A X : PollIn(poll, X) => es \in Seq(Ev(X))
  /\ corrupt = 0 => Tells(poll, es, found, Length)

(* A wait gives what is found, also of a poll set that is not to be relied *)
(* on.                                                                     *)
LEMMA WaitsIs ==
  ASSUME TcsInv, Waits
  PROVE  WaitGives(events', ready')
<1>1. poll # NoPoll /\ ~ Damaged(poll.map) /\ PollHolds(poll)
  BY DEF Waits, Broken, TcsInv, Polls
<1>2. PICK length \in Nat : length = Length
  BY LengthIs DEF TcsInv
<1>3. PICK interrupted \in BOOLEAN :
        \E c \in [open \cap {r[1] : r \in Registered(poll)} -> IF interrupted THEN {{}} ELSE Conditions] :
           LET cond == [s \in open |-> IF s \in DOMAIN c THEN c[s] ELSE {}]
               w    == PollWait(poll, cond, Length, interrupted)
           IN  /\ events' = w.events
               /\ ready' = IF w.res = "UNKNOWN" THEN {} ELSE ReadyOf(cond)
  BY DEF Waits
<1>4. PICK c \in [open \cap {r[1] : r \in Registered(poll)} -> IF interrupted THEN {{}} ELSE Conditions] :
           LET cond == [s \in open |-> IF s \in DOMAIN c THEN c[s] ELSE {}]
               w    == PollWait(poll, cond, Length, interrupted)
           IN  /\ events' = w.events
               /\ ready' = IF w.res = "UNKNOWN" THEN {} ELSE ReadyOf(cond)
  BY <1>3
<1>5. PICK cond : cond = [s \in open |-> IF s \in DOMAIN c THEN c[s] ELSE {}]
  OBVIOUS
<1>6. PICK w : w = PollWait(poll, cond, length, interrupted)
  OBVIOUS
<1>7. events' = w.events /\ ready' = IF w.res = "UNKNOWN" THEN {} ELSE ReadyOf(cond)
  BY <1>2, <1>4, <1>5, <1>6
<1>8. \A s \in DOMAIN cond : cond[s] \subseteq {"in", "err", "hup"}
  <2> SUFFICES ASSUME NEW s \in open
               PROVE  cond[s] \subseteq {"in", "err", "hup"}
    BY <1>5
  <2>1. CASE s \in DOMAIN c
    <3>1. c[s] \in IF interrupted THEN {{}} ELSE Conditions
      BY <2>1
    <3>2. c[s] \subseteq {"in", "err", "hup"}
      BY <3>1 DEF Conditions
    <3> QED
      BY <1>5, <2>1, <3>2
  <2>2. CASE s \notin DOMAIN c
    BY <1>5, <2>2
  <2> QED
    BY <2>1, <2>2
<1>9. {r[1] : r \in Registered(poll)} = SocketsIn(poll)
  BY <1>1, RegisteredIs
<1>10. ReadyOf(cond) = {s \in SocketsIn(poll) : s \in DOMAIN cond => cond[s] # {}}
  BY <1>9 DEF ReadyOf
<1>11. SocketsIn(poll) \subseteq Socket
  <2>1. poll.map.count \in Nat /\ Len(poll.map.keys) \in Nat /\ poll.map.count <= Len(poll.map.keys)
    BY <1>1, PollShape, LenProperties DEF PollHolds, MapHolds, Damaged
  <2>2. \A i \in 1 .. poll.map.count : KeyFd(poll, i) \in Socket
    BY <1>1, <2>1 DEF PollHolds
  <2> QED
    BY <2>2 DEF SocketsIn, Vals, Fds
<1>12. Len(w.events) <= length /\ (w.res = "UNKNOWN" => w.events = <<>>)
  BY <1>1, <1>6, HoldsIn, PollWaitTyped
<1>13. ASSUME NEW X, PollIn(poll, X)
       PROVE  w.events \in Seq(Ev(X))
  BY <1>1, <1>6, <1>13, PollWaitTyped
<1>14. ASSUME corrupt = 0
       PROVE  Tells(poll, events', ready', length)
  <2>1. PollOK(poll)
    BY <1>1, <1>14 DEF TcsInv, Polls
  <2>2. CASE w.res = "UNKNOWN"
    <3>1. events' = <<>> /\ ready' = {}
      BY <1>7, <1>12, <2>2
    <3>2. Tells(poll, <<>>, {}, length)
      BY DEF Tells, Apart, Vals
    <3> QED
      BY <3>1, <3>2
  <2>3. CASE w.res # "UNKNOWN"
    <3>1. PICK p : p = poll
      OBVIOUS
    <3>2. Tells(p, w.events, {s \in SocketsIn(p) : s \in DOMAIN cond => cond[s] # {}}, length)
      BY <1>1, <1>6, <1>8, <2>1, <2>3, <3>1, PollWaitTells
    <3> QED
      BY <1>7, <1>10, <2>3, <3>1, <3>2
  <2> QED
    BY <2>2, <2>3
<1>15. ready' \subseteq SocketsIn(poll)
  BY <1>7, <1>10
<1> QED
  BY <1>1, <1>2, <1>7, <1>11, <1>12, <1>13, <1>14, <1>15 DEF WaitGives

(* So the events of the server are those of its sessions.                  *)
LEMMA WaitsKeeps ==
  ASSUME TcsInv, Waits
  PROVE  TcsInv'
<1>1. /\ pc = "wait" \/ (role = "client" /\ pc = "idle" /\ connected = 1)
      /\ pc' = IF events' # <<>> THEN "handle" ELSE IF role = "client" THEN "idle" ELSE "accept"
      /\ UNCHANGED <<role, backend, open, sock, poll, attempt, known, connected, sessions, made, faults,
                     starved, corrupt>>
  <2>1. pc = "wait" \/ (role = "client" /\ pc = "idle" /\ connected = 1)
    BY DEF Waits
  <2>2. pc' = IF events' # <<>> THEN "handle" ELSE IF role = "client" THEN "idle" ELSE "accept"
    BY DEF Waits
  <2>3. UNCHANGED <<role, backend, open, sock, poll, attempt, known, connected, sessions, made, faults,
                     starved, corrupt>>
    BY DEF Waits
  <2> QED
    BY <2>1, <2>2, <2>3
<1>2. /\ poll # NoPoll /\ ready' \subseteq SocketsIn(poll) /\ SocketsIn(poll) \subseteq Socket
      /\ Len(events') <= Length
      /\ \A X : PollIn(poll, X) => events' \in Seq(Ev(X))
      /\ corrupt = 0 => Tells(poll, events', ready', Length)
  BY WaitsIs DEF WaitGives
<1>3. Types'
  <2>1. events' \in Seq(Ev(Cell))
    <3>1. PollIn(poll, Cell)
      BY <1>2, HoldsIn DEF TcsInv, Polls
    <3> QED
      BY <1>2, <3>1
  <2>2. Length' = Length
    BY <1>1 DEF Length
  <2> QED
    BY <1>1, <1>2, <2>1, <2>2 DEF TcsInv, Types
<1>4. Polls'
  BY <1>1 DEF TcsInv, Polls
<1>5. ClientPolls'
  <2> SUFFICES ASSUME role = "client"
               PROVE  ClientPolls'
    BY <1>1 DEF ClientPolls
  <2>1. pc = "idle" /\ connected = 1 /\ pc' \in {"idle", "handle"} /\ (pc' = "idle" => events' = <<>>)
        /\ (pc' = "handle" => events' # <<>>)
    BY <1>1 DEF TcsInv, ClientPolls
  <2> QED
    BY <1>1, <2>1 DEF TcsInv, ClientPolls
<1>6. ServerStages'
  <2> SUFFICES ASSUME role = "server"
               PROVE  ServerStages'
    BY <1>1 DEF ServerStages
  <2>1. /\ pc = "wait" /\ pc' \in {"accept", "handle"} /\ (pc' = "accept" => events' = <<>>)
        /\ (pc' = "handle" => events' # <<>>)
    BY <1>1
  <2>2. Listening /\ (corrupt = 0 => Serving)
    BY <2>1 DEF TcsInv, ServerStages
  <2>3. Listening'
    <3>1. PollIn(poll, Cell \ {sock})
      BY <1>2, <2>2 DEF Listening
    <3>2. events' \in Seq(Ev(Cell \ {sock}))
      BY <1>2, <3>1
    <3>3. /\ sock' = sock /\ sock \in Socket /\ sock \in open /\ open' = open /\ poll' = poll
          /\ PollIn(poll', Cell \ {sock'})
          /\ events' \in Seq(Ev(Cell \ {sock'}))
      BY <1>1, <2>2, <3>1, <3>2 DEF Listening
    <3> QED
      BY <3>3 DEF Listening
  <2>4. ASSUME corrupt = 0
        PROVE  Serving'
    <3>1. PICK n : n = Len(events')
      OBVIOUS
    <3>2. Apart(SocksOf(events'), n) /\ \A i \in 1 .. n : <<events'[i].socket, events'[i].user>> \in Registered(poll)
      BY <1>2, <2>4, <3>1 DEF Tells
    <3>3. \A i \in 1 .. n : <<events'[i].socket, events'[i].user>> \in sessions
      BY <2>2, <2>4, <3>2 DEF Serving
    <3> QED
      BY <1>1, <2>2, <2>4, <3>1, <3>2, <3>3 DEF Serving
  <2> QED
    BY <1>1, <1>2, <2>1, <2>3, <2>4 DEF ServerStages
<1> QED
  BY <1>3, <1>4, <1>5, <1>6 DEF TcsInv

-----------------------------------------------------------------------------
(* The steps of the server.                                                *)

(* What is undefined is the last step of a server.                         *)
LEMMA UndefinedKeeps ==
  ASSUME TcsInv, Undefined, role = "server", starved = 1 => starved' = 1, starved' \in {0, 1},
         faults' \in 0 .. MaxFaults
  PROVE  TcsInv'
<1>1. /\ pc' = "undefined"
      /\ UNCHANGED <<role, backend, open, sock, poll, attempt, known, connected, sessions, events,
                     ready, made, corrupt>>
  BY DEF Undefined
<1>2. Types'
  BY <1>1 DEF TcsInv, Types, Length
<1>3. Polls'
  BY <1>1 DEF TcsInv, Polls
<1>4. ClientPolls'
  BY <1>1 DEF ClientPolls
<1>5. ServerStages'
  BY <1>1 DEF ServerStages
<1> QED
  BY <1>2, <1>3, <1>4, <1>5 DEF TcsInv

(* An entry that could not be removed is a failed allocation; so is a poll *)
(* set that is not there.                                                  *)
LEMMA BrokenStarved ==
  ASSUME TcsInv
  PROVE  /\ Broken(poll) => starved = 1
         /\ role = "server" /\ pc \in {"accept", "wait", "handle"} /\ poll = NoPoll => starved = 1
<1>1. ASSUME Broken(poll)
      PROVE  starved = 1
  <2>1. corrupt # 0
    BY <1>1, NotBroken DEF TcsInv, Polls, Broken
  <2> QED
    BY <2>1 DEF TcsInv, Types, Polls
<1>2. ASSUME role = "server", pc \in {"accept", "wait", "handle"}, poll = NoPoll
      PROVE  starved = 1
  <2>1. CASE corrupt = 0
    BY <1>2, <2>1 DEF TcsInv, Types, ServerStages, Serving
  <2>2. CASE corrupt = 1
    BY <2>2 DEF TcsInv, Polls
  <2> QED
    BY <2>1, <2>2 DEF TcsInv, Types
<1> QED
  BY <1>1, <1>2

(* A connection that can not be served: an allocation has failed, or there *)
(* is no slot for it.                                                      *)
LEMMA AcceptsUndefinedKeeps ==
  ASSUME TcsInv, AcceptsUndefined
  PROVE  TcsInv' /\ (starved' = 1 \/ (pc = "accept" /\ Cardinality(sessions) = MaxConnections))
<1>1. role = "server" /\ pc = "accept" /\ Undefined
  BY DEF AcceptsUndefined
<1>2. /\ starved = 1 => starved' = 1
      /\ starved' \in {0, 1} /\ faults' \in 0 .. MaxFaults
      /\ starved' = 1 \/ Cardinality(sessions) = MaxConnections
  BY BrokenStarved DEF AcceptsUndefined, NoFault, TcsInv, Types
<1> QED
  BY <1>1, <1>2, UndefinedKeeps

(* A wait that leaves the number of events unset needs a failed allocation.*)
LEMMA EventsUnsetIs ==
  ASSUME TcsInv, EventsUnset, role = "server", pc \in {"accept", "wait", "handle"}
  PROVE  starved' = 1 /\ faults' \in 0 .. MaxFaults
BY BrokenStarved DEF EventsUnset, NoFault, TcsInv, Types

(* So does waiting for what happens to be on the stack.                    *)
LEMMA WaitsUndefinedKeeps ==
  ASSUME TcsInv, WaitsUndefined
  PROVE  TcsInv' /\ starved' = 1
<1>1. pc = "wait" /\ Undefined
  BY DEF WaitsUndefined
<1>2. role = "server"
  BY <1>1 DEF TcsInv, Types, ClientPolls
<1>3. starved' = 1 /\ faults' \in 0 .. MaxFaults
  <2>1. CASE EventsUnset
    BY <1>1, <1>2, <2>1, EventsUnsetIs
  <2>2. CASE Broken(poll) /\ NoFault
    BY <2>2, BrokenStarved DEF NoFault, TcsInv, Types
  <2> QED
    BY <2>1, <2>2 DEF WaitsUndefined
<1> QED
  BY <1>1, <1>2, <1>3, UndefinedKeeps

(* As long as the poll set can be relied on, the UserData of an event is   *)
(* that of a session.                                                      *)
LEMMA ServerUsesFreedKeeps ==
  ASSUME TcsInv, ServerUsesFreed
  PROVE  TcsInv' /\ starved' = 1
<1>1. /\ role = "server" /\ pc = "handle" /\ Undefined /\ NoFault
      /\ Broken(poll) \/ \A r \in sessions : r[2] # Head(events).user
  BY DEF ServerUsesFreed
<1>2. starved = 1
  <2>1. CASE Broken(poll)
    BY <2>1, BrokenStarved
  <2>2. CASE \A r \in sessions : r[2] # Head(events).user
    <3>1. events # <<>> /\ events \in Seq(Ev(Cell)) /\ (corrupt = 0 => Serving)
      BY <1>1 DEF TcsInv, Types, ServerStages
    <3>2. PICK S : S = Ev(Cell)
      OBVIOUS
    <3>3. Head(events) = events[1] /\ 1 \in 1 .. Len(events)
      <4>1. Len(events) \in Nat \ {0} /\ Head(events) = events[1]
        BY <3>1, <3>2, TailIs
      <4> QED
        BY <4>1
    <3>4. corrupt # 0
      <4>1. SUFFICES ASSUME Serving
                     PROVE  FALSE
        BY <3>1
      <4>2. <<events[1].socket, events[1].user>> \in sessions
        BY <3>3, <4>1 DEF Serving
      <4> QED
        BY <2>2, <3>3, <4>2
    <3> QED
      BY <3>4 DEF TcsInv, Types, Polls
  <2> QED
    BY <1>1, <2>1, <2>2
<1>3. starved' = 1 /\ faults' \in 0 .. MaxFaults
  BY <1>1, <1>2 DEF NoFault, TcsInv, Types
<1> QED
  BY <1>1, <1>3, UndefinedKeeps

-----------------------------------------------------------------------------
(* The steps of the server that touch nothing.                             *)
LEMMA ServerStartsKeeps ==
  ASSUME TcsInv, ServerStarts
  PROVE  TcsInv'
<1>1. /\ role = "server" /\ pc = "start" /\ pc' \in {"resolve", "stopped"}
      /\ UNCHANGED <<settled, open, sock, attempt, made>>
      /\ UNCHANGED starved /\ faults' \in 0 .. MaxFaults
  BY DEF ServerStarts, LibInitFails, Fault, NoFault, TcsInv, Types
<1>2. Types'
  BY <1>1 DEF settled, TcsInv, Types, Length
<1>3. Polls'
  BY <1>1 DEF settled, TcsInv, Polls
<1>4. ClientPolls'
  BY <1>1 DEF settled, ClientPolls
<1>5. ServerStages'
  BY <1>1 DEF settled, TcsInv, ServerStages
<1> QED
  BY <1>2, <1>3, <1>4, <1>5 DEF TcsInv

(* Nobody to accept.                                                       *)
LEMMA AcceptsNobodyKeeps ==
  ASSUME TcsInv, AcceptsNobody
  PROVE  TcsInv'
<1>1. /\ role = "server" /\ pc = "accept" /\ pc' = "wait"
      /\ UNCHANGED <<role, backend, poll, known, connected, sessions, events, ready, corrupt,
                     open, sock, attempt, made, faults, starved>>
  BY DEF AcceptsNobody, settled
<1>2. Types'
  BY <1>1 DEF TcsInv, Types, Length
<1>3. Polls'
  BY <1>1 DEF TcsInv, Polls
<1>4. ClientPolls'
  BY <1>1 DEF ClientPolls
<1>5. Listening' /\ (corrupt' = 0 => Serving')
  <2>1. Listening /\ (corrupt = 0 => Serving)
    BY <1>1 DEF TcsInv, ServerStages
  <2>2. Listening'
    BY <1>1, <2>1 DEF Listening
  <2> QED
    BY <1>1, <2>1, <2>2 DEF Serving
<1>6. ServerStages'
  BY <1>1, <1>5 DEF TcsInv, ServerStages
<1> QED
  BY <1>2, <1>3, <1>4, <1>6 DEF TcsInv

(* Nothing to wait for.                                                    *)
LEMMA WaitsForNothingKeeps ==
  ASSUME TcsInv, WaitsForNothing
  PROVE  TcsInv'
<1>1. /\ pc = "wait" /\ pc' = "accept" /\ EventsUnset
      /\ UNCHANGED <<role, backend, poll, known, connected, sessions, events, ready, corrupt,
                     open, sock, attempt, made>>
  BY DEF WaitsForNothing, settled
<1>2. role = "server"
  BY <1>1 DEF TcsInv, Types, ClientPolls
<1>3. starved' = 1 /\ faults' \in 0 .. MaxFaults
  BY <1>1, <1>2, EventsUnsetIs
<1>4. Types'
  BY <1>1, <1>3 DEF TcsInv, Types, Length
<1>5. Polls'
  BY <1>1, <1>3 DEF TcsInv, Polls
<1>6. ClientPolls'
  BY <1>1, <1>2 DEF ClientPolls
<1>7. Listening' /\ (corrupt' = 0 => Serving')
  <2>1. Listening /\ (corrupt = 0 => Serving)
    BY <1>1, <1>2 DEF TcsInv, ServerStages
  <2>2. Listening'
    BY <1>1, <2>1 DEF Listening
  <2> QED
    BY <1>1, <1>3, <2>1, <2>2 DEF Serving
<1>8. ServerStages'
  BY <1>1, <1>2, <1>7 DEF TcsInv, ServerStages
<1> QED
  BY <1>4, <1>5, <1>6, <1>8 DEF TcsInv

(* The poll set is created, or not.                                        *)
LEMMA ListensKeeps ==
  ASSUME TcsInv, Listens
  PROVE  TcsInv'
<1>1. /\ pc = "listen"
      /\ UNCHANGED <<role, backend, open, sock, attempt, known, connected, sessions, events, ready,
                     made, corrupt>>
  BY DEF Listens
<1>2. role = "server" /\ sock \in Socket /\ open = {sock} /\ poll = NoPoll /\ sessions = {} /\ events = <<>>
  BY <1>1 DEF TcsInv, Types, ClientPolls, ServerStages
<1>3. ClientPolls'
  BY <1>1, <1>2 DEF ClientPolls
<1>4. CASE pc' = "stopped" /\ Fault /\ UNCHANGED poll
  <2>1. starved' = starved /\ faults' \in 0 .. MaxFaults
    BY <1>4 DEF Fault, TcsInv, Types
  <2>2. Types'
    BY <1>1, <2>1 DEF TcsInv, Types, Length
  <2>3. Polls'
    BY <1>1, <1>4, <2>1 DEF TcsInv, Polls
  <2>4. ServerStages'
    BY <1>1, <1>2, <1>4 DEF ServerStages
  <2> QED
    BY <1>3, <2>2, <2>3, <2>4 DEF TcsInv
<1>5. CASE pc' = "accept" /\ \E p \in Created : poll' = p /\ Starves(p = NoPoll)
  <2>1. PICK p \in Created : poll' = p /\ Starves(p = NoPoll)
    BY <1>5
  <2>2. /\ Registered(p) = {} /\ (p = NoPoll => faults < MaxFaults)
        /\ p # NoPoll => PollOK(p) /\ p.backend = backend
    BY CreatedAre DEF TcsInv
  <2>3. PICK some \in BOOLEAN : some <=> p = NoPoll
    OBVIOUS
  <2>4. /\ faults' \in 0 .. MaxFaults /\ starved' \in {0, 1}
        /\ p = NoPoll => starved' = 1
        /\ starved = 1 => starved' = 1
    <3>1. Starves(some)
      BY <2>1, <2>3 DEF Starves
    <3> QED
      BY <2>2, <2>3, <3>1, StarvesIs DEF TcsInv
  <2>5. Types'
    BY <1>1, <2>4 DEF TcsInv, Types, Length
  <2>6. Polls'
    <3>1. p # NoPoll => PollHolds(p)
      BY <2>2, NotBroken
    <3> QED
      BY <1>1, <2>1, <2>2, <2>4, <3>1 DEF TcsInv, Polls
  <2>7. p # NoPoll => PollIn(p, Cell \ {sock})
    <3>1. p # NoPoll => SocketsIn(p) = {}
      BY <2>2, RegisteredIs
    <3> QED
      BY <2>2, <3>1, HoldsIn
  <2>8. \A S : <<>> \in Seq(S)
    OBVIOUS
  <2>9. Listening'
    BY <1>1, <1>2, <2>1, <2>7, <2>8 DEF Listening
  <2>10. Serving'
    <3>1. sessions' = {} /\ events' = <<>> /\ open' = {sock'} /\ Registered(poll') = {}
      BY <1>1, <1>2, <2>1, <2>2
    <3>2. Apart(SocksOf(events'), Len(events')) /\ Len(events') = 0
      BY <3>1 DEF Apart
    <3> QED
      BY <2>1, <2>4, <3>1, <3>2 DEF Serving, SocketsOf
  <2>11. ServerStages'
    BY <1>1, <1>2, <1>5, <2>9, <2>10 DEF ServerStages
  <2> QED
    BY <1>3, <2>5, <2>6, <2>11 DEF TcsInv
<1> QED
  BY <1>4, <1>5 DEF Listens

(* The sessions are one for each socket, and one for each UserData.        *)
OneEach(set) == \A r, t \in set : r[1] = t[1] \/ r[2] = t[2] => r = t

(* One more, whose socket and UserData none of the others has.             *)
LEMMA OneEachAdded ==
  ASSUME NEW set, OneEach(set), NEW s, NEW u, \A r \in set : r[1] # s /\ r[2] # u
  PROVE  OneEach(set \cup {<<s, u>>}) /\ SocketsOf(set \cup {<<s, u>>}) = SocketsOf(set) \cup {s}
<1>1. PICK t : t = <<s, u>>
  OBVIOUS
<1>2. t[1] = s /\ t[2] = u
  BY <1>1
<1>3. OneEach(set \cup {t})
  BY <1>2 DEF OneEach
<1>4. SocketsOf(set \cup {t}) = SocketsOf(set) \cup {s}
  BY <1>2 DEF SocketsOf
<1> QED
  BY <1>1, <1>3, <1>4

(* A new connection is a session, and polled as far as there is memory.    *)
LEMMA AcceptKeeps ==
  ASSUME TcsInv, Accept
  PROVE  TcsInv'
<1>1. /\ role = "server" /\ pc = "accept" /\ corrupt = 0 /\ pc' = "wait"
      /\ UNCHANGED <<role, backend, sock, attempt, known, connected, events, ready, made, corrupt>>
  BY DEF Accept
<1>2. PICK s \in NewDescriptor, u \in NewUser :
        \E a \in Added(poll, s, u, {"in"}) :
          /\ open' = open \cup {s}
          /\ sessions' = sessions \cup {<<s, u>>}
          /\ poll' = a.poll
          /\ Starves(a.res = "MEMORY")
  BY DEF Accept
<1>3. PICK a \in Added(poll, s, u, {"in"}) :
          /\ open' = open \cup {s}
          /\ sessions' = sessions \cup {<<s, u>>}
          /\ poll' = a.poll
          /\ Starves(a.res = "MEMORY")
  BY <1>2
<1>4. /\ Listening /\ Serving /\ events = <<>>
      /\ poll # NoPoll => PollOK(poll)
  BY <1>1 DEF TcsInv, Polls, ServerStages
<1>5. s \in Socket /\ s \notin open /\ u \in User /\ \A r \in sessions : r[2] # u
  BY DEF NewDescriptor, NewUser
<1>6. /\ open = {sock} \cup SocketsOf(sessions) /\ sock \notin SocketsOf(sessions) /\ OneEach(sessions)
      /\ Registered(poll) \subseteq sessions
      /\ starved = 0 => poll # NoPoll /\ Registered(poll) = sessions
  BY <1>4 DEF Serving, OneEach
<1>7. s # sock /\ \A r \in sessions : r[1] # s
  BY <1>5, <1>6 DEF SocketsOf
<1>8. Adds(poll, s, u, {"in"}, a)
  <2>1. {"in"} \in SUBSET {"in", "out"} /\ u \in User \cup {NoUser}
    BY <1>5
  <2>2. (poll # NoPoll => PollOK(poll)) /\ \A r \in Registered(poll) : r[1] # s
    BY <1>4, <1>6, <1>7
  <2> QED
    BY <1>5, <2>1, <2>2, AddedAre
<1>9. /\ faults' \in 0 .. MaxFaults /\ starved' \in {0, 1}
      /\ a.res = "MEMORY" => starved' = 1
      /\ starved = 1 => starved' = 1
  <2>1. PICK some \in BOOLEAN : some <=> a.res = "MEMORY"
    OBVIOUS
  <2>2. Starves(some)
    BY <1>3, <2>1 DEF Starves
  <2>3. some => faults < MaxFaults
    BY <1>8, <2>1 DEF Adds
  <2> QED
    BY <2>1, <2>2, <2>3, StarvesIs DEF TcsInv
<1>10. /\ poll' # NoPoll => PollOK(poll') /\ poll'.backend = backend
       /\ Registered(poll') \subseteq sessions'
       /\ starved' = 0 => poll' # NoPoll /\ Registered(poll') = sessions'
       /\ Registered(poll') \in {Registered(poll), Registered(poll) \cup {<<s, u>>}}
  <2>1. CASE poll = NoPoll
    <3>1. poll' = NoPoll /\ starved = 1
      BY <1>3, <1>6, <1>8, <2>1 DEF Adds, TcsInv, Types
    <3>2. Registered(poll') = {} /\ Registered(poll) = {}
      BY <2>1, <3>1 DEF Registered
    <3> QED
      BY <1>9, <3>1, <3>2
  <2>2. CASE poll # NoPoll
    <3>1. /\ poll' # NoPoll /\ PollOK(poll') /\ poll'.backend = poll.backend
          /\ a.res = "SUCCESS" => Registered(poll') = Registered(poll) \cup {<<s, u>>}
          /\ a.res = "MEMORY" => Registered(poll') = Registered(poll)
          /\ a.res \in {"SUCCESS", "MEMORY"}
      BY <1>3, <1>8, <2>2 DEF Adds, AddedTo, AsBefore
    <3>2. poll.backend = backend
      BY <2>2 DEF TcsInv, Polls
    <3>3. CASE a.res = "SUCCESS"
      <4>1. Registered(poll') = Registered(poll) \cup {<<s, u>>}
        BY <3>1, <3>3
      <4>2. starved' = 0 => Registered(poll) = sessions
        BY <1>6, <1>9 DEF TcsInv, Types
      <4> QED
        BY <1>3, <1>6, <3>1, <3>2, <4>1, <4>2
    <3>4. CASE a.res = "MEMORY"
      <4>1. Registered(poll') = Registered(poll) /\ starved' = 1
        BY <1>9, <3>1, <3>4
      <4> QED
        BY <1>3, <1>6, <3>1, <3>2, <4>1
    <3> QED
      BY <3>1, <3>3, <3>4
  <2> QED
    BY <2>1, <2>2
<1>11. OneEach(sessions') /\ SocketsOf(sessions') = SocketsOf(sessions) \cup {s}
  BY <1>3, <1>5, <1>6, <1>7, OneEachAdded
<1>12. Types'
  <2>1. open' \subseteq Socket /\ sock' \in open' \cup {InvalidSocket}
    BY <1>1, <1>3, <1>5 DEF TcsInv, Types
  <2>2. sessions' \subseteq Socket \X User
    BY <1>3, <1>5 DEF TcsInv, Types
  <2> QED
    BY <1>1, <1>9, <2>1, <2>2 DEF TcsInv, Types, Length
<1>13. Polls'
  <2>1. poll' # NoPoll => PollHolds(poll')
    BY <1>10, NotBroken
  <2> QED
    BY <1>1, <1>10, <2>1 DEF TcsInv, Polls
<1>14. ClientPolls'
  BY <1>1 DEF ClientPolls
<1>15. Listening'
  <2>1. poll' # NoPoll => PollIn(poll', Cell \ {sock})
    <3> SUFFICES ASSUME poll' # NoPoll
                 PROVE  PollIn(poll', Cell \ {sock})
      OBVIOUS
    <3>1. SocketsIn(poll') = {r[1] : r \in Registered(poll')}
      BY RegisteredIs
    <3>2. {r[1] : r \in Registered(poll')} \subseteq SocketsOf(sessions')
      BY <1>10 DEF SocketsOf
    <3>3. sock \notin SocketsOf(sessions') /\ SocketsOf(sessions') \subseteq Socket
      BY <1>5, <1>6, <1>7, <1>11 DEF TcsInv, Types
    <3>4. SocketsIn(poll') \subseteq Cell \ {sock}
      BY <3>1, <3>2, <3>3, CellHas
    <3> QED
      BY <1>10, <3>4, HoldsIn
  <2> QED
    BY <1>1, <1>3, <1>4, <2>1 DEF Listening
<1>16. Serving'
  <2>1. open' = {sock'} \cup SocketsOf(sessions') /\ sock' \notin SocketsOf(sessions')
    BY <1>1, <1>3, <1>6, <1>7, <1>11
  <2>2. Apart(SocksOf(events'), Len(events'))
        /\ \A i \in 1 .. Len(events') : <<events'[i].socket, events'[i].user>> \in sessions'
    <3>1. events' = <<>> /\ Len(events') = 0
      BY <1>1, <1>4
    <3> QED
      BY <3>1 DEF Apart
  <2> QED
    BY <1>10, <1>11, <2>1, <2>2 DEF Serving, OneEach
<1>17. ServerStages'
  BY <1>1, <1>4, <1>15, <1>16 DEF ServerStages
<1> QED
  BY <1>12, <1>13, <1>14, <1>17 DEF TcsInv

(* One less.                                                               *)
LEMMA OneEachRemoved ==
  ASSUME NEW set, OneEach(set), NEW s, NEW u, <<s, u>> \in set
  PROVE  /\ {r \in set : r[2] # u} = {r \in set : r[1] # s}
         /\ OneEach({r \in set : r[2] # u})
         /\ SocketsOf({r \in set : r[2] # u}) = SocketsOf(set) \ {s}
<1>1. PICK t : t = <<s, u>>
  OBVIOUS
<1>2. t[1] = s /\ t[2] = u /\ t \in set
  BY <1>1
<1>3. \A r \in set : r[1] = s <=> r[2] = u
  <2>1. \A r \in set : r[1] = s => r = t
    BY <1>2 DEF OneEach
  <2>2. \A r \in set : r[2] = u => r = t
    BY <1>2 DEF OneEach
  <2> QED
    BY <1>2, <2>1, <2>2
<1>4. {r \in set : r[2] # u} = {r \in set : r[1] # s}
  BY <1>3
<1>5. OneEach({r \in set : r[2] # u})
  BY DEF OneEach
<1>6. SocketsOf({r \in set : r[1] # s}) = SocketsOf(set) \ {s}
  BY DEF SocketsOf
<1> QED
  BY <1>4, <1>5, <1>6

(* The events that are left: of other sockets than the first.              *)
OtherEvents(es, later) ==
  /\ es \in Seq(Ev(Cell)) => later \in Seq(Ev(Cell))
  /\ \A X : es \in Seq(Ev(X)) => later \in Seq(Ev(X)) /\ Head(es).socket \in X
  /\ Len(es) \in Nat \ {0} /\ Len(later) = Len(es) - 1 /\ Head(es) = es[1]
  /\ \A i \in 1 .. Len(later) : \E j \in 1 .. Len(es) : j # 1 /\ later[i] = es[j]
  /\ Apart(SocksOf(es), Len(es)) => Apart(SocksOf(later), Len(later))

(* The events left after the first are of other sockets.                   *)
LEMMA OthersLeft ==
  ASSUME NEW es \in Seq(Ev(Cell)), es # <<>>, NEW later, later = Tail(es)
  PROVE  OtherEvents(es, later)
<1>1. ASSUME NEW X, es \in Seq(Ev(X))
      PROVE  later \in Seq(Ev(X)) /\ Head(es).socket \in X
  <2>1. PICK S : S = Ev(X)
    OBVIOUS
  <2>2. es \in Seq(S)
    BY <1>1, <2>1
  <2>3. later \in Seq(S) /\ Head(es) \in S
    BY <2>2, TailIs
  <2> QED
    BY <2>1, <2>3 DEF Ev
<1>2. PICK S : S = Ev(Cell)
  OBVIOUS
<1>3. es \in Seq(S)
  BY <1>2
<1>4. PICK n : n = Len(es)
  OBVIOUS
<1>5. /\ n \in Nat \ {0} /\ Len(later) = n - 1 /\ Head(es) = es[1]
      /\ \A i \in 1 .. n - 1 : i + 1 \in 1 .. n /\ later[i] = es[i + 1]
  BY <1>3, <1>4, TailIs
<1>6. \A i \in 1 .. n - 1 : \E j \in 1 .. n : j # 1 /\ later[i] = es[j]
  <2> SUFFICES ASSUME NEW i \in 1 .. n - 1
               PROVE  \E j \in 1 .. n : j # 1 /\ later[i] = es[j]
    OBVIOUS
  <2>1. i + 1 # 1
    OBVIOUS
  <2> QED
    BY <1>5, <2>1
<1>7. ASSUME Apart(SocksOf(es), n)
      PROVE  Apart(SocksOf(later), n - 1)
  <2> SUFFICES ASSUME NEW i \in 1 .. n - 1, NEW j \in 1 .. n - 1, i # j
               PROVE  SocksOf(later)[i] # SocksOf(later)[j]
    BY DEF Apart
  <2>1. PICK k : k = i + 1
    OBVIOUS
  <2>2. PICK m : m = j + 1
    OBVIOUS
  <2>3. k \in 1 .. n /\ m \in 1 .. n /\ k # m /\ later[i] = es[k] /\ later[j] = es[m]
    BY <1>5, <2>1, <2>2
  <2>4. SocksOf(es)[k] = es[k].socket /\ SocksOf(es)[m] = es[m].socket
    BY <1>4, <2>3 DEF SocksOf
  <2>5. SocksOf(later)[i] = later[i].socket /\ SocksOf(later)[j] = later[j].socket
    BY <1>5 DEF SocksOf
  <2>6. SocksOf(es)[k] # SocksOf(es)[m]
    BY <1>7, <2>3 DEF Apart
  <2> QED
    BY <2>3, <2>4, <2>5, <2>6
<1> QED
  BY <1>1, <1>4, <1>5, <1>6, <1>7 DEF OtherEvents

(* disconnect(): what is left of the poll set.                             *)
Disconnects(e) ==
  /\ poll' # NoPoll /\ PollHolds(poll') /\ poll'.backend = backend
  /\ \A X : PollIn(poll, X) => PollIn(poll', X)
  /\ corrupt' \in {0, 1} /\ starved' \in {0, 1} /\ faults' \in 0 .. MaxFaults
  /\ starved = 1 => starved' = 1
  /\ corrupt' = 1 => starved' = 1
  /\ corrupt' = 0 => corrupt = 0 /\ RemovedFrom(poll, e.socket, poll')

(* disconnect() removes the socket, or says so in corrupt.                 *)
LEMMA DisconnectIs ==
  ASSUME TcsInv, poll # NoPoll, ~ Broken(poll), NEW e, Disconnect(e)
  PROVE  Disconnects(e)
<1>1. /\ PollHolds(poll) /\ ~ Damaged(poll.map) /\ poll.backend = backend
      /\ corrupt = 0 => PollOK(poll)
  BY DEF TcsInv, Polls, Broken
<1>2. PICK all : all = PollRemove(poll, e.socket, {}).poll
  OBVIOUS
<1>3. PICK bad \in FailingAllocations(Arrays(backend)) :
        /\ poll' = PollRemove(poll, e.socket, bad).poll
        /\ corrupt' = IF StillThere(poll, poll', e.socket) THEN 1 ELSE corrupt
        /\ Starves(poll' # all)
  BY <1>2 DEF Disconnect
<1>4. PICK s : s = e.socket
  OBVIOUS
<1>5. /\ PollHolds(poll') /\ poll' # NoPoll /\ poll'.backend = poll.backend
      /\ \A X : PollIn(poll, X) => PollIn(poll', X)
      /\ corrupt = 0 => RemovedFrom(poll, s, poll') \/ StillThere(poll, poll', s)
  BY <1>1, <1>3, <1>4, PollRemoveKeeps
<1>6. corrupt = 0 => RemovedFrom(poll, s, all)
  BY <1>1, <1>2, <1>4, PollRemoveKeeps
<1>7. PICK some \in BOOLEAN : some <=> poll' # all
  OBVIOUS
<1>8. /\ faults' \in 0 .. MaxFaults /\ starved' \in {0, 1}
      /\ some => starved' = 1
      /\ starved = 1 => starved' = 1
  <2>1. Starves(some)
    BY <1>3, <1>7 DEF Starves
  <2>2. some => faults < MaxFaults
    BY <1>2, <1>3, <1>7, AllocationsFail
  <2> QED
    BY <2>1, <2>2, StarvesIs DEF TcsInv
<1>9. corrupt' = 1 => starved' = 1
  <2>1. CASE corrupt = 1
    BY <1>8, <2>1 DEF TcsInv, Polls
  <2>2. CASE corrupt = 0
    <3> SUFFICES ASSUME StillThere(poll, poll', s)
                 PROVE  starved' = 1
      BY <1>3, <1>4, <2>2
    <3>1. s \in SocketsIn(poll) /\ poll'.map.count = poll.map.count
      BY RegisteredIs DEF StillThere
    <3>2. all.map.count = poll.map.count - 1 /\ poll.map.count \in Nat
      BY <1>1, <1>6, <2>2, <3>1, NotBroken DEF RemovedFrom
    <3>3. poll' # all
      BY <3>1, <3>2
    <3> QED
      BY <1>7, <1>8, <3>3
  <2> QED
    BY <2>1, <2>2 DEF TcsInv, Types
<1>10. corrupt' \in {0, 1} /\ (corrupt' = 0 => corrupt = 0 /\ ~ StillThere(poll, poll', s))
  BY <1>3, <1>4 DEF TcsInv, Types
<1> QED
  BY <1>1, <1>4, <1>5, <1>8, <1>9, <1>10 DEF Disconnects

(* After an event, handled or passed over, the server serves what is left, *)
(* unless it has thrown out the session that it goes on with.              *)
LEMMA ServerHandlesKeeps ==
  ASSUME TcsInv, ServerHandles \/ ServerExpels
  PROVE  TcsInv'
<1>1. /\ role = "server" /\ pc = "handle"
      /\ events' = Tail(events)
      /\ pc' = "undefined" \/ pc' = IF events' = <<>> THEN "accept" ELSE "handle"
      /\ ready' = IF events' = <<>> THEN {} ELSE ready
      /\ UNCHANGED <<role, backend, sock, attempt, known, connected, made>>
  BY DEF ServerHandles, ServerExpels, EventHandled
<1>2. /\ events # <<>> /\ poll # NoPoll /\ events \in Seq(Ev(Cell)) /\ Listening
      /\ corrupt = 0 => Serving
  BY <1>1 DEF TcsInv, Types, ServerStages
<1>3. PICK es : es = events
  OBVIOUS
<1>4. PICK later : later = Tail(events)
  OBVIOUS
<1>5. OtherEvents(es, later)
  BY <1>2, <1>3, <1>4, OthersLeft
<1>6. PICK e : e = Head(events)
  OBVIOUS
<1>7. /\ events' = later /\ later \in Seq(Ev(Cell)) /\ Len(es) \in Nat \ {0} /\ Len(later) = Len(es) - 1
      /\ later \in Seq(Ev(Cell \ {sock})) /\ e.socket # sock /\ e = es[1]
  BY <1>1, <1>2, <1>3, <1>4, <1>5, <1>6 DEF OtherEvents, Listening
<1>8. Len(later) <= Length /\ Length' = Length
  <2>1. Len(es) <= Length /\ Length \in Nat
    BY <1>3, LengthIs DEF TcsInv, Types
  <2> QED
    BY <1>1, <1>7, <2>1 DEF Length
<1>9. ready' \subseteq Socket
  BY <1>1 DEF TcsInv, Types
<1>10. ClientPolls'
  BY <1>1 DEF ClientPolls
<1>11. ASSUME Serving
       PROVE  /\ OneEach(sessions) /\ open = {sock} \cup SocketsOf(sessions) /\ sock \notin SocketsOf(sessions)
              /\ Registered(poll) \subseteq sessions /\ (starved = 0 => Registered(poll) = sessions)
              /\ <<e.socket, e.user>> \in sessions
              /\ Apart(SocksOf(later), Len(later))
              /\ \A i \in 1 .. Len(later) : /\ <<later[i].socket, later[i].user>> \in sessions
                                            /\ later[i].socket # e.socket
  <2>1. /\ Apart(SocksOf(es), Len(es))
        /\ \A i \in 1 .. Len(es) : <<es[i].socket, es[i].user>> \in sessions
    BY <1>3, <1>11 DEF Serving
  <2>2. 1 \in 1 .. Len(es)
    BY <1>7
  <2>3. \A j \in 1 .. Len(es) : j # 1 => es[j].socket # e.socket
    <3> SUFFICES ASSUME NEW j \in 1 .. Len(es), j # 1
                 PROVE  es[j].socket # e.socket
      OBVIOUS
    <3>1. SocksOf(es)[j] # SocksOf(es)[1]
      BY <2>1, <2>2 DEF Apart
    <3>2. SocksOf(es)[j] = es[j].socket /\ SocksOf(es)[1] = e.socket
      BY <1>7, <2>2 DEF SocksOf
    <3> QED
      BY <3>1, <3>2
  <2>4. \A i \in 1 .. Len(later) : /\ <<later[i].socket, later[i].user>> \in sessions
                                   /\ later[i].socket # e.socket
    BY <1>5, <2>1, <2>3 DEF OtherEvents
  <2> QED
    BY <1>5, <1>7, <1>11, <2>1, <2>2, <2>4 DEF OtherEvents, Serving, OneEach
<1>12. CASE UNCHANGED <<open, sessions, poll, corrupt, faults, starved>>
  <2>1. Types'
    BY <1>1, <1>7, <1>8, <1>9, <1>12 DEF TcsInv, Types
  <2>2. Polls'
    BY <1>1, <1>12 DEF TcsInv, Polls
  <2>3. Listening'
    BY <1>1, <1>2, <1>7, <1>12 DEF Listening
  <2>4. corrupt' = 0 => Serving'
    BY <1>1, <1>2, <1>7, <1>11, <1>12 DEF Serving
  <2>5. ServerStages'
    BY <1>1, <1>2, <1>12, <2>3, <2>4 DEF ServerStages
  <2> QED
    BY <1>10, <2>1, <2>2, <2>5 DEF TcsInv
<1>13. CASE ~ Broken(poll) /\ Disconnect(e)
  <2>1. Disconnects(e)
    BY <1>2, <1>13, DisconnectIs
  <2>2. open' = open \ {e.socket} /\ sessions' = {r \in sessions : r[2] # e.user}
    BY <1>13 DEF Disconnect
  <2>3. Types'
    <3>1. open' \subseteq Socket /\ sock' \in open' \cup {InvalidSocket} /\ sessions' \subseteq Socket \X User
      BY <1>1, <1>7, <2>2 DEF TcsInv, Types
    <3>2. corrupt' \in {0, 1} /\ starved' \in {0, 1} /\ faults' \in 0 .. MaxFaults
      BY <2>1 DEF Disconnects
    <3> QED
      BY <1>1, <1>7, <1>8, <1>9, <3>1, <3>2 DEF TcsInv, Types
  <2>4. Polls'
    BY <1>1, <2>1 DEF Disconnects, RemovedFrom, TcsInv, Polls
  <2>5. Listening'
    <3>1. PollIn(poll', Cell \ {sock}) /\ sock \in open' /\ sock \in Socket
      BY <1>2, <1>7, <2>1, <2>2 DEF Listening, Disconnects
    <3> QED
      BY <1>1, <1>7, <3>1 DEF Listening
  <2>6. ASSUME corrupt' = 0
        PROVE  Serving'
    <3>1. corrupt = 0 /\ RemovedFrom(poll, e.socket, poll') /\ poll' # NoPoll /\ (starved' = 0 => starved = 0)
      BY <2>1, <2>6 DEF Disconnects, TcsInv, Types
    <3>2. Serving
      BY <1>2, <3>1
    <3>3. /\ sessions' = {r \in sessions : r[1] # e.socket}
          /\ OneEach(sessions') /\ SocketsOf(sessions') = SocketsOf(sessions) \ {e.socket}
      <4>1. OneEach(sessions) /\ <<e.socket, e.user>> \in sessions
        BY <1>11, <3>2
      <4> QED
        BY <2>2, <4>1, OneEachRemoved
    <3>4. open' = {sock'} \cup SocketsOf(sessions') /\ sock' \notin SocketsOf(sessions')
      BY <1>1, <1>7, <1>11, <2>2, <3>2, <3>3
    <3>5. /\ Registered(poll') \subseteq sessions'
          /\ starved' = 0 => Registered(poll') = sessions'
      BY <1>11, <3>1, <3>2, <3>3 DEF RemovedFrom
    <3>6. \A i \in 1 .. Len(later) : <<later[i].socket, later[i].user>> \in sessions'
      <4> SUFFICES ASSUME NEW i \in 1 .. Len(later)
                   PROVE  <<later[i].socket, later[i].user>> \in sessions'
        OBVIOUS
      <4>1. PICK t : t = <<later[i].socket, later[i].user>>
        OBVIOUS
      <4>2. t \in sessions /\ t[1] # e.socket
        BY <1>11, <3>2, <4>1
      <4> QED
        BY <3>3, <4>1, <4>2
    <3>7. Apart(SocksOf(events'), Len(events')) /\ \A i \in 1 .. Len(events') : <<events'[i].socket, events'[i].user>> \in sessions'
      BY <1>7, <1>11, <3>2, <3>6
    <3> QED
      BY <3>1, <3>3, <3>4, <3>5, <3>7 DEF Serving, OneEach
  <2>7. ServerStages'
    <3>1. poll' # NoPoll
      BY <2>1 DEF Disconnects
    <3> QED
      BY <1>1, <2>5, <2>6, <3>1 DEF ServerStages
  <2> QED
    BY <1>10, <2>3, <2>4, <2>7 DEF TcsInv
<1> QED
  <2>1. \/ ~ Broken(poll) /\ Disconnect(e)
        \/ UNCHANGED <<open, sessions, poll, corrupt, faults, starved>>
    BY <1>6 DEF ServerHandles, ServerExpels
  <2> QED
    BY <1>12, <1>13, <2>1

-----------------------------------------------------------------------------
(* The client by itself: what its poll sets do plays no part in how it     *)
(* accounts for its descriptors. An attempt to connect leaves behind either*)
(* the connection it made or nothing.                                      *)
(* Where the client can be, and what it has open there: while a socket is  *)
(* being opened it is the one descriptor beside the connections made.      *)
ClientStages ==
  /\ pc \in {"start", "resolve", "socket"} => open = made /\ connected = 0
  /\ pc \in {"connect", "poll", "await", "unblock"} =>
       open = made \cup {sock} /\ sock \notin made /\ connected = 0
  /\ pc \in {"idle", "handle"} => open = made /\ (connected = 1 => sock \in made)

ClientInv ==
  role = "client" =>
    /\ pc \in {"start", "resolve", "socket", "connect", "poll", "await", "unblock", "idle", "handle"}
    /\ attempt # NoPoll => pc = "await"
    /\ ClientStages

(* The client starts with nothing open.                                    *)
LEMMA InitClientInv == Init => ClientInv
BY DEF Init, ClientInv, ClientStages

(* The steps that open a socket, of either role: for the client, each ends *)
(* with the socket open, or closed again.                                  *)
LEMMA OpeningKeepsClientInv ==
  ASSUME ClientInv,
         Resolve \/ OpenSocket \/ Bind \/ Connect \/ PollConnect \/ AwaitConnect \/ Joins
  PROVE  ClientInv'
<1> SUFFICES ASSUME role' = "client"
             PROVE  /\ pc' \in {"start", "resolve", "socket", "connect", "poll", "await", "unblock",
                                "idle", "handle"}
                    /\ attempt' # NoPoll => pc' = "await"
                    /\ ClientStages'
  BY DEF ClientInv
<1> role = "client"
  BY DEF Resolve, OpenSocket, Bind, Connect, PollConnect, AwaitConnect, Joins, settled
<1>1. CASE Resolve
  BY <1>1 DEF Resolve, GivesUp, settled, ClientInv, ClientStages
<1>2. CASE OpenSocket
  BY <1>2 DEF OpenSocket, NewDescriptor, GivesUp, settled, ClientInv, ClientStages
<1>3. CASE Bind
  BY <1>3 DEF Bind, ClientInv
<1>4. CASE Connect
  BY <1>4 DEF Connect, GivesUp, CloseOut, settled, ClientInv, ClientStages
<1>5. CASE PollConnect
  BY <1>5 DEF PollConnect, GivesUp, CloseOut, settled, ClientInv, ClientStages
<1>6. CASE AwaitConnect
  BY <1>6 DEF AwaitConnect, GivesUp, CloseOut, PollDestroy, PosixDestroy, Win32Destroy, settled,
              ClientInv, ClientStages
<1>7. CASE Joins
  BY <1>7 DEF Joins, GivesUp, CloseOut, ClientInv, ClientStages
<1> QED
  BY <1>1, <1>2, <1>3, <1>4, <1>5, <1>6, <1>7

(* Between two attempts nothing is opened, and nothing is closed.          *)
LEMMA OwnStepsKeepClientInv ==
  ASSUME ClientInv, BadcopInit \/ SendFails \/ ClientHandles \/ Waits
  PROVE  ClientInv'
<1>1. CASE BadcopInit
  BY <1>1 DEF BadcopInit, ClientInv, ClientStages
<1>2. CASE SendFails
  BY <1>2 DEF SendFails, history, ClientInv, ClientStages
<1>3. CASE ClientHandles
  BY <1>3 DEF ClientHandles, ClientInv, ClientStages
<1>4. CASE Waits
  BY <1>4 DEF Waits, ClientInv, ClientStages
<1> QED
  BY <1>1, <1>2, <1>3, <1>4

(* The steps of the server are no steps of a client.                       *)
LEMMA ServerStepsKeepClientInv ==
  ASSUME ClientInv,
         \/ ServerStarts \/ Listens \/ AcceptsNobody \/ Accept \/ AcceptsUndefined
         \/ ServerHandles \/ ServerExpels \/ ServerUsesFreed \/ WaitsForNothing \/ WaitsUndefined
  PROVE  ClientInv'
<1>1. role' = role
  BY DEF ServerStarts, Listens, AcceptsNobody, Accept, AcceptsUndefined, ServerHandles,
         ServerExpels, EventHandled, ServerUsesFreed, WaitsForNothing, WaitsUndefined, Undefined, settled
<1>2. role # "client"
  BY DEF ClientInv, ServerStarts, Listens, AcceptsNobody, Accept, AcceptsUndefined, ServerHandles,
         ServerExpels, ServerUsesFreed, WaitsForNothing, WaitsUndefined
<1> QED
  BY <1>1, <1>2 DEF ClientInv

(* tcs_socket_tcp and badcop_init: in every reachable state each open      *)
(* descriptor of a client between two steps is that of a connection it     *)
(* made, and no poll set of an attempt is left.                            *)
THEOREM ClientAccounts == Spec => []ClientAccountedFor
<1>1. ClientInv /\ [Next]_vars => ClientInv'
  <2> SUFFICES ASSUME ClientInv, [Next]_vars PROVE ClientInv'
    OBVIOUS
  <2>1. CASE UNCHANGED vars
    BY <2>1 DEF vars, settled, ClientInv, ClientStages
  <2>2. CASE Next
    BY <2>2, OpeningKeepsClientInv, OwnStepsKeepClientInv, ServerStepsKeepClientInv DEF Next
  <2> QED
    BY <2>1, <2>2
<1>2. ClientInv => ClientAccountedFor
  BY DEF ClientInv, ClientStages, ClientAccountedFor
<1> QED
  BY InitClientInv, <1>1, <1>2, PTL DEF Spec

-----------------------------------------------------------------------------
(* What holds in every reachable state.                                    *)

(* Every step keeps the invariant.                                         *)
LEMMA NextKeepsTcsInv ==
  ASSUME TcsInv, [Next]_vars
  PROVE  TcsInv'
<1>1. CASE UNCHANGED vars
  <2>1. UNCHANGED <<role, backend, pc, open, sock, poll, attempt, known, connected, sessions, events,
                    ready, made, faults, starved, corrupt>>
    BY <1>1 DEF vars, settled
  <2>2. Types' /\ Polls'
    BY <2>1 DEF TcsInv, Types, Polls, Length
  <2>3. ClientPolls'
    BY <2>1 DEF TcsInv, ClientPolls
  <2>4. Listening => Listening'
    BY <2>1 DEF Listening
  <2>5. Serving => Serving'
    BY <2>1 DEF Serving
  <2>6. ServerStages'
    BY <2>1, <2>4, <2>5 DEF TcsInv, ServerStages
  <2> QED
    BY <2>2, <2>3, <2>6 DEF TcsInv
<1>2. CASE Next
  <2>1. CASE Resolve \/ OpenSocket \/ Bind \/ Connect \/ AwaitConnect
    BY <2>1, OpeningKeeps
  <2>2. CASE PollConnect \/ Joins
    BY <2>2, PollConnectKeeps, JoinsKeeps
  <2>3. CASE BadcopInit \/ SendFails \/ ClientHandles
    BY <2>3, BadcopInitKeeps, SendFailsKeeps, ClientHandlesKeeps
  <2>4. CASE ServerStarts \/ Listens \/ AcceptsNobody \/ Accept \/ AcceptsUndefined
    BY <2>4, ServerStartsKeeps, ListensKeeps, AcceptsNobodyKeeps, AcceptKeeps, AcceptsUndefinedKeeps
  <2>5. CASE ServerHandles \/ ServerExpels \/ ServerUsesFreed
    BY <2>5, ServerHandlesKeeps, ServerUsesFreedKeeps
  <2>6. CASE Waits \/ WaitsForNothing \/ WaitsUndefined
    BY <2>6, WaitsKeeps, WaitsForNothingKeeps, WaitsUndefinedKeeps
  <2> QED
    BY <1>2, <2>1, <2>2, <2>3, <2>4, <2>5, <2>6 DEF Next
<1> QED
  BY <1>1, <1>2

(* The inductive invariant holds in every reachable state: of tinycsocket.h*)
(* under server.c and client.h, whatever calls and allocations fail.       *)
THEOREM TcsInvariance == Spec => []TcsInv
BY InitTcsInv, NextKeepsTcsInv, PTL DEF Spec

(* A poll set that holds what it counts has its entries in its memory.     *)
LEMMA WholeFits ==
  ASSUME NEW p, PollWhole(p)
  PROVE  /\ p.map.count <= p.map.capacity
         /\ p.map.capacity <= Len(p.map.keys) /\ p.map.capacity <= Len(p.map.values)
         /\ Registered(p) \subseteq Socket \X (User \cup {NoUser})
<1>1. MapWhole(p.map, Cell) /\ p \in PollSets(Cell)
  BY DEF PollWhole, PollHolds
<1>2. PICK m : m = p.map
  OBVIOUS
<1>3. Holds(Column(m, m.keys), Cell)
  BY <1>1, <1>2 DEF MapWhole, MapHolds
<1>4. m.count <= m.capacity
  BY <1>3, ColumnIs DEF Holds
<1>5. m.capacity <= Len(m.keys) /\ m.capacity <= Len(m.values)
  BY <1>1, <1>2 DEF MapWhole
<1>6. \A i \in 1 .. p.map.count : KeyFd(p, i) \in Socket /\ p.map.values[i] \in User \cup {NoUser}
  BY DEF PollWhole
<1>7. p # NoPoll
  BY <1>1, PollShape
<1>8. Registered(p) \subseteq Socket \X (User \cup {NoUser})
  BY <1>6, <1>7 DEF Registered
<1> QED
  BY <1>2, <1>4, <1>5, <1>8

(* tds_map and tds_ulist: the variables have their types, and the arrays of*)
(* a poll set are as large as is believed, as long as no entry was left    *)
(* that could not be removed.                                              *)
THEOREM TcsTypeCorrect == Spec => []TcsTypeOK
<1>1. TcsInv => TcsTypeOK
  <2> SUFFICES ASSUME TcsInv
               PROVE  TcsTypeOK
    OBVIOUS
  <2>1. Types
    BY DEF TcsInv
  <2>2. ASSUME NEW p \in {poll, attempt} \ {NoPoll}, corrupt = 0
        PROVE  PollWhole(p)
    BY <2>2 DEF TcsInv, Polls, PollOK
  <2>3. ASSUME NEW p \in {poll, attempt} \ {NoPoll}, corrupt = 0
        PROVE  /\ p.map.count <= p.map.capacity
               /\ p.map.capacity <= Len(p.map.keys) /\ p.map.capacity <= Len(p.map.values)
               /\ Registered(p) \subseteq Socket \X (User \cup {NoUser})
    BY <2>2, <2>3, WholeFits
  <2>4. \A p \in {poll, attempt} \ {NoPoll} :
          corrupt = 0 =>
            /\ p.map.count <= p.map.capacity
            /\ p.map.capacity <= Len(p.map.keys) /\ p.map.capacity <= Len(p.map.values)
            /\ Registered(p) \subseteq Socket \X (User \cup {NoUser})
    BY <2>3
  <2> QED
    BY <2>1, <2>4 DEF Types, TcsTypeOK
<1> QED
  BY <1>1, TcsInvariance, PTL

(* A step into what is not defined.                                        *)
Reason ==
  \/ starved' = 1
  \/ pc = "accept" /\ Cardinality(sessions) = MaxConnections
  \/ pc = "handle" /\ \E r \in sessions \ sessions' : r[2] = Head(events).user

(* The session that the server throws out is there until then.             *)
LEMMA ExpelledIs ==
  ASSUME ServerExpels
  PROVE  Reason
<1>1. PICK e : e = Head(events)
  OBVIOUS
<1>2. pc = "handle" /\ FromSession(e) /\ Disconnect(e)
  BY <1>1 DEF ServerExpels
<1>3. PICK r \in sessions : r[2] = e.user
  BY <1>2 DEF FromSession
<1>4. r \notin sessions'
  BY <1>2, <1>3 DEF Disconnect
<1> QED
  BY <1>1, <1>2, <1>3, <1>4 DEF Reason

(* The steps that end defined.                                             *)
LEMMA StaysDefined ==
  ASSUME \/ Resolve \/ OpenSocket \/ Bind \/ Connect \/ PollConnect \/ AwaitConnect \/ Joins
         \/ BadcopInit \/ SendFails \/ ClientHandles \/ ServerStarts \/ Listens \/ AcceptsNobody
         \/ Accept \/ ServerHandles \/ Waits \/ WaitsForNothing
  PROVE  pc' # "undefined"
<1>1. CASE Resolve \/ OpenSocket \/ Bind \/ Connect
  BY <1>1 DEF Resolve, OpenSocket, Bind, Connect, GivesUp
<1>2. CASE PollConnect \/ AwaitConnect \/ Joins
  BY <1>2 DEF PollConnect, AwaitConnect, Joins, GivesUp
<1>3. CASE BadcopInit \/ SendFails \/ ClientHandles
  BY <1>3 DEF BadcopInit, SendFails, ClientHandles
<1>4. CASE ServerStarts \/ Listens \/ AcceptsNobody \/ Accept \/ ServerHandles
  BY <1>4 DEF ServerStarts, Listens, AcceptsNobody, Accept, ServerHandles
<1>5. CASE Waits \/ WaitsForNothing
  BY <1>5 DEF Waits, WaitsForNothing
<1> QED
  BY <1>1, <1>2, <1>3, <1>4, <1>5

(* server.c does what the language does not define only after an           *)
(* allocation has failed (lines 104, 126, 177 and 184), with a connection  *)
(* for which pdata has no slot (131-141), or with the session that it is   *)
(* throwing out (353-371): no event is handled for a UserData that an      *)
(* earlier step has freed.                                                 *)
THEOREM UndefinedReasons == Spec => UndefinedHasReason
<1>1. TcsInv /\ [Next]_vars => [pc' = "undefined" => Reason]_vars
  <2> SUFFICES ASSUME TcsInv, Next, pc' = "undefined"
               PROVE  Reason
    OBVIOUS
  <2>1. CASE AcceptsUndefined
    BY <2>1, AcceptsUndefinedKeeps DEF Reason
  <2>2. CASE ServerUsesFreed \/ WaitsUndefined
    BY <2>2, ServerUsesFreedKeeps, WaitsUndefinedKeeps DEF Reason
  <2>3. CASE ServerExpels
    BY <2>3, ExpelledIs
  <2> QED
    BY <2>1, <2>2, <2>3, StaysDefined DEF Next
<1> QED
  BY <1>1, TcsInvariance, PTL DEF Spec, UndefinedHasReason, Reason

(* net/server.c and net/client.h: every open descriptor has an owner       *)
(* between two steps, whatever calls fail.                                 *)
THEOREM DescriptorsAccount == Spec => []DescriptorsAccountedFor
<1>1. TcsInv => ServerAccountedFor
  BY DEF TcsInv, ServerStages, Serving, SocketsOf, ServerAccountedFor
<1> QED
  BY <1>1, ClientAccounts, TcsInvariance, PTL DEF DescriptorsAccountedFor

(* tcs_poll_add and tcs_poll_remove as their callers use them: as long as  *)
(* there is memory, what is polled is what is served.                      *)
THEOREM SessionsPolled == Spec => []SessionsArePolled
<1>1. TcsInv => SessionsArePolled
  <2> SUFFICES ASSUME TcsInv, starved = 0
               PROVE  /\ pc \in {"accept", "wait", "handle"} /\ role = "server" => Registered(poll) = sessions
                      /\ pc = "idle" /\ connected = 1 => Registered(poll) = {<<sock, NoUser>>}
    BY DEF SessionsArePolled
  <2>1. corrupt = 0 /\ role \in {"server", "client"}
    BY DEF TcsInv, Types, Polls
  <2>2. role = "server" /\ pc \in {"accept", "wait", "handle"} => Registered(poll) = sessions
    BY <2>1 DEF TcsInv, ServerStages, Serving
  <2>3. role = "server" => pc # "idle"
    BY DEF TcsInv, ServerStages
  <2>4. role = "client" /\ pc = "idle" /\ connected = 1 => Registered(poll) = {<<sock, NoUser>>}
    BY <2>1 DEF TcsInv, ClientPolls
  <2> QED
    BY <2>1, <2>2, <2>3, <2>4
<1> QED
  BY <1>1, TcsInvariance, PTL

-----------------------------------------------------------------------------
(* The poll sets implement PollSet.                                        *)

Same == UNCHANGED <<Registered(poll), ready, events>>

(* The entries of a poll set that nobody touches.                          *)
LEMMA PollUnchanged ==
  ASSUME UNCHANGED poll
  PROVE  Registered(poll)' = Registered(poll)
BY DEF Registered

(* A socket that is added is registered, or nothing happens.               *)
LEMMA AddsIs ==
  ASSUME NEW s \in Socket, NEW u \in User \cup {NoUser}, \A r \in Registered(poll) : r[1] # s,
         NEW flags, NEW a, Adds(poll, s, u, flags, a), poll' = a.poll, UNCHANGED <<ready, events>>
  PROVE  Set!Next \/ Same
<1>1. CASE poll = NoPoll \/ a.res # "SUCCESS"
  <2>1. Registered(a.poll) = Registered(poll)
    BY <1>1 DEF Adds, AsBefore
  <2>2. Registered(poll)' = Registered(poll)
    BY <2>1 DEF Registered
  <2> QED
    BY <2>2 DEF Same
<1>2. CASE poll # NoPoll /\ a.res = "SUCCESS"
  <2>1. Registered(a.poll) = Registered(poll) \cup {<<s, u>>}
    BY <1>2 DEF Adds, AddedTo
  <2>2. Registered(poll)' = Registered(poll) \cup {<<s, u>>}
    BY <2>1 DEF Registered
  <2>3. Set!Register(s, u)
    BY <2>2 DEF Set!Register, Set!Sockets
  <2> QED
    BY <2>3 DEF Set!Next
<1> QED
  BY <1>1, <1>2

(* The number of the events: of all that is found, as far as there is room.*)
LEMMA TellsHowMany ==
  ASSUME NEW p, PollOK(p), NEW es \in Seq(Ev(Cell)), NEW length \in Nat,
         NEW found \in SUBSET SocketsIn(p), Tells(p, es, found, length)
  PROVE  /\ IsFiniteSet(found) /\ Cardinality(found) \in Nat
         /\ Len(es) = IF Cardinality(found) > length THEN length ELSE Cardinality(found)
<1>1. IsFiniteSet(found) /\ Cardinality(found) \in Nat
  <2>1. p.map.count \in Nat /\ Apart(Fds(p), p.map.count)
    BY NotBroken DEF PollOK, Distinct
  <2>2. IsFiniteSet(SocketsIn(p))
    BY <2>1, ApartCount DEF SocketsIn
  <2> QED
    BY <2>2, FS_Subset, FS_CardinalityType
<1>2. PICK told : told = Vals(SocksOf(es), Len(es))
  OBVIOUS
<1>3. Len(es) \in Nat /\ Len(es) <= length
  BY DEF Tells
<1>4. Cardinality(told) = Len(es) /\ told \subseteq found /\ (Len(es) < length => told = found)
  BY <1>2, <1>3, ApartCount DEF Tells
<1>5. Len(es) <= Cardinality(found)
  BY <1>1, <1>4, FS_Subset
<1> QED
  BY <1>1, <1>3, <1>4, <1>5

(* Waits is a wait, for the client too: its one socket needs one event.    *)
LEMMA WaitsRefines ==
  ASSUME TcsInv, Waits, corrupt' = 0
  PROVE  Set!Wait
<1>1. WaitGives(events', ready') /\ corrupt = 0 /\ poll' = poll /\ poll # NoPoll
      /\ (pc = "wait" \/ (role = "client" /\ pc = "idle" /\ connected = 1))
  BY WaitsIs DEF Waits
<1>2. events = <<>> /\ PollOK(poll) /\ PollIn(poll, Cell)
  BY <1>1, HoldsIn DEF TcsInv, Types, Polls, ClientPolls, ServerStages
<1>3. PICK es : es = events'
  OBVIOUS
<1>4. PICK found : found = ready'
  OBVIOUS
<1>5. /\ es \in Seq(Ev(Cell)) /\ found \in SUBSET SocketsIn(poll) /\ Tells(poll, es, found, Length)
  BY <1>1, <1>2, <1>3, <1>4 DEF WaitGives
<1>6. PICK length : length = Length
  OBVIOUS
<1>7. /\ length \in Nat \ {0} /\ (role = "client" => length = 1) /\ (role = "server" => length = MaxConnections)
      /\ role \in {"server", "client"}
  BY <1>6, LengthIs DEF TcsInv, Types
<1>8. /\ IsFiniteSet(found) /\ Cardinality(found) \in Nat
      /\ Len(es) = IF Cardinality(found) > length THEN length ELSE Cardinality(found)
  BY <1>2, <1>5, <1>6, <1>7, TellsHowMany
<1>9. Len(es) = IF Cardinality(found) > MaxConnections THEN MaxConnections ELSE Cardinality(found)
  <2>1. CASE role = "server"
    BY <1>7, <1>8, <2>1
  <2>2. CASE role = "client"
    <3>1. pc = "idle" /\ Registered(poll) \subseteq {<<sock, NoUser>>}
      BY <1>1, <2>2 DEF TcsInv, ClientPolls
    <3>2. SocketsIn(poll) \subseteq {sock}
      BY <1>1, <3>1, RegisteredIs
    <3>3. IsFiniteSet({sock}) /\ Cardinality({sock}) = 1
      BY FS_Singleton
    <3>4. Cardinality(found) <= 1
      <4>1. found \in SUBSET {sock}
        BY <1>5, <3>2
      <4> QED
        BY <3>3, <4>1, FS_Subset
    <3> QED
      BY <1>7, <1>8, <2>2, <3>4
  <2> QED
    BY <1>7, <2>1, <2>2
<1>10. \A i, j \in 1 .. Len(es) : i # j => es[i].socket # es[j].socket
  <2> SUFFICES ASSUME NEW i \in 1 .. Len(es), NEW j \in 1 .. Len(es), i # j
               PROVE  es[i].socket # es[j].socket
    OBVIOUS
  <2>1. SocksOf(es)[i] = es[i].socket /\ SocksOf(es)[j] = es[j].socket
    BY DEF SocksOf
  <2> QED
    BY <1>5, <2>1 DEF Tells, Apart
<1>11. \A i \in 1 .. Len(es) : es[i].socket \in found /\ <<es[i].socket, es[i].user>> \in Registered(poll)
  <2> SUFFICES ASSUME NEW i \in 1 .. Len(es)
               PROVE  es[i].socket \in found /\ <<es[i].socket, es[i].user>> \in Registered(poll)
    OBVIOUS
  <2>1. SocksOf(es)[i] = es[i].socket
    BY DEF SocksOf
  <2> QED
    BY <1>5, <2>1 DEF Tells, Vals
<1>12. Set!Told(es, found)
  <2>1. Set!Cardinality(found) = Cardinality(found)
    BY DEF Set!Cardinality, Cardinality
  <2>2. Len(es) = IF Set!Cardinality(found) > MaxConnections THEN MaxConnections ELSE Set!Cardinality(found)
    BY <1>9, <2>1
  <2> QED
    BY <1>10, <1>11, <2>2 DEF Set!Told
<1>13. found \subseteq Set!Sockets(Registered(poll))
  BY <1>1, <1>5, RegisteredIs DEF Set!Sockets
<1>14. Registered(poll)' = Registered(poll)
  BY <1>1, PollUnchanged
<1> QED
  BY <1>2, <1>3, <1>4, <1>12, <1>13, <1>14 DEF Set!Wait

(* The server handles an event ...                                         *)
LEMMA ServerHandlesRefines ==
  ASSUME TcsInv, ServerHandles \/ ServerExpels, corrupt' = 0
  PROVE  Set!Handle
<1>1. /\ role = "server" /\ pc = "handle" /\ events' = Tail(events)
      /\ ready' = IF events' = <<>> THEN {} ELSE ready
  BY DEF ServerHandles, ServerExpels, EventHandled
<1>2. events # <<>> /\ poll # NoPoll
  BY <1>1 DEF TcsInv, ServerStages
<1>3. PICK e : e = Head(events)
  OBVIOUS
<1>4. Registered(poll)' = Registered(poll) \/ Set!Unregister(e.socket)
  <2>1. CASE UNCHANGED <<open, sessions, poll, corrupt, faults, starved>>
    BY <2>1, PollUnchanged
  <2>2. CASE ~ Broken(poll) /\ Disconnect(e)
    <3>1. RemovedFrom(poll, e.socket, poll')
      BY <1>2, <2>2, DisconnectIs DEF Disconnects
    <3>2. Registered(poll)' = Registered(poll')
      BY DEF Registered
    <3> QED
      BY <3>1, <3>2 DEF RemovedFrom, Set!Unregister
  <2> QED
    BY <1>3, <2>1, <2>2 DEF ServerHandles, ServerExpels
<1> QED
  BY <1>1, <1>2, <1>3, <1>4 DEF Set!Handle

(* ... and so does the client.                                             *)
LEMMA ClientHandlesRefines ==
  ASSUME TcsInv, ClientHandles
  PROVE  Set!Handle
<1>1. pc = "handle" /\ role = "client" /\ events' = Tail(events) /\ ready' = {} /\ UNCHANGED poll
  BY DEF ClientHandles
<1>2. events # <<>>
  BY <1>1 DEF TcsInv, ClientPolls
<1>3. events' = <<>>
  BY ClientHandlesKeeps
<1>4. Registered(poll)' = Registered(poll)
  BY <1>1, PollUnchanged
<1> QED
  BY <1>1, <1>2, <1>3, <1>4 DEF Set!Handle

(* A reconnect gives up the socket, if one was polled.                     *)
LEMMA BadcopInitRefines ==
  ASSUME TcsInv, BadcopInit
  PROVE  Set!Next \/ Same
<1>1. /\ role = "client" /\ (pc = "start" \/ (pc = "idle" /\ connected = 0))
      /\ UNCHANGED <<events, ready>>
  BY DEF BadcopInit
<1>2. \E bad : poll' = InitPoll(bad).poll
  BY DEF BadcopInit, InitPoll
<1>3. PICK bad : poll' = InitPoll(bad).poll
  BY <1>2
<1>4. Registered(poll') = {r \in Registered(poll) : r[1] # sock} /\ Registered(poll') = {}
  BY <1>1, <1>3, InitPollIs
<1>5. Registered(poll)' = Registered(poll')
  BY DEF Registered
<1>6. events = <<>>
  BY <1>1 DEF TcsInv, ClientPolls
<1>7. CASE Registered(poll) = {}
  BY <1>1, <1>4, <1>5, <1>7 DEF Same
<1>8. CASE Registered(poll) # {}
  <2>1. poll # NoPoll
    BY <1>8 DEF Registered
  <2>2. PollOK(poll) /\ pc = "idle" /\ Registered(poll) \subseteq {<<sock, NoUser>>}
    BY <1>1, <2>1 DEF TcsInv, Polls, ClientPolls
  <2>3. sock \in Socket
    BY <1>8, <2>2, NotBroken
  <2>4. Set!Unregister(sock)
    BY <1>4, <1>5 DEF Set!Unregister
  <2> QED
    BY <1>1, <1>6, <2>3, <2>4 DEF Set!GiveUp, Set!Next
<1> QED
  BY <1>7, <1>8

(* A new connection of the client is registered ...                        *)
LEMMA JoinsRefines ==
  ASSUME TcsInv, Joins
  PROVE  Set!Next \/ Same
<1>1. pc = "unblock" /\ UNCHANGED <<events, ready>>
  BY DEF Joins
<1>2. /\ role = "client" /\ sock \in Socket /\ Registered(poll) = {} /\ corrupt = 0
  BY <1>1 DEF TcsInv, Types, ClientPolls, ServerStages
<1>3. CASE UNCHANGED poll
  BY <1>1, <1>3, PollUnchanged DEF Same
<1>4. CASE \E a \in Added(poll, sock, NoUser, {"in"}) : poll' = a.poll
  <2>1. PICK a \in Added(poll, sock, NoUser, {"in"}) : poll' = a.poll
    BY <1>4
  <2>2. {"in"} \in SUBSET {"in", "out"} /\ NoUser \in User \cup {NoUser}
    OBVIOUS
  <2>3. (poll # NoPoll => PollOK(poll)) /\ \A r \in Registered(poll) : r[1] # sock
    BY <1>2 DEF TcsInv, Polls
  <2>4. Adds(poll, sock, NoUser, {"in"}, a)
    BY <1>2, <2>2, <2>3, AddedAre
  <2> QED
    BY <1>1, <1>2, <2>1, <2>2, <2>3, <2>4, AddsIs
<1> QED
  BY <1>3, <1>4 DEF Joins

(* ... and a new session of the server.                                    *)
LEMMA AcceptRefines ==
  ASSUME TcsInv, Accept
  PROVE  Set!Next \/ Same
<1>1. role = "server" /\ pc = "accept" /\ corrupt = 0 /\ UNCHANGED <<events, ready>>
  BY DEF Accept
<1>2. PICK s \in NewDescriptor, u \in NewUser : \E a \in Added(poll, s, u, {"in"}) : poll' = a.poll
  BY DEF Accept
<1>3. PICK a \in Added(poll, s, u, {"in"}) : poll' = a.poll
  BY <1>2
<1>4. Serving /\ (poll # NoPoll => PollOK(poll))
  BY <1>1 DEF TcsInv, Polls, ServerStages
<1>5. s \in Socket /\ s \notin open /\ u \in User \cup {NoUser}
  BY DEF NewDescriptor, NewUser
<1>6. \A r \in Registered(poll) : r[1] # s
  BY <1>4, <1>5 DEF Serving, SocketsOf
<1>7. {"in"} \in SUBSET {"in", "out"}
  OBVIOUS
<1>8. Adds(poll, s, u, {"in"}, a)
  BY <1>4, <1>5, <1>6, <1>7, AddedAre
<1> QED
  BY <1>1, <1>3, <1>5, <1>6, <1>8, AddsIs

(* A poll set that is created is empty.                                    *)
LEMMA ListensRefines ==
  ASSUME TcsInv, Listens
  PROVE  Same
<1>1. pc = "listen" /\ UNCHANGED <<events, ready>>
  BY DEF Listens
<1>2. poll = NoPoll
  BY <1>1 DEF TcsInv, Types, ClientPolls, ServerStages
<1>3. CASE UNCHANGED poll
  BY <1>1, <1>3, PollUnchanged DEF Same
<1>4. CASE \E p \in Created : poll' = p
  <2>1. PICK p \in Created : poll' = p
    BY <1>4
  <2>2. Registered(p) = {}
    BY CreatedAre DEF TcsInv
  <2>3. Registered(poll)' = Registered(p) /\ Registered(poll) = {}
    BY <1>2, <2>1 DEF Registered
  <2> QED
    BY <1>1, <2>2, <2>3 DEF Same
<1> QED
  BY <1>3, <1>4 DEF Listens

(* Every step, then, is one of a PollSet or changes nothing it has.        *)
LEMMA NextRefines ==
  ASSUME TcsInv, [Next]_vars, corrupt' = 0
  PROVE  Set!Next \/ Same
<1>1. CASE \/ Resolve \/ OpenSocket \/ Bind \/ Connect \/ PollConnect \/ AwaitConnect \/ SendFails
           \/ ServerStarts \/ AcceptsNobody \/ AcceptsUndefined \/ ServerUsesFreed
           \/ WaitsForNothing \/ WaitsUndefined \/ UNCHANGED vars
  <2>1. UNCHANGED <<poll, ready, events>>
    BY <1>1 DEF Resolve, OpenSocket, Bind, Connect, PollConnect, AwaitConnect, SendFails, ServerStarts,
                AcceptsNobody, AcceptsUndefined, ServerUsesFreed, WaitsForNothing, WaitsUndefined,
                Undefined, settled, history, vars
  <2> QED
    BY <2>1, PollUnchanged DEF Same
<1>2. CASE Joins \/ Accept \/ BadcopInit \/ Listens
  BY <1>2, JoinsRefines, AcceptRefines, BadcopInitRefines, ListensRefines
<1>3. CASE Waits \/ ClientHandles \/ ServerHandles \/ ServerExpels
  <2>1. Set!Wait \/ Set!Handle
    BY <1>3, WaitsRefines, ClientHandlesRefines, ServerHandlesRefines
  <2> QED
    BY <2>1 DEF Set!Next
<1> QED
  BY <1>1, <1>2, <1>3 DEF Next

(* tcs_poll_add, tcs_poll_remove and tcs_poll_wait of both systems do what *)
(* a PollSet promises, whatever allocations fail, as long as no entry was  *)
(* left that could not be removed.                                         *)
THEOREM PollsImplementPollSet == Spec => ImplementsPollSet
<1>1. Init => Set!Init
  BY DEF Init, Set!Init, Registered
<1>2. TcsInv /\ [Next]_vars => [corrupt' = 0 => Set!Next]_(Set!vars)
  <2> SUFFICES ASSUME TcsInv, [Next]_vars, corrupt' = 0
               PROVE  Set!Next \/ UNCHANGED Set!vars
    OBVIOUS
  <2>1. Same => UNCHANGED Set!vars
    BY DEF Same, Set!vars
  <2> QED
    BY <2>1, NextRefines
<1> QED
  BY <1>1, <1>2, TcsInvariance, PTL DEF Spec, ImplementsPollSet
=============================================================================
