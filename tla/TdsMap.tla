------------------------------- MODULE TdsMap -------------------------------
(***************************************************************************)
(* The containers that tinycsocket.h keeps its poll sets in                *)
(* (tinydatastructures.h): TdsUList, an array that grows and shrinks by    *)
(* doubling, and TdsMap, two such arrays of one length.  The macros that   *)
(* give them a type for every use only pass their arguments on.            *)
(*                                                                         *)
(* Indices are from 1.  "data" is the memory an array really has, so that  *)
(* its length and what is believed to be its capacity can differ, and      *)
(* count of its elements are in use.  Whether an allocation succeeds is an *)
(* argument.  Every operation is the container it leaves and its status.   *)
(***************************************************************************)
EXTENDS Integers, Sequences

CONSTANTS
  MinimumCapacity,   (* MINIMUM_CAPACITY, 8                                *)
  Zero               (* an element that memset has cleared                 *)

ASSUME CapacityAssumption == MinimumCapacity \in Nat \ {0}

NoList == [data |-> <<>>, count |-> 0, capacity |-> 0]

Done(list)   == [list |-> list, sts |-> 0]
Failed(list) == [list |-> list, sts |-> -1]

-----------------------------------------------------------------------------
(* TdsUList.                                                               *)

(* MINIMUM_CAPACITY, doubled n times.                                       *)
Double[n \in Nat] == IF n = 0 THEN MinimumCapacity ELSE 2 * Double[n - 1]

(* The first of these that is enough.                                      *)
Doubled(new) ==
  LET enough == {n \in 0 .. new : Double[n] >= new} IN
  Double[CHOOSE n \in enough : \A m \in enough : n <= m]

(* With hysteresis: an array is not halved.                                *)
BestCapacityFit(old, new) ==
  IF Doubled(new) * 2 = old THEN old ELSE Doubled(new)

Reserve(l, requested, ok) ==
  LET c == BestCapacityFit(l.capacity, requested) IN
  IF c = l.capacity THEN Done(l)
  ELSE IF ~ ok THEN Failed(l)
  ELSE Done([l EXCEPT !.data = [i \in 1 .. c |-> IF i <= l.capacity THEN l.data[i] ELSE Zero],
                      !.capacity = c])

UListCreate(ok) == Reserve(NoList, 1, ok)

(* Mutant: an array is grown only when it is more than full.               *)
AddPastEnd(l, x, ok) ==
  LET r == IF l.count > l.capacity THEN Reserve(l, l.count + 1, ok) ELSE Done(l) IN
  IF r.sts # 0 THEN r
  ELSE Done([r.list EXCEPT !.data = [@ EXCEPT ![l.count + 1] = x], !.count = @ + 1])

UListAdd(l, x, ok) ==
  LET r == IF l.count + 1 > l.capacity THEN Reserve(l, l.count + 1, ok) ELSE Done(l) IN
  IF r.sts # 0 THEN r
  ELSE Done([r.list EXCEPT !.data = [@ EXCEPT ![l.count + 1] = x], !.count = @ + 1])

(* The last element takes the place of the removed one.  A memory that can *)
(* not be made smaller is reported although the element is gone.           *)
UListRemove(l, i, ok) ==
  IF i > l.count THEN Failed(l)
  ELSE LET kept == [l EXCEPT !.data = [@ EXCEPT ![i] = l.data[l.count]], !.count = @ - 1] IN
       IF kept.count < kept.capacity \div 2 THEN Reserve(kept, kept.count, ok) ELSE Done(kept)

-----------------------------------------------------------------------------
(* TdsMap: keys and values are the data of the two arrays, which have the  *)
(* count and the capacity in common.  bad is the set of the arrays whose   *)
(* memory can not be allocated.                                            *)

NoMap == [keys |-> <<>>, values |-> <<>>, count |-> 0, capacity |-> 0]

Column(m, data) == [data |-> data, count |-> m.count, capacity |-> m.capacity]

(* A map created in part is destroyed again.                               *)
MapCreate(bad) ==
  LET key   == UListCreate("keys" \notin bad)
      value == UListCreate("values" \notin bad)
  IN  IF key.sts # 0 \/ value.sts # 0 THEN [map |-> NoMap, sts |-> -1]
      ELSE [map |-> [keys |-> key.list.data, values |-> value.list.data,
                     count |-> key.list.count, capacity |-> key.list.capacity],
            sts |-> 0]

(* If one array fails the other may have grown: both are used as before.   *)
MapAdd(m, k, v, bad) ==
  LET key   == UListAdd(Column(m, m.keys), k, "keys" \notin bad)
      value == UListAdd(Column(m, m.values), v, "values" \notin bad)
      grown == [m EXCEPT !.keys = key.list.data, !.values = value.list.data]
  IN  IF key.sts # 0 \/ value.sts # 0 THEN [map |-> grown, sts |-> -1]
      ELSE [map |-> [grown EXCEPT !.count = @ + 1, !.capacity = key.list.capacity], sts |-> 0]

(* -2 if an array could not be made smaller: the entry is overwritten in   *)
(* both, the count stays, and one of them may be shorter than that.        *)
MapRemove(m, i, bad) ==
  LET key   == UListRemove(Column(m, m.keys), i, "keys" \notin bad)
      value == UListRemove(Column(m, m.values), i, "values" \notin bad)
      moved == [m EXCEPT !.keys = key.list.data, !.values = value.list.data]
  IN  IF i > m.count THEN [map |-> m, sts |-> -1]
      ELSE IF key.sts # 0 \/ value.sts # 0 THEN [map |-> moved, sts |-> -2]
      ELSE [map |-> [moved EXCEPT !.count = key.list.count, !.capacity = key.list.capacity],
            sts |-> 0]

(* The arrays hold less than the map counts: reading it is undefined.      *)
Damaged(m) == Len(m.keys) < m.count \/ Len(m.values) < m.count
=============================================================================
