------------------------------ MODULE Quicksort -----------------------------
(***************************************************************************)
(* algorithm/Quicksort.cpp: quit_sort calls itself for the two parts that  *)
(* quit_sort2 makes around a pivot, the last element.  The recursion is    *)
(* the stack of ranges that are still to be sorted; one action is a call   *)
(* of quit_sort up to the loop of quit_sort2, a turn of this loop, or what *)
(* follows it.                                                             *)
(***************************************************************************)
EXTENDS Integers, Sequences, FiniteSets

CONSTANT Value   \* the elements

VARIABLES given,  \* the array as main makes it, counted from 0
          nums,
          calls,  \* the ranges <<l, r>> of the calls to come, the next one first
          i, j    \* the variables of quit_sort2, or None

sortVars == <<given, nums, calls, i, j>>

None == -1

InitFor(sizes) ==
  /\ \E n \in sizes : given \in [0 .. (n - 1) -> Value] /\ calls = <<<<0, n - 1>>>>
  /\ nums = given
  /\ i = None /\ j = None

l == Head(calls)[1]
r == Head(calls)[2]

Swapped(a, b) == [nums EXCEPT ![a] = nums[b], ![b] = nums[a]]

\* if (l >= r) return, else the start of quit_sort2
Call ==
  /\ calls # <<>> /\ j = None
  /\ IF l >= r THEN calls' = Tail(calls) /\ UNCHANGED <<i, j>>
               ELSE i' = l /\ j' = l /\ calls' = calls
  /\ UNCHANGED <<given, nums>>

Turn ==
  /\ j # None /\ j < r
  /\ IF nums[j] < nums[r] THEN nums' = Swapped(i, j) /\ i' = i + 1
                          ELSE UNCHANGED <<nums, i>>
  /\ j' = j + 1
  /\ UNCHANGED <<given, calls>>

\* Seeded bug: the pivot stays at the end.
SplitInPlace ==
  /\ j # None /\ j = r
  /\ calls' = <<<<l, i - 1>>, <<i + 1, r>>>> \o Tail(calls)
  /\ i' = None /\ j' = None
  /\ UNCHANGED <<given, nums>>

\* The pivot goes between the parts.
Split ==
  /\ j # None /\ j = r
  /\ nums' = Swapped(i, r)
  /\ calls' = <<<<l, i - 1>>, <<i + 1, r>>>> \o Tail(calls)
  /\ i' = None /\ j' = None
  /\ given' = given

Next == Call \/ Turn \/ Split

-----------------------------------------------------------------------------

Index == DOMAIN given

\* In no range that is still to be sorted
Settled(p) == \A n \in DOMAIN calls : p \notin calls[n][1] .. calls[n][2]

\* The elements stay those of main's array, a place that no call will look at again has
\* its final element, and the indexes stay inside the range: in the end, all is sorted.
Sorts ==
  /\ \A v \in Value : Cardinality({p \in Index : given[p] = v})
                    = Cardinality({p \in Index : nums[p] = v})
  /\ \A p \in Index : Settled(p) =>
       \A q \in Index : (q < p => nums[q] <= nums[p]) /\ (q > p => nums[q] >= nums[p])
  /\ j # None => l <= i /\ i <= j /\ j <= r /\ l \in Index /\ r \in Index

=============================================================================
