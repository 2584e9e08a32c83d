------------------------------- MODULE MinHeap -------------------------------
(***************************************************************************)
(* structure/MinHeap.cpp: a binary heap in an array of fixed capacity. The *)
(* array is the sequence of its first heap_size elements, so positions     *)
(* count from 1. An operation begins at "idle"; an iteration of its loop,  *)
(* or a recursive call, is an action.                                      *)
(***************************************************************************)
EXTENDS Integers, Sequences, FiniteSets

CONSTANTS Key,        \* the ints that are pushed
          capacity

VARIABLES harr,
          pc, i,      \* what the operation does next, and its index i
          content     \* what is promised: content[k] is how many k the heap holds

heapVars == <<harr, pc, i, content>>

Init ==
  /\ harr = <<>>
  /\ pc = "idle" /\ i = 0
  /\ content = [k \in Key |-> 0]

parent(j) == j \div 2

Swapped(j, k) == [harr EXCEPT ![j] = harr[k], ![k] = harr[j]]

\* A full heap prints a line and is left as it was.
Push(k) ==
  /\ pc = "idle"
  /\ IF Len(harr) = capacity
     THEN UNCHANGED heapVars
     ELSE /\ harr' = Append(harr, k)
          /\ content' = [content EXCEPT ![k] = @ + 1]
          /\ i' = Len(harr) + 1
          /\ pc' = "up"

Above == i # 1 /\ harr[parent(i)] > harr[i]

\* while (i != 0 && harr[parent(i)] > harr[i])
SiftUp ==
  /\ pc = "up"
  /\ harr' = IF Above THEN Swapped(i, parent(i)) ELSE harr
  /\ i' = IF Above THEN parent(i) ELSE 0
  /\ pc' = IF Above THEN "up" ELSE "idle"
  /\ content' = content

Least == CHOOSE k \in Key : content[k] > 0 /\ \A m \in Key : content[m] > 0 => k <= m

\* "extract the root which is the minimum element"
Pop ==
  LET size == Len(harr)
  IN  /\ pc = "idle"
      /\ IF size = 0
         THEN UNCHANGED heapVars
         ELSE /\ content' = [content EXCEPT ![Least] = @ - 1]
              /\ harr' = IF size = 1 THEN <<>>
                         ELSE [j \in 1 .. size - 1 |-> IF j = 1 THEN harr[size] ELSE harr[j]]
              /\ i' = IF size = 1 THEN 0 ELSE 1
              /\ pc' = IF size = 1 THEN "idle" ELSE "down"

Smaller(j, k) == IF j <= Len(harr) /\ harr[j] < harr[k] THEN j ELSE k

\* Seeded bug: the right child is compared with the element, not with the smaller of it
\* and the left child.
SmallestOfLast == IF Smaller(2 * i + 1, i) # i THEN 2 * i + 1 ELSE Smaller(2 * i, i)

Smallest == Smaller(2 * i + 1, Smaller(2 * i, i))

\* MinHeapify(i), which calls itself with the smaller child
MinHeapify ==
  /\ pc = "down"
  /\ harr' = IF Smallest # i THEN Swapped(i, Smallest) ELSE harr
  /\ i' = IF Smallest # i THEN Smallest ELSE 0
  /\ pc' = IF Smallest # i THEN "down" ELSE "idle"
  /\ content' = content

Next == (\E k \in Key : Push(k)) \/ SiftUp \/ Pop \/ MinHeapify

-----------------------------------------------------------------------------

TypeOK ==
  /\ harr \in Seq(Key) /\ Len(harr) <= capacity
  /\ pc \in {"idle", "up", "down"}
  /\ i \in 0 .. Len(harr) /\ (pc = "idle" <=> i = 0)
  /\ content \in [Key -> Nat]

\* While an element rises or sinks only its own pairs may be out of order, and its
\* children are not below its parent.
Ordered ==
  \A j \in 2 .. Len(harr) :
    /\ harr[parent(j)] <= harr[j] \/ (pc = "up" /\ j = i) \/ (pc = "down" /\ parent(j) = i)
    /\ parent(j) = i /\ i > 1 => harr[parent(i)] <= harr[j]

\* The heap holds the keys that were pushed and not popped, where every pop took the
\* least, and its order holds however far the repair has come.
IsPriorityQueue ==
  /\ \A k \in Key : Cardinality({j \in DOMAIN harr : harr[j] = k}) = content[k]
  /\ Ordered

=============================================================================
