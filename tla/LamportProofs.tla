---------------------------- MODULE LamportProofs ---------------------------
(***************************************************************************)
(* Lamport.cpp for any number of threads and rounds, on a sequentially     *)
(* consistent memory: every variable keeps its range, no two threads are   *)
(* in the critical section, those that held a ticket enter first, and the  *)
(* counter counts atomically.                                              *)
(***************************************************************************)
EXTENDS Lamport, SharedMemoryProofs, FiniteSetTheorems

Num(t) == mem[Number(t)]

\* The ticket of u comes before the one of t.
Before(u, t) == Num(u) < Num(t) \/ (Num(u) = Num(t) /\ u < t)

\* t has no ticket, or draws one.
NoTicket == {"choose", "compare", "keep", "draw", "done"}

\* t has told the others that it is choosing.
Doorway == {"compare", "keep", "draw", "chosen"}

\* t waits for number[j[t]], having seen choosing[j[t]] = 0.
Tested == {"waitNumber", "greater", "equal"}

\* u, which holds a ticket, enters before t: it is in the critical section, it
\* has passed t, it has seen t outside of the doorway t is now in, or it held
\* its ticket when t began to choose.
Precedes(u, t) ==
  \/ InCS(u)
  \/ pc[u] \in Waiting /\ j[u] > t
  \/ pc[u] \in Tested /\ j[u] = t /\ pc[t] \in Doorway
  \/ u \in ahead[t]

\* t does not pass u: it has not read number[u] yet, or holds a ticket above it or
\* will. A comparison that succeeded finds a ticket above those t has kept; when it
\* has changed before Keep reads it, its holder has been in the critical section,
\* ahead of u.
Behind(t, u) ==
  \/ pc[t] \in {"choose", "done"}
  \/ pc[t] = "compare" /\ (j[t] <= u \/ max[t] >= Num(u))
  \/ pc[t] = "keep" /\ (j[t] <= u \/ Num(j[t]) > Num(u))
  \/ pc[t] = "draw" /\ max[t] >= Num(u)
  \/ pc[t] = "chosen" /\ Before(u, t)
  \/ pc[t] \in Waiting /\ Before(u, t) /\ j[t] <= u

\* The order of the queue.
QueueOrder == \A t, u \in Thread : t # u /\ Precedes(u, t) => Behind(t, u)

\* The threads ahead of t wait.
AheadWaits == \A t \in Thread : \A u \in ahead[t] : u # t /\ pc[u] \in Waiting

\* What the shared arrays say of a thread, and what its locals hold.
Tickets ==
  \A t \in Thread :
    /\ pc[t] \in Doorway => mem[Choosing(t)] = 1
    /\ Num(t) = 0 <=> pc[t] \in NoTicket
    /\ pc[t] \notin {"compare", "keep"} \cup Waiting => j[t] = 0
    /\ pc[t] = "draw" \/ (pc[t] = "compare" /\ j[t] > 0) => max[t] >= 0

\* Nobody has changed the counter since t read it.
CounterKept == \A t \in Thread : pc[t] = "csWrite" => val[t] = mem[CounterLoc]

\* A thread that has not ended has a round left to finish.
RoundsLeft == \A t \in Thread : pc[t] # "done" => rounds[t] < NLOOP[t]

\* The inductive invariant: of two threads at most one precedes the other, because
\* it is behind; and the counter needs what a round has read.
IInv ==
  /\ BuffersEmpty
  /\ TypeOK
  /\ Tickets
  /\ AheadWaits
  /\ QueueOrder
  /\ CounterKept
  /\ RoundsLeft

-----------------------------------------------------------------------------

\* No two shared variables, and no two cells of an array, are one location.
LEMMA LocationsApart ==
  ASSUME NEW t \in Thread, NEW u \in Thread
  PROVE  /\ Choosing(t) \in Location /\ Number(t) \in Location /\ CounterLoc \in Location
         /\ Choosing(t) # Number(u) /\ Choosing(t) # CounterLoc /\ Number(t) # CounterLoc
         /\ t # u => Choosing(t) # Choosing(u) /\ Number(t) # Number(u)
  BY DEF Choosing, Number, CounterLoc, Location

\* The threads are numbered from 0.
LEMMA ConstantFacts ==
  /\ 0 \in Thread /\ N - 1 \in Thread
  /\ Thread \subseteq Nat /\ Thread \subseteq Int
  /\ N \in Nat
  /\ \A t \in Thread : NLOOP[t] \in Nat /\ NLOOP[t] > 0
  /\ \A t \in Thread : t <= N - 1 /\ (t # N - 1 => t + 1 \in Thread)
  BY ConstantsAssumption

\* A step that writes nothing keeps the memory well typed.
LEMMA ReadSharedOK ==
  ASSUME SharedOK, mem' = mem, buf' = buf
  PROVE  SharedOK'
  BY DEF SharedOK, MemTypeOK

\* A write of a well-typed value keeps the memory well typed.
LEMMA WriteSharedOK ==
  ASSUME SharedOK, NEW t \in Thread, NEW a, NEW v, buf' = buf,
         mem' = [mem EXCEPT ![a] = v],
         \/ a = Choosing(t) /\ v \in {0, 1}
         \/ a = Number(t) /\ v \in Nat
         \/ a = CounterLoc /\ v \in Nat
  PROVE  SharedOK'
<1>1. a \in Location /\ v \in Int
  BY LocationsApart
<1>2. mem \in [Location -> Int]
  BY DEF SharedOK, MemTypeOK
<1>3. MemTypeOK(Location)'
  BY <1>1 DEF SharedOK, MemTypeOK
<1>4. ASSUME NEW u \in Thread
      PROVE  mem'[Choosing(u)] \in {0, 1} /\ mem'[Number(u)] \in Nat
  BY <1>2, LocationsApart DEF SharedOK
<1>5. mem'[CounterLoc] \in Nat
  BY <1>2, LocationsApart DEF SharedOK
<1> QED
  BY <1>3, <1>4, <1>5 DEF SharedOK

\* choosing[t] = v changes no ticket, no other flag and not the counter.
LEMMA WriteChoosing ==
  ASSUME SharedOK, NEW t \in Thread, NEW v \in {0, 1},
         buf' = buf, mem' = [mem EXCEPT ![Choosing(t)] = v]
  PROVE  /\ SharedOK'
         /\ mem'[Choosing(t)] = v
         /\ \A u \in Thread : Num(u)' = Num(u) /\ (u # t => mem'[Choosing(u)] = mem[Choosing(u)])
         /\ mem'[CounterLoc] = mem[CounterLoc]
<1>1. mem \in [Location -> Int]
  BY DEF SharedOK, MemTypeOK
<1> QED
  BY <1>1, WriteSharedOK, LocationsApart DEF Num

\* number[t] = v changes no other ticket, no flag and not the counter.
LEMMA WriteNumber ==
  ASSUME SharedOK, NEW t \in Thread, NEW v \in Nat,
         buf' = buf, mem' = [mem EXCEPT ![Number(t)] = v]
  PROVE  /\ SharedOK'
         /\ Num(t)' = v
         /\ \A u \in Thread : mem'[Choosing(u)] = mem[Choosing(u)] /\ (u # t => Num(u)' = Num(u))
         /\ mem'[CounterLoc] = mem[CounterLoc]
<1>1. mem \in [Location -> Int]
  BY DEF SharedOK, MemTypeOK
<1> QED
  BY <1>1, WriteSharedOK, LocationsApart DEF Num

\* counter = v changes no ticket and no flag.
LEMMA WriteCounter ==
  ASSUME SharedOK, NEW v \in Nat,
         buf' = buf, mem' = [mem EXCEPT ![CounterLoc] = v]
  PROVE  /\ SharedOK'
         /\ mem'[CounterLoc] = v
         /\ \A u \in Thread : mem'[Choosing(u)] = mem[Choosing(u)] /\ Num(u)' = Num(u)
<1>1. mem \in [Location -> Int]
  BY DEF SharedOK, MemTypeOK
<1> QED
  BY <1>1, WriteSharedOK, LocationsApart, ConstantFacts DEF Num

\* The ranges of the variables and of their values.
LEMMA Types ==
  ASSUME IInv
  PROVE  /\ pc \in [Thread -> Label] /\ j \in [Thread -> Thread]
         /\ max \in [Thread -> Nat \cup {-1}] /\ val \in [Thread -> Nat]
         /\ rounds \in [Thread -> Nat] /\ ahead \in [Thread -> SUBSET Thread]
         /\ \A u \in Thread : /\ Num(u) \in Nat /\ j[u] \in Thread /\ j[u] \in Nat
                              /\ max[u] \in Int /\ rounds[u] <= NLOOP[u]
<1>1. LocalsOK
  BY DEF IInv, TypeOK
<1>2. \A u \in Thread : Num(u) \in Nat
  BY DEF IInv, TypeOK, SharedOK, Num
<1>3. ASSUME NEW u \in Thread
      PROVE  j[u] \in Thread /\ j[u] \in Nat /\ max[u] \in Int
  <2>1. j[u] \in Thread /\ max[u] \in Nat \cup {-1}
    BY <1>1 DEF LocalsOK
  <2>2. j[u] \in Nat
    BY <2>1, ConstantFacts
  <2>3. max[u] \in Int
    BY <2>1
  <2> QED
    BY <2>1, <2>2, <2>3
<1> QED
  BY <1>1, <1>2, <1>3 DEF LocalsOK

\* The invariant holds at the start.
LEMMA InitIInv == ASSUME Init PROVE IInv
<1>1. BuffersEmpty
  BY DEF Init, MemInit, BuffersEmpty
<1>2. SharedOK
  BY <1>1, LocationsApart, ConstantFacts, BufferSizeAssumption
  DEF Init, MemInit, SharedOK, MemTypeOK, BuffersEmpty
<1>3. LocalsOK
  BY ConstantFacts DEF Init, LocalsOK, Label
<1>4. Tickets
  BY LocationsApart DEF Init, MemInit, Tickets, Num, Doorway, NoTicket, Waiting
<1>5. AheadWaits /\ QueueOrder
  BY DEF Init, AheadWaits, QueueOrder, Precedes, Behind, InCS, Waiting, Tested
<1>6. CounterKept /\ RoundsLeft
  BY ConstantFacts DEF Init, CounterKept, RoundsLeft
<1> QED
  BY <1>1, <1>2, <1>3, <1>4, <1>5, <1>6 DEF IInv, TypeOK

-----------------------------------------------------------------------------
(* Each step keeps the invariant *)

\* t enters the doorway: it has read no ticket yet.
LEMMA ChooseIInv ==
  ASSUME BufferSize = 0, IInv, NEW t \in Thread, Choose(t)
  PROVE  IInv'
<1>1. /\ mem' = [mem EXCEPT ![Choosing(t)] = 1]
      /\ buf' = buf
      /\ BuffersEmpty'
  BY StoreWritesMemory DEF Choose, IInv
<1>2. /\ SharedOK'
      /\ mem'[Choosing(t)] = 1
      /\ \A u \in Thread : /\ Num(u)' = Num(u)
                           /\ u # t => mem'[Choosing(u)] = mem[Choosing(u)]
      /\ mem'[CounterLoc] = mem[CounterLoc]
  BY <1>1, WriteChoosing DEF IInv, TypeOK
<1>3. LocalsOK'
  BY DEF Choose, Goto, IInv, TypeOK, LocalsOK, Label
<1>4. /\ pc[t] = "choose" /\ pc' = [pc EXCEPT ![t] = "compare"] /\ j' = j
      /\ pc \in [Thread -> Label] /\ j \in [Thread -> Thread]
      /\ max \in [Thread -> Nat \cup {-1}]
      /\ max' = [max EXCEPT ![t] = -1]
      /\ ahead \in [Thread -> SUBSET Thread]
      /\ ahead' = [ahead EXCEPT ![t] = {u \in Thread : pc[u] \in Waiting}]
  BY DEF Choose, Goto, IInv, TypeOK, LocalsOK
<1>5. Tickets'
  BY <1>2, <1>4 DEF IInv, Tickets, Doorway, NoTicket, Waiting
<1>6. AheadWaits'
  BY <1>4 DEF IInv, AheadWaits, Waiting
<1>7. QueueOrder'
  <2> SUFFICES ASSUME NEW v \in Thread, NEW w \in Thread, v # w, Precedes(v, w)'
               PROVE  Behind(w, v)'
    BY DEF QueueOrder
  <2>1. CASE w = t
    <3>1. pc'[t] = "compare" /\ j'[t] <= v
      BY <1>4, ConstantFacts DEF IInv, Tickets, Waiting
    <3> QED
      BY <2>1, <3>1 DEF Behind
  <2>2. CASE w # t
    <3>1. Precedes(v, w)
      BY <1>4, <2>2 DEF Precedes, InCS, Waiting, Tested
    <3>2. Behind(w, v)
      BY <3>1 DEF IInv, QueueOrder
    <3> QED
      BY <1>2, <1>4, <2>2, <3>2 DEF Behind, Before, IInv, TypeOK, LocalsOK
  <2> QED
    BY <2>1, <2>2
<1>8. CounterKept' /\ RoundsLeft'
  BY <1>2, <1>4 DEF Choose, IInv, CounterKept, RoundsLeft
<1> QED
  BY <1>1, <1>2, <1>3, <1>5, <1>6, <1>7, <1>8 DEF IInv, TypeOK

\* A read of number[j[t]] that is not above max leaves t behind j[t]; one that is above
\* is above every ticket that t is behind already.
LEMMA CompareIInv ==
  ASSUME BufferSize = 0, IInv, NEW t \in Thread, Compare(t)
  PROVE  IInv'
<1>1. /\ mem' = mem
      /\ buf' = buf
      /\ BuffersEmpty'
      /\ Load(t, Number(j[t])) = Num(j[t])
  BY LoadReadsMemory DEF Compare, IInv, BuffersEmpty, Num
<1>2. SharedOK' /\ \A u \in Thread : Num(u)' = Num(u)
  BY <1>1, ReadSharedOK DEF IInv, TypeOK, Num
<1>3. /\ pc[t] = "compare"
      /\ max' = max /\ ahead' = ahead /\ rounds' = rounds /\ val' = val
  BY DEF Compare, Goto, NextNumber
<1>4. \/ /\ Num(j[t]) > max[t]
         /\ pc' = [pc EXCEPT ![t] = "keep"]
         /\ j' = j
      \/ /\ Num(j[t]) <= max[t]
         /\ j[t] # N - 1
         /\ pc' = pc
         /\ j' = [j EXCEPT ![t] = j[t] + 1]
      \/ /\ Num(j[t]) <= max[t]
         /\ j[t] = N - 1
         /\ pc' = [pc EXCEPT ![t] = "draw"]
         /\ j' = [j EXCEPT ![t] = 0]
  BY <1>1, <1>3, Types DEF Compare, Goto, NextNumber
<1>5. LocalsOK'
  <2>1. pc' \in [Thread -> Label]
    BY <1>3, <1>4, Types DEF Label
  <2>2. j' \in [Thread -> Thread]
    BY <1>3, <1>4, Types, ConstantFacts
  <2> QED
    BY <1>3, <2>1, <2>2 DEF IInv, TypeOK, LocalsOK
<1>6. Tickets'
  <2> SUFFICES ASSUME NEW u \in Thread
               PROVE  /\ pc'[u] \in Doorway => mem'[Choosing(u)] = 1
                      /\ Num(u)' = 0 <=> pc'[u] \in NoTicket
                      /\ pc'[u] \notin {"compare", "keep"} \cup Waiting => j'[u] = 0
                      /\ pc'[u] = "draw" \/ (pc'[u] = "compare" /\ j'[u] > 0) => max'[u] >= 0
    BY DEF Tickets
  <2>1. CASE u # t
    BY <1>1, <1>2, <1>3, <1>4, Types, <2>1 DEF IInv, Tickets
  <2>2. CASE u = t
    BY <1>1, <1>2, <1>3, <1>4, Types, <2>2 DEF IInv, Tickets, Doorway, NoTicket, Waiting
  <2> QED
    BY <2>1, <2>2
<1>7. AheadWaits'
  BY <1>3, <1>4, Types DEF IInv, AheadWaits, Waiting
<1>8. QueueOrder'
  <2> SUFFICES ASSUME NEW v \in Thread, NEW w \in Thread, v # w, Precedes(v, w)'
               PROVE  Behind(w, v)'
    BY DEF QueueOrder
  <2>1. v # t
    BY <1>3, <1>4, Types, <1>7 DEF AheadWaits, Precedes, InCS, Waiting, Tested
  <2>2. Precedes(v, w)
    BY <1>3, <1>4, Types, <2>1 DEF Precedes, InCS, Waiting, Tested, Doorway
  <2>3. Behind(w, v)
    BY <2>2 DEF IInv, QueueOrder
  <2>4. CASE w = t
    <3>1. j[t] <= v \/ max[t] >= Num(v)
      BY <1>3, <2>3, <2>4 DEF Behind, Waiting
    <3>2. v \in Nat /\ v <= N - 1 /\ N \in Nat
      BY ConstantFacts
    <3> QED
      BY <1>2, <1>3, <1>4, Types, <2>4, <3>1, <3>2 DEF Behind
  <2>5. CASE w # t
    BY <1>2, <1>3, <1>4, Types, <2>3, <2>5 DEF Behind, Before
  <2> QED
    BY <2>4, <2>5
<1>9. CounterKept' /\ RoundsLeft'
  BY <1>1, <1>3, <1>4, Types DEF IInv, CounterKept, RoundsLeft
<1> QED
  BY <1>1, <1>2, <1>5, <1>6, <1>7, <1>8, <1>9 DEF IInv, TypeOK

\* What Keep reads may be below what Compare read, but not below a ticket that is ahead
\* of t and that the scan has passed.
LEMMA KeepIInv ==
  ASSUME BufferSize = 0, IInv, NEW t \in Thread, Keep(t)
  PROVE  IInv'
<1>1. /\ mem' = mem
      /\ buf' = buf
      /\ BuffersEmpty'
      /\ Load(t, Number(j[t])) = Num(j[t])
  BY LoadReadsMemory DEF Keep, IInv, BuffersEmpty, Num
<1>2. SharedOK' /\ \A u \in Thread : Num(u)' = Num(u)
  BY <1>1, ReadSharedOK DEF IInv, TypeOK, Num
<1>3. /\ pc[t] = "keep"
      /\ max' = [max EXCEPT ![t] = Num(j[t])]
      /\ ahead' = ahead /\ rounds' = rounds /\ val' = val
  BY <1>1 DEF Keep, Goto, NextNumber
<1>4. \/ /\ j[t] # N - 1
         /\ pc' = [pc EXCEPT ![t] = "compare"]
         /\ j' = [j EXCEPT ![t] = j[t] + 1]
      \/ /\ j[t] = N - 1
         /\ pc' = [pc EXCEPT ![t] = "draw"]
         /\ j' = [j EXCEPT ![t] = 0]
  BY <1>1, <1>3, Types DEF Keep, Goto, NextNumber
<1>5. LocalsOK'
  <2>1. pc' \in [Thread -> Label]
    BY <1>3, <1>4, Types DEF Label
  <2>2. j' \in [Thread -> Thread] /\ max' \in [Thread -> Nat \cup {-1}]
    BY <1>3, <1>4, Types, ConstantFacts
  <2> QED
    BY <1>3, <2>1, <2>2 DEF IInv, TypeOK, LocalsOK
<1>6. Tickets'
  <2> SUFFICES ASSUME NEW u \in Thread
               PROVE  /\ pc'[u] \in Doorway => mem'[Choosing(u)] = 1
                      /\ Num(u)' = 0 <=> pc'[u] \in NoTicket
                      /\ pc'[u] \notin {"compare", "keep"} \cup Waiting => j'[u] = 0
                      /\ pc'[u] = "draw" \/ (pc'[u] = "compare" /\ j'[u] > 0) => max'[u] >= 0
    BY DEF Tickets
  <2>1. CASE u # t
    BY <1>1, <1>2, <1>3, <1>4, Types, <2>1 DEF IInv, Tickets
  <2>2. CASE u = t
    BY <1>1, <1>2, <1>3, <1>4, Types, <2>2 DEF IInv, Tickets, Doorway, NoTicket, Waiting
  <2> QED
    BY <2>1, <2>2
<1>7. AheadWaits'
  BY <1>3, <1>4, Types DEF IInv, AheadWaits, Waiting
<1>8. QueueOrder'
  <2> SUFFICES ASSUME NEW v \in Thread, NEW w \in Thread, v # w, Precedes(v, w)'
               PROVE  Behind(w, v)'
    BY DEF QueueOrder
  <2>1. v # t
    BY <1>3, <1>4, Types, <1>7 DEF AheadWaits, Precedes, InCS, Waiting, Tested
  <2>2. Precedes(v, w)
    BY <1>3, <1>4, Types, <2>1 DEF Precedes, InCS, Waiting, Tested, Doorway
  <2>3. Behind(w, v)
    BY <2>2 DEF IInv, QueueOrder
  <2>4. CASE w = t
    <3>1. j[t] <= v \/ Num(j[t]) > Num(v)
      BY <1>3, <2>3, <2>4 DEF Behind, Waiting
    <3>2. v \in Nat /\ v <= N - 1 /\ N \in Nat
      BY ConstantFacts
    <3>3. max'[t] = Num(j[t])
      BY <1>3, Types
    <3>4. j[t] + 1 <= v \/ max'[t] >= Num(v)
      BY Types, <3>1, <3>2, <3>3
    <3> QED
      BY <1>2, <1>3, <1>4, Types, <2>4, <3>2, <3>4 DEF Behind
  <2>5. CASE w # t
    BY <1>2, <1>3, <1>4, Types, <2>3, <2>5 DEF Behind, Before
  <2> QED
    BY <2>4, <2>5
<1>9. CounterKept' /\ RoundsLeft'
  BY <1>1, <1>3, <1>4, Types DEF IInv, CounterKept, RoundsLeft
<1> QED
  BY <1>1, <1>2, <1>5, <1>6, <1>7, <1>8, <1>9 DEF IInv, TypeOK

\* The ticket of t is above those of all threads ahead of it.
LEMMA DrawIInv ==
  ASSUME BufferSize = 0, IInv, NEW t \in Thread, Draw(t)
  PROVE  IInv'
<1>1. /\ pc[t] = "draw"
      /\ pc' = [pc EXCEPT ![t] = "chosen"]
      /\ max' = [max EXCEPT ![t] = 0]
      /\ j' = j /\ val' = val /\ rounds' = rounds /\ ahead' = ahead
  BY DEF Draw, DrawAbove, Goto
<1>2. Num(t) = 0 /\ 1 + max[t] \in Nat /\ 1 + max[t] > 0
  BY <1>1, Types DEF IInv, Tickets, NoTicket
<1>3. /\ mem' = [mem EXCEPT ![Number(t)] = 1 + max[t]]
      /\ buf' = buf
      /\ BuffersEmpty'
  BY StoreWritesMemory DEF Draw, DrawAbove, IInv
<1>4. /\ SharedOK'
      /\ Num(t)' = 1 + max[t]
      /\ \A u \in Thread : mem'[Choosing(u)] = mem[Choosing(u)] /\ (u # t => Num(u)' = Num(u))
      /\ mem'[CounterLoc] = mem[CounterLoc]
  BY <1>2, <1>3, WriteNumber DEF IInv, TypeOK
<1>5. LocalsOK'
  BY <1>1 DEF IInv, TypeOK, LocalsOK, Label, Waiting
<1>6. Tickets'
  <2> SUFFICES ASSUME NEW u \in Thread
               PROVE  /\ pc'[u] \in Doorway => mem'[Choosing(u)] = 1
                      /\ Num(u)' = 0 <=> pc'[u] \in NoTicket
                      /\ pc'[u] \notin {"compare", "keep"} \cup Waiting => j'[u] = 0
                      /\ pc'[u] = "draw" \/ (pc'[u] = "compare" /\ j'[u] > 0) => max'[u] >= 0
    BY DEF Tickets
  <2>1. CASE u # t
    BY <1>1, <1>4, <2>1, Types DEF IInv, Tickets
  <2>2. CASE u = t
    BY <1>1, <1>2, <1>4, <2>2, Types DEF IInv, Tickets, Doorway, NoTicket, Waiting
  <2> QED
    BY <2>1, <2>2
<1>7. AheadWaits'
  BY <1>1, Types DEF IInv, AheadWaits, Waiting
<1>8. QueueOrder'
  <2> SUFFICES ASSUME NEW v \in Thread, NEW w \in Thread, v # w, Precedes(v, w)'
               PROVE  Behind(w, v)'
    BY DEF QueueOrder
  <2>1. v # t
    BY <1>1, <1>7, Types DEF AheadWaits, Precedes, InCS, Waiting, Tested
  <2>2. Precedes(v, w)
    BY <1>1, <2>1, Types DEF Precedes, InCS, Waiting, Tested, Doorway
  <2>3. Behind(w, v) /\ Num(v)' = Num(v)
    BY <1>4, <2>1, <2>2 DEF IInv, QueueOrder
  <2>4. CASE w = t
    <3>1. max[t] >= Num(v)
      BY <1>1, <2>3, <2>4 DEF Behind, Waiting
    <3>2. Before(v, t)'
      BY <1>4, <2>3, <3>1, Types DEF Before
    <3> QED
      BY <1>1, <2>4, <3>2, Types DEF Behind
  <2>5. CASE w # t
    <3>1. CASE pc[w] = "keep" /\ j[w] = t
      <4>1. j[w] <= v
        BY <1>2, <2>3, <3>1, Types DEF Behind, Waiting
      <4> QED
        BY <1>1, <2>5, <3>1, <4>1, Types DEF Behind
    <3>2. CASE ~(pc[w] = "keep" /\ j[w] = t)
      BY <1>1, <1>4, <2>3, <2>5, <3>2, Types DEF Behind, Before
    <3> QED
      BY <3>1, <3>2
  <2> QED
    BY <2>4, <2>5
<1>9. CounterKept' /\ RoundsLeft'
  BY <1>1, <1>4, Types DEF IInv, CounterKept, RoundsLeft
<1> QED
  BY <1>3, <1>4, <1>5, <1>6, <1>7, <1>8, <1>9 DEF IInv, TypeOK

\* t leaves the doorway with a ticket that is above those of all threads ahead of it.
LEMMA ChosenIInv ==
  ASSUME BufferSize = 0, IInv, NEW t \in Thread, Chosen(t)
  PROVE  IInv'
<1>1. /\ pc[t] = "chosen"
      /\ pc' = [pc EXCEPT ![t] = "waitChoosing"]
      /\ j' = j /\ max' = max /\ val' = val /\ rounds' = rounds /\ ahead' = ahead
  BY DEF Chosen, Goto
<1>2. /\ mem' = [mem EXCEPT ![Choosing(t)] = 0]
      /\ buf' = buf
      /\ BuffersEmpty'
  BY StoreWritesMemory DEF Chosen, IInv
<1>3. /\ SharedOK'
      /\ mem'[Choosing(t)] = 0
      /\ \A u \in Thread : Num(u)' = Num(u) /\ (u # t => mem'[Choosing(u)] = mem[Choosing(u)])
      /\ mem'[CounterLoc] = mem[CounterLoc]
  BY <1>2, WriteChoosing DEF IInv, TypeOK
<1>4. LocalsOK'
  BY <1>1 DEF IInv, TypeOK, LocalsOK, Label, Waiting
<1>5. Tickets'
  <2> SUFFICES ASSUME NEW u \in Thread
               PROVE  /\ pc'[u] \in Doorway => mem'[Choosing(u)] = 1
                      /\ Num(u)' = 0 <=> pc'[u] \in NoTicket
                      /\ pc'[u] \notin {"compare", "keep"} \cup Waiting => j'[u] = 0
                      /\ pc'[u] = "draw" \/ (pc'[u] = "compare" /\ j'[u] > 0) => max'[u] >= 0
    BY DEF Tickets
  <2>1. CASE u # t
    BY <1>1, <1>3, <2>1, Types DEF IInv, Tickets
  <2>2. CASE u = t
    BY <1>1, <1>3, <2>2, Types DEF IInv, Tickets, Doorway, NoTicket, Waiting
  <2> QED
    BY <2>1, <2>2
<1>6. AheadWaits'
  BY <1>1, Types DEF IInv, AheadWaits, Waiting
<1>7. QueueOrder'
  <2> SUFFICES ASSUME NEW v \in Thread, NEW w \in Thread, v # w, Precedes(v, w)'
               PROVE  Behind(w, v)'
    BY DEF QueueOrder
  <2>1. j[t] = 0
    BY <1>1 DEF IInv, Tickets, Waiting
  <2>2. Precedes(v, w)
    BY <1>1, <2>1, Types, ConstantFacts DEF Precedes, InCS, Waiting, Tested, Doorway
  <2>3. Behind(w, v)
    BY <2>2 DEF IInv, QueueOrder
  <2>4. CASE w = t
    <3>1. Before(v, t)' /\ j'[t] <= v
      BY <1>1, <1>3, <2>1, <2>3, <2>4, Types, ConstantFacts DEF Behind, Before, Waiting
    <3> QED
      BY <1>1, <2>4, <3>1, Types DEF Behind, Waiting
  <2>5. CASE w # t
    BY <1>1, <1>3, <2>3, <2>5, Types DEF Behind, Before
  <2> QED
    BY <2>4, <2>5
<1>8. CounterKept' /\ RoundsLeft'
  BY <1>1, <1>3, Types DEF IInv, CounterKept, RoundsLeft
<1> QED
  BY <1>2, <1>3, <1>4, <1>5, <1>6, <1>7, <1>8 DEF IInv, TypeOK

\* choosing[j] = 0: j is not in the doorway when t comes to look at its ticket.
LEMMA WaitChoosingIInv ==
  ASSUME BufferSize = 0, IInv, NEW t \in Thread, WaitChoosing(t)
  PROVE  IInv'
<1>1. /\ pc[t] = "waitChoosing"
      /\ pc' = [pc EXCEPT ![t] = "waitNumber"]
      /\ mem' = mem /\ buf' = buf
      /\ j' = j /\ max' = max /\ val' = val /\ rounds' = rounds /\ ahead' = ahead
      /\ BuffersEmpty'
      /\ mem[Choosing(j[t])] = 0
  BY LoadReadsMemory DEF WaitChoosing, Goto, IInv, BuffersEmpty
<1>2. SharedOK' /\ \A u \in Thread : Num(u)' = Num(u)
  BY <1>1, ReadSharedOK DEF IInv, TypeOK, Num
<1>3. LocalsOK'
  BY <1>1 DEF IInv, TypeOK, LocalsOK, Label, Waiting
<1>4. Tickets'
  BY <1>1, <1>2, Types DEF IInv, Tickets, Doorway, NoTicket, Waiting
<1>5. AheadWaits'
  BY <1>1, Types DEF IInv, AheadWaits, Waiting
<1>6. QueueOrder'
  <2> SUFFICES ASSUME NEW v \in Thread, NEW w \in Thread, v # w, Precedes(v, w)'
               PROVE  Behind(w, v)'
    BY DEF QueueOrder
  <2>1. pc[j[t]] \notin Doorway
    BY <1>1, Types DEF IInv, Tickets
  <2>2. Precedes(v, w)
    BY <1>1, <2>1, Types DEF Precedes, InCS, Waiting, Tested, Doorway
  <2>3. Behind(w, v)
    BY <2>2 DEF IInv, QueueOrder
  <2> QED
    BY <1>1, <1>2, <2>3, Types DEF Behind, Before, Waiting
<1>7. CounterKept' /\ RoundsLeft'
  BY <1>1, Types DEF IInv, CounterKept, RoundsLeft
<1> QED
  BY <1>1, <1>2, <1>3, <1>4, <1>5, <1>6, <1>7 DEF IInv, TypeOK

\* What precedes another thread holds a ticket.
LEMMA PrecedingHoldsTicket ==
  ASSUME IInv, NEW v \in Thread, NEW w \in Thread, Precedes(v, w)
  PROVE  (InCS(v) \/ pc[v] \in Waiting) /\ Num(v) # 0
<1>1. InCS(v) \/ pc[v] \in Waiting
  BY DEF IInv, AheadWaits, Precedes, Waiting, Tested
<1> QED
  BY <1>1, Types DEF IInv, Tickets, InCS, Waiting, NoTicket

\* The order of tickets is strict.
LEMMA BeforeAsymmetric ==
  ASSUME IInv, NEW v \in Thread, NEW w \in Thread, Before(v, w)
  PROVE  ~Before(w, v)
<1>1. Num(v) \in Nat /\ Num(w) \in Nat /\ v \in Nat /\ w \in Nat
  BY Types, ConstantFacts
<1> QED
  BY <1>1 DEF Before

\* One thread at most is in the critical section: of two, each would be behind the other.
LEMMA OneInCS ==
  ASSUME IInv, NEW t \in Thread, NEW u \in Thread, InCS(t), InCS(u)
  PROVE  t = u
  BY DEF IInv, QueueOrder, Precedes, Behind, InCS, Waiting

\* A step inside of the critical section changes no order.
LEMMA InCSQueueOrder ==
  ASSUME IInv, NEW t \in Thread, NEW to, InCS(t), to \in {"csRead", "csWrite", "release"},
         pc' = [pc EXCEPT ![t] = to], UNCHANGED <<j, max, ahead>>,
         \A u \in Thread : Num(u)' = Num(u)
  PROVE  QueueOrder'
<1> SUFFICES ASSUME NEW v \in Thread, NEW w \in Thread, v # w, Precedes(v, w)'
             PROVE  Behind(w, v)'
  BY DEF QueueOrder
<1>1. Precedes(v, w)
  BY Types DEF Precedes, InCS, Waiting, Tested, Doorway
<1>2. Behind(w, v)
  BY <1>1 DEF IInv, QueueOrder
<1> QED
  BY <1>2, Types DEF Behind, Before, InCS, Waiting

\* A step of the wait that leaves j as it is.
LEMMA WaitOnIInv ==
  ASSUME IInv, NEW t \in Thread, NEW to \in Tested, pc[t] \in Tested,
         pc' = [pc EXCEPT ![t] = to],
         UNCHANGED <<mem, buf, j, max, val, rounds, ahead>>
  PROVE  IInv'
<1>1. BuffersEmpty' /\ SharedOK' /\ \A u \in Thread : Num(u)' = Num(u)
  BY ReadSharedOK DEF IInv, TypeOK, BuffersEmpty, Num
<1>2. LocalsOK'
  BY DEF IInv, TypeOK, LocalsOK, Label, Waiting, Tested
<1>3. Tickets'
  BY <1>1, Types DEF IInv, Tickets, Doorway, NoTicket, Waiting, Tested
<1>4. AheadWaits'
  BY Types DEF IInv, AheadWaits, Waiting, Tested
<1>5. QueueOrder'
  <2> SUFFICES ASSUME NEW v \in Thread, NEW w \in Thread, v # w, Precedes(v, w)'
               PROVE  Behind(w, v)'
    BY DEF QueueOrder
  <2>1. Precedes(v, w)
    BY Types DEF Precedes, InCS, Waiting, Tested, Doorway
  <2>2. Behind(w, v)
    BY <2>1 DEF IInv, QueueOrder
  <2> QED
    BY <1>1, <2>2, Types DEF Behind, Before, Waiting, Tested
<1>6. CounterKept' /\ RoundsLeft'
  BY Types DEF IInv, CounterKept, RoundsLeft, Tested
<1> QED
  BY <1>1, <1>2, <1>3, <1>4, <1>5, <1>6 DEF IInv, TypeOK

\* t passes j[t]: that has no ticket, is t itself, or comes after t. If it was the last
\* one, t enters.
LEMMA PassedIInv ==
  ASSUME IInv, NEW t \in Thread, pc[t] \in Tested, Passed(t, pc[t]),
         UNCHANGED <<mem, buf, max, val, rounds>>,
         Num(j[t]) = 0 \/ j[t] = t \/ Before(t, j[t])
  PROVE  IInv'
<1>1. BuffersEmpty' /\ SharedOK' /\ \A u \in Thread : Num(u)' = Num(u)
  BY ReadSharedOK DEF IInv, TypeOK, BuffersEmpty, Num
<1>2. \/ /\ j[t] # N - 1
         /\ pc' = [pc EXCEPT ![t] = "waitChoosing"]
         /\ j' = [j EXCEPT ![t] = j[t] + 1]
         /\ ahead' = ahead
      \/ /\ j[t] = N - 1
         /\ pc' = [pc EXCEPT ![t] = "csRead"]
         /\ j' = [j EXCEPT ![t] = 0]
         /\ ahead' = [u \in Thread |-> ahead[u] \ {t}]
  BY DEF Passed, PassedUpTo, Goto
<1>3. LocalsOK'
  <2>1. pc' \in [Thread -> Label]
    BY <1>2, Types DEF Label, Waiting
  <2>2. j' \in [Thread -> Thread]
    <3>1. j[t] # N - 1 => j[t] + 1 \in Thread
      BY Types, ConstantFacts
    <3>2. 0 \in Thread
      BY ConstantFacts
    <3> QED
      BY <1>2, <3>1, <3>2, Types
  <2>3. ahead' \in [Thread -> SUBSET Thread]
    BY <1>2, Types
  <2> QED
    BY <2>1, <2>2, <2>3 DEF IInv, TypeOK, LocalsOK
<1>4. Tickets'
  <2> SUFFICES ASSUME NEW u \in Thread
               PROVE  /\ pc'[u] \in Doorway => mem'[Choosing(u)] = 1
                      /\ Num(u)' = 0 <=> pc'[u] \in NoTicket
                      /\ pc'[u] \notin {"compare", "keep"} \cup Waiting => j'[u] = 0
                      /\ pc'[u] = "draw" \/ (pc'[u] = "compare" /\ j'[u] > 0) => max'[u] >= 0
    BY DEF Tickets
  <2>1. CASE u # t
    BY <1>1, <1>2, <2>1, Types DEF IInv, Tickets
  <2>2. CASE u = t
    BY <1>1, <1>2, <2>2, Types DEF IInv, Tickets, Doorway, NoTicket, Waiting, Tested
  <2> QED
    BY <2>1, <2>2
<1>5. AheadWaits'
  BY <1>2, Types DEF IInv, AheadWaits, Waiting
<1>6. QueueOrder'
  <2> SUFFICES ASSUME NEW v \in Thread, NEW w \in Thread, v # w, Precedes(v, w)'
               PROVE  Behind(w, v)'
    BY DEF QueueOrder
  <2>1. CASE w = t
    <3>1. Precedes(v, t)
      BY <1>2, <2>1, Types DEF Precedes, InCS, Waiting, Tested, Doorway
    <3>2. Before(v, t) /\ j[t] <= v
      BY <2>1, <3>1 DEF IInv, QueueOrder, Behind, Waiting, Tested
    <3>3. v # j[t]
      BY <2>1, <3>1, <3>2, PrecedingHoldsTicket, BeforeAsymmetric
    <3>4. v \in Nat /\ v <= N - 1 /\ N \in Nat /\ j[t] \in Nat
      BY ConstantFacts, Types
    <3>5. j[t] + 1 <= v /\ j[t] # N - 1
      BY <3>2, <3>3, <3>4
    <3>6. Before(v, t)'
      BY <1>1, <3>2 DEF Before
    <3> QED
      BY <1>2, <2>1, <3>5, <3>6, Types DEF Behind, Waiting
  <2>2. CASE v = t
    <3>1. Precedes(t, w) \/ j[t] = w
      <4>1. w \in Nat /\ w <= N - 1 /\ N \in Nat /\ j[t] \in Nat
        BY ConstantFacts, Types
      <4>2. t \in ahead[w] \/ j[t] >= w
        BY <1>2, <2>2, <4>1, Types DEF Precedes, InCS, Waiting, Tested
      <4> QED
        BY <4>1, <4>2 DEF Precedes, Waiting, Tested
    <3>2. Behind(w, t)
      <4>1. CASE Precedes(t, w)
        BY <2>2, <4>1 DEF IInv, QueueOrder
      <4>2. CASE j[t] = w
        <5>1. CASE pc[w] \in {"choose", "done"}
          BY <5>1 DEF Behind
        <5>2. CASE pc[w] \in Doorway
          <6>1. Precedes(t, w)
            BY <4>2, <5>2 DEF Precedes
          <6> QED
            BY <2>2, <6>1 DEF IInv, QueueOrder
        <5>3. CASE pc[w] \in Waiting \/ InCS(w)
          <6>1. Num(w) # 0
            BY <5>3 DEF IInv, Tickets, NoTicket, Waiting, InCS
          <6>2. Before(t, w)
            BY <2>2, <4>2, <6>1
          <6>3. ~Precedes(w, t)
            BY <2>2, <6>2, BeforeAsymmetric DEF IInv, QueueOrder, Behind, Waiting, Tested
          <6>4. pc[w] \in Waiting /\ ~(j[w] > t)
            BY <5>3, <6>3 DEF Precedes
          <6>5. j[w] \in Nat /\ t \in Nat
            BY Types, ConstantFacts
          <6> QED
            BY <6>2, <6>4, <6>5 DEF Behind
        <5> QED
          BY <5>1, <5>2, <5>3, Types DEF Label, Doorway, InCS, Waiting
      <4> QED
        BY <3>1, <4>1, <4>2
    <3> QED
      BY <1>1, <1>2, <2>2, <3>2, Types DEF Behind, Before
  <2>3. CASE v # t /\ w # t
    <3>1. Precedes(v, w)
      BY <1>2, <2>3, Types DEF Precedes, InCS
    <3>2. Behind(w, v)
      BY <3>1 DEF IInv, QueueOrder
    <3> QED
      BY <1>1, <1>2, <2>3, <3>2, Types DEF Behind, Before
  <2> QED
    BY <2>1, <2>2, <2>3
<1>7. CounterKept' /\ RoundsLeft'
  BY <1>2, Types DEF IInv, CounterKept, RoundsLeft, Tested
<1> QED
  BY <1>1, <1>3, <1>4, <1>5, <1>6, <1>7 DEF IInv, TypeOK

\* number[j] = 0 is passed, whatever j does next.
LEMMA WaitNumberIInv ==
  ASSUME BufferSize = 0, IInv, NEW t \in Thread, WaitNumber(t)
  PROVE  IInv'
<1>1. Load(t, Number(j[t])) = Num(j[t])
  BY LoadReadsMemory DEF IInv, Num
<1>2. CASE Passed(t, "waitNumber") /\ Num(j[t]) = 0
  <2>1. pc[t] = "waitNumber" /\ UNCHANGED <<mem, buf, max, val, rounds>>
    BY <1>2 DEF Passed, PassedUpTo, Goto, WaitNumber
  <2> QED
    BY <1>2, <2>1, PassedIInv DEF Tested
<1>3. CASE Goto(t, "waitNumber", "greater") /\ UNCHANGED <<j, ahead>>
  BY <1>3, WaitOnIInv DEF WaitNumber, Goto, Tested
<1> QED
  BY <1>1, <1>2, <1>3 DEF WaitNumber

\* A ticket above the one of t is passed.
LEMMA GreaterIInv ==
  ASSUME BufferSize = 0, IInv, NEW t \in Thread, Greater(t)
  PROVE  IInv'
<1>1. Load(t, Number(j[t])) = Num(j[t]) /\ Load(t, Number(t)) = Num(t)
  BY LoadReadsMemory DEF IInv, Num
<1>2. CASE Passed(t, "greater") /\ Num(j[t]) > Num(t)
  <2>1. pc[t] = "greater" /\ UNCHANGED <<mem, buf, max, val, rounds>>
    BY <1>2 DEF Passed, PassedUpTo, Goto, Greater
  <2>2. Before(t, j[t])
    BY <1>2, Types DEF Before
  <2> QED
    BY <1>2, <2>1, <2>2, PassedIInv DEF Tested
<1>3. CASE Goto(t, "greater", "equal") /\ UNCHANGED <<j, ahead>>
  BY <1>3, WaitOnIInv DEF Greater, Goto, Tested
<1> QED
  BY <1>1, <1>2, <1>3 DEF Greater

\* Of two equal tickets the one of the larger thread is passed, and the own one.
LEMMA EqualIInv ==
  ASSUME BufferSize = 0, IInv, NEW t \in Thread, Equal(t)
  PROVE  IInv'
<1>1. Load(t, Number(j[t])) = Num(j[t]) /\ Load(t, Number(t)) = Num(t)
  BY LoadReadsMemory DEF IInv, Num
<1>2. CASE Passed(t, "equal") /\ Num(j[t]) = Num(t) /\ j[t] >= t
  <2>1. pc[t] = "equal"
    BY <1>2 DEF Passed, PassedUpTo, Goto
  <2>2. j[t] = t \/ Before(t, j[t])
    <3>1. j[t] \in Nat /\ t \in Nat
      BY Types, ConstantFacts
    <3> QED
      BY <1>2, <3>1 DEF Before
  <2>3. UNCHANGED <<mem, buf, max, val, rounds>>
    BY DEF Equal, EqualIf
  <2> QED
    BY <1>2, <2>1, <2>2, <2>3, PassedIInv DEF Tested
<1>3. CASE Goto(t, "equal", "waitNumber") /\ UNCHANGED <<j, ahead>>
  BY <1>3, WaitOnIInv DEF Equal, EqualIf, Goto, Tested
<1> QED
  BY <1>1, <1>2, <1>3 DEF Equal, EqualIf

\* val[t] becomes the counter.
LEMMA CsReadIInv ==
  ASSUME BufferSize = 0, IInv, NEW t \in Thread, CsRead(t)
  PROVE  IInv'
<1>1. /\ pc[t] = "csRead"
      /\ pc' = [pc EXCEPT ![t] = "csWrite"]
      /\ mem' = mem /\ buf' = buf
      /\ j' = j /\ max' = max /\ rounds' = rounds /\ ahead' = ahead
      /\ val' = [val EXCEPT ![t] = mem[CounterLoc]]
      /\ BuffersEmpty'
  BY LoadReadsMemory DEF CsRead, Goto, IInv, BuffersEmpty
<1>2. SharedOK' /\ \A u \in Thread : Num(u)' = Num(u)
  BY <1>1, ReadSharedOK DEF IInv, TypeOK, Num
<1>3. LocalsOK'
  BY <1>1 DEF IInv, TypeOK, LocalsOK, SharedOK, Label, Waiting
<1>4. Tickets'
  BY <1>1, <1>2, Types DEF IInv, Tickets, Doorway, NoTicket, Waiting
<1>5. AheadWaits'
  BY <1>1, Types DEF IInv, AheadWaits, Waiting
<1>6. QueueOrder'
  BY <1>1, <1>2, InCSQueueOrder DEF IInv, InCS
<1>7. CounterKept' /\ RoundsLeft'
  BY <1>1, Types DEF IInv, CounterKept, RoundsLeft
<1> QED
  BY <1>1, <1>2, <1>3, <1>4, <1>5, <1>6, <1>7 DEF IInv, TypeOK

\* Nobody else is between its load and its store.
LEMMA CsWriteIInv ==
  ASSUME BufferSize = 0, IInv, NEW t \in Thread, CsWrite(t)
  PROVE  IInv'
<1>1. /\ pc[t] = "csWrite"
      /\ pc' = [pc EXCEPT ![t] = "release"]
      /\ j' = j /\ max' = max /\ rounds' = rounds /\ ahead' = ahead
      /\ val' = [val EXCEPT ![t] = 0]
  BY DEF CsWrite, Goto
<1>2. /\ mem' = [mem EXCEPT ![CounterLoc] = val[t] + 1]
      /\ buf' = buf
      /\ BuffersEmpty'
  BY StoreWritesMemory DEF CsWrite, IInv
<1>3. /\ SharedOK'
      /\ \A u \in Thread : mem'[Choosing(u)] = mem[Choosing(u)] /\ Num(u)' = Num(u)
  <2>1. val[t] + 1 \in Nat
    BY Types
  <2> QED
    BY <1>2, <2>1, WriteCounter DEF IInv, TypeOK
<1>4. LocalsOK'
  BY <1>1 DEF IInv, TypeOK, LocalsOK, Label, Waiting
<1>5. Tickets'
  BY <1>1, <1>3, Types DEF IInv, Tickets, Doorway, NoTicket, Waiting
<1>6. AheadWaits'
  BY <1>1, Types DEF IInv, AheadWaits, Waiting
<1>7. QueueOrder'
  BY <1>1, <1>3, InCSQueueOrder DEF IInv, InCS
<1>8. CounterKept' /\ RoundsLeft'
  <2>1. ASSUME NEW u \in Thread, u # t
        PROVE  pc[u] # "csWrite"
    BY <1>1, <2>1, OneInCS DEF InCS
  <2> QED
    BY <1>1, <2>1, Types DEF IInv, CounterKept, RoundsLeft
<1> QED
  BY <1>2, <1>3, <1>4, <1>5, <1>6, <1>7, <1>8 DEF IInv, TypeOK

\* The ticket that t gives up was the smallest one.
LEMMA ReleaseIInv ==
  ASSUME BufferSize = 0, IInv, NEW t \in Thread, Release(t)
  PROVE  IInv'
<1>1. /\ pc[t] = "release"
      /\ pc' = [pc EXCEPT ![t] = IF rounds[t] + 1 = NLOOP[t] THEN "done" ELSE "choose"]
      /\ j' = j /\ max' = max /\ val' = val /\ ahead' = ahead
      /\ rounds' = [rounds EXCEPT ![t] = rounds[t] + 1]
  BY DEF Release, Goto
<1>2. /\ mem' = [mem EXCEPT ![Number(t)] = 0]
      /\ buf' = buf
      /\ BuffersEmpty'
  BY StoreWritesMemory DEF Release, IInv
<1>3. /\ SharedOK'
      /\ Num(t)' = 0
      /\ \A u \in Thread : mem'[Choosing(u)] = mem[Choosing(u)] /\ (u # t => Num(u)' = Num(u))
      /\ mem'[CounterLoc] = mem[CounterLoc]
  BY <1>2, WriteNumber DEF IInv, TypeOK
<1>4. rounds[t] < NLOOP[t] /\ rounds[t] \in Nat /\ NLOOP[t] \in Nat
  BY <1>1, Types, ConstantFacts DEF IInv, RoundsLeft
<1>5. LocalsOK'
  <2>1. pc' \in [Thread -> Label]
    BY <1>1, Types DEF Label
  <2>2. rounds' \in [Thread -> Nat] /\ \A u \in Thread : rounds'[u] <= NLOOP[u]
    BY <1>1, <1>4, Types
  <2> QED
    BY <1>1, <2>1, <2>2 DEF IInv, TypeOK, LocalsOK
<1>6. Tickets'
  <2> SUFFICES ASSUME NEW u \in Thread
               PROVE  /\ pc'[u] \in Doorway => mem'[Choosing(u)] = 1
                      /\ Num(u)' = 0 <=> pc'[u] \in NoTicket
                      /\ pc'[u] \notin {"compare", "keep"} \cup Waiting => j'[u] = 0
                      /\ pc'[u] = "draw" \/ (pc'[u] = "compare" /\ j'[u] > 0) => max'[u] >= 0
    BY DEF Tickets
  <2>1. CASE u # t
    BY <1>1, <1>3, <2>1, Types DEF IInv, Tickets
  <2>2. CASE u = t
    BY <1>1, <1>3, <2>2, Types DEF IInv, Tickets, Doorway, NoTicket, Waiting
  <2> QED
    BY <2>1, <2>2
<1>7. AheadWaits'
  BY <1>1, Types DEF IInv, AheadWaits, Waiting
<1>8. QueueOrder'
  <2> SUFFICES ASSUME NEW v \in Thread, NEW w \in Thread, v # w, Precedes(v, w)'
               PROVE  Behind(w, v)'
    BY DEF QueueOrder
  <2>1. CASE w = t
    BY <1>1, <2>1, Types DEF Behind
  <2>2. CASE w # t
    <3>1. v # t
      BY <1>1, <1>7, Types DEF AheadWaits, Precedes, InCS, Waiting, Tested
    <3>2. Precedes(v, w)
      BY <1>1, <2>2, <3>1, Types DEF Precedes, InCS
    <3>3. Behind(w, v) /\ Num(v)' = Num(v) /\ Num(w)' = Num(w)
      BY <1>3, <2>2, <3>1, <3>2 DEF IInv, QueueOrder
    <3>4. CASE pc[w] = "keep" /\ j[w] = t
      <4>1. ~(Num(t) > Num(v))
        <5>1. pc[v] \in Waiting
          BY <1>1, <3>1, <3>2, PrecedingHoldsTicket, OneInCS DEF InCS
        <5>2. Before(t, v)
          BY <1>1, <3>1, <5>1 DEF IInv, QueueOrder, Precedes, InCS, Behind, Waiting
        <5> QED
          BY <5>2, Types DEF Before
      <4>2. j[w] <= v
        BY <3>3, <3>4, <4>1 DEF Behind, Waiting
      <4> QED
        BY <1>1, <2>2, <3>4, <4>2, Types DEF Behind
    <3>5. CASE ~(pc[w] = "keep" /\ j[w] = t)
      BY <1>1, <1>3, <2>2, <3>3, <3>5, Types DEF Behind, Before
    <3> QED
      BY <3>4, <3>5
  <2> QED
    BY <2>1, <2>2
<1>9. CounterKept'
  BY <1>1, <1>3, Types DEF IInv, CounterKept
<1>10. RoundsLeft'
  <2>1. rounds[t] + 1 # NLOOP[t] => rounds[t] + 1 < NLOOP[t]
    BY <1>4
  <2> QED
    BY <1>1, <2>1, Types DEF IInv, RoundsLeft
<1> QED
  BY <1>2, <1>3, <1>5, <1>6, <1>7, <1>8, <1>9, <1>10 DEF IInv, TypeOK

\* A step that changes nothing keeps the invariant.
LEMMA StutterIInv ==
  ASSUME IInv, UNCHANGED vars
  PROVE  IInv'
<1>1. BuffersEmpty' /\ SharedOK'
  BY ReadSharedOK DEF vars, IInv, TypeOK, BuffersEmpty
<1>2. LocalsOK' /\ Tickets' /\ AheadWaits' /\ CounterKept' /\ RoundsLeft'
  BY DEF vars, IInv, TypeOK, LocalsOK, Tickets, AheadWaits, CounterKept, RoundsLeft, Num
<1>3. QueueOrder'
  BY DEF vars, IInv, QueueOrder, Precedes, Behind, Before, InCS, Num
<1> QED
  BY <1>1, <1>2, <1>3 DEF IInv, TypeOK

\* The invariant is inductive.
LEMMA StepIInv ==
  ASSUME BufferSize = 0, IInv, [Next]_vars
  PROVE  IInv'
<1>1. ASSUME NEW t \in Thread, Step(t)
      PROVE  IInv'
  BY <1>1, ChooseIInv, CompareIInv, KeepIInv, DrawIInv, ChosenIInv, WaitChoosingIInv,
     WaitNumberIInv, GreaterIInv, EqualIInv, CsReadIInv, CsWriteIInv, ReleaseIInv
  DEF Step
<1>2. CASE UNCHANGED vars
  BY <1>2, StutterIInv
<1> QED
  BY <1>1, <1>2 DEF Next, Exit

-----------------------------------------------------------------------------
(* The properties of the runs *)

\* IInv holds in every reachable state.
THEOREM Invariance == ASSUME BufferSize = 0 PROVE Spec => []IInv
<1>1. Init => IInv
  BY InitIInv
<1>2. IInv /\ [Next]_vars => IInv'
  BY StepIInv
<1> QED
  BY <1>1, <1>2, PTL DEF Spec

\* Every variable keeps its range: neither loop leaves the arrays and no ticket is
\* negative.
THEOREM TypeCorrect == ASSUME BufferSize = 0 PROVE Spec => []TypeOK
<1>1. IInv => TypeOK
  BY DEF IInv
<1> QED
  BY <1>1, Invariance, PTL

\* No two threads are between the load of counter and the return of the ticket, however
\* many there are and whatever the torn search for the maximum reads.
THEOREM MutuallyExclusive == ASSUME BufferSize = 0 PROVE Spec => []MutualExclusion
<1>1. IInv => MutualExclusion
  BY OneInCS DEF MutualExclusion
<1> QED
  BY <1>1, Invariance, PTL

\* Nobody enters before a thread that held its ticket when it began to choose.
THEOREM FirstComeFirstServedHolds ==
  ASSUME BufferSize = 0 PROVE Spec => []FirstComeFirstServed
<1>1. IInv => FirstComeFirstServed
  <2> SUFFICES ASSUME IInv, NEW t \in Thread, InCS(t), NEW u \in ahead[t]
               PROVE  FALSE
    BY Types DEF FirstComeFirstServed
  <2>1. u \in Thread /\ u # t /\ Precedes(u, t)
    BY Types DEF IInv, AheadWaits, Precedes
  <2> QED
    BY <2>1 DEF IInv, QueueOrder, Behind, InCS, Waiting
<1> QED
  BY <1>1, Invariance, PTL

-----------------------------------------------------------------------------
(* The tickets are bounded *)

\* The calls of doit that have drawn their ticket, numbered as Begun numbers them.
DrawnBy(u) == IF pc[u] \in NoTicket THEN rounds[u] ELSE rounds[u] + 1
Drawn == UNION {{u} \X (1 .. DrawnBy(u)) : u \in Thread}

\* Neither a ticket nor a maximum kept for one exceeds the number of tickets drawn.
TicketInv ==
  /\ IsFiniteSet(Drawn)
  /\ \A t \in Thread : Num(t) <= Cardinality(Drawn) /\ max[t] <= Cardinality(Drawn)

\* Nobody has drawn at the start.
LEMMA InitTicketInv == ASSUME Init PROVE TicketInv
<1>1. \A u \in Thread : DrawnBy(u) = 0
  BY DEF Init, DrawnBy, NoTicket
<1>2. Drawn = {}
  BY <1>1 DEF Drawn
<1>3. \A t \in Thread : Num(t) = 0 /\ max[t] = 0
  BY LocationsApart DEF Init, MemInit, Num
<1> QED
  BY <1>2, <1>3, FS_EmptySet DEF TicketInv

\* A step that draws no ticket may keep one, or forget.
LEMMA NoDraw ==
  ASSUME IInv, IInv', TicketInv, \A u \in Thread : DrawnBy(u)' = DrawnBy(u),
         \A u \in Thread : /\ Num(u)' = Num(u) \/ Num(u)' = 0
                           /\ max'[u] \in {max[u], -1} \/ \E w \in Thread : max'[u] = Num(w)
  PROVE  TicketInv'
<1>1. Drawn' = Drawn
  BY DEF Drawn
<1>2. Cardinality(Drawn) \in Nat
  BY FS_CardinalityType DEF TicketInv
<1>3. ASSUME NEW u \in Thread
      PROVE  Num(u)' <= Cardinality(Drawn) /\ max'[u] <= Cardinality(Drawn)
  BY <1>2, Types DEF TicketInv
<1> QED
  BY <1>1, <1>3 DEF TicketInv

\* A step of t that moves nobody across the line between no ticket and a ticket.
LEMMA SameSide ==
  ASSUME IInv, NEW t \in Thread, NEW from, NEW to, Goto(t, from, to),
         from \in NoTicket <=> to \in NoTicket, rounds' = rounds
  PROVE  \A u \in Thread : DrawnBy(u)' = DrawnBy(u)
BY Types DEF Goto, DrawnBy

\* The ticket drawn is the only new one, and is one above a maximum that was in bounds.
LEMMA DrawTicketInv ==
  ASSUME BufferSize = 0, IInv, TicketInv, NEW t \in Thread, Draw(t)
  PROVE  TicketInv'
<1> DEFINE n == DrawnBy(t) + 1
<1>1. /\ pc[t] = "draw" /\ pc' = [pc EXCEPT ![t] = "chosen"]
      /\ max' = [max EXCEPT ![t] = 0] /\ rounds' = rounds
  BY DEF Draw, DrawAbove, Goto
<1>2. 1 + max[t] \in Nat
  BY <1>1, Types DEF IInv, Tickets
<1>3. mem' = [mem EXCEPT ![Number(t)] = 1 + max[t]] /\ buf' = buf
  BY StoreWritesMemory DEF Draw, DrawAbove, IInv
<1>4. Num(t)' = 1 + max[t] /\ \A u \in Thread : u # t => Num(u)' = Num(u)
  BY <1>2, <1>3, WriteNumber DEF IInv, TypeOK
<1>5. \A u \in Thread : DrawnBy(u) \in Nat
  BY Types DEF DrawnBy
<1>6. DrawnBy(t)' = n /\ \A u \in Thread : u # t => DrawnBy(u)' = DrawnBy(u)
  BY <1>1, Types DEF DrawnBy, NoTicket
<1>7. Drawn' = Drawn \cup {<<t, n>>}
  <2>1. ASSUME NEW u \in Thread
        PROVE  {u} \X (1 .. DrawnBy(u)')
                 = ({u} \X (1 .. DrawnBy(u))) \cup (IF u = t THEN {<<t, n>>} ELSE {})
    <3>1. 1 .. n = (1 .. DrawnBy(t)) \cup {n}
      BY <1>5
    <3> QED
      BY <1>6, <3>1
  <2> QED
    BY <2>1 DEF Drawn
<1>8. <<t, n>> \notin Drawn
  BY <1>5 DEF Drawn
<1>9. /\ IsFiniteSet(Drawn') /\ Cardinality(Drawn) \in Nat
      /\ Cardinality(Drawn') = Cardinality(Drawn) + 1
  BY <1>7, <1>8, FS_AddElement, FS_CardinalityType DEF TicketInv
<1>10. ASSUME NEW u \in Thread
       PROVE  Num(u)' <= Cardinality(Drawn') /\ max'[u] <= Cardinality(Drawn')
  BY <1>1, <1>2, <1>4, <1>9, Types DEF TicketInv
<1> QED
  BY <1>9, <1>10 DEF TicketInv

\* The bound on tickets is inductive.
LEMMA StepTicketInv ==
  ASSUME BufferSize = 0, IInv, IInv', TicketInv, [Next]_vars
  PROVE  TicketInv'
<1>1. ASSUME NEW t \in Thread, Choose(t)
      PROVE  TicketInv'
  <2>1. mem' = [mem EXCEPT ![Choosing(t)] = 1] /\ buf' = buf
    BY <1>1, StoreWritesMemory DEF Choose, IInv
  <2>2. \A u \in Thread : Num(u)' = Num(u)
    BY <2>1, WriteChoosing DEF IInv, TypeOK
  <2>3. \A u \in Thread : DrawnBy(u)' = DrawnBy(u)
    BY <1>1, SameSide DEF Choose, NoTicket
  <2>4. \A u \in Thread : max'[u] \in {max[u], -1}
    BY <1>1, Types DEF Choose
  <2> QED
    BY <2>2, <2>3, <2>4, NoDraw
<1>2. ASSUME NEW t \in Thread, Keep(t)
      PROVE  TicketInv'
  <2>1. mem' = mem /\ rounds' = rounds /\ max' = [max EXCEPT ![t] = Num(j[t])]
    BY <1>2, LoadReadsMemory DEF Keep, IInv, Num
  <2>2. \A u \in Thread : DrawnBy(u)' = DrawnBy(u)
    BY <1>2, <2>1, SameSide DEF Keep, NextNumber, NoTicket
  <2>3. \A u \in Thread : max'[u] = max[u] \/ \E w \in Thread : max'[u] = Num(w)
    BY <2>1, Types
  <2> QED
    BY <2>1, <2>2, <2>3, NoDraw DEF Num
<1>3. ASSUME NEW t \in Thread, Chosen(t)
      PROVE  TicketInv'
  <2>1. mem' = [mem EXCEPT ![Choosing(t)] = 0] /\ buf' = buf
    BY <1>3, StoreWritesMemory DEF Chosen, IInv
  <2>2. \A u \in Thread : Num(u)' = Num(u)
    BY <2>1, WriteChoosing DEF IInv, TypeOK
  <2>3. \A u \in Thread : DrawnBy(u)' = DrawnBy(u)
    BY <1>3, SameSide DEF Chosen, NoTicket
  <2> QED
    BY <1>3, <2>2, <2>3, NoDraw DEF Chosen
<1>4. ASSUME NEW t \in Thread,
             \/ Compare(t) \/ WaitChoosing(t) \/ WaitNumber(t) \/ Greater(t)
             \/ Equal(t) \/ CsRead(t)
      PROVE  TicketInv'
  <2>1. mem' = mem /\ max' = max /\ rounds' = rounds
    BY <1>4 DEF Compare, WaitChoosing, WaitNumber, Greater, Equal, EqualIf, CsRead
  <2>2. \E from, to : Goto(t, from, to) /\ (from \in NoTicket <=> to \in NoTicket)
    BY <1>4 DEF Compare, NextNumber, WaitChoosing, WaitNumber, Greater, Equal, EqualIf,
                CsRead, Passed, PassedUpTo, NoTicket
  <2>3. \A u \in Thread : DrawnBy(u)' = DrawnBy(u)
    BY <2>1, <2>2, SameSide
  <2> QED
    BY <2>1, <2>3, NoDraw DEF Num
<1>5. ASSUME NEW t \in Thread, CsWrite(t)
      PROVE  TicketInv'
  <2>1. pc[t] = "csWrite" /\ val[t] + 1 \in Nat
    BY <1>5, Types DEF CsWrite, Goto
  <2>2. mem' = [mem EXCEPT ![CounterLoc] = val[t] + 1] /\ buf' = buf
    BY <1>5, StoreWritesMemory DEF CsWrite, IInv
  <2>3. \A u \in Thread : Num(u)' = Num(u)
    BY <2>1, <2>2, WriteCounter DEF IInv, TypeOK
  <2>4. \A u \in Thread : DrawnBy(u)' = DrawnBy(u)
    BY <1>5, SameSide DEF CsWrite, NoTicket
  <2> QED
    BY <1>5, <2>3, <2>4, NoDraw DEF CsWrite
<1>6. ASSUME NEW t \in Thread, Release(t)
      PROVE  TicketInv'
  <2>1. /\ pc[t] = "release" /\ max' = max /\ rounds' = [rounds EXCEPT ![t] = rounds[t] + 1]
        /\ pc' = [pc EXCEPT ![t] = IF rounds[t] + 1 = NLOOP[t] THEN "done" ELSE "choose"]
    BY <1>6 DEF Release, Goto
  <2>2. mem' = [mem EXCEPT ![Number(t)] = 0] /\ buf' = buf
    BY <1>6, StoreWritesMemory DEF Release, IInv
  <2>3. \A u \in Thread : Num(u)' = Num(u) \/ Num(u)' = 0
    BY <2>2, WriteNumber DEF IInv, TypeOK
  <2>4. \A u \in Thread : DrawnBy(u)' = DrawnBy(u)
    BY <2>1, Types DEF DrawnBy, NoTicket
  <2> QED
    BY <2>1, <2>3, <2>4, NoDraw
<1>7. CASE UNCHANGED vars
  BY <1>7, NoDraw DEF vars, Num, DrawnBy
<1> QED
  BY <1>1, <1>2, <1>3, <1>4, <1>5, <1>6, <1>7, DrawTicketInv DEF Next, Step, Exit

\* Every call that has drawn has begun, and there are finitely many.
LEMMA DrawnBegun ==
  ASSUME IInv, TicketInv
  PROVE  Drawn \subseteq Begun /\ IsFiniteSet(Begun)
<1> DEFINE BegunBy(u) == IF pc[u] \in {"choose", "done"} THEN rounds[u] ELSE rounds[u] + 1
           current == [u \in Thread |-> <<u, rounds[u] + 1>>]
           Current == {current[u] : u \in Thread}
<1>1. Begun = UNION {{u} \X (1 .. BegunBy(u)) : u \in Thread}
  BY DEF Begun
<1>2. \A u \in Thread : /\ DrawnBy(u) \in Nat /\ BegunBy(u) \in Nat
                        /\ DrawnBy(u) <= BegunBy(u)
                        /\ BegunBy(u) = DrawnBy(u) \/ BegunBy(u) = rounds[u] + 1
                        /\ BegunBy(u) <= DrawnBy(u) + 1
  BY Types DEF DrawnBy, NoTicket
<1>3. Drawn \subseteq Begun
  BY <1>1, <1>2 DEF Drawn
<1>4. Begun \subseteq Drawn \cup Current
  <2> SUFFICES ASSUME NEW u \in Thread, NEW n \in 1 .. BegunBy(u)
               PROVE  <<u, n>> \in Drawn \cup Current
    BY <1>1
  <2>1. CASE n <= DrawnBy(u)
    BY <1>2, <2>1 DEF Drawn
  <2>2. CASE n > DrawnBy(u)
    <3>1. n = rounds[u] + 1
      BY <1>2, <2>2
    <3>2. <<u, n>> = current[u]
      BY <3>1
    <3> QED
      BY <3>2
  <2> QED
    BY <1>2, <2>1, <2>2
<1>5. IsFiniteSet(Current)
  <2>1. IsFiniteSet(Thread)
    BY FS_Interval, ConstantFacts, ConstantsAssumption
  <2>2. current \in Surjection(Thread, Current)
    BY DEF Surjection
  <2> QED
    BY <2>1, <2>2, FS_Surjection
<1>6. IsFiniteSet(Drawn \cup Current)
  BY <1>5, FS_Union DEF TicketInv
<1> QED
  BY <1>3, <1>4, <1>6, FS_Subset

\* No ticket exceeds the number of calls begun, so tickets cannot outgrow an int
\* that can count the calls, for any number of threads and rounds.
THEOREM TicketsBounded == ASSUME BufferSize = 0 PROVE Spec => []TicketBound
<1>1. Init => TicketInv
  BY InitTicketInv
<1>2. IInv /\ IInv' /\ TicketInv /\ [Next]_vars => TicketInv'
  BY StepTicketInv
<1>3. IInv /\ TicketInv => TicketBound
  <2> SUFFICES ASSUME IInv, TicketInv, NEW t \in Thread
               PROVE  Num(t) <= Cardinality(Begun)
    BY DEF TicketBound, Num
  <2>1. Cardinality(Drawn) <= Cardinality(Begun) /\ Cardinality(Begun) \in Nat
    BY DrawnBegun, FS_Subset, FS_CardinalityType
  <2>2. Cardinality(Drawn) \in Nat
    BY FS_CardinalityType DEF TicketInv
  <2> QED
    BY <2>1, <2>2, Types DEF TicketInv
<1> QED
  BY <1>1, <1>2, <1>3, Invariance, PTL DEF Spec

-----------------------------------------------------------------------------
(* The counter counts *)

\* The additions of t when no store is pending: one for each round, and one more
\* between its store and the return of its ticket.
Made(t) == rounds[t] + (IF pc[t] = "release" THEN 1 ELSE 0)

\* The refinement mapping needs no buffer.
LEMMA AdditionsMade == IInv => \A t \in Thread : Additions(t) = Made(t)
<1> SUFFICES ASSUME IInv, NEW t \in Thread
             PROVE  Additions(t) = Made(t)
  OBVIOUS
<1>1. Pending(t, CounterLoc) = 0
  BY NothingPending DEF IInv
<1>2. Made(t) \in Int
  BY ConstantFacts DEF IInv, TypeOK, LocalsOK, Made
<1> QED
  BY <1>1, <1>2 DEF Additions, Made

\* The same in the next state.
LEMMA AdditionsMadeNext == IInv' => \A t \in Thread : Additions(t)' = Made(t)'
<1>1. (IInv => \A t \in Thread : Additions(t) = Made(t))'
  BY AdditionsMade, PTL
<1> QED
  BY <1>1

\* Nothing has been added at the start.
LEMMA InitCounter == ASSUME Init PROVE Counter!Init
<1>1. ASSUME NEW t \in Thread
      PROVE  NLOOP[t] - Additions(t) = NLOOP[t]
  BY InitIInv, AdditionsMade, ConstantFacts DEF Init, Made
<1>2. NLOOP = [t \in Thread |-> NLOOP[t]]
  BY ConstantsAssumption
<1> QED
  BY <1>1, <1>2, LocationsApart, ConstantFacts DEF Counter!Init, Init, MemInit

\* CsWrite(t) is the addition of t.
LEMMA CsWriteIncrements ==
  ASSUME BufferSize = 0, IInv, IInv', NEW t \in Thread, CsWrite(t)
  PROVE  Counter!Increment(t)
<1>1. mem'[CounterLoc] = mem[CounterLoc] + 1
  <2>1. mem' = [mem EXCEPT ![CounterLoc] = val[t] + 1] /\ buf' = buf
    BY StoreWritesMemory DEF CsWrite, IInv
  <2>2. pc[t] = "csWrite" /\ val[t] + 1 \in Nat
    BY Types DEF CsWrite, Goto
  <2> QED
    BY <2>1, <2>2, WriteCounter DEF IInv, TypeOK, CounterKept
<1>2. /\ pc[t] = "csWrite" /\ pc' = [pc EXCEPT ![t] = "release"] /\ rounds' = rounds
      /\ rounds[t] \in Nat /\ pc'[t] = "release"
  BY Types DEF CsWrite, Goto
<1>3. Additions(t) = rounds[t] /\ Additions(t)' = rounds[t] + 1
  BY <1>2, AdditionsMade, AdditionsMadeNext DEF Made
<1>4. ASSUME NEW u \in Thread, u # t
      PROVE  Additions(u)' = Additions(u)
  BY <1>2, <1>4, AdditionsMade, AdditionsMadeNext, Types DEF Made
<1>5. rounds[t] < NLOOP[t] /\ NLOOP[t] \in Nat
  BY <1>2, ConstantFacts DEF IInv, RoundsLeft
<1> QED
  <2>1. NLOOP[t] - Additions(t) > 0
    BY <1>2, <1>3, <1>5
  <2>2. [u \in Thread |-> NLOOP[u] - Additions(u)]'
          = [[u \in Thread |-> NLOOP[u] - Additions(u)] EXCEPT ![t] = @ - 1]
    <3>1. NLOOP[t] - Additions(t)' = (NLOOP[t] - Additions(t)) - 1
      BY <1>2, <1>3, <1>5
    <3> QED
      BY <1>4, <3>1
  <2> QED
    BY <1>1, <2>1, <2>2 DEF Counter!Increment

\* Every other step leaves the counter and the additions as they are.
LEMMA OthersStutter ==
  ASSUME BufferSize = 0, IInv, IInv', NEW t \in Thread, Step(t), ~CsWrite(t)
  PROVE  UNCHANGED Counter!counterVars
<1>1. mem'[CounterLoc] = mem[CounterLoc]
  <2>1. ASSUME NEW a, NEW v, Store(t, a, v), a # CounterLoc
        PROVE  mem'[CounterLoc] = mem[CounterLoc]
    BY <2>1, StoreWritesMemory, LocationsApart DEF IInv, TypeOK, SharedOK, MemTypeOK
  <2>2. CASE Choose(t)
    BY <2>1, <2>2, LocationsApart DEF Choose
  <2>3. CASE Draw(t)
    BY <2>1, <2>3, LocationsApart DEF Draw, DrawAbove
  <2>4. CASE Chosen(t)
    BY <2>1, <2>4, LocationsApart DEF Chosen
  <2>5. CASE Release(t)
    BY <2>1, <2>5, LocationsApart DEF Release
  <2>6. CASE \/ Compare(t) \/ Keep(t) \/ WaitChoosing(t) \/ WaitNumber(t) \/ Greater(t)
             \/ Equal(t) \/ CsRead(t)
    BY <2>6 DEF Compare, Keep, WaitChoosing, WaitNumber, Greater, Equal, EqualIf, CsRead
  <2> QED
    BY <2>2, <2>3, <2>4, <2>5, <2>6 DEF Step
<1>2. ASSUME NEW u \in Thread
      PROVE  Made(u)' = Made(u)
  <2>1. ASSUME NEW from \in Label \ {"csWrite", "release"},
               NEW to \in Label \ {"release"}, Goto(t, from, to), rounds' = rounds
        PROVE  Made(u)' = Made(u)
    BY <2>1, Types DEF Goto, Made
  <2>2. CASE Choose(t)
    BY <2>1, <2>2 DEF Choose, Label
  <2>3. CASE Compare(t)
    BY <2>1, <2>3 DEF Compare, NextNumber, Label
  <2>4. CASE Keep(t)
    BY <2>1, <2>4 DEF Keep, NextNumber, Label
  <2>5. CASE Draw(t)
    BY <2>1, <2>5 DEF Draw, DrawAbove, Label
  <2>6. CASE Chosen(t)
    BY <2>1, <2>6 DEF Chosen, Label, Waiting
  <2>7. CASE WaitChoosing(t)
    BY <2>1, <2>7 DEF WaitChoosing, Label, Waiting
  <2>8. CASE WaitNumber(t)
    BY <2>1, <2>8 DEF WaitNumber, Passed, PassedUpTo, Label, Waiting
  <2>9. CASE Greater(t)
    BY <2>1, <2>9 DEF Greater, Passed, PassedUpTo, Label, Waiting
  <2>10. CASE Equal(t)
    BY <2>1, <2>10 DEF Equal, EqualIf, Passed, PassedUpTo, Label, Waiting
  <2>11. CASE CsRead(t)
    BY <2>1, <2>11 DEF CsRead, Label
  <2>12. CASE Release(t)
    <3>1. /\ pc[t] = "release" /\ rounds' = [rounds EXCEPT ![t] = rounds[t] + 1]
          /\ pc' = [pc EXCEPT ![t] = IF rounds[t] + 1 = NLOOP[t] THEN "done" ELSE "choose"]
      BY <2>12 DEF Release, Goto
    <3> QED
      BY <3>1, Types DEF Made
  <2> QED
    BY <2>2, <2>3, <2>4, <2>5, <2>6, <2>7, <2>8, <2>9, <2>10, <2>11, <2>12 DEF Step
<1> QED
  BY <1>1, <1>2, AdditionsMade, AdditionsMadeNext DEF Counter!counterVars

\* A thread's store of counter is an atomic addition and no other step touches the
\* count: no update is lost, for any number of threads and rounds.
THEOREM CounterRefined == ASSUME BufferSize = 0 PROVE Spec => ImplementsAtomicCounter
<1>1. Init => Counter!Init
  BY InitCounter
<1>2. IInv /\ IInv' /\ [Next]_vars => [Counter!Next]_(Counter!counterVars)
  <2> SUFFICES ASSUME IInv, IInv', [Next]_vars
               PROVE  [Counter!Next]_(Counter!counterVars)
    OBVIOUS
  <2>1. ASSUME NEW t \in Thread, Step(t)
        PROVE  [Counter!Next]_(Counter!counterVars)
    BY <2>1, CsWriteIncrements, OthersStutter DEF Counter!Next
  <2>2. CASE UNCHANGED vars
    BY <2>2 DEF vars, Counter!counterVars, Additions, Pending
  <2> QED
    BY <2>1, <2>2 DEF Next, Exit
<1> QED
  BY <1>1, <1>2, Invariance, PTL DEF Spec, ImplementsAtomicCounter, Counter!Spec

=============================================================================
