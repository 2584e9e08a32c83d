--------------------------- MODULE DijkstraProofs ---------------------------
(***************************************************************************)
(* Dijkstra.cpp for any number of threads and rounds, on a sequentially    *)
(* consistent memory: every variable keeps its range, no two threads are   *)
(* in the critical section, and the counter counts atomically.             *)
(***************************************************************************)
EXTENDS Dijkstra, SharedMemoryProofs

\* The labels at which control[t] is known to be 1. (It may be 1 elsewhere: a failed
\* scan leaves it raised.)
Engaged == {"scan", "csRead", "csWrite", "retract", "lowerExit"}

\* A thread that scans, or has scanned with success, shows it to the others.
ControlRaised == \A t \in Thread : pc[t] \in Engaged => mem[Control(t)] = 1

\* t has raised control and found control[u] # 1 since; the scan goes up.
Past(t, u) ==
  \/ pc[t] = "scan" /\ j[t] > u
  \/ pc[t] \in Engaged \ {"scan"}

\* Of two threads at most one has got past the other.
NeverBothPast == \A t, u \in Thread : Past(t, u) /\ Past(u, t) => t = u

\* Nobody has changed the counter since t read it.
CounterKept == \A t \in Thread : pc[t] = "csWrite" => val[t] = mem[CounterLoc]

\* A scan starts at 0.
IndexReset == \A t \in Thread : pc[t] # "scan" => j[t] = 0

\* A thread that has not ended has a round left to finish.
RoundsLeft == \A t \in Thread : pc[t] # "done" => rounds[t] < NLOOP

\* The inductive invariant: MutualExclusion needs NeverBothPast, that needs what
\* control[t] says of t and where a scan starts, and the counter needs what a round
\* has read.
IInv ==
  /\ BuffersEmpty
  /\ TypeOK
  /\ ControlRaised
  /\ NeverBothPast
  /\ CounterKept
  /\ IndexReset
  /\ RoundsLeft

-----------------------------------------------------------------------------

\* No two shared variables, and no two cells of an array, are one location.
LEMMA LocationsApart ==
  ASSUME NEW t \in Thread, NEW u \in Thread
  PROVE  /\ Selected(t) \in Location /\ Control(t) \in Location
         /\ K \in Location /\ CounterLoc \in Location
         /\ Selected(t) # Control(u) /\ Selected(t) # K /\ Selected(t) # CounterLoc
         /\ Control(t) # K /\ Control(t) # CounterLoc /\ K # CounterLoc
         /\ t # u => Selected(t) # Selected(u) /\ Control(t) # Control(u)
  BY DEF Selected, Control, K, CounterLoc, Location

\* The threads are numbered from 0 without a gap.
LEMMA ConstantFacts ==
  /\ 0 \in Thread
  /\ Thread \subseteq Nat
  /\ N \in Nat /\ NLOOP \in Nat
  /\ \A t \in Thread : t <= N - 1 /\ (t + 1 # N => t + 1 \in Thread)
  BY ConstantsAssumption

\* The invariant holds at the start.
LEMMA InitIInv == ASSUME Init PROVE IInv
<1> USE ConstantsAssumption, BufferSizeAssumption
<1>1. BuffersEmpty
  BY DEF Init, MemInit, BuffersEmpty
<1>2. SharedOK
  BY <1>1, LocationsApart DEF Init, MemInit, SharedOK, MemTypeOK, BuffersEmpty
<1>3. LocalsOK
  BY DEF Init, LocalsOK, Label
<1> QED
  BY <1>1, <1>2, <1>3 DEF Init, IInv, TypeOK, ControlRaised, Engaged, NeverBothPast, Past,
                    CounterKept, IndexReset, RoundsLeft

\* A write that keeps to the range of its location keeps the memory well typed.
LEMMA WriteSharedOK ==
  ASSUME SharedOK, NEW t \in Thread, NEW a, NEW v, buf' = buf,
         mem' = [mem EXCEPT ![a] = v],
         \/ a = Selected(t) /\ v \in {0, 1}
         \/ a = Control(t) /\ v \in {0, 1}
         \/ a = K /\ v \in Thread
         \/ a = CounterLoc /\ v \in Nat
  PROVE  SharedOK'
<1> USE ConstantsAssumption
<1>0. a \in Location /\ v \in Int
  BY LocationsApart
<1>1. MemTypeOK(Location)'
  BY <1>0 DEF SharedOK, MemTypeOK
<1>2. ASSUME NEW u \in Thread
      PROVE  mem'[Selected(u)] \in {0, 1} /\ mem'[Control(u)] \in {0, 1}
  BY LocationsApart DEF SharedOK, MemTypeOK
<1>3. mem'[K] \in Thread /\ mem'[CounterLoc] \in Nat
  BY LocationsApart DEF SharedOK, MemTypeOK
<1> QED
  BY <1>1, <1>2, <1>3 DEF SharedOK

\* A step that writes nothing keeps the memory well typed.
LEMMA ReadSharedOK ==
  ASSUME SharedOK, mem' = mem, buf' = buf
  PROVE  SharedOK'
  BY DEF SharedOK, MemTypeOK

\* A step that brings nobody past another keeps NeverBothPast.
LEMMA NobodyPasses ==
  ASSUME NeverBothPast,
         \A u, v \in Thread : Past(u, v)' => Past(u, v)
  PROVE  NeverBothPast'
  BY DEF NeverBothPast

-----------------------------------------------------------------------------
(* Each step keeps the invariant *)

\* Only selected changes.
LEMMA AnnounceIInv ==
  ASSUME BufferSize = 0, IInv, NEW t \in Thread, Announce(t)
  PROVE  IInv'
<1>1. /\ mem' = [mem EXCEPT ![Selected(t)] = 1]
      /\ buf' = buf
      /\ BuffersEmpty'
  BY StoreWritesMemory DEF Announce, IInv
<1>2. SharedOK'
  BY <1>1, WriteSharedOK DEF IInv, TypeOK
<1>3. LocalsOK'
  BY DEF Announce, Goto, IInv, TypeOK, LocalsOK, Label
<1>4. ControlRaised'
  BY <1>1, LocationsApart
  DEF Announce, Goto, IInv, TypeOK, LocalsOK, SharedOK, MemTypeOK, ControlRaised, Engaged
<1>5. NeverBothPast'
  <2>1. ASSUME NEW u \in Thread, NEW v \in Thread, Past(u, v)'
        PROVE  Past(u, v)
    BY <2>1 DEF Announce, Goto, IInv, TypeOK, LocalsOK, Past, Engaged
  <2> QED
    BY <2>1, NobodyPasses DEF IInv
<1>6. CounterKept' /\ IndexReset' /\ RoundsLeft'
  BY <1>1, LocationsApart
  DEF Announce, Goto, IInv, TypeOK, LocalsOK, SharedOK, MemTypeOK, CounterKept,
      IndexReset, RoundsLeft
<1> QED
  BY <1>1, <1>2, <1>3, <1>4, <1>5, <1>6 DEF IInv, TypeOK

\* A test of k.
LEMMA CheckTurnIInv ==
  ASSUME BufferSize = 0, IInv, NEW t \in Thread, CheckTurn(t)
  PROVE  IInv'
<1>1. /\ mem' = mem
      /\ buf' = buf
      /\ BuffersEmpty'
  BY DEF CheckTurn, IInv, BuffersEmpty
<1>2. SharedOK'
  BY <1>1, ReadSharedOK DEF IInv, TypeOK
<1>3. LocalsOK'
  BY DEF CheckTurn, Goto, IInv, TypeOK, LocalsOK, Label
<1>4. ControlRaised'
  BY <1>1 DEF CheckTurn, Goto, IInv, TypeOK, LocalsOK, ControlRaised, Engaged
<1>5. NeverBothPast'
  <2>1. ASSUME NEW u \in Thread, NEW v \in Thread, Past(u, v)'
        PROVE  Past(u, v)
    BY <2>1 DEF CheckTurn, Goto, IInv, TypeOK, LocalsOK, Past, Engaged
  <2> QED
    BY <2>1, NobodyPasses DEF IInv
<1>6. CounterKept' /\ IndexReset' /\ RoundsLeft'
  BY <1>1 DEF CheckTurn, Goto, IInv, TypeOK, LocalsOK, CounterKept, IndexReset, RoundsLeft
<1> QED
  BY <1>1, <1>2, <1>3, <1>4, <1>5, <1>6 DEF IInv, TypeOK

\* t lowers control outside the scan, where no claim rests on it.
LEMMA LowerIInv ==
  ASSUME BufferSize = 0, IInv, NEW t \in Thread, Lower(t)
  PROVE  IInv'
<1>1. /\ mem' = [mem EXCEPT ![Control(t)] = 0]
      /\ buf' = buf
      /\ BuffersEmpty'
  BY StoreWritesMemory DEF Lower, IInv
<1>2. SharedOK'
  BY <1>1, WriteSharedOK DEF IInv, TypeOK
<1>3. LocalsOK'
  BY DEF Lower, Goto, IInv, TypeOK, LocalsOK, Label
<1>4. ControlRaised'
  BY <1>1, LocationsApart
  DEF Lower, Goto, IInv, TypeOK, LocalsOK, SharedOK, MemTypeOK, ControlRaised, Engaged
<1>5. NeverBothPast'
  <2>1. ASSUME NEW u \in Thread, NEW v \in Thread, Past(u, v)'
        PROVE  Past(u, v)
    BY <2>1 DEF Lower, Goto, IInv, TypeOK, LocalsOK, Past, Engaged
  <2> QED
    BY <2>1, NobodyPasses DEF IInv
<1>6. CounterKept' /\ IndexReset' /\ RoundsLeft'
  BY <1>1, LocationsApart
  DEF Lower, Goto, IInv, TypeOK, LocalsOK, SharedOK, MemTypeOK, CounterKept, IndexReset,
      RoundsLeft
<1> QED
  BY <1>1, <1>2, <1>3, <1>4, <1>5, <1>6 DEF IInv, TypeOK

\* k is a thread, so the index of selected is in range.
LEMMA ReadTurnIInv ==
  ASSUME BufferSize = 0, IInv, NEW t \in Thread, ReadTurn(t)
  PROVE  IInv'
<1>1. /\ mem' = mem
      /\ buf' = buf
      /\ BuffersEmpty'
      /\ Load(t, K) = mem[K]
  BY LoadReadsMemory DEF ReadTurn, IInv, BuffersEmpty
<1>2. SharedOK'
  BY <1>1, ReadSharedOK DEF IInv, TypeOK
<1>3. LocalsOK'
  BY <1>1 DEF ReadTurn, Goto, IInv, TypeOK, LocalsOK, Label, SharedOK
<1>4. ControlRaised'
  BY <1>1 DEF ReadTurn, Goto, IInv, TypeOK, LocalsOK, ControlRaised, Engaged
<1>5. NeverBothPast'
  <2>1. ASSUME NEW u \in Thread, NEW v \in Thread, Past(u, v)'
        PROVE  Past(u, v)
    BY <2>1 DEF ReadTurn, Goto, IInv, TypeOK, LocalsOK, Past, Engaged
  <2> QED
    BY <2>1, NobodyPasses DEF IInv
<1>6. CounterKept' /\ IndexReset' /\ RoundsLeft'
  BY <1>1 DEF ReadTurn, Goto, IInv, TypeOK, LocalsOK, CounterKept, IndexReset, RoundsLeft
<1> QED
  BY <1>1, <1>2, <1>3, <1>4, <1>5, <1>6 DEF IInv, TypeOK

\* A test of selected.
LEMMA ReadSelectedIInv ==
  ASSUME BufferSize = 0, IInv, NEW t \in Thread, ReadSelected(t)
  PROVE  IInv'
<1>1. /\ mem' = mem
      /\ buf' = buf
      /\ BuffersEmpty'
  BY DEF ReadSelected, IInv, BuffersEmpty
<1>2. SharedOK'
  BY <1>1, ReadSharedOK DEF IInv, TypeOK
<1>3. LocalsOK'
  <2>1. pc' \in [Thread -> Label]
    BY DEF ReadSelected, Goto, IInv, TypeOK, LocalsOK, Label
  <2>2. turn' \in [Thread -> Thread]
    BY ConstantFacts DEF ReadSelected, IInv, TypeOK, LocalsOK
  <2> QED
    BY <2>1, <2>2 DEF ReadSelected, IInv, TypeOK, LocalsOK
<1>4. ControlRaised'
  BY <1>1 DEF ReadSelected, Goto, IInv, TypeOK, LocalsOK, ControlRaised, Engaged
<1>5. NeverBothPast'
  <2>1. ASSUME NEW u \in Thread, NEW v \in Thread, Past(u, v)'
        PROVE  Past(u, v)
    BY <2>1 DEF ReadSelected, Goto, IInv, TypeOK, LocalsOK, Past, Engaged
  <2> QED
    BY <2>1, NobodyPasses DEF IInv
<1>6. CounterKept' /\ IndexReset' /\ RoundsLeft'
  BY <1>1
  DEF ReadSelected, Goto, IInv, TypeOK, LocalsOK, CounterKept, IndexReset, RoundsLeft
<1> QED
  BY <1>1, <1>2, <1>3, <1>4, <1>5, <1>6 DEF IInv, TypeOK

\* Only k changes.
LEMMA TakeTurnIInv ==
  ASSUME BufferSize = 0, IInv, NEW t \in Thread, TakeTurn(t)
  PROVE  IInv'
<1>1. /\ mem' = [mem EXCEPT ![K] = t]
      /\ buf' = buf
      /\ BuffersEmpty'
  BY StoreWritesMemory DEF TakeTurn, IInv
<1>2. SharedOK'
  BY <1>1, WriteSharedOK DEF IInv, TypeOK
<1>3. LocalsOK'
  BY DEF TakeTurn, Goto, IInv, TypeOK, LocalsOK, Label
<1>4. ControlRaised'
  BY <1>1, LocationsApart
  DEF TakeTurn, Goto, IInv, TypeOK, LocalsOK, SharedOK, MemTypeOK, ControlRaised, Engaged
<1>5. NeverBothPast'
  <2>1. ASSUME NEW u \in Thread, NEW v \in Thread, Past(u, v)'
        PROVE  Past(u, v)
    BY <2>1 DEF TakeTurn, Goto, IInv, TypeOK, LocalsOK, Past, Engaged
  <2> QED
    BY <2>1, NobodyPasses DEF IInv
<1>6. CounterKept' /\ IndexReset' /\ RoundsLeft'
  BY <1>1, LocationsApart
  DEF TakeTurn, Goto, IInv, TypeOK, LocalsOK, SharedOK, MemTypeOK, CounterKept,
      IndexReset, RoundsLeft
<1> QED
  BY <1>1, <1>2, <1>3, <1>4, <1>5, <1>6 DEF IInv, TypeOK

\* control[t] is raised before the scan, which starts at 0.
LEMMA RaiseIInv ==
  ASSUME BufferSize = 0, IInv, NEW t \in Thread, Raise(t)
  PROVE  IInv'
<1>1. /\ mem' = [mem EXCEPT ![Control(t)] = 1]
      /\ buf' = buf
      /\ BuffersEmpty'
  BY StoreWritesMemory DEF Raise, IInv
<1>2. SharedOK'
  BY <1>1, WriteSharedOK DEF IInv, TypeOK
<1>3. LocalsOK'
  BY DEF Raise, Goto, IInv, TypeOK, LocalsOK, Label
<1>4. ControlRaised'
  BY <1>1, LocationsApart
  DEF Raise, Goto, IInv, TypeOK, LocalsOK, SharedOK, MemTypeOK, ControlRaised, Engaged
<1>5. NeverBothPast'
  <2>1. ASSUME NEW u \in Thread, NEW v \in Thread, Past(u, v)'
        PROVE  Past(u, v)
    BY <2>1, ConstantFacts
    DEF Raise, Goto, IInv, TypeOK, LocalsOK, IndexReset, Past, Engaged
  <2> QED
    BY <2>1, NobodyPasses DEF IInv
<1>6. CounterKept' /\ IndexReset' /\ RoundsLeft'
  BY <1>1, LocationsApart
  DEF Raise, Goto, IInv, TypeOK, LocalsOK, SharedOK, MemTypeOK, CounterKept, IndexReset,
      RoundsLeft
<1> QED
  BY <1>1, <1>2, <1>3, <1>4, <1>5, <1>6 DEF IInv, TypeOK

\* t passes j[t] only if control[j[t]] is not 1, so j[t] has not passed t.
LEMMA ScanIInv ==
  ASSUME BufferSize = 0, IInv, NEW t \in Thread, Scan(t)
  PROVE  IInv'
<1>1. /\ mem' = mem
      /\ buf' = buf
      /\ BuffersEmpty'
      /\ Load(t, Control(j[t])) = mem[Control(j[t])]
  BY LoadReadsMemory DEF Scan, ScanUpTo, IInv, BuffersEmpty
<1>2. SharedOK'
  BY <1>1, ReadSharedOK DEF IInv, TypeOK
<1>3. LocalsOK'
  <2>1. pc' \in [Thread -> Label]
    BY DEF Scan, ScanUpTo, Goto, IInv, TypeOK, LocalsOK, Label
  <2>2. j' \in [Thread -> Thread]
    BY ConstantFacts DEF Scan, ScanUpTo, IInv, TypeOK, LocalsOK
  <2> QED
    BY <2>1, <2>2 DEF Scan, ScanUpTo, IInv, TypeOK, LocalsOK
<1>4. ControlRaised'
  BY <1>1 DEF Scan, ScanUpTo, Goto, IInv, TypeOK, LocalsOK, ControlRaised, Engaged
<1>5. NeverBothPast'
  <2>1. ASSUME NEW u \in Thread, NEW v \in Thread, Past(u, v)'
        PROVE  Past(u, v) \/ (u = t /\ v = j[t] /\ (v = t \/ mem[Control(v)] # 1))
    <3>1. CASE u = t
      <4>1. /\ pc[t] = "scan"
            /\ pc'[t] = "csRead" \/ (pc'[t] = "scan" /\ j'[t] > v)
        BY <2>1, <3>1 DEF Scan, ScanUpTo, Goto, IInv, TypeOK, LocalsOK, Past, Engaged
      <4>2. j[t] = t \/ mem[Control(j[t])] # 1
        BY <1>1, <4>1 DEF Scan, ScanUpTo, Goto, IInv, TypeOK, LocalsOK
      <4>3. j[t] \in Nat /\ v \in Nat
        BY ConstantFacts DEF IInv, TypeOK, LocalsOK
      <4>4. CASE pc'[t] = "csRead"
        <5>1. j[t] + 1 = N
          BY <4>4 DEF Scan, ScanUpTo, Goto, IInv, TypeOK, LocalsOK
        <5>2. v <= j[t]
          BY <4>3, <5>1, ConstantFacts
        <5> QED
          BY <3>1, <4>1, <4>2, <4>3, <5>2 DEF Past
      <4>5. CASE pc'[t] = "scan" /\ j'[t] > v
        <5>1. j'[t] = j[t] + 1 \/ j'[t] = 0
          BY DEF Scan, ScanUpTo, IInv, TypeOK, LocalsOK
        <5>2. v <= j[t]
          BY <4>3, <4>5, <5>1
        <5> QED
          BY <3>1, <4>1, <4>2, <4>3, <5>2 DEF Past
      <4> QED
        BY <4>1, <4>4, <4>5
    <3>2. CASE u # t
      BY <2>1, <3>2 DEF Scan, ScanUpTo, Goto, IInv, TypeOK, LocalsOK, Past, Engaged
    <3> QED
      BY <3>1, <3>2
  <2>2. ASSUME NEW u \in Thread, NEW v \in Thread, Past(u, v)
        PROVE  mem[Control(u)] = 1
    BY <2>2 DEF IInv, ControlRaised, Past, Engaged
  <2> QED
    BY <2>1, <2>2 DEF IInv, NeverBothPast
<1>6. CounterKept' /\ IndexReset' /\ RoundsLeft'
  BY <1>1
  DEF Scan, ScanUpTo, Goto, IInv, TypeOK, LocalsOK, CounterKept, IndexReset, RoundsLeft
<1> QED
  BY <1>1, <1>2, <1>3, <1>4, <1>5, <1>6 DEF IInv, TypeOK

\* val[t] becomes the counter.
LEMMA CsReadIInv ==
  ASSUME BufferSize = 0, IInv, NEW t \in Thread, CsRead(t)
  PROVE  IInv'
<1>1. /\ mem' = mem
      /\ buf' = buf
      /\ BuffersEmpty'
      /\ Load(t, CounterLoc) = mem[CounterLoc]
  BY LoadReadsMemory DEF CsRead, IInv, BuffersEmpty
<1>2. SharedOK'
  BY <1>1, ReadSharedOK DEF IInv, TypeOK
<1>3. LocalsOK'
  BY <1>1 DEF CsRead, Goto, IInv, TypeOK, LocalsOK, Label, SharedOK
<1>4. ControlRaised'
  BY <1>1 DEF CsRead, Goto, IInv, TypeOK, LocalsOK, ControlRaised, Engaged
<1>5. NeverBothPast'
  <2>1. ASSUME NEW u \in Thread, NEW v \in Thread, Past(u, v)'
        PROVE  Past(u, v)
    BY <2>1 DEF CsRead, Goto, IInv, TypeOK, LocalsOK, Past, Engaged
  <2> QED
    BY <2>1, NobodyPasses DEF IInv
<1>6. CounterKept' /\ IndexReset' /\ RoundsLeft'
  BY <1>1 DEF CsRead, Goto, IInv, TypeOK, LocalsOK, CounterKept, IndexReset, RoundsLeft
<1> QED
  BY <1>1, <1>2, <1>3, <1>4, <1>5, <1>6 DEF IInv, TypeOK

\* Nobody else is between its load and its store.
LEMMA CsWriteIInv ==
  ASSUME BufferSize = 0, IInv, NEW t \in Thread, CsWrite(t)
  PROVE  IInv'
<1>1. /\ mem' = [mem EXCEPT ![CounterLoc] = val[t] + 1]
      /\ buf' = buf
      /\ BuffersEmpty'
  BY StoreWritesMemory DEF CsWrite, IInv
<1>2. SharedOK'
  <2>1. val[t] + 1 \in Nat
    BY DEF IInv, TypeOK, LocalsOK
  <2> QED
    BY <1>1, <2>1, WriteSharedOK DEF IInv, TypeOK
<1>3. LocalsOK'
  BY DEF CsWrite, Goto, IInv, TypeOK, LocalsOK, Label
<1>4. ControlRaised'
  BY <1>1, LocationsApart
  DEF CsWrite, Goto, IInv, TypeOK, LocalsOK, SharedOK, MemTypeOK, ControlRaised, Engaged
<1>5. NeverBothPast'
  <2>1. ASSUME NEW u \in Thread, NEW v \in Thread, Past(u, v)'
        PROVE  Past(u, v)
    BY <2>1 DEF CsWrite, Goto, IInv, TypeOK, LocalsOK, Past, Engaged
  <2> QED
    BY <2>1, NobodyPasses DEF IInv
<1>6. CounterKept'
  <2>1. \A u \in Thread : pc[u] = "csWrite" => u = t
    BY DEF CsWrite, Goto, IInv, NeverBothPast, Past, Engaged
  <2> QED
    BY <1>1, <2>1 DEF CsWrite, Goto, IInv, TypeOK, LocalsOK, CounterKept
<1>7. IndexReset' /\ RoundsLeft'
  BY DEF CsWrite, Goto, IInv, TypeOK, LocalsOK, IndexReset, RoundsLeft
<1> QED
  BY <1>1, <1>2, <1>3, <1>4, <1>5, <1>6, <1>7 DEF IInv, TypeOK

\* Only selected changes.
LEMMA RetractIInv ==
  ASSUME BufferSize = 0, IInv, NEW t \in Thread, Retract(t)
  PROVE  IInv'
<1>1. /\ mem' = [mem EXCEPT ![Selected(t)] = 0]
      /\ buf' = buf
      /\ BuffersEmpty'
  BY StoreWritesMemory DEF Retract, IInv
<1>2. SharedOK'
  BY <1>1, WriteSharedOK DEF IInv, TypeOK
<1>3. LocalsOK'
  BY DEF Retract, Goto, IInv, TypeOK, LocalsOK, Label
<1>4. ControlRaised'
  BY <1>1, LocationsApart
  DEF Retract, Goto, IInv, TypeOK, LocalsOK, SharedOK, MemTypeOK, ControlRaised, Engaged
<1>5. NeverBothPast'
  <2>1. ASSUME NEW u \in Thread, NEW v \in Thread, Past(u, v)'
        PROVE  Past(u, v)
    BY <2>1 DEF Retract, Goto, IInv, TypeOK, LocalsOK, Past, Engaged
  <2> QED
    BY <2>1, NobodyPasses DEF IInv
<1>6. CounterKept' /\ IndexReset' /\ RoundsLeft'
  BY <1>1, LocationsApart
  DEF Retract, Goto, IInv, TypeOK, LocalsOK, SharedOK, MemTypeOK, CounterKept,
      IndexReset, RoundsLeft
<1> QED
  BY <1>1, <1>2, <1>3, <1>4, <1>5, <1>6 DEF IInv, TypeOK

\* t lowers control with its round.
LEMMA LowerExitIInv ==
  ASSUME BufferSize = 0, IInv, NEW t \in Thread, LowerExit(t)
  PROVE  IInv'
<1>1. /\ mem' = [mem EXCEPT ![Control(t)] = 0]
      /\ buf' = buf
      /\ BuffersEmpty'
  BY StoreWritesMemory DEF LowerExit, IInv
<1>2. SharedOK'
  BY <1>1, WriteSharedOK DEF IInv, TypeOK
<1>3. LocalsOK'
  <2>1. pc' \in [Thread -> Label]
    BY DEF LowerExit, Goto, IInv, TypeOK, LocalsOK, Label
  <2>2. rounds' \in [Thread -> 0..NLOOP]
    BY ConstantFacts DEF LowerExit, Goto, IInv, TypeOK, LocalsOK, RoundsLeft
  <2> QED
    BY <2>1, <2>2 DEF LowerExit, IInv, TypeOK, LocalsOK
<1>4. ControlRaised'
  BY <1>1, LocationsApart
  DEF LowerExit, Goto, IInv, TypeOK, LocalsOK, SharedOK, MemTypeOK, ControlRaised, Engaged
<1>5. NeverBothPast'
  <2>1. ASSUME NEW u \in Thread, NEW v \in Thread, Past(u, v)'
        PROVE  Past(u, v)
    BY <2>1 DEF LowerExit, Goto, IInv, TypeOK, LocalsOK, Past, Engaged
  <2> QED
    BY <2>1, NobodyPasses DEF IInv
<1>6. CounterKept'
  BY <1>1, LocationsApart
  DEF LowerExit, Goto, IInv, TypeOK, LocalsOK, SharedOK, MemTypeOK, CounterKept
<1>7. IndexReset' /\ RoundsLeft'
  BY ConstantFacts DEF LowerExit, Goto, IInv, TypeOK, LocalsOK, IndexReset, RoundsLeft
<1> QED
  BY <1>1, <1>2, <1>3, <1>4, <1>5, <1>6, <1>7 DEF IInv, TypeOK

\* A step that changes nothing keeps the invariant.
LEMMA StutterIInv ==
  ASSUME IInv, UNCHANGED vars
  PROVE  IInv'
<1>1. BuffersEmpty' /\ SharedOK'
  BY ReadSharedOK DEF vars, IInv, TypeOK, BuffersEmpty
<1> QED
  BY <1>1
  DEF vars, IInv, TypeOK, LocalsOK, ControlRaised, NeverBothPast, Past, CounterKept,
              IndexReset, RoundsLeft

\* The invariant is inductive.
LEMMA StepIInv ==
  ASSUME BufferSize = 0, IInv, [Next]_vars
  PROVE  IInv'
<1>1. ASSUME NEW t \in Thread, Step(t)
      PROVE  IInv'
  BY <1>1, AnnounceIInv, CheckTurnIInv, LowerIInv, ReadTurnIInv, ReadSelectedIInv,
     TakeTurnIInv, RaiseIInv, ScanIInv, CsReadIInv, CsWriteIInv, RetractIInv, LowerExitIInv
  DEF Step
<1>2. CASE UNCHANGED vars
  BY <1>2, StutterIInv
<1> QED
  BY <1>1, <1>2 DEF Next, Exit

-----------------------------------------------------------------------------
(* The properties of the runs *)

\* IInv holds in every reachable state.
THEOREM Invariance == ASSUME BufferSize = 0 PROVE Spec => []IInv
<1>1. Init => IInv
  BY InitIInv
<1>2. IInv /\ [Next]_vars => IInv'
  BY StepIInv
<1> QED
  BY <1>1, <1>2, PTL DEF Spec

\* Every variable keeps its range: selected[k] and control[j] are never read outside
\* the arrays.
THEOREM TypeCorrect == ASSUME BufferSize = 0 PROVE Spec => []TypeOK
<1>1. IInv => TypeOK
  BY DEF IInv
<1> QED
  BY <1>1, Invariance, PTL

\* No two threads are between the load and the store of counter.
THEOREM MutuallyExclusive == ASSUME BufferSize = 0 PROVE Spec => []MutualExclusion
<1>1. IInv => MutualExclusion
  BY DEF IInv, NeverBothPast, Past, Engaged, MutualExclusion, InCS
<1> QED
  BY <1>1, Invariance, PTL

-----------------------------------------------------------------------------
(* The counter counts *)

\* The additions of t when no store is pending: one for each round, and one more
\* between its store and the end of the round.
Made(t) == rounds[t] + (IF pc[t] \in {"retract", "lowerExit"} THEN 1 ELSE 0)

\* The refinement mapping needs no buffer.
LEMMA AdditionsMade == IInv => \A t \in Thread : Additions(t) = Made(t)
<1> SUFFICES ASSUME IInv, NEW t \in Thread
             PROVE  Additions(t) = Made(t)
  OBVIOUS
<1>1. Pending(t, CounterLoc) = 0
  BY NothingPending DEF IInv
<1>2. Made(t) \in Int
  BY ConstantFacts DEF IInv, TypeOK, LocalsOK, Made
<1> QED
  BY <1>1, <1>2 DEF Additions, Made

\* The same in the next state.
LEMMA AdditionsMadeNext == IInv' => \A t \in Thread : Additions(t)' = Made(t)'
<1>1. (IInv => \A t \in Thread : Additions(t) = Made(t))'
  BY AdditionsMade, PTL
<1> QED
  BY <1>1

\* Nothing has been added at the start.
LEMMA InitCounter == ASSUME Init PROVE Counter!Init
<1>1. ASSUME NEW t \in Thread
      PROVE  NLOOP - Additions(t) = NLOOP
  BY InitIInv, AdditionsMade, ConstantFacts DEF Init, Made
<1> QED
  BY <1>1, LocationsApart, ConstantFacts DEF Counter!Init, Init, MemInit

\* CsWrite(t) is the addition of t.
LEMMA CsWriteIncrements ==
  ASSUME BufferSize = 0, IInv, IInv', NEW t \in Thread, CsWrite(t)
  PROVE  Counter!Increment(t)
<1>1. mem'[CounterLoc] = mem[CounterLoc] + 1
  <2>1. mem' = [mem EXCEPT ![CounterLoc] = val[t] + 1]
    BY StoreWritesMemory DEF CsWrite, IInv
  <2> QED
    BY <2>1, LocationsApart
    DEF CsWrite, Goto, IInv, TypeOK, SharedOK, MemTypeOK, CounterKept
<1>2. Additions(t) = rounds[t] /\ Additions(t)' = rounds[t] + 1
  BY AdditionsMade, AdditionsMadeNext, ConstantFacts
  DEF CsWrite, Goto, IInv, TypeOK, LocalsOK, Made
<1>3. ASSUME NEW u \in Thread, u # t
      PROVE  Additions(u)' = Additions(u)
  BY <1>3, AdditionsMade, AdditionsMadeNext
  DEF CsWrite, Goto, IInv, TypeOK, LocalsOK, Made
<1>4. rounds[t] < NLOOP /\ rounds[t] \in Nat
  BY DEF CsWrite, Goto, IInv, TypeOK, LocalsOK, RoundsLeft
<1> QED
  <2>1. NLOOP - Additions(t) > 0
    BY <1>2, <1>4, ConstantFacts
  <2>2. [u \in Thread |-> NLOOP - Additions(u)]'
          = [[u \in Thread |-> NLOOP - Additions(u)] EXCEPT ![t] = @ - 1]
    <3>1. NLOOP - Additions(t)' = (NLOOP - Additions(t)) - 1
      BY <1>2, <1>4, ConstantFacts
    <3> QED
      BY <1>3, <3>1
  <2> QED
    BY <1>1, <2>1, <2>2 DEF Counter!Increment

\* Every other step leaves the counter and the additions as they are.
LEMMA OthersStutter ==
  ASSUME BufferSize = 0, IInv, IInv', NEW t \in Thread, Step(t), ~CsWrite(t)
  PROVE  UNCHANGED Counter!counterVars
<1>1. mem'[CounterLoc] = mem[CounterLoc]
  <2>1. ASSUME NEW a, NEW v, Store(t, a, v), a # CounterLoc
        PROVE  mem'[CounterLoc] = mem[CounterLoc]
    BY <2>1, StoreWritesMemory, LocationsApart DEF IInv, TypeOK, SharedOK, MemTypeOK
  <2>2. CASE Announce(t)
    BY <2>1, <2>2, LocationsApart DEF Announce
  <2>3. CASE Lower(t)
    BY <2>1, <2>3, LocationsApart DEF Lower
  <2>4. CASE TakeTurn(t)
    BY <2>1, <2>4, LocationsApart DEF TakeTurn
  <2>5. CASE Raise(t)
    BY <2>1, <2>5, LocationsApart DEF Raise
  <2>6. CASE Retract(t)
    BY <2>1, <2>6, LocationsApart DEF Retract
  <2>7. CASE LowerExit(t)
    BY <2>1, <2>7, LocationsApart DEF LowerExit
  <2>8. CASE CheckTurn(t) \/ ReadTurn(t) \/ ReadSelected(t) \/ Scan(t) \/ CsRead(t)
    BY <2>8 DEF CheckTurn, ReadTurn, ReadSelected, Scan, ScanUpTo, CsRead
  <2> QED
    BY <2>2, <2>3, <2>4, <2>5, <2>6, <2>7, <2>8 DEF Step
<1>2. ASSUME NEW u \in Thread
      PROVE  Made(u)' = Made(u)
  <2>1. CASE Announce(t)
    BY <2>1 DEF Announce, Goto, IInv, TypeOK, LocalsOK, Made
  <2>2. CASE CheckTurn(t)
    BY <2>2 DEF CheckTurn, Goto, IInv, TypeOK, LocalsOK, Made
  <2>3. CASE Lower(t)
    BY <2>3 DEF Lower, Goto, IInv, TypeOK, LocalsOK, Made
  <2>4. CASE ReadTurn(t)
    BY <2>4 DEF ReadTurn, Goto, IInv, TypeOK, LocalsOK, Made
  <2>5. CASE ReadSelected(t)
    BY <2>5 DEF ReadSelected, Goto, IInv, TypeOK, LocalsOK, Made
  <2>6. CASE TakeTurn(t)
    BY <2>6 DEF TakeTurn, Goto, IInv, TypeOK, LocalsOK, Made
  <2>7. CASE Raise(t)
    BY <2>7 DEF Raise, Goto, IInv, TypeOK, LocalsOK, Made
  <2>8. CASE Scan(t)
    BY <2>8 DEF Scan, ScanUpTo, Goto, IInv, TypeOK, LocalsOK, Made
  <2>9. CASE CsRead(t)
    BY <2>9 DEF CsRead, Goto, IInv, TypeOK, LocalsOK, Made
  <2>10. CASE Retract(t)
    BY <2>10 DEF Retract, Goto, IInv, TypeOK, LocalsOK, Made
  <2>11. CASE LowerExit(t)
    BY <2>11, ConstantFacts DEF LowerExit, Goto, IInv, TypeOK, LocalsOK, Made
  <2> QED
    BY <2>1, <2>2, <2>3, <2>4, <2>5, <2>6, <2>7, <2>8, <2>9, <2>10, <2>11 DEF Step
<1> QED
  BY <1>1, <1>2, AdditionsMade, AdditionsMadeNext DEF Counter!counterVars

\* A thread's store of counter is an atomic addition and no other step touches the
\* count: no update is lost, for any number of threads and rounds.
THEOREM CounterRefined == ASSUME BufferSize = 0 PROVE Spec => ImplementsAtomicCounter
<1>1. Init => Counter!Init
  BY InitCounter
<1>2. IInv /\ IInv' /\ [Next]_vars => [Counter!Next]_(Counter!counterVars)
  <2> SUFFICES ASSUME IInv, IInv', [Next]_vars
               PROVE  [Counter!Next]_(Counter!counterVars)
    OBVIOUS
  <2>1. ASSUME NEW t \in Thread, Step(t)
        PROVE  [Counter!Next]_(Counter!counterVars)
    BY <2>1, CsWriteIncrements, OthersStutter DEF Counter!Next
  <2>2. CASE UNCHANGED vars
    BY <2>2 DEF vars, Counter!counterVars, Additions, Pending
  <2> QED
    BY <2>1, <2>2 DEF Next, Exit
<1> QED
  BY <1>1, <1>2, Invariance, PTL DEF Spec, ImplementsAtomicCounter, Counter!Spec

=============================================================================
