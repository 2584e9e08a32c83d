---------------------------- MODULE KnuthProofs -----------------------------
(***************************************************************************)
(* Knuth.cpp for any number of threads and rounds, on a sequentially       *)
(* consistent memory: every variable keeps its range, no two threads are   *)
(* in the critical section, and the counter counts atomically.             *)
(***************************************************************************)
EXTENDS Knuth, SharedMemoryProofs

\* The labels at which control[t] is 2. (It still is when a failed scan has sent
\* t back to "ask".)
Claimed == {"scan", "takeTurn", "csRead", "csWrite", "passTurn", "lower"}

ControlClaimed == \A t \in Thread : pc[t] \in Claimed => mem[Control(t)] = 2

\* t has claimed and found control[u] # 2 since; the scan goes down.
Past(t, u) ==
  \/ pc[t] = "scan" /\ j[t] < u
  \/ pc[t] \in Claimed \ {"scan"}

\* Of two threads at most one has got past the other.
NeverBothPast == \A t, u \in Thread : Past(t, u) /\ Past(u, t) => t = u

\* Nobody has changed the counter since t read it.
CounterKept == \A t \in Thread : pc[t] = "csWrite" => val[t] = mem[CounterLoc]

\* A thread that has not ended has a round left to finish.
RoundsLeft == \A t \in Thread : pc[t] # "done" => rounds[t] < NLOOP

\* The inductive invariant: MutualExclusion needs NeverBothPast, that needs what
\* control[t] says of t, and the counter needs what a round has read.
IInv ==
  /\ BuffersEmpty
  /\ TypeOK
  /\ ControlClaimed
  /\ NeverBothPast
  /\ CounterKept
  /\ RoundsLeft

-----------------------------------------------------------------------------

\* No two shared variables, and no two cells of control, are one location.
LEMMA LocationsApart ==
  ASSUME NEW t \in Thread, NEW u \in Thread
  PROVE  /\ Control(t) \in Location /\ K \in Location /\ CounterLoc \in Location
         /\ Control(t) # K /\ Control(t) # CounterLoc /\ K # CounterLoc
         /\ t # u => Control(t) # Control(u)
  BY DEF Control, K, CounterLoc, Location

\* The threads are numbered from 0 and the ring closes.
LEMMA ConstantFacts ==
  /\ 0 \in Thread /\ N - 1 \in Thread
  /\ Thread \subseteq Nat
  /\ N \in Nat /\ NLOOP \in Nat
  /\ \A t \in Thread : t <= N - 1 /\ Pred(t) \in Thread /\ (t # 0 => t - 1 \in Thread)
  BY ConstantsAssumption DEF Pred

\* The invariant holds at the start.
LEMMA InitIInv == ASSUME Init PROVE IInv
<1>1. BuffersEmpty
  BY DEF Init, MemInit, BuffersEmpty
<1>2. SharedOK
  BY <1>1, LocationsApart, ConstantFacts, BufferSizeAssumption
  DEF Init, MemInit, SharedOK, MemTypeOK, BuffersEmpty
<1>3. LocalsOK
  BY ConstantFacts DEF Init, LocalsOK, Label
<1>4. RoundsLeft
  BY ConstantsAssumption DEF Init, RoundsLeft
<1> QED
  BY <1>1, <1>2, <1>3, <1>4
  DEF Init, IInv, TypeOK, ControlClaimed, Claimed, NeverBothPast, Past,
                          CounterKept

\* A write that keeps to the range of its location keeps the memory well typed.
LEMMA WriteSharedOK ==
  ASSUME SharedOK, NEW t \in Thread, NEW a, NEW v, buf' = buf,
         mem' = [mem EXCEPT ![a] = v],
         \/ a = Control(t) /\ v \in {0, 1, 2}
         \/ a = K /\ v \in Thread
         \/ a = CounterLoc /\ v \in Nat
  PROVE  SharedOK'
<1>1. a \in Location /\ v \in Int
  <2>1. a \in Location
    BY LocationsApart
  <2>2. v \in Int
    <3>1. CASE v \in Thread
      BY <3>1, ConstantFacts
    <3>2. CASE v \in {0, 1, 2} \/ v \in Nat
      BY <3>2
    <3> QED
      BY <3>1, <3>2
  <2> QED
    BY <2>1, <2>2
<1>2. MemTypeOK(Location)'
  BY <1>1 DEF SharedOK, MemTypeOK
<1>3. ASSUME NEW u \in Thread
      PROVE  mem'[Control(u)] \in {0, 1, 2}
  BY LocationsApart DEF SharedOK, MemTypeOK
<1>4. mem'[K] \in Thread /\ mem'[CounterLoc] \in Nat
  BY LocationsApart DEF SharedOK, MemTypeOK
<1> QED
  BY <1>2, <1>3, <1>4 DEF SharedOK

\* A step that writes nothing keeps the memory well typed.
LEMMA ReadSharedOK ==
  ASSUME SharedOK, mem' = mem, buf' = buf
  PROVE  SharedOK'
  BY DEF SharedOK, MemTypeOK

\* A step that brings nobody past another keeps NeverBothPast.
LEMMA NobodyPasses ==
  ASSUME NeverBothPast,
         \A u, v \in Thread : Past(u, v)' => Past(u, v)
  PROVE  NeverBothPast'
  BY DEF NeverBothPast

-----------------------------------------------------------------------------
(* Each step keeps the invariant *)

\* control[i] = 1 retracts no claim that counts: t is at the top of the loop.
LEMMA AskIInv ==
  ASSUME BufferSize = 0, IInv, NEW t \in Thread, Ask(t)
  PROVE  IInv'
<1>1. /\ mem' = [mem EXCEPT ![Control(t)] = 1]
      /\ buf' = buf
      /\ BuffersEmpty'
  BY StoreWritesMemory DEF Ask, IInv
<1>2. SharedOK'
  BY <1>1, WriteSharedOK DEF IInv, TypeOK
<1>3. LocalsOK'
  BY DEF Ask, Goto, IInv, TypeOK, LocalsOK, Label
<1>4. ControlClaimed'
  BY <1>1, LocationsApart
  DEF Ask, Goto, IInv, TypeOK, LocalsOK, SharedOK, MemTypeOK, ControlClaimed, Claimed
<1>5. NeverBothPast'
  <2>1. ASSUME NEW u \in Thread, NEW v \in Thread, Past(u, v)'
        PROVE  Past(u, v)
    BY <2>1 DEF Ask, Goto, IInv, TypeOK, LocalsOK, Past, Claimed
  <2> QED
    BY <2>1, NobodyPasses DEF IInv
<1>6. CounterKept' /\ RoundsLeft'
  BY <1>1, LocationsApart
  DEF Ask, Goto, IInv, TypeOK, LocalsOK, SharedOK, MemTypeOK, CounterKept, RoundsLeft
<1> QED
  BY <1>1, <1>2, <1>3, <1>4, <1>5, <1>6 DEF IInv, TypeOK

\* The search of t starts.
LEMMA ReadTurnIInv ==
  ASSUME BufferSize = 0, IInv, NEW t \in Thread, ReadTurn(t)
  PROVE  IInv'
<1>1. /\ mem' = mem
      /\ buf' = buf
      /\ BuffersEmpty'
      /\ Load(t, K) = mem[K]
  BY LoadReadsMemory DEF ReadTurn, IInv, BuffersEmpty
<1>2. SharedOK'
  BY <1>1, ReadSharedOK DEF IInv, TypeOK
<1>3. LocalsOK'
  <2>1. pc' \in [Thread -> Label]
    BY DEF ReadTurn, SearchFrom, Goto, IInv, TypeOK, LocalsOK, Label
  <2>2. j' \in [Thread -> Thread]
    BY <1>1, ConstantFacts DEF ReadTurn, SearchFrom, IInv, TypeOK, LocalsOK, SharedOK
  <2> QED
    BY <2>1, <2>2 DEF ReadTurn, SearchFrom, IInv, TypeOK, LocalsOK
<1>4. ControlClaimed'
  BY <1>1 DEF ReadTurn, SearchFrom, Goto, IInv, TypeOK, LocalsOK, ControlClaimed, Claimed
<1>5. NeverBothPast'
  <2>1. ASSUME NEW u \in Thread, NEW v \in Thread, Past(u, v)'
        PROVE  Past(u, v)
    BY <2>1 DEF ReadTurn, SearchFrom, Goto, IInv, TypeOK, LocalsOK, Past, Claimed
  <2> QED
    BY <2>1, NobodyPasses DEF IInv
<1>6. CounterKept' /\ RoundsLeft'
  BY <1>1 DEF ReadTurn, SearchFrom, Goto, IInv, TypeOK, LocalsOK, CounterKept, RoundsLeft
<1> QED
  BY <1>1, <1>2, <1>3, <1>4, <1>5, <1>6 DEF IInv, TypeOK

\* One step of the search of t.
LEMMA SearchIInv ==
  ASSUME BufferSize = 0, IInv, NEW t \in Thread, Search(t)
  PROVE  IInv'
<1>1. /\ mem' = mem
      /\ buf' = buf
      /\ BuffersEmpty'
  BY DEF Search, SearchPast, IInv, BuffersEmpty
<1>2. SharedOK'
  BY <1>1, ReadSharedOK DEF IInv, TypeOK
<1>3. LocalsOK'
  <2>1. pc' \in [Thread -> Label]
    BY DEF Search, SearchPast, SearchFrom, Goto, IInv, TypeOK, LocalsOK, Label
  <2>2. j' \in [Thread -> Thread]
    <3>1. j \in [Thread -> Thread] /\ 0 \in Thread /\ Pred(j[t]) \in Thread
      BY ConstantFacts DEF IInv, TypeOK, LocalsOK
    <3>2. \/ j' = [j EXCEPT ![t] = 0]
          \/ j' = [j EXCEPT ![t] = IF Pred(j[t]) = t THEN 0 ELSE Pred(j[t])]
      BY DEF Search, SearchPast, SearchFrom
    <3> QED
      BY <3>1, <3>2
  <2> QED
    BY <2>1, <2>2 DEF Search, SearchPast, SearchFrom, IInv, TypeOK, LocalsOK
<1>4. ControlClaimed'
  BY <1>1 DEF Search, SearchPast, SearchFrom, Goto, IInv, TypeOK, LocalsOK, ControlClaimed, Claimed
<1>5. NeverBothPast'
  <2>1. ASSUME NEW u \in Thread, NEW v \in Thread, Past(u, v)'
        PROVE  Past(u, v)
    BY <2>1 DEF Search, SearchPast, SearchFrom, Goto, IInv, TypeOK, LocalsOK, Past, Claimed
  <2> QED
    BY <2>1, NobodyPasses DEF IInv
<1>6. CounterKept' /\ RoundsLeft'
  BY <1>1 DEF Search, SearchPast, SearchFrom, Goto, IInv, TypeOK, LocalsOK, CounterKept, RoundsLeft
<1> QED
  BY <1>1, <1>2, <1>3, <1>4, <1>5, <1>6 DEF IInv, TypeOK

\* The search of t starts again.
LEMMA RestartIInv ==
  ASSUME BufferSize = 0, IInv, NEW t \in Thread, Restart(t)
  PROVE  IInv'
<1>1. /\ mem' = mem
      /\ buf' = buf
      /\ BuffersEmpty'
      /\ Load(t, K) = mem[K]
  BY LoadReadsMemory DEF Restart, IInv, BuffersEmpty
<1>2. SharedOK'
  BY <1>1, ReadSharedOK DEF IInv, TypeOK
<1>3. LocalsOK'
  <2>1. pc' \in [Thread -> Label]
    BY DEF Restart, SearchFrom, Goto, IInv, TypeOK, LocalsOK, Label
  <2>2. j' \in [Thread -> Thread]
    BY <1>1, ConstantFacts DEF Restart, SearchFrom, IInv, TypeOK, LocalsOK, SharedOK
  <2> QED
    BY <2>1, <2>2 DEF Restart, SearchFrom, IInv, TypeOK, LocalsOK
<1>4. ControlClaimed'
  BY <1>1 DEF Restart, SearchFrom, Goto, IInv, TypeOK, LocalsOK, ControlClaimed, Claimed
<1>5. NeverBothPast'
  <2>1. ASSUME NEW u \in Thread, NEW v \in Thread, Past(u, v)'
        PROVE  Past(u, v)
    BY <2>1 DEF Restart, SearchFrom, Goto, IInv, TypeOK, LocalsOK, Past, Claimed
  <2> QED
    BY <2>1, NobodyPasses DEF IInv
<1>6. CounterKept' /\ RoundsLeft'
  BY <1>1 DEF Restart, SearchFrom, Goto, IInv, TypeOK, LocalsOK, CounterKept, RoundsLeft
<1> QED
  BY <1>1, <1>2, <1>3, <1>4, <1>5, <1>6 DEF IInv, TypeOK

\* A claim comes before the scan, which starts at the top of the ring.
LEMMA ClaimIInv ==
  ASSUME BufferSize = 0, IInv, NEW t \in Thread, Claim(t)
  PROVE  IInv'
<1>1. /\ mem' = [mem EXCEPT ![Control(t)] = 2]
      /\ buf' = buf
      /\ BuffersEmpty'
  BY StoreWritesMemory DEF Claim, IInv
<1>2. SharedOK'
  BY <1>1, WriteSharedOK DEF IInv, TypeOK
<1>3. LocalsOK'
  <2>1. pc' \in [Thread -> Label]
    BY DEF Claim, Goto, IInv, TypeOK, LocalsOK, Label
  <2>2. j' \in [Thread -> Thread]
    BY <1>1, ConstantFacts DEF Claim, IInv, TypeOK, LocalsOK
  <2> QED
    BY <2>1, <2>2 DEF Claim, IInv, TypeOK, LocalsOK
<1>4. ControlClaimed'
  BY <1>1, LocationsApart
  DEF Claim, Goto, IInv, TypeOK, LocalsOK, SharedOK, MemTypeOK, ControlClaimed, Claimed
<1>5. NeverBothPast'
  <2>1. ASSUME NEW u \in Thread, NEW v \in Thread, Past(u, v)'
        PROVE  Past(u, v)
    BY <2>1, ConstantFacts DEF Claim, Goto, IInv, TypeOK, LocalsOK, Past, Claimed
  <2> QED
    BY <2>1, NobodyPasses DEF IInv
<1>6. CounterKept' /\ RoundsLeft'
  BY <1>1, LocationsApart
  DEF Claim, Goto, IInv, TypeOK, LocalsOK, SharedOK, MemTypeOK, CounterKept, RoundsLeft
<1> QED
  BY <1>1, <1>2, <1>3, <1>4, <1>5, <1>6 DEF IInv, TypeOK

\* t passes j[t] only if control[j[t]] is not 2, so j[t] has not passed t.
LEMMA ScanIInv ==
  ASSUME BufferSize = 0, IInv, NEW t \in Thread, Scan(t)
  PROVE  IInv'
<1>1. /\ mem' = mem
      /\ buf' = buf
      /\ BuffersEmpty'
      /\ Load(t, Control(j[t])) = mem[Control(j[t])]
  BY LoadReadsMemory DEF Scan, ScanDownTo, IInv, BuffersEmpty
<1>2. SharedOK'
  BY <1>1, ReadSharedOK DEF IInv, TypeOK
<1>3. LocalsOK'
  <2>1. pc' \in [Thread -> Label]
    BY DEF Scan, ScanDownTo, Goto, IInv, TypeOK, LocalsOK, Label
  <2>2. j' \in [Thread -> Thread]
    BY <1>1, ConstantFacts DEF Scan, ScanDownTo, IInv, TypeOK, LocalsOK
  <2> QED
    BY <2>1, <2>2 DEF Scan, ScanDownTo, IInv, TypeOK, LocalsOK
<1>4. ControlClaimed'
  BY <1>1 DEF Scan, ScanDownTo, Goto, IInv, TypeOK, LocalsOK, ControlClaimed, Claimed
<1>5. NeverBothPast'
  <2>1. ASSUME NEW u \in Thread, NEW v \in Thread, Past(u, v)'
        PROVE  Past(u, v) \/ (u = t /\ v = j[t] /\ (v = t \/ mem[Control(v)] # 2))
    <3>1. CASE u = t
      <4>1. /\ pc[t] = "scan"
            /\ pc'[t] = "takeTurn" \/ (pc'[t] = "scan" /\ j'[t] < v)
        BY <2>1, <3>1 DEF Scan, ScanDownTo, Goto, IInv, TypeOK, LocalsOK, Past, Claimed
      <4>2. j[t] = t \/ mem[Control(j[t])] # 2
        BY <1>1, <4>1 DEF Scan, ScanDownTo, Goto, IInv, TypeOK, LocalsOK
      <4>3. j[t] \in Nat /\ v \in Nat
        BY ConstantFacts DEF IInv, TypeOK, LocalsOK
      <4>4. CASE pc'[t] = "takeTurn"
        <5>1. j[t] <= v
          BY <4>3, <4>4 DEF Scan, ScanDownTo, Goto, IInv, TypeOK, LocalsOK
        <5> QED
          BY <3>1, <4>1, <4>2, <4>3, <5>1 DEF Past
      <4>5. CASE pc'[t] = "scan" /\ j'[t] < v
        <5>1. j'[t] = j[t] - 1
          BY <4>5 DEF Scan, ScanDownTo, Goto, IInv, TypeOK, LocalsOK
        <5>2. j[t] <= v
          BY <4>3, <4>5, <5>1
        <5> QED
          BY <3>1, <4>1, <4>2, <4>3, <5>2 DEF Past
      <4> QED
        BY <4>1, <4>4, <4>5
    <3>2. CASE u # t
      BY <2>1, <3>2 DEF Scan, ScanDownTo, Goto, IInv, TypeOK, LocalsOK, Past, Claimed
    <3> QED
      BY <3>1, <3>2
  <2>2. ASSUME NEW u \in Thread, NEW v \in Thread, Past(u, v)
        PROVE  mem[Control(u)] = 2
    BY <2>2 DEF IInv, ControlClaimed, Past, Claimed
  <2> QED
    BY <2>1, <2>2 DEF IInv, NeverBothPast
<1>6. CounterKept' /\ RoundsLeft'
  BY <1>1 DEF Scan, ScanDownTo, Goto, IInv, TypeOK, LocalsOK, CounterKept, RoundsLeft
<1> QED
  BY <1>1, <1>2, <1>3, <1>4, <1>5, <1>6 DEF IInv, TypeOK

\* Only k changes.
LEMMA TakeTurnIInv ==
  ASSUME BufferSize = 0, IInv, NEW t \in Thread, TakeTurn(t)
  PROVE  IInv'
<1>1. /\ mem' = [mem EXCEPT ![K] = t]
      /\ buf' = buf
      /\ BuffersEmpty'
  BY StoreWritesMemory DEF TakeTurn, IInv
<1>2. SharedOK'
  BY <1>1, WriteSharedOK DEF IInv, TypeOK
<1>3. LocalsOK'
  BY DEF TakeTurn, Goto, IInv, TypeOK, LocalsOK, Label
<1>4. ControlClaimed'
  BY <1>1, LocationsApart
  DEF TakeTurn, Goto, IInv, TypeOK, LocalsOK, SharedOK, MemTypeOK, ControlClaimed, Claimed
<1>5. NeverBothPast'
  <2>1. ASSUME NEW u \in Thread, NEW v \in Thread, Past(u, v)'
        PROVE  Past(u, v)
    BY <2>1 DEF TakeTurn, Goto, IInv, TypeOK, LocalsOK, Past, Claimed
  <2> QED
    BY <2>1, NobodyPasses DEF IInv
<1>6. CounterKept' /\ RoundsLeft'
  BY <1>1, LocationsApart
  DEF TakeTurn, Goto, IInv, TypeOK, LocalsOK, SharedOK, MemTypeOK, CounterKept, RoundsLeft
<1> QED
  BY <1>1, <1>2, <1>3, <1>4, <1>5, <1>6 DEF IInv, TypeOK

\* val[t] becomes the counter.
LEMMA CsReadIInv ==
  ASSUME BufferSize = 0, IInv, NEW t \in Thread, CsRead(t)
  PROVE  IInv'
<1>1. /\ mem' = mem
      /\ buf' = buf
      /\ BuffersEmpty'
      /\ Load(t, CounterLoc) = mem[CounterLoc]
  BY LoadReadsMemory DEF CsRead, IInv, BuffersEmpty
<1>2. SharedOK'
  BY <1>1, ReadSharedOK DEF IInv, TypeOK
<1>3. LocalsOK'
  BY <1>1 DEF CsRead, Goto, IInv, TypeOK, LocalsOK, Label, SharedOK
<1>4. ControlClaimed'
  BY <1>1 DEF CsRead, Goto, IInv, TypeOK, LocalsOK, ControlClaimed, Claimed
<1>5. NeverBothPast'
  <2>1. ASSUME NEW u \in Thread, NEW v \in Thread, Past(u, v)'
        PROVE  Past(u, v)
    BY <2>1 DEF CsRead, Goto, IInv, TypeOK, LocalsOK, Past, Claimed
  <2> QED
    BY <2>1, NobodyPasses DEF IInv
<1>6. CounterKept' /\ RoundsLeft'
  BY <1>1 DEF CsRead, Goto, IInv, TypeOK, LocalsOK, CounterKept, RoundsLeft
<1> QED
  BY <1>1, <1>2, <1>3, <1>4, <1>5, <1>6 DEF IInv, TypeOK

\* Nobody else is between its load and its store.
LEMMA CsWriteIInv ==
  ASSUME BufferSize = 0, IInv, NEW t \in Thread, CsWrite(t)
  PROVE  IInv'
<1>1. /\ mem' = [mem EXCEPT ![CounterLoc] = val[t] + 1]
      /\ buf' = buf
      /\ BuffersEmpty'
  BY StoreWritesMemory DEF CsWrite, IInv
<1>2. SharedOK'
  <2>1. val[t] + 1 \in Nat
    BY DEF IInv, TypeOK, LocalsOK
  <2> QED
    BY <1>1, <2>1, WriteSharedOK DEF IInv, TypeOK
<1>3. LocalsOK'
  BY DEF CsWrite, Goto, IInv, TypeOK, LocalsOK, Label
<1>4. ControlClaimed'
  BY <1>1, LocationsApart
  DEF CsWrite, Goto, IInv, TypeOK, LocalsOK, SharedOK, MemTypeOK, ControlClaimed, Claimed
<1>5. NeverBothPast'
  <2>1. ASSUME NEW u \in Thread, NEW v \in Thread, Past(u, v)'
        PROVE  Past(u, v)
    BY <2>1 DEF CsWrite, Goto, IInv, TypeOK, LocalsOK, Past, Claimed
  <2> QED
    BY <2>1, NobodyPasses DEF IInv
<1>6. CounterKept'
  <2>1. \A u \in Thread : pc[u] = "csWrite" => u = t
    BY DEF CsWrite, Goto, IInv, NeverBothPast, Past, Claimed
  <2> QED
    BY <1>1, <2>1 DEF CsWrite, Goto, IInv, TypeOK, LocalsOK, CounterKept
<1>7. RoundsLeft'
  BY DEF CsWrite, Goto, IInv, TypeOK, LocalsOK, RoundsLeft
<1> QED
  BY <1>1, <1>2, <1>3, <1>4, <1>5, <1>6, <1>7 DEF IInv, TypeOK

\* Only k changes.
LEMMA PassTurnIInv ==
  ASSUME BufferSize = 0, IInv, NEW t \in Thread, PassTurn(t)
  PROVE  IInv'
<1>1. /\ mem' = [mem EXCEPT ![K] = Pred(t)]
      /\ buf' = buf
      /\ BuffersEmpty'
  BY StoreWritesMemory DEF PassTurn, IInv
<1>2. SharedOK'
  BY <1>1, WriteSharedOK, ConstantFacts DEF IInv, TypeOK
<1>3. LocalsOK'
  BY DEF PassTurn, Goto, IInv, TypeOK, LocalsOK, Label
<1>4. ControlClaimed'
  BY <1>1, LocationsApart
  DEF PassTurn, Goto, IInv, TypeOK, LocalsOK, SharedOK, MemTypeOK, ControlClaimed, Claimed
<1>5. NeverBothPast'
  <2>1. ASSUME NEW u \in Thread, NEW v \in Thread, Past(u, v)'
        PROVE  Past(u, v)
    BY <2>1 DEF PassTurn, Goto, IInv, TypeOK, LocalsOK, Past, Claimed
  <2> QED
    BY <2>1, NobodyPasses DEF IInv
<1>6. CounterKept' /\ RoundsLeft'
  BY <1>1, LocationsApart
  DEF PassTurn, Goto, IInv, TypeOK, LocalsOK, SharedOK, MemTypeOK, CounterKept, RoundsLeft
<1> QED
  BY <1>1, <1>2, <1>3, <1>4, <1>5, <1>6 DEF IInv, TypeOK

\* t gives up its claim with its round.
LEMMA LowerIInv ==
  ASSUME BufferSize = 0, IInv, NEW t \in Thread, Lower(t)
  PROVE  IInv'
<1>1. /\ mem' = [mem EXCEPT ![Control(t)] = 0]
      /\ buf' = buf
      /\ BuffersEmpty'
  BY StoreWritesMemory DEF Lower, IInv
<1>2. SharedOK'
  BY <1>1, WriteSharedOK DEF IInv, TypeOK
<1>3. LocalsOK'
  <2>1. pc' \in [Thread -> Label]
    BY DEF Lower, Goto, IInv, TypeOK, LocalsOK, Label
  <2>2. rounds' \in [Thread -> 0..NLOOP]
    BY ConstantFacts DEF Lower, Goto, IInv, TypeOK, LocalsOK, RoundsLeft
  <2> QED
    BY <2>1, <2>2 DEF Lower, IInv, TypeOK, LocalsOK
<1>4. ControlClaimed'
  BY <1>1, LocationsApart
  DEF Lower, Goto, IInv, TypeOK, LocalsOK, SharedOK, MemTypeOK, ControlClaimed, Claimed
<1>5. NeverBothPast'
  <2>1. ASSUME NEW u \in Thread, NEW v \in Thread, Past(u, v)'
        PROVE  Past(u, v)
    BY <2>1 DEF Lower, Goto, IInv, TypeOK, LocalsOK, Past, Claimed
  <2> QED
    BY <2>1, NobodyPasses DEF IInv
<1>6. CounterKept'
  BY <1>1, LocationsApart
  DEF Lower, Goto, IInv, TypeOK, LocalsOK, SharedOK, MemTypeOK, CounterKept
<1>7. RoundsLeft'
  BY ConstantFacts DEF Lower, Goto, IInv, TypeOK, LocalsOK, RoundsLeft
<1> QED
  BY <1>1, <1>2, <1>3, <1>4, <1>5, <1>6, <1>7 DEF IInv, TypeOK

\* A step that changes nothing keeps the invariant.
LEMMA StutterIInv ==
  ASSUME IInv, UNCHANGED vars
  PROVE  IInv'
<1>1. BuffersEmpty' /\ SharedOK'
  BY ReadSharedOK DEF vars, IInv, TypeOK, BuffersEmpty
<1> QED
  BY <1>1
  DEF vars, IInv, TypeOK, LocalsOK, ControlClaimed, NeverBothPast, Past, CounterKept,
              RoundsLeft

\* The invariant is inductive.
LEMMA StepIInv ==
  ASSUME BufferSize = 0, IInv, [Next]_vars
  PROVE  IInv'
<1>1. ASSUME NEW t \in Thread, Step(t)
      PROVE  IInv'
  BY <1>1, AskIInv, ReadTurnIInv, SearchIInv, RestartIInv, ClaimIInv, ScanIInv,
     TakeTurnIInv, CsReadIInv, CsWriteIInv, PassTurnIInv, LowerIInv
  DEF Step
<1>2. CASE UNCHANGED vars
  BY <1>2, StutterIInv
<1> QED
  BY <1>1, <1>2 DEF Next, Exit

-----------------------------------------------------------------------------
(* The properties of the runs *)

\* IInv holds in every reachable state.
THEOREM Invariance == ASSUME BufferSize = 0 PROVE Spec => []IInv
<1>1. Init => IInv
  BY InitIInv
<1>2. IInv /\ [Next]_vars => IInv'
  BY StepIInv
<1> QED
  BY <1>1, <1>2, PTL DEF Spec

\* Every variable keeps its range: k and the index of a search never leave the
\* arrays, whichever thread wrote k between a search's two reads of it.
THEOREM TypeCorrect == ASSUME BufferSize = 0 PROVE Spec => []TypeOK
<1>1. IInv => TypeOK
  BY DEF IInv
<1> QED
  BY <1>1, Invariance, PTL

\* No two threads are between the two assignments to k.
THEOREM MutuallyExclusive == ASSUME BufferSize = 0 PROVE Spec => []MutualExclusion
<1>1. IInv => MutualExclusion
  BY DEF IInv, NeverBothPast, Past, Claimed, MutualExclusion, InCS
<1> QED
  BY <1>1, Invariance, PTL

-----------------------------------------------------------------------------
(* The counter counts *)

\* The additions of t when no store is pending: one for each round, and one more
\* between its store and the end of the round.
Made(t) == rounds[t] + (IF pc[t] \in {"passTurn", "lower"} THEN 1 ELSE 0)

\* The refinement mapping needs no buffer.
LEMMA AdditionsMade == IInv => \A t \in Thread : Additions(t) = Made(t)
<1> SUFFICES ASSUME IInv, NEW t \in Thread
             PROVE  Additions(t) = Made(t)
  OBVIOUS
<1>1. Pending(t, CounterLoc) = 0
  BY NothingPending DEF IInv
<1>2. Made(t) \in Int
  BY ConstantFacts DEF IInv, TypeOK, LocalsOK, Made
<1> QED
  BY <1>1, <1>2 DEF Additions, Made

\* The same in the next state.
LEMMA AdditionsMadeNext == IInv' => \A t \in Thread : Additions(t)' = Made(t)'
<1>1. (IInv => \A t \in Thread : Additions(t) = Made(t))'
  BY AdditionsMade, PTL
<1> QED
  BY <1>1

\* Nothing has been added at the start.
LEMMA InitCounter == ASSUME Init PROVE Counter!Init
<1>1. ASSUME NEW t \in Thread
      PROVE  NLOOP - Additions(t) = NLOOP
  BY InitIInv, AdditionsMade, ConstantFacts DEF Init, Made
<1> QED
  BY <1>1, LocationsApart, ConstantFacts DEF Counter!Init, Init, MemInit

\* CsWrite(t) is the addition of t.
LEMMA CsWriteIncrements ==
  ASSUME BufferSize = 0, IInv, IInv', NEW t \in Thread, CsWrite(t)
  PROVE  Counter!Increment(t)
<1>1. mem'[CounterLoc] = mem[CounterLoc] + 1
  <2>1. mem' = [mem EXCEPT ![CounterLoc] = val[t] + 1]
    BY StoreWritesMemory DEF CsWrite, IInv
  <2> QED
    BY <2>1, LocationsApart
    DEF CsWrite, Goto, IInv, TypeOK, SharedOK, MemTypeOK, CounterKept
<1>2. Additions(t) = rounds[t] /\ Additions(t)' = rounds[t] + 1
  BY AdditionsMade, AdditionsMadeNext, ConstantFacts
  DEF CsWrite, Goto, IInv, TypeOK, LocalsOK, Made
<1>3. ASSUME NEW u \in Thread, u # t
      PROVE  Additions(u)' = Additions(u)
  BY <1>3, AdditionsMade, AdditionsMadeNext
  DEF CsWrite, Goto, IInv, TypeOK, LocalsOK, Made
<1>4. rounds[t] < NLOOP /\ rounds[t] \in Nat
  BY DEF CsWrite, Goto, IInv, TypeOK, LocalsOK, RoundsLeft
<1> QED
  <2>1. NLOOP - Additions(t) > 0
    BY <1>2, <1>4, ConstantFacts
  <2>2. [u \in Thread |-> NLOOP - Additions(u)]'
          = [[u \in Thread |-> NLOOP - Additions(u)] EXCEPT ![t] = @ - 1]
    <3>1. NLOOP - Additions(t)' = (NLOOP - Additions(t)) - 1
      BY <1>2, <1>4, ConstantFacts
    <3> QED
      BY <1>3, <3>1
  <2> QED
    BY <1>1, <2>1, <2>2 DEF Counter!Increment

\* Every other step leaves the counter and the additions as they are.
LEMMA OthersStutter ==
  ASSUME BufferSize = 0, IInv, IInv', NEW t \in Thread, Step(t), ~CsWrite(t)
  PROVE  UNCHANGED Counter!counterVars
<1>1. mem'[CounterLoc] = mem[CounterLoc]
  <2>1. ASSUME NEW a, NEW v, Store(t, a, v), a # CounterLoc
        PROVE  mem'[CounterLoc] = mem[CounterLoc]
    BY <2>1, StoreWritesMemory, LocationsApart DEF IInv, TypeOK, SharedOK, MemTypeOK
  <2>2. CASE Ask(t)
    BY <2>1, <2>2, LocationsApart DEF Ask
  <2>3. CASE Claim(t)
    BY <2>1, <2>3, LocationsApart DEF Claim
  <2>4. CASE TakeTurn(t)
    BY <2>1, <2>4, LocationsApart DEF TakeTurn
  <2>5. CASE PassTurn(t)
    BY <2>1, <2>5, LocationsApart DEF PassTurn
  <2>6. CASE Lower(t)
    BY <2>1, <2>6, LocationsApart DEF Lower
  <2>7. CASE ReadTurn(t) \/ Search(t) \/ Restart(t) \/ Scan(t) \/ CsRead(t)
    BY <2>7 DEF ReadTurn, Search, SearchPast, Restart, Scan, ScanDownTo, CsRead
  <2> QED
    BY <2>2, <2>3, <2>4, <2>5, <2>6, <2>7 DEF Step
<1>2. ASSUME NEW u \in Thread
      PROVE  Made(u)' = Made(u)
  <2>1. CASE Ask(t)
    BY <2>1 DEF Ask, Goto, IInv, TypeOK, LocalsOK, Made
  <2>2. CASE ReadTurn(t)
    BY <2>2 DEF ReadTurn, SearchFrom, Goto, IInv, TypeOK, LocalsOK, Made
  <2>3. CASE Search(t)
    BY <2>3 DEF Search, SearchPast, SearchFrom, Goto, IInv, TypeOK, LocalsOK, Made
  <2>4. CASE Restart(t)
    BY <2>4 DEF Restart, SearchFrom, Goto, IInv, TypeOK, LocalsOK, Made
  <2>5. CASE Claim(t)
    BY <2>5 DEF Claim, Goto, IInv, TypeOK, LocalsOK, Made
  <2>6. CASE Scan(t)
    BY <2>6 DEF Scan, ScanDownTo, Goto, IInv, TypeOK, LocalsOK, Made
  <2>7. CASE TakeTurn(t)
    BY <2>7 DEF TakeTurn, Goto, IInv, TypeOK, LocalsOK, Made
  <2>8. CASE CsRead(t)
    BY <2>8 DEF CsRead, Goto, IInv, TypeOK, LocalsOK, Made
  <2>9. CASE PassTurn(t)
    BY <2>9 DEF PassTurn, Goto, IInv, TypeOK, LocalsOK, Made
  <2>10. CASE Lower(t)
    BY <2>10, ConstantFacts DEF Lower, Goto, IInv, TypeOK, LocalsOK, Made
  <2> QED
    BY <2>1, <2>2, <2>3, <2>4, <2>5, <2>6, <2>7, <2>8, <2>9, <2>10 DEF Step
<1> QED
  BY <1>1, <1>2, AdditionsMade, AdditionsMadeNext DEF Counter!counterVars

\* A thread's store of counter is an atomic addition and no other step touches the
\* count: no update is lost, for any number of threads and rounds.
THEOREM CounterRefined == ASSUME BufferSize = 0 PROVE Spec => ImplementsAtomicCounter
<1>1. Init => Counter!Init
  BY InitCounter
<1>2. IInv /\ IInv' /\ [Next]_vars => [Counter!Next]_(Counter!counterVars)
  <2> SUFFICES ASSUME IInv, IInv', [Next]_vars
               PROVE  [Counter!Next]_(Counter!counterVars)
    OBVIOUS
  <2>1. ASSUME NEW t \in Thread, Step(t)
        PROVE  [Counter!Next]_(Counter!counterVars)
    BY <2>1, CsWriteIncrements, OthersStutter DEF Counter!Next
  <2>2. CASE UNCHANGED vars
    BY <2>2 DEF vars, Counter!counterVars, Additions, Pending
  <2> QED
    BY <2>1, <2>2 DEF Next, Exit
<1> QED
  BY <1>1, <1>2, Invariance, PTL DEF Spec, ImplementsAtomicCounter, Counter!Spec

=============================================================================
