------------------------------ MODULE Dijkstra ------------------------------
(***************************************************************************)
(* concurrent/mutual-exclusion/Dijkstra.cpp: N threads call doit() NLOOP   *)
(* times each and guard `counter` with the arrays selected and control     *)
(* and the turn k.                                                         *)
(*                                                                         *)
(* One action is one access to a shared int: the variables are neither     *)
(* atomic nor volatile, so the accesses of two threads interleave freely   *)
(* and `selected[k]` reads k again.  A label names what the thread does    *)
(* next.  A local that has gone out of scope is 0.                         *)
(***************************************************************************)
EXTENDS Integers, Sequences, SharedMemory

CONSTANTS N,       \* number of threads
          NLOOP    \* rounds of each thread

ASSUME ConstantsAssumption ==
  /\ N \in Nat \ {0}
  /\ NLOOP \in Nat \ {0}
  /\ Thread = 0..(N - 1)

VARIABLES pc,      \* pc[t] is the label t is at
          turn,    \* turn[t] is the k that t read to index selected
          j,       \* j[t] is the loop index of t's scan of control
          val,     \* val[t] is the counter as t read it
          rounds   \* rounds[t] is how many calls of doit t has finished

vars == <<mem, buf, pc, turn, j, val, rounds>>

Selected(t) == <<"selected", t>>
Control(t)  == <<"control", t>>
K           == <<"k", 0>>
CounterLoc  == <<"counter", 0>>

Location == ({"selected", "control"} \X Thread) \cup {K, CounterLoc}

Label == {"announce", "checkTurn", "lower", "readTurn", "readSelected",
          "takeTurn", "raise", "scan", "csRead", "csWrite", "retract",
          "lowerExit", "done"}

Init ==
  /\ MemInit(Location)
  /\ pc     = [t \in Thread |-> "announce"]
  /\ turn   = [t \in Thread |-> 0]
  /\ j      = [t \in Thread |-> 0]
  /\ val    = [t \in Thread |-> 0]
  /\ rounds = [t \in Thread |-> 0]

\* t moves from one label to the next.
Goto(t, from, to) ==
  /\ pc[t] = from
  /\ pc' = [pc EXCEPT ![t] = to]

-----------------------------------------------------------------------------
(* Entry protocol *)

\* selected[i] = 1
Announce(t) ==
  /\ Goto(t, "announce", "checkTurn")
  /\ Store(t, Selected(t), 1)
  /\ UNCHANGED <<turn, j, val, rounds>>

\* if (k != i)
CheckTurn(t) ==
  /\ Goto(t, "checkTurn", IF Load(t, K) # t THEN "lower" ELSE "takeTurn")
  /\ UNCHANGED <<mem, buf, turn, j, val, rounds>>

\* control[i] = 0
Lower(t) ==
  /\ Goto(t, "lower", "readTurn")
  /\ Store(t, Control(t), 0)
  /\ UNCHANGED <<turn, j, val, rounds>>

\* the index of selected[k]
ReadTurn(t) ==
  /\ Goto(t, "readTurn", "readSelected")
  /\ turn' = [turn EXCEPT ![t] = Load(t, K)]
  /\ UNCHANGED <<mem, buf, j, val, rounds>>

\* if (selected[k] == 1) continue
ReadSelected(t) ==
  /\ Goto(t, "readSelected",
          IF Load(t, Selected(turn[t])) = 1 THEN "checkTurn" ELSE "takeTurn")
  /\ turn' = [turn EXCEPT ![t] = 0]
  /\ UNCHANGED <<mem, buf, j, val, rounds>>

\* k = i
TakeTurn(t) ==
  /\ Goto(t, "takeTurn", "raise")
  /\ Store(t, K, t)
  /\ UNCHANGED <<turn, j, val, rounds>>

\* Seeded bug: control[i] = 1 is forgotten.
RaiseForgotten(t) == Goto(t, "raise", "scan") /\ UNCHANGED <<mem, buf, turn, j, val, rounds>>

\* control[i] = 1
Raise(t) ==
  /\ Goto(t, "raise", "scan")
  /\ Store(t, Control(t), 1)
  /\ UNCHANGED <<turn, j, val, rounds>>

\* One iteration of a scan of control[0], ..., control[end - 1]: `faild` sends t
\* back to the top of while(1), the last passed test lets it into the critical
\* section.
ScanUpTo(t, end) ==
  LET faild == j[t] # t /\ Load(t, Control(j[t])) = 1
      next  == j[t] + 1
  IN  /\ \/ faild /\ Goto(t, "scan", "checkTurn")
         \/ ~faild /\ next = end /\ Goto(t, "scan", "csRead")
         \/ ~faild /\ next # end /\ Goto(t, "scan", "scan")
      /\ j' = [j EXCEPT ![t] = IF faild \/ next = end THEN 0 ELSE next]
      /\ UNCHANGED <<mem, buf, turn, val, rounds>>

\* Seeded bugs: j <= N, and j < N - 1.
ScanPastEnd(t)    == ScanUpTo(t, N + 1)
ScanStopsShort(t) == ScanUpTo(t, N - 1)

Scan(t) == ScanUpTo(t, N)

-----------------------------------------------------------------------------
(* Critical section and exit *)

\* int val = counter
CsRead(t) ==
  /\ Goto(t, "csRead", "csWrite")
  /\ val' = [val EXCEPT ![t] = Load(t, CounterLoc)]
  /\ UNCHANGED <<mem, buf, turn, j, rounds>>

\* counter = val + 1, after a printf whose lock on stdout drains the buffer
CsWrite(t) ==
  /\ Drained(t)
  /\ Goto(t, "csWrite", "retract")
  /\ Store(t, CounterLoc, val[t] + 1)
  /\ val' = [val EXCEPT ![t] = 0]
  /\ UNCHANGED <<turn, j, rounds>>

\* Seeded bug: selected[i] = 0 is forgotten.
RetractForgotten(t) ==
  Goto(t, "retract", "lowerExit") /\ UNCHANGED <<mem, buf, turn, j, val, rounds>>

\* selected[i] = 0
Retract(t) ==
  /\ Goto(t, "retract", "lowerExit")
  /\ Store(t, Selected(t), 0)
  /\ UNCHANGED <<turn, j, val, rounds>>

\* control[i] = 0, and judge's loop calls doit again or ends
LowerExit(t) ==
  /\ Goto(t, "lowerExit", IF rounds[t] + 1 = NLOOP THEN "done" ELSE "announce")
  /\ Store(t, Control(t), 0)
  /\ rounds' = [rounds EXCEPT ![t] = @ + 1]
  /\ UNCHANGED <<turn, j, val>>

-----------------------------------------------------------------------------

Step(t) ==
  \/ Announce(t) \/ CheckTurn(t) \/ Lower(t) \/ ReadTurn(t) \/ ReadSelected(t)
  \/ TakeTurn(t) \/ Raise(t) \/ Scan(t) \/ CsRead(t) \/ CsWrite(t)
  \/ Retract(t) \/ LowerExit(t)

\* main has joined every thread.
Joined == \A t \in Thread : pc[t] = "done" /\ Drained(t)

Exit == Joined /\ UNCHANGED vars

Next == (\E t \in Thread : Step(t)) \/ Exit

\* The kernel runs every runnable thread.
Fairness == \A t \in Thread : WF_vars(Step(t))

\* The program on a sequentially consistent memory (BufferSize = 0).
Spec == Init /\ [][Next]_vars /\ Fairness

\* The program on x86 (BufferSize > 0): a thread's oldest store may reach memory
\* at any time.
DrainStore(t) ==
  /\ Drain(t)
  /\ UNCHANGED <<pc, turn, j, val, rounds>>

TSONext == Next \/ \E t \in Thread : DrainStore(t)

TSOSpec == Init /\ [][TSONext]_vars

-----------------------------------------------------------------------------
(* Properties *)

SharedOK ==
  /\ MemTypeOK(Location)
  /\ \A t \in Thread : mem[Selected(t)] \in {0, 1} /\ mem[Control(t)] \in {0, 1}
  /\ mem[K] \in Thread
  /\ mem[CounterLoc] \in Nat

LocalsOK ==
  /\ pc \in [Thread -> Label]
  /\ turn \in [Thread -> Thread]
  /\ j \in [Thread -> Thread]
  /\ val \in [Thread -> Nat]
  /\ rounds \in [Thread -> 0..NLOOP]

\* Every variable stays in its range; k always names a thread, so the index of
\* selected[k] is one of the array's.
TypeOK == SharedOK /\ LocalsOK

InCS(t) == pc[t] \in {"csRead", "csWrite"}

\* "@title: mutual exlusion": no two threads are between the load and the
\* store of counter.
MutualExclusion ==
  \A t, u \in Thread : InCS(t) /\ InCS(u) => t = u

\* The additions of t that have reached memory.
Additions(t) ==
  rounds[t] + (IF pc[t] \in {"retract", "lowerExit"} THEN 1 ELSE 0)
            - Pending(t, CounterLoc)

Counter == INSTANCE AtomicCounter
             WITH Times <- [t \in Thread |-> NLOOP],
                  count <- mem[CounterLoc],
                  left  <- [t \in Thread |-> NLOOP - Additions(t)]

\* The load and the store of counter act as one atomic addition: no update is
\* lost, so main prints N * NLOOP.
ImplementsAtomicCounter == Counter!Spec

\* A thread is never held up by threads that are gone: what an exit leaves in
\* selected, control and k lets the last thread through.
LastThreadFinishes ==
  \A t \in Thread :
    (\A u \in Thread \ {t} : pc[u] = "done") ~> (pc[t] = "done")

\* "wait for both threads to terminate": whatever the schedule, every thread
\* finishes its NLOOP rounds and main's joins return.
Termination == <>Joined

=============================================================================
