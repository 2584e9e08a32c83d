-------------------------------- MODULE Knuth -------------------------------
(***************************************************************************)
(* concurrent/mutual-exclusion/Knuth.cpp: N threads call doit() NLOOP      *)
(* times each and guard `counter` with the array control (0 out, 1 asking, *)
(* 2 claiming) and the thread k at which the ring is searched from.        *)
(*                                                                         *)
(* One action is one access to a shared int (see Dijkstra).  The two loops *)
(* over j have a local j each, of disjoint scope: both are j[t] here, and  *)
(* a local that has gone out of scope is 0.                                *)
(***************************************************************************)
EXTENDS Integers, Sequences, SharedMemory

CONSTANTS N,       \* number of threads
          NLOOP    \* rounds of each thread

ASSUME ConstantsAssumption ==
  /\ N \in Nat \ {0}
  /\ NLOOP \in Nat \ {0}
  /\ Thread = 0..(N - 1)

VARIABLES pc,      \* pc[t] is the label t is at
          j,       \* j[t] is the loop index of t
          val,     \* val[t] is the counter as t read it
          rounds   \* rounds[t] is how many calls of doit t has finished

vars == <<mem, buf, pc, j, val, rounds>>

Control(t) == <<"control", t>>
K          == <<"k", 0>>
CounterLoc == <<"counter", 0>>

Location == ({"control"} \X Thread) \cup {K, CounterLoc}

Label == {"ask", "readTurn", "search", "restart", "claim", "scan", "takeTurn",
          "csRead", "csWrite", "passTurn", "lower", "done"}

Init ==
  /\ MemInit(Location)
  /\ pc     = [t \in Thread |-> "ask"]
  /\ j      = [t \in Thread |-> 0]
  /\ val    = [t \in Thread |-> 0]
  /\ rounds = [t \in Thread |-> 0]

Goto(t, from, to) ==
  /\ pc[t] = from
  /\ pc' = [pc EXCEPT ![t] = to]

\* Seeded bug: (j - 1) % N.
PredUnwrapped(i) == i - 1

\* The thread before i on the ring.
Pred(i) == IF i > 0 THEN i - 1 ELSE N - 1

-----------------------------------------------------------------------------
(* Entry protocol *)

\* control[i] = 1
Ask(t) ==
  /\ Goto(t, "ask", "readTurn")
  /\ Store(t, Control(t), 1)
  /\ UNCHANGED <<j, val, rounds>>

\* The search goes on at i, or ends because `j != i` fails.
SearchFrom(t, from, i) ==
  /\ Goto(t, from, IF i = t THEN "claim" ELSE "search")
  /\ j' = [j EXCEPT ![t] = IF i = t THEN 0 ELSE i]

\* int j = k
ReadTurn(t) ==
  /\ SearchFrom(t, "readTurn", Load(t, K))
  /\ UNCHANGED <<mem, buf, val, rounds>>

\* The search starts again if control[j] is in `held`, or goes one step down the ring.
SearchPast(t, held) ==
  /\ \/ /\ Load(t, Control(j[t])) \in held
        /\ Goto(t, "search", "restart")
        /\ j' = [j EXCEPT ![t] = 0]
     \/ /\ Load(t, Control(j[t])) \notin held
        /\ SearchFrom(t, "search", Pred(j[t]))
  /\ UNCHANGED <<mem, buf, val, rounds>>

\* Seeded bug: if (control[j] == 0)
SearchInverted(t) == SearchPast(t, {0})

\* if (control[j] != 0)
Search(t) == SearchPast(t, {1, 2})

\* j = k, and the decrement that follows it: the search resumes below k
Restart(t) ==
  /\ SearchFrom(t, "restart", Pred(Load(t, K)))
  /\ UNCHANGED <<mem, buf, val, rounds>>

\* Seeded bug: control[i] stays 1.
ClaimForgotten(t) ==
  /\ Goto(t, "claim", "scan")
  /\ j' = [j EXCEPT ![t] = N - 1]
  /\ UNCHANGED <<mem, buf, val, rounds>>

\* control[i] = 2
Claim(t) ==
  /\ Goto(t, "claim", "scan")
  /\ Store(t, Control(t), 2)
  /\ j' = [j EXCEPT ![t] = N - 1]
  /\ UNCHANGED <<val, rounds>>

\* One iteration of a scan of control[N - 1], ..., control[last] for another claim:
\* `faild` sends t back to the top of while(1), the last passed test lets it into
\* the critical section.
ScanDownTo(t, last) ==
  LET faild == j[t] # t /\ Load(t, Control(j[t])) = 2
  IN  /\ \/ faild /\ Goto(t, "scan", "ask")
         \/ ~faild /\ j[t] = last /\ Goto(t, "scan", "takeTurn")
         \/ ~faild /\ j[t] # last /\ Goto(t, "scan", "scan")
      /\ j' = [j EXCEPT ![t] = IF faild \/ j[t] = last THEN 0 ELSE j[t] - 1]
      /\ UNCHANGED <<mem, buf, val, rounds>>

\* Seeded bug: j > 0.
ScanStopsShort(t) == ScanDownTo(t, 1)

Scan(t) == ScanDownTo(t, 0)

-----------------------------------------------------------------------------
(* Critical section and exit *)

\* k = i
TakeTurn(t) ==
  /\ Goto(t, "takeTurn", "csRead")
  /\ Store(t, K, t)
  /\ UNCHANGED <<j, val, rounds>>

\* int val = counter
CsRead(t) ==
  /\ Goto(t, "csRead", "csWrite")
  /\ val' = [val EXCEPT ![t] = Load(t, CounterLoc)]
  /\ UNCHANGED <<mem, buf, j, rounds>>

\* counter = val + 1, after a printf whose lock on stdout drains the buffer
CsWrite(t) ==
  /\ Drained(t)
  /\ Goto(t, "csWrite", "passTurn")
  /\ Store(t, CounterLoc, val[t] + 1)
  /\ val' = [val EXCEPT ![t] = 0]
  /\ UNCHANGED <<j, rounds>>

\* k = i > 0 ? i - 1 : N - 1
PassTurn(t) ==
  /\ Goto(t, "passTurn", "lower")
  /\ Store(t, K, Pred(t))
  /\ UNCHANGED <<j, val, rounds>>

\* control[i] = 0, and judge's loop calls doit again or ends
Lower(t) ==
  /\ Goto(t, "lower", IF rounds[t] + 1 = NLOOP THEN "done" ELSE "ask")
  /\ Store(t, Control(t), 0)
  /\ rounds' = [rounds EXCEPT ![t] = @ + 1]
  /\ UNCHANGED <<j, val>>

-----------------------------------------------------------------------------

Step(t) ==
  \/ Ask(t) \/ ReadTurn(t) \/ Search(t) \/ Restart(t) \/ Claim(t) \/ Scan(t)
  \/ TakeTurn(t) \/ CsRead(t) \/ CsWrite(t) \/ PassTurn(t) \/ Lower(t)

\* main has joined every thread.
Joined == \A t \in Thread : pc[t] = "done" /\ Drained(t)

Exit == Joined /\ UNCHANGED vars

Next == (\E t \in Thread : Step(t)) \/ Exit

\* The kernel runs every runnable thread.
Fairness == \A t \in Thread : WF_vars(Step(t))

Spec == Init /\ [][Next]_vars /\ Fairness

-----------------------------------------------------------------------------
(* Properties *)

SharedOK ==
  /\ MemTypeOK(Location)
  /\ \A t \in Thread : mem[Control(t)] \in {0, 1, 2}
  /\ mem[K] \in Thread
  /\ mem[CounterLoc] \in Nat

LocalsOK ==
  /\ pc \in [Thread -> Label]
  /\ j \in [Thread -> Thread]
  /\ val \in [Thread -> Nat]
  /\ rounds \in [Thread -> 0..NLOOP]

\* Every variable stays in its range; k and the index of the search always name a
\* thread, whatever the other threads do to k meanwhile.
TypeOK == SharedOK /\ LocalsOK

InCS(t) == pc[t] \in {"takeTurn", "csRead", "csWrite", "passTurn"}

\* "@title: mutual exlusion": no two threads are between the two assignments
\* to k, which enclose the load and the store of counter.
MutualExclusion ==
  \A t, u \in Thread : InCS(t) /\ InCS(u) => t = u

\* The additions of t that have reached memory.
Additions(t) ==
  rounds[t] + (IF pc[t] \in {"passTurn", "lower"} THEN 1 ELSE 0)
            - Pending(t, CounterLoc)

Counter == INSTANCE AtomicCounter
             WITH Times <- [t \in Thread |-> NLOOP],
                  count <- mem[CounterLoc],
                  left  <- [t \in Thread |-> NLOOP - Additions(t)]

\* The load and the store of counter act as one atomic addition: no update is
\* lost, so main prints N * NLOOP.
ImplementsAtomicCounter == Counter!Spec

\* A thread is never held up by threads that are gone: what an exit leaves in
\* control and k lets the last thread through.
LastThreadFinishes ==
  \A t \in Thread :
    (\A u \in Thread \ {t} : pc[u] = "done") ~> (pc[t] = "done")

\* "wait for both threads to terminate": the entry protocol neither deadlocks
\* nor livelocks, and main's joins return.
Termination == <>Joined

=============================================================================
