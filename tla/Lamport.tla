------------------------------- MODULE Lamport ------------------------------
(***************************************************************************)
(* concurrent/mutual-exclusion/Lamport.cpp: N threads call doit() NLOOP    *)
(* times each and guard `counter` with a bakery: a thread draws a ticket   *)
(* above every ticket it reads and waits for the smaller ones.             *)
(*                                                                         *)
(* One action is one access to a shared int that another thread writes     *)
(* (see Dijkstra): the search for the maximum reads number[j] once to      *)
(* compare it and again to keep it, and the wait reads it up to three      *)
(* times.  number[i] is written by its owner alone, so the owner's read of *)
(* it needs no step of its own.  A local out of scope is 0.                *)
(***************************************************************************)
EXTENDS Integers, Sequences, SharedMemory

CONSTANTS N,       \* number of threads
          NLOOP    \* NLOOP[t] is the number of rounds of thread t: the same for all in
                  \* the code; a run gives a slow thread fewer

ASSUME ConstantsAssumption ==
  /\ N \in Nat \ {0}
  /\ NLOOP \in [Thread -> Nat \ {0}]
  /\ Thread = 0..(N - 1)

VARIABLES pc,      \* pc[t] is the label t is at
          j,       \* j[t] is the loop index of t
          max,     \* max[t] is the largest ticket t has kept
          val,     \* val[t] is the counter as t read it
          rounds,  \* rounds[t] is how many calls of doit t has finished
          ahead    \* history: the threads that held a ticket when t began
                   \* to choose and have not entered since

vars == <<mem, buf, pc, j, max, val, rounds, ahead>>

Choosing(t) == <<"choosing", t>>
Number(t)   == <<"number", t>>
CounterLoc  == <<"counter", 0>>

Location == ({"choosing", "number"} \X Thread) \cup {CounterLoc}

\* t holds a ticket and has yet to enter.
Waiting == {"waitChoosing", "waitNumber", "greater", "equal"}

Label == {"choose", "compare", "keep", "draw", "chosen", "csRead", "csWrite",
          "release", "done"} \cup Waiting

Init ==
  /\ MemInit(Location)
  /\ pc     = [t \in Thread |-> "choose"]
  /\ j      = [t \in Thread |-> 0]
  /\ max    = [t \in Thread |-> 0]
  /\ val    = [t \in Thread |-> 0]
  /\ rounds = [t \in Thread |-> 0]
  /\ ahead  = [t \in Thread |-> {}]

Goto(t, from, to) ==
  /\ pc[t] = from
  /\ pc' = [pc EXCEPT ![t] = to]

-----------------------------------------------------------------------------
(* Doorway: draw a ticket *)

\* choosing[i] = 1; max = -1
Choose(t) ==
  /\ Goto(t, "choose", "compare")
  /\ Store(t, Choosing(t), 1)
  /\ max' = [max EXCEPT ![t] = -1]
  /\ ahead' = [ahead EXCEPT ![t] = {u \in Thread : pc[u] \in Waiting}]
  /\ UNCHANGED <<j, val, rounds>>

\* Seeded bug: j <= N.
NextNumberPastEnd(t, from) ==
  LET last == j[t] = N
  IN  /\ Goto(t, from, IF last THEN "draw" ELSE "compare")
      /\ j' = [j EXCEPT ![t] = IF last THEN 0 ELSE @ + 1]

\* The loop over number goes on at j + 1, or ends.
NextNumber(t, from) ==
  LET last == j[t] = N - 1
  IN  /\ Goto(t, from, IF last THEN "draw" ELSE "compare")
      /\ j' = [j EXCEPT ![t] = IF last THEN 0 ELSE @ + 1]

\* if (number[j] > max)
Compare(t) ==
  /\ \/ /\ Load(t, Number(j[t])) > max[t]
        /\ Goto(t, "compare", "keep")
        /\ j' = j
     \/ /\ Load(t, Number(j[t])) <= max[t]
        /\ NextNumber(t, "compare")
  /\ UNCHANGED <<mem, buf, max, val, rounds, ahead>>

\* max = number[j], which may have changed since it was compared
Keep(t) ==
  /\ NextNumber(t, "keep")
  /\ max' = [max EXCEPT ![t] = Load(t, Number(j[t]))]
  /\ UNCHANGED <<mem, buf, val, rounds, ahead>>

\* number[i] = n + max
DrawAbove(t, n) ==
  /\ Goto(t, "draw", "chosen")
  /\ Store(t, Number(t), n + max[t])
  /\ max' = [max EXCEPT ![t] = 0]
  /\ UNCHANGED <<j, val, rounds, ahead>>

\* Seeded bugs: the ticket of another thread again, and one ticket too many.
DrawSame(t)   == DrawAbove(t, 0)
DrawHigher(t) == DrawAbove(t, 2)

\* number[i] = 1 + max
Draw(t) == DrawAbove(t, 1)

\* choosing[i] = 0
Chosen(t) ==
  /\ Goto(t, "chosen", "waitChoosing")
  /\ Store(t, Choosing(t), 0)
  /\ UNCHANGED <<j, max, val, rounds, ahead>>

-----------------------------------------------------------------------------
(* Wait for every smaller ticket *)

\* Seeded bug: choosing[j] is not waited for.
SkipChoosing(t) ==
  /\ Goto(t, "waitChoosing", "waitNumber")
  /\ UNCHANGED <<mem, buf, j, max, val, rounds, ahead>>

\* while (choosing[j] != 0);
WaitChoosing(t) ==
  /\ Load(t, Choosing(j[t])) = 0
  /\ Goto(t, "waitChoosing", "waitNumber")
  /\ UNCHANGED <<mem, buf, j, max, val, rounds, ahead>>

\* Thread j no longer holds t up: the outer loop goes on, or ends with t in
\* the critical section, ahead of nobody.
PassedUpTo(t, from, end) ==
  LET last == j[t] = end - 1
  IN  /\ Goto(t, from, IF last THEN "csRead" ELSE "waitChoosing")
      /\ j' = [j EXCEPT ![t] = IF last THEN 0 ELSE @ + 1]
      /\ ahead' = IF last THEN [u \in Thread |-> ahead[u] \ {t}] ELSE ahead

\* Seeded bug: j < N - 1.
PassedShort(t, from) == PassedUpTo(t, from, N - 1)

Passed(t, from) == PassedUpTo(t, from, N)

\* while (number[j] != 0)
WaitNumber(t) ==
  /\ \/ /\ Load(t, Number(j[t])) # 0
        /\ Goto(t, "waitNumber", "greater")
        /\ UNCHANGED <<j, ahead>>
     \/ /\ Load(t, Number(j[t])) = 0
        /\ Passed(t, "waitNumber")
  /\ UNCHANGED <<mem, buf, max, val, rounds>>

\* if (number[j] > number[i] || ...) break
Greater(t) ==
  /\ \/ /\ Load(t, Number(j[t])) <= Load(t, Number(t))
        /\ Goto(t, "greater", "equal")
        /\ UNCHANGED <<j, ahead>>
     \/ /\ Load(t, Number(j[t])) > Load(t, Number(t))
        /\ Passed(t, "greater")
  /\ UNCHANGED <<mem, buf, max, val, rounds>>

\* The test of an equal ticket, whose holder j may be passed if it is one of `after`.
EqualIf(t, after) ==
  LET behind == Load(t, Number(j[t])) = Load(t, Number(t)) /\ j[t] \in after
  IN  /\ \/ /\ ~behind
            /\ Goto(t, "equal", "waitNumber")
            /\ UNCHANGED <<j, ahead>>
         \/ /\ behind
            /\ Passed(t, "equal")
      /\ UNCHANGED <<mem, buf, max, val, rounds>>

\* Seeded bug: j > i.
EqualAfter(t) == EqualIf(t, {u \in Thread : u > t})

\* if (... || (number[j] == number[i] && j >= i)) break
Equal(t) == EqualIf(t, {u \in Thread : u >= t})

-----------------------------------------------------------------------------
(* Critical section and exit *)

\* int val = counter
CsRead(t) ==
  /\ Goto(t, "csRead", "csWrite")
  /\ val' = [val EXCEPT ![t] = Load(t, CounterLoc)]
  /\ UNCHANGED <<mem, buf, j, max, rounds, ahead>>

\* counter = val + 1, after a printf whose lock on stdout drains the buffer
CsWrite(t) ==
  /\ Drained(t)
  /\ Goto(t, "csWrite", "release")
  /\ Store(t, CounterLoc, val[t] + 1)
  /\ val' = [val EXCEPT ![t] = 0]
  /\ UNCHANGED <<j, max, rounds, ahead>>

\* number[i] = 0, and judge's loop calls doit again or ends
Release(t) ==
  /\ Goto(t, "release", IF rounds[t] + 1 = NLOOP[t] THEN "done" ELSE "choose")
  /\ Store(t, Number(t), 0)
  /\ rounds' = [rounds EXCEPT ![t] = @ + 1]
  /\ UNCHANGED <<j, max, val, ahead>>

-----------------------------------------------------------------------------

Step(t) ==
  \/ Choose(t) \/ Compare(t) \/ Keep(t) \/ Draw(t) \/ Chosen(t)
  \/ WaitChoosing(t) \/ WaitNumber(t) \/ Greater(t) \/ Equal(t)
  \/ CsRead(t) \/ CsWrite(t) \/ Release(t)

\* main has joined every thread.
Joined == \A t \in Thread : pc[t] = "done" /\ Drained(t)

Exit == Joined /\ UNCHANGED vars

Next == (\E t \in Thread : Step(t)) \/ Exit

\* The kernel runs every runnable thread.
Fairness == \A t \in Thread : WF_vars(Step(t))

Spec == Init /\ [][Next]_vars /\ Fairness

-----------------------------------------------------------------------------
(* Properties *)

SharedOK ==
  /\ MemTypeOK(Location)
  /\ \A t \in Thread : mem[Choosing(t)] \in {0, 1} /\ mem[Number(t)] \in Nat
  /\ mem[CounterLoc] \in Nat

LocalsOK ==
  /\ pc \in [Thread -> Label]
  /\ j \in [Thread -> Thread]
  /\ max \in [Thread -> Nat \cup {-1}]
  /\ val \in [Thread -> Nat]
  /\ rounds \in [Thread -> Nat]
  /\ \A t \in Thread : rounds[t] <= NLOOP[t]
  /\ ahead \in [Thread -> SUBSET Thread]

\* Every variable stays in its range: neither loop leaves the arrays, and no ticket is
\* negative although max starts below zero.
TypeOK == SharedOK /\ LocalsOK

InCS(t) == pc[t] \in {"csRead", "csWrite", "release"}

\* "@title: mutual exlusion": no two threads are between the load of counter
\* and the return of the ticket, although the maximum is read torn.
MutualExclusion ==
  \A t, u \in Thread : InCS(t) /\ InCS(u) => t = u

\* The queue of the bakery: a thread that held its ticket before t began to
\* choose enters before t.
FirstComeFirstServed ==
  \A t \in Thread : InCS(t) => ahead[t] = {}

\* The calls of doit that have begun, each a thread and a number from 1.
Begun ==
  LET BegunBy(u) == IF pc[u] \in {"choose", "done"} THEN rounds[u] ELSE rounds[u] + 1
  IN  UNION {{u} \X (1 .. BegunBy(u)) : u \in Thread}

\* Tickets cannot outgrow an int: although a bakery's tickets have no bound of
\* their own, none exceeds the number of calls of doit that have begun.
TicketBound == \A t \in Thread : mem[Number(t)] <= Cardinality(Begun)

\* The additions of t that have reached memory.
Additions(t) ==
  rounds[t] + (IF pc[t] = "release" THEN 1 ELSE 0) - Pending(t, CounterLoc)

Counter == INSTANCE AtomicCounter
             WITH Times <- NLOOP,
                  count <- mem[CounterLoc],
                  left  <- [t \in Thread |-> NLOOP[t] - Additions(t)]

\* The load and the store of counter act as one atomic addition: no update is
\* lost, so main prints the total number of rounds.
ImplementsAtomicCounter == Counter!Spec

\* "wait for both threads to terminate": no thread waits for ever at a busy
\* wait, and main's joins return.
Termination == <>Joined

=============================================================================
