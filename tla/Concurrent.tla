------------------------------ MODULE Concurrent ----------------------------
(***************************************************************************)
(* The programs of concurrent/ whose threads share atomics or a mutex.     *)
(* They share nothing with each other: a behaviour runs the one it has     *)
(* picked, and leaves the others as they were made.                        *)
(***************************************************************************)
EXTENDS Integers, Sequences, FiniteSets

CONSTANTS Thread,
          Rounds,
          QueueThread, capacity, QueueSetup,
          StackThread, Address, Null, Freed, StackSetup,
          Enqueuer, Dequeuer, Calls

AtomicPlain == {"counter", "data"}
AtomicLocation == AtomicPlain \cup {"flag_", "flag", "x", "y", "z", "go"}

QueuePlain == {<<"data", i>> : i \in 0 .. (capacity - 1)}
QueueLocation == QueuePlain \cup {<<a, 0>> : a \in {"front_", "back_", "write_"}}

Quotas(T) == [push : [T -> Nat], pop : [T -> Nat]]

ASSUME ConcurrentAssumption ==
  /\ Thread = 1 .. 4 /\ Rounds \in Nat \ {0} /\ QueueThread \cup StackThread \subseteq Thread
  /\ capacity \in Nat \ {0, 1}
  /\ QueueSetup \subseteq Quotas(QueueThread) /\ StackSetup \subseteq Quotas(StackThread)
  /\ IsFiniteSet(Address) /\ Null \notin Address
  /\ Freed \notin [data : StackThread \X Nat, next : Address \cup {Null}]
  /\ Enqueuer \cup Dequeuer = Thread /\ Enqueuer \cap Dequeuer = {}
  /\ Calls \in Nat \ {0}

VARIABLES picked,  \* the program of this behaviour
          atHist, atView, atRace, program, atPc, reg, left,
          qHist, qView, qRace, qQuota, qPc, at, seenAt, fooled, result, qSent, qGot, lapped,
          sQuota, head, node, sPc, cur, mine, next, sSent, sGot, broken,
          m_queue, m_mutex, mPc, t_, mSent, mGot

At == INSTANCE Atomics WITH
        Location <- AtomicLocation, Plain <- AtomicPlain,
        hist <- atHist, view <- atView, race <- atRace, pc <- atPc

Q == INSTANCE LockFreeQueue WITH
       Thread <- QueueThread, Location <- QueueLocation, Plain <- QueuePlain,
       Setup <- QueueSetup, hist <- qHist, view <- qView, race <- qRace,
       quota <- qQuota, pc <- qPc, sent <- qSent, got <- qGot

S == INSTANCE LockFreeStack WITH
       Thread <- StackThread, Setup <- StackSetup,
       quota <- sQuota, pc <- sPc, sent <- sSent, got <- sGot

M == INSTANCE SafeQueue WITH pc <- mPc, sent <- mSent, got <- mGot

atomicVars == <<atHist, atView, atRace, program, atPc, reg, left>>
queueVars  == <<qHist, qView, qRace, qQuota, qPc, at, seenAt, fooled, result, qSent, qGot,
                lapped>>
stackVars  == <<sQuota, head, node, sPc, cur, mine, next, sSent, sGot, broken>>
mutexVars  == <<m_queue, m_mutex, mPc, t_, mSent, mGot>>

vars == <<picked, atomicVars, queueVars, stackVars, mutexVars>>

Init ==
  /\ picked \in {"atomics", "queue", "stack", "mutex queue"}
  /\ At!Init /\ Q!Init /\ S!Init /\ M!Init
  /\ picked # "atomics" => program = "Relax"
  /\ picked # "queue" => qQuota = CHOOSE q \in QueueSetup : TRUE
  /\ picked # "stack" => sQuota = CHOOSE q \in StackSetup : TRUE

\* A step of the program p
Of(p) == picked = p /\ picked' = picked

AtomicsStep(A) == Of("atomics") /\ A /\ UNCHANGED <<queueVars, stackVars, mutexVars>>
QueueStep(A)   == Of("queue") /\ A /\ UNCHANGED <<atomicVars, stackVars, mutexVars>>
StackStep(A)   == Of("stack") /\ A /\ UNCHANGED <<atomicVars, queueVars, mutexVars>>
MutexStep(A)   == Of("mutex queue") /\ A /\ UNCHANGED <<atomicVars, queueVars, stackVars>>

Next ==
  AtomicsStep(At!Next) \/ QueueStep(Q!Next) \/ StackStep(S!Next) \/ MutexStep(M!Next)

\* The kernel runs every thread, a store becomes visible in the end, and a mutex that is
\* free again and again is not kept from a thread for ever.
Spec ==
  /\ Init /\ [][Next]_vars
  /\ \A t \in Thread : WF_vars(AtomicsStep(At!Step(t))) /\ SF_vars(MutexStep(M!Step(t)))
  /\ \A t \in QueueThread : WF_vars(QueueStep(Q!Step(t)))
  /\ WF_vars(QueueStep(\E t \in QueueThread : Q!BecomeVisible(t)))
  /\ \A t \in StackThread : WF_vars(StackStep(S!Step(t)))
  /\ WF_vars(StackStep(S!Destroy))

-----------------------------------------------------------------------------

TypeOK == At!TypeOK /\ Q!TypeOK /\ S!TypeOK

\* Atomics and LockFreeQueue.cpp: the acquire and release that the code asks for order
\* every plain access; the queue's slots up to where a second consumer or a thread that
\* was lapped comes in.
DataRaceFree == At!DataRaceFree /\ Q!DataRaceFree

\* SpinLock.h and RelaxConsistency.cpp: no addition is lost.
NoLostAddition == At!NoLostAddition

\* AcquireReleaseConsistency.cpp, SequentialConsistency.cpp: a reader of the flag has the
\* data, and two readers agree on the order of two stores.
Published == At!Published

\* LockFreeQueue.cpp: cursors compared modulo the capacity, which may be old values,
\* mislead no thread that is the only producer and the only consumer.
LoneSidesNeverLapped == Q!LoneSidesNeverLapped

\* LockFreeQueue.cpp and SafeQueue.cpp: under any interleaving a push appends and a pop
\* takes the oldest value, each in one step to the other threads.
ImplementsFifoQueue == Q!ImplementsFifoQueue /\ M!ImplementsFifoQueue

\* LockFreeStack.cpp: a node has one holder until it is deleted, at reused addresses too;
\* it takes a second popper to read a freed node or to meet ABA.
NodesHaveOneHolder == S!NodesHaveOneHolder

\* LockFreeStack.cpp: a push puts its value on top and a pop takes the top one.
ImplementsLifoStack == S!ImplementsLifoStack

\* Every program ends, unless its spin lock was made set, its thread was lapped or its
\* stack is broken.
Termination ==
  <>(CASE picked = "atomics" -> At!MadeSet \/ At!Ended
       [] picked = "queue" -> lapped \/ Q!Ended
       [] picked = "stack" -> S!Ended
       [] picked = "mutex queue" -> M!Ended)

=============================================================================
