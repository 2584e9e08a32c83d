------------------------------- MODULE Atomics ------------------------------
(***************************************************************************)
(* The programs of concurrent/ that are a handful of atomic accesses, on   *)
(* the C++ memory model: the lock of SpinLock.h, with a client that counts *)
(* in a plain variable (the repository has none), and the three programs   *)
(* of memOrder/.  A behaviour runs one of them, `program`.                 *)
(***************************************************************************)
EXTENDS CppMemory

CONSTANTS Rounds   \* additions of each thread that counts

VARIABLES program,  \* the program that runs
          pc,       \* pc[t] is what t does next
          reg,      \* reg[t] is the value t has read, 0 when it holds none
          left      \* left[t] is how many additions t has still to make

vars == <<hist, view, race, program, pc, reg, left>>

Program == {"SpinLock", "Relax", "AcquireRelease", "Sequential"}

\* What the threads of a program do first; a program of fewer threads leaves the
\* others idle.
Start ==
  [SpinLock       |-> <<"lock", "lock", "lock", "idle">>,
   Relax          |-> <<"increase", "increase", "idle", "idle">>,
   AcquireRelease |-> <<"produce", "await", "idle", "idle">>,
   Sequential     |-> <<"writeX", "awaitY", "awaitXY", "awaitYX">>]

\* SpinLock() leaves flag_ uninitialised (before C++20): it may be set.
Init ==
  /\ program \in Program
  /\ \E set \in {0, 1} :
       /\ program # "SpinLock" => set = 0
       /\ MemInit([a \in Location |-> IF a = "flag_" THEN set ELSE 0])
  /\ pc = Start[program]
  /\ reg = [t \in Thread |-> 0]
  /\ left = [t \in Thread |-> IF pc[t] \in {"lock", "increase"} THEN Rounds ELSE 0]

Goto(t, from, to) ==
  /\ pc[t] = from
  /\ pc' = [pc EXCEPT ![t] = to]

Value(a, n) == hist[a][n].val

-----------------------------------------------------------------------------
(* SpinLock.h, and a client *)

\* while (flag_.test_and_set(acquire)): a set flag that is set again tells its
\* readers what it told before, so a failed turn of the loop is a load.
Lock(t) ==
  /\ \/ /\ Current("flag_") = 0
        /\ Goto(t, "lock", "csRead")
        /\ Exchange(t, "flag_", 1, "acquire")
     \/ /\ Current("flag_") = 1
        /\ Goto(t, "lock", "lock")
        /\ Load(t, "flag_", "acquire", Newest("flag_"))
  /\ UNCHANGED <<program, reg, left>>

CsRead(t) ==
  \E n \in Readable(t, "counter") :
    /\ Goto(t, "csRead", "csWrite")
    /\ Read(t, "counter", n)
    /\ reg' = [reg EXCEPT ![t] = Value("counter", n)]
    /\ UNCHANGED <<program, left>>

CsWrite(t) ==
  /\ Goto(t, "csWrite", "unlock")
  /\ Write(t, "counter", reg[t] + 1)
  /\ reg' = [reg EXCEPT ![t] = 0]
  /\ left' = [left EXCEPT ![t] = @ - 1]
  /\ UNCHANGED program

\* flag_.clear(release)
Unlock(t) ==
  /\ Goto(t, "unlock", IF left[t] = 0 THEN "done" ELSE "lock")
  /\ Store(t, "flag_", 0, "release")
  /\ UNCHANGED <<program, reg, left>>

-----------------------------------------------------------------------------
(* memOrder/RelaxConsistency.cpp *)

\* Seeded bug: x = x + 1 in two accesses.
IncreaseTorn(t) ==
  \E n \in Readable(t, "x") :
    /\ Goto(t, "increase", IF left[t] = 1 THEN "done" ELSE "increase")
    /\ Store(t, "x", Value("x", n) + 1, "relaxed")
    /\ left' = [left EXCEPT ![t] = @ - 1]
    /\ UNCHANGED <<program, reg>>

\* x.fetch_add(1, relaxed)
Increase(t) ==
  /\ Goto(t, "increase", IF left[t] = 1 THEN "done" ELSE "increase")
  /\ Exchange(t, "x", Current("x") + 1, "relaxed")
  /\ left' = [left EXCEPT ![t] = @ - 1]
  /\ UNCHANGED <<program, reg>>

-----------------------------------------------------------------------------
(* memOrder/AcquireReleaseConsistency.cpp *)

\* data = 100, with 100 as 1
Produce(t) ==
  /\ Goto(t, "produce", "publish")
  /\ Write(t, "data", 1)
  /\ UNCHANGED <<program, reg, left>>

\* Seeded bug: store(true, relaxed).
PublishRelaxed(t) ==
  /\ Goto(t, "publish", "done")
  /\ Store(t, "flag", 1, "relaxed")
  /\ UNCHANGED <<program, reg, left>>

\* flag.store(true, release)
Publish(t) ==
  /\ Goto(t, "publish", "done")
  /\ Store(t, "flag", 1, "release")
  /\ UNCHANGED <<program, reg, left>>

\* while (!flag.load(acquire))
Await(t) ==
  \E n \in Readable(t, "flag") :
    /\ Goto(t, "await", IF Value("flag", n) = 1 THEN "consume" ELSE "await")
    /\ Load(t, "flag", "acquire", n)
    /\ UNCHANGED <<program, reg, left>>

\* std::cout << data
Consume(t) ==
  \E n \in Readable(t, "data") :
    /\ Goto(t, "consume", "done")
    /\ Read(t, "data", n)
    /\ reg' = [reg EXCEPT ![t] = Value("data", n)]
    /\ UNCHANGED <<program, left>>

-----------------------------------------------------------------------------
(* memOrder/SequentialConsistency.cpp *)

\* a.store(v)
StoreSC(t, from, to, a, v) ==
  /\ Goto(t, from, to)
  /\ Store(t, a, v, "seq_cst")
  /\ UNCHANGED <<program, left>>

\* while (!go.load()) yield
AwaitGo(t, from, to) ==
  /\ Goto(t, from, IF Current("go") = 1 THEN to ELSE from)
  /\ Load(t, "go", "seq_cst", Newest("go"))
  /\ UNCHANGED <<program, reg, left>>

\* int r1 = a.load()
LoadR1(t, from, to, a) ==
  /\ Goto(t, from, to)
  /\ Load(t, a, "seq_cst", Newest(a))
  /\ reg' = [reg EXCEPT ![t] = Current(a)]
  /\ UNCHANGED <<program, left>>

\* int r2 = b.load(); if (r1 == 1 && r2 == want) ...
LoadR2(t, from, to, b, want) ==
  /\ Goto(t, from, IF reg[t] = 1 /\ Current(b) = want THEN to ELSE "done")
  /\ Load(t, b, "seq_cst", Newest(b))
  /\ reg' = [reg EXCEPT ![t] = 0]
  /\ UNCHANGED <<program, left>>

WriteX(t) ==
  \/ StoreSC(t, "writeX", "setGo", "x", 1) /\ reg' = reg
  \/ StoreSC(t, "setGo", "done", "go", 1) /\ reg' = reg

WriteY(t) ==
  \/ AwaitGo(t, "awaitY", "writeY")
  \/ StoreSC(t, "writeY", "done", "y", 1) /\ reg' = reg

ReadXThenY(t) ==
  \/ AwaitGo(t, "awaitXY", "readX")
  \/ LoadR1(t, "readX", "thenY", "x")
  \/ LoadR2(t, "thenY", "z1", "y", 1)

ReadYThenX(t) ==
  \/ AwaitGo(t, "awaitYX", "readY")
  \/ LoadR1(t, "readY", "thenX", "y")
  \/ LoadR2(t, "thenX", "z2", "x", 0)

\* z.store(1) of one reader, z.store(2) of the other
WriteZ(t) ==
  /\ reg' = reg
  /\ \/ StoreSC(t, "z1", "done", "z", 1)
     \/ StoreSC(t, "z2", "done", "z", 2)

-----------------------------------------------------------------------------

Step(t) ==
  \/ Lock(t) \/ CsRead(t) \/ CsWrite(t) \/ Unlock(t) \/ Increase(t)
  \/ Produce(t) \/ Publish(t) \/ Await(t) \/ Consume(t)
  \/ WriteX(t) \/ WriteY(t) \/ ReadXThenY(t) \/ ReadYThenX(t) \/ WriteZ(t)

Ended == \A t \in Thread : pc[t] \in {"done", "idle"}

Exit == Ended /\ UNCHANGED vars

Next == (\E t \in Thread : Step(t)) \/ Exit

\* The kernel runs every thread, and a store becomes visible in the end.
Spec == Init /\ [][Next]_vars /\ \A t \in Thread : WF_vars(Step(t))

-----------------------------------------------------------------------------
(* Properties *)

TypeOK ==
  /\ MemTypeOK([a \in Location |-> 0..Max({3 * Rounds, 2})])
  /\ program \in Program
  /\ \A t \in Thread : left[t] \in 0..Rounds /\ reg[t] \in 0..(3 * Rounds)

\* The acquire and release that the programs ask for order every plain access:
\* no behaviour is undefined.
DataRaceFree == ~race

\* The additions that are still to be made.
Remaining == left[1] + left[2] + left[3]

\* Neither the plain counter under the lock nor the relaxed fetch_add loses an
\* addition.
NoLostAddition ==
  /\ program = "SpinLock" => Current("counter") + Remaining = 3 * Rounds
  /\ program = "Relax" => Current("x") + Remaining = 2 * Rounds

\* The consumer prints what the producer stored (L1 happens before L4), and z is
\* never 2: a reader that misses x = 1 cannot have seen y = 1.
Published ==
  /\ program = "AcquireRelease" /\ pc[2] = "done" => reg[2] = 1
  /\ program = "Sequential" => Current("z") # 2

\* The spin lock was made with its flag set.
MadeSet == Value("flag_", 1) = 1

\* Every program ends, unless its spin lock was made set.
Termination == <>(MadeSet \/ Ended)

=============================================================================
