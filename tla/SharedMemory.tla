---------------------------- MODULE SharedMemory ----------------------------
(***************************************************************************)
(* The memory the programs of concurrent/ run on.  Their threads share     *)
(* plain ints and atomics; the code says how they are accessed, the build  *)
(* decides what another thread sees.  Two builds are modelled:             *)
(*                                                                         *)
(*   BufferSize = 0   every store is visible at once (sequential           *)
(*                    consistency, what the papers assume)                 *)
(*   BufferSize > 0   x86-TSO: a store waits in the FIFO store buffer of   *)
(*                    its thread, which that thread's loads look into and  *)
(*                    the others' do not                                   *)
(*                                                                         *)
(* A location is a pair <<variable, index>>, with index 0 for a scalar.    *)
(***************************************************************************)
EXTENDS Integers, Sequences, FiniteSets, SequencesExt

CONSTANTS Thread,      \* the threads that share the memory
          BufferSize   \* stores a thread may have pending

ASSUME BufferSizeAssumption == BufferSize \in Nat

VARIABLES mem,   \* mem[a] is the value of location a that every thread sees
          buf    \* buf[t] is the sequence of t's pending stores, oldest first

Write(a, v) == [loc |-> a, val |-> v]

\* The value thread t reads from a: its own newest pending store, if any.
Load(t, a) ==
  LET n == SelectLastInSeq(buf[t], LAMBDA w : w.loc = a)
  IN  IF n = 0 THEN mem[a] ELSE buf[t][n].val

Store(t, a, v) ==
  \/ /\ BufferSize = 0
     /\ mem' = [mem EXCEPT ![a] = v]
     /\ buf' = buf
  \/ /\ Len(buf[t]) < BufferSize
     /\ buf' = [buf EXCEPT ![t] = Append(@, Write(a, v))]
     /\ mem' = mem

\* The oldest pending store of t reaches memory.
Drain(t) ==
  /\ buf[t] # <<>>
  /\ mem' = [mem EXCEPT ![Head(buf[t]).loc] = Head(buf[t]).val]
  /\ buf' = [buf EXCEPT ![t] = Tail(@)]

\* What a lock-prefixed instruction waits for.
Drained(t) == buf[t] = <<>>

\* The stores of t to a that no other thread sees yet.
Pending(t, a) == Cardinality({n \in DOMAIN buf[t] : buf[t][n].loc = a})

MemInit(Location) ==
  /\ mem = [a \in Location |-> 0]
  /\ buf = [t \in Thread |-> <<>>]

MemTypeOK(Location) ==
  /\ mem \in [Location -> Int]
  /\ buf \in [Thread -> Seq([loc : Location, val : Int])]
  /\ \A t \in Thread : Len(buf[t]) <= BufferSize

=============================================================================
