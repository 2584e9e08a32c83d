------------------------- MODULE SharedMemoryProofs -------------------------
(***************************************************************************)
(* What a load and a store do when no store is pending: the memory of      *)
(* SharedMemory with BufferSize = 0 is sequentially consistent.            *)
(***************************************************************************)
EXTENDS SharedMemory, FiniteSetTheorems, TLAPS

\* No store of any thread is pending.
BuffersEmpty == buf = [t \in Thread |-> <<>>]

\* A load finds nothing in an empty buffer and reads memory.
LEMMA LoadReadsMemory ==
  ASSUME BuffersEmpty, NEW t \in Thread, NEW a
  PROVE  Load(t, a) = mem[a]
  BY SMTT(20) DEF BuffersEmpty, Load, SelectLastInSeq

\* Without a buffer a store is one write to memory.
LEMMA StoreWritesMemory ==
  ASSUME BufferSize = 0, BuffersEmpty, NEW t \in Thread, NEW a, NEW v, Store(t, a, v)
  PROVE  /\ mem' = [mem EXCEPT ![a] = v]
         /\ buf' = buf
         /\ BuffersEmpty'
  BY DEF BuffersEmpty, Store

\* An empty buffer holds no store to any location.
LEMMA NothingPending ==
  ASSUME BuffersEmpty, NEW t \in Thread, NEW a
  PROVE  Pending(t, a) = 0 /\ Drained(t)
<1>1. {n \in DOMAIN buf[t] : buf[t][n].loc = a} = {}
  BY DEF BuffersEmpty
<1> QED
  BY <1>1, FS_EmptySet DEF Pending, Drained, BuffersEmpty

=============================================================================
