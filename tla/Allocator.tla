------------------------------ MODULE Allocator ------------------------------
(***************************************************************************)
(* memory/allocator.cpp: blocks of memory from sbrk, each with a header in *)
(* front of its data, linked in the order in which they were made. Sizes   *)
(* and addresses count in units of 8 bytes, to which sizes are rounded up. *)
(* Others in the process may move the break, too.                          *)
(***************************************************************************)
EXTENDS Integers, FiniteSets

CONSTANTS Size,      \* the sizes asked for, in units
          Limit,     \* bound: where sbrk fails
          NULL

VARIABLES brk,       \* the break: the memory below it has been handed out
          block,     \* block[a] is the header at a, a function on the headers in use
          tail,
          foreign,   \* the units that others have got from sbrk
          aborted    \* a header was made at the address that says that sbrk failed

allocVars == <<brk, block, tail, foreign, aborted>>

\* sizeof(header_t) - header_pending_size
Header == 2

Init ==
  /\ brk = 0
  /\ block = [a \in {} |-> NULL]
  /\ tail = NULL
  /\ foreign = {}
  /\ aborted = FALSE

\* MemoryAllocator() makes a head that no other block is linked to.
headNext == NULL

\* The first free block, from a on, that is large enough
Fit(a, n) ==
  LET fit[b \in DOMAIN block \cup {NULL}] ==
        IF b = NULL \/ (block[b].free /\ block[b].size >= n) THEN b ELSE fit[block[b].next]
  IN  fit[a]

Reuse(a) ==
  /\ block' = [block EXCEPT ![a].free = FALSE]
  /\ UNCHANGED <<brk, tail, foreign, aborted>>

\* sbrk fails with (void *)-1, which is not nullptr.
Fail ==
  /\ aborted' = TRUE
  /\ UNCHANGED <<brk, block, tail, foreign>>

Extend(n) ==
  LET linked == IF tail = NULL THEN block ELSE [block EXCEPT ![tail].next = brk]
  IN  /\ block' = [a \in DOMAIN block \cup {brk} |->
                     IF a = brk THEN [size |-> n, free |-> FALSE, next |-> NULL] ELSE linked[a]]
      /\ tail' = brk
      /\ brk' = brk + Header + n
      /\ UNCHANGED <<foreign, aborted>>

Allocate(n) ==
  /\ ~aborted
  /\ LET a == Fit(headNext, n)
     IN  IF a # NULL THEN Reuse(a)
         ELSE IF brk + Header + n > Limit THEN Fail
         ELSE Extend(n)

\* The free blocks from a on: the memory they take, and what follows them
Run(a) ==
  LET run[b \in DOMAIN block \cup {NULL}] ==
        IF b = NULL \/ ~block[b].free THEN [size |-> 0, next |-> b, merged |-> {}]
        ELSE LET rest == run[block[b].next]
             IN  [size |-> Header + block[b].size + rest.size, next |-> rest.next,
                  merged |-> {b} \cup rest.merged]
  IN  run[a]

\* The block at a and the free ones that follow it become one.
MergeInto(a, end) ==
  LET run == Run(block[a].next)
  IN  /\ ~aborted
      /\ block' = [b \in DOMAIN block \ run.merged |->
                     IF b = a THEN [size |-> block[a].size + run.size, free |-> TRUE,
                                    next |-> run.next]
                     ELSE block[b]]
      /\ tail' = IF run.next = NULL THEN end ELSE tail
      /\ UNCHANGED <<brk, foreign, aborted>>

\* Seeded bug: tail is left at a block that has been merged.
FreeKeepsTail(a) == MergeInto(a, tail)

\* Called for the data of a block in use
Free(a) == MergeInto(a, a)

Foreign(n) ==
  /\ ~aborted
  /\ brk + n <= Limit
  /\ foreign' = foreign \cup brk .. brk + n - 1
  /\ brk' = brk + n
  /\ UNCHANGED <<block, tail, aborted>>

Next ==
  \/ \E n \in Size : Allocate(n)
  \/ \E a \in DOMAIN block : ~block[a].free /\ Free(a)
  \/ Foreign(1)

-----------------------------------------------------------------------------

Extent(a) == a .. a + Header + block[a].size - 1

InUse == {a \in DOMAIN block : ~block[a].free}

\* The header after a in memory
Following(a) ==
  LET later == {b \in DOMAIN block : b > a}
  IN  IF later = {} THEN NULL ELSE CHOOSE b \in later : \A c \in later : b <= c

\* The blocks in use lie apart, from each other and from what belongs to others; the list
\* links all blocks in the order of their addresses and tail is its end, merged blocks
\* have left it for good; and the blocks take all the memory there is, if nobody else
\* moves the break.
BlocksApart ==
  /\ \A a, b \in InUse : a # b => Extent(a) \cap Extent(b) = {}
  /\ \A a \in InUse : Extent(a) \cap foreign = {}
  /\ \A a \in DOMAIN block : block[a].next = Following(a) /\ (block[a].next = NULL <=> a = tail)
  /\ foreign = {} => UNION {Extent(a) : a \in DOMAIN block} = 0 .. brk - 1

=============================================================================
