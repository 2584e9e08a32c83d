------------------------------ MODULE Containers -----------------------------
(***************************************************************************)
(* The structures of Structures that do without recursive operators, which *)
(* is what theorems need: their state, and what is checked of them.        *)
(***************************************************************************)
EXTENDS Integers, Sequences

CONSTANTS HeapKey, HeapCapacity,
          CacheEntry, CacheNode, Capacities,   \* the capacities of the caches
          SkipEntry, SkipNode, max_level,
          Word,
          RBEntry,
          Size, Limit,
          SortValue, SortSize,   \* the elements and the length of arrays that are sorted
          Numbers,               \* the numbers whose digits are counted
          head, header, NULL, Freed

ASSUME ContainersAssumption ==
  /\ HeapKey \subseteq Int /\ HeapCapacity \in Nat /\ SortValue \subseteq Int
  /\ CacheEntry \subseteq Int \X Int
  /\ head \notin CacheNode /\ NULL \notin CacheNode \cup {head}
  /\ Freed \notin [key : Int, value : Int, left : CacheNode \cup {head, NULL},
                   right : CacheNode \cup {head, NULL}]
  /\ SkipEntry \subseteq Int \X Int /\ max_level \in Nat
  /\ header \notin SkipNode /\ NULL \notin SkipNode \cup {header}
  /\ Freed \notin [key : Int, value : Int,
                   forward : UNION {[0 .. h -> SkipNode \cup {NULL}] : h \in 0 .. max_level}]
  /\ Size \subseteq Nat /\ NULL \notin Int
  /\ \A w \in Word : w \in Seq({w[n] : n \in DOMAIN w})

VARIABLES harr, heapPc, heapI, content,
          cap, list, mp, recent, cacheWrong,
          skipNode, skip_list_level, element_count, skipPc, call, cur, skipI, update,
          skipDict, skipWrong,
          nodes, ends, trieAborted, words, excused, trieWrong,
          rbNode, rbRoot, rbPc, x, phantom, misrotated, rbDict, rbWrong,
          brk, block, tail, foreign, allocAborted,
          given, nums, calls, sortI, sortJ,
          number, digits, place, tmp, count

Heap == INSTANCE MinHeap WITH
          Key <- HeapKey, capacity <- HeapCapacity, pc <- heapPc, i <- heapI

Cache == INSTANCE LRUCache WITH Entry <- CacheEntry, Node <- CacheNode, wrong <- cacheWrong

Skip == INSTANCE SkipList WITH
          Entry <- SkipEntry, Node <- SkipNode, node <- skipNode, pc <- skipPc, i <- skipI,
          dict <- skipDict, wrong <- skipWrong

Trie == INSTANCE TrieTree WITH aborted <- trieAborted, wrong <- trieWrong

RB == INSTANCE RBTree WITH
        Entry <- RBEntry, node <- rbNode, root <- rbRoot, pc <- rbPc, dict <- rbDict,
        wrong <- rbWrong

Memory == INSTANCE Allocator WITH aborted <- allocAborted

Sort == INSTANCE Quicksort WITH
          Value <- SortValue, i <- sortI, j <- sortJ

Digits == INSTANCE CountDigits

heapVars  == <<harr, heapPc, heapI, content>>
cacheVars == <<cap, list, mp, recent, cacheWrong>>
skipVars  == <<skipNode, skip_list_level, element_count, skipPc, call, cur, skipI, update,
               skipDict, skipWrong>>
trieVars  == <<nodes, ends, trieAborted, words, excused, trieWrong>>
rbVars    == <<rbNode, rbRoot, rbPc, x, phantom, misrotated, rbDict, rbWrong>>
allocVars == <<brk, block, tail, foreign, allocAborted>>
sortVars  == <<given, nums, calls, sortI, sortJ>>
digitVars == <<number, digits, place, tmp, count>>
algoVars  == <<sortVars, digitVars>>

-----------------------------------------------------------------------------

\* MinHeap.cpp: whatever is pushed and popped, and however far a repair has come, the
\* array keeps its shape and order, and pop takes out the least key.
HeapIsPriorityQueue == Heap!TypeOK /\ Heap!IsPriorityQueue

\* LRUCache.cpp: the list, its tail and the map agree on what was used last, after every
\* eviction.
CacheKeepsRecency == Cache!KeepsRecency

\* SkipList.cpp: the levels stay sorted sublists of each other and hold what was inserted
\* and not deleted, whatever heights the nodes draw.
SkipListKeepsMap == Skip!KeepsMap

\* TrieTree.cpp: Del takes with it no more than the words on its way, and Get finds no
\* word that is not there.
TrieInventsNothing == Trie!InventsNothing

\* allocator.cpp: blocks in use lie apart, also from the memory that others have got, and
\* the list of blocks is in the order of their addresses with tail at its end.
BlocksApart == Memory!BlocksApart

\* Quicksort.cpp and countDigitOne.cpp: the array ends up sorted, with its elements and no
\* index outside the range, and the digits are counted as they are written.
AlgorithmsCompute == Sort!Sorts /\ Digits!Counts

=============================================================================
