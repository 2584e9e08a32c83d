----------------------------- MODULE Structures -----------------------------
(***************************************************************************)
(* The sequential data structures of structure/, tree/ and memory/, each   *)
(* under any sequence of calls, and the algorithms of algorithm/. They     *)
(* share nothing: a behaviour exercises the one it has picked, and leaves  *)
(* the others as they were made.                                           *)
(***************************************************************************)
EXTENDS Containers

CONSTANTS AvlEntry, MaxNodes

VARIABLES picked,      \* the structure of this behaviour
          avlRoot, keys, avlDict, twice, avlWrong

Avl == INSTANCE AvlTree WITH
         Entry <- AvlEntry, Null <- NULL, root <- avlRoot, dict <- avlDict, wrong <- avlWrong

avlVars == <<avlRoot, keys, avlDict, twice, avlWrong>>

vars == <<picked, heapVars, cacheVars, skipVars, trieVars, avlVars, rbVars, allocVars,
          algoVars>>

Init ==
  /\ picked \in {"heap", "cache", "skip list", "trie", "AVL tree", "red-black tree", "memory",
                "quicksort", "digits"}
  /\ Heap!Init /\ Skip!Init /\ Trie!Init /\ Avl!Init /\ RB!Init /\ Memory!Init
  /\ Cache!InitFor(IF picked = "cache" THEN Capacities ELSE {0})
  /\ Sort!InitFor(IF picked = "quicksort" THEN 0 .. SortSize ELSE {0})
  /\ Digits!InitFor(IF picked = "digits" THEN Numbers ELSE {0})

\* A step of the structure s
Of(s) == picked = s /\ picked' = picked

Next ==
  \/ /\ Of("heap") /\ Heap!Next
     /\ UNCHANGED <<cacheVars, skipVars, trieVars, avlVars, rbVars, allocVars, algoVars>>
  \/ /\ Of("cache") /\ Cache!Next
     /\ UNCHANGED <<heapVars, skipVars, trieVars, avlVars, rbVars, allocVars, algoVars>>
  \/ /\ Of("skip list") /\ Skip!Next
     /\ UNCHANGED <<heapVars, cacheVars, trieVars, avlVars, rbVars, allocVars, algoVars>>
  \/ /\ Of("trie") /\ Trie!Next
     /\ UNCHANGED <<heapVars, cacheVars, skipVars, avlVars, rbVars, allocVars, algoVars>>
  \/ /\ Of("AVL tree") /\ Avl!Next
     /\ UNCHANGED <<heapVars, cacheVars, skipVars, trieVars, rbVars, allocVars, algoVars>>
  \/ /\ Of("red-black tree") /\ RB!Next
     /\ UNCHANGED <<heapVars, cacheVars, skipVars, trieVars, avlVars, allocVars, algoVars>>
  \/ /\ Of("memory") /\ Memory!Next
     /\ UNCHANGED <<heapVars, cacheVars, skipVars, trieVars, avlVars, rbVars, algoVars>>
  \/ /\ Of("quicksort") /\ Sort!Next
     /\ UNCHANGED <<heapVars, cacheVars, skipVars, trieVars, avlVars, rbVars, allocVars>>
     /\ UNCHANGED digitVars
  \/ /\ Of("digits") /\ Digits!Next
     /\ UNCHANGED <<heapVars, cacheVars, skipVars, trieVars, avlVars, rbVars, allocVars>>
     /\ UNCHANGED sortVars

Spec == Init /\ [][Next]_vars

-----------------------------------------------------------------------------

\* AvlTree.cpp and RBTree.cpp: rotations, deletions by a successor and changes of colour
\* lose no key, keep the order, and leave a red-black tree, up to the steps where the
\* code of RBTree.cpp goes wrong.
SearchTreesKeepKeys == Avl!KeepsKeys /\ RB!KeepsMap

=============================================================================
