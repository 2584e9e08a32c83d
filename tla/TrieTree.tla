------------------------------ MODULE TrieTree ------------------------------
(***************************************************************************)
(* tree/TrieTree.cpp: words over an alphabet, as a tree of their prefixes. *)
(* A node is the prefix that leads to it, so `nodes` is the tree and the   *)
(* root is <<>>. Del leaves no root when nothing is left of the tree, and  *)
(* whatever is called then goes through a null pointer.                    *)
(***************************************************************************)
EXTENDS Integers, SequencesExt

CONSTANT Word

VARIABLES nodes,    \* the prefixes that have a TrieNode
          ends,     \* the nodes with isEndOfWord
          aborted,  \* a null root was used, or the assertion of removeWord failed
          words,    \* what is promised: the words put and not deleted
          excused,  \* the words of these that a deletion may have taken with it
          wrong     \* Get has found a word that is not promised

trieVars == <<nodes, ends, aborted, words, excused, wrong>>

Init ==
  /\ nodes = {<<>>} /\ ends = {}
  /\ aborted = FALSE
  /\ words = {} /\ excused = {}
  /\ wrong = FALSE

Abort ==
  /\ aborted' = TRUE
  /\ UNCHANGED <<nodes, ends, words, excused, wrong>>

Rooted == <<>> \in nodes

Put(w) ==
  /\ ~aborted
  /\ \/ ~Rooted /\ Abort
     \/ /\ Rooted
        /\ nodes' = nodes \cup Prefixes(w)
        /\ ends' = ends \cup {w}
        /\ words' = words \cup {w}
        /\ excused' = excused \ {w}
        /\ UNCHANGED <<aborted, wrong>>

Get(w) ==
  /\ ~aborted
  /\ \/ ~Rooted /\ Abort
     \/ /\ Rooted
        /\ wrong' = (wrong \/ (Prefixes(w) \subseteq nodes /\ w \in ends /\ w \notin words))
        /\ UNCHANGED <<nodes, ends, aborted, words, excused>>

\* Seeded bug: the nodes on the way go without a look at their children.
KeptOffTheWay(w) == {p \in nodes : ~IsPrefix(p, w)}

\* removeWord(w): a node on the way to w stays if it leads to one off that way; whether
\* it is the end of a word is not asked.
Kept(w) ==
  {p \in nodes : \/ ~IsPrefix(p, w)
                 \/ \E q \in nodes : IsStrictPrefix(p, q) /\ ~IsPrefix(q, w)}

Del(w) ==
  /\ ~aborted
  /\ \/ ~(Rooted /\ Prefixes(w) \subseteq nodes) /\ Abort
     \/ /\ Rooted /\ Prefixes(w) \subseteq nodes
        /\ nodes' = Kept(w)
        /\ ends' = (ends \ {w}) \cap Kept(w)
        /\ words' = words \ {w}
        /\ excused' = (excused \ {w}) \cup {v \in words : IsStrictPrefix(v, w)}
        /\ UNCHANGED <<aborted, wrong>>

Next == \E w \in Word : Put(w) \/ Get(w) \/ Del(w)

-----------------------------------------------------------------------------

\* The trie finds no word that was not put or was deleted; of the others it may lose
\* only those that a longer word, since deleted, began with; and every branch of the
\* tree is connected to the root and leads to a word.
InventsNothing ==
  /\ ends \subseteq words /\ ~wrong
  /\ words \ ends \subseteq excused
  /\ \A p \in nodes : Prefixes(p) \subseteq nodes
  /\ \A p \in nodes : p = <<>> \/ \E w \in ends : IsPrefix(p, w)
  /\ ends \subseteq nodes

=============================================================================
