---------------------------- MODULE MCStructures ----------------------------
(***************************************************************************)
(* The data structures for TLC: keys with the values they are put with. A  *)
(* value tells its key, and key 1 has two, so that it can be overwritten.  *)
(***************************************************************************)
EXTENDS Structures

Entries(n) == {<<1, 1>>} \cup {<<k, 10 + k>> : k \in 1 .. n}

MCCacheEntry == Entries(4)
MCSkipEntry == Entries(3)
MCAvlEntry == Entries(5)
MCRBEntry == Entries(6)

\* Words that begin alike, one of which is the beginning of another, and one apart
MCWord == {<<>>, <<1>>, <<1, 1>>, <<1, 2>>, <<1, 2, 1>>, <<2>>}

\* All numbers of two places, and some around powers of ten
MCNumbers == (0 .. 120) \cup (995 .. 1003) \cup {9999, 10000}

=============================================================================
