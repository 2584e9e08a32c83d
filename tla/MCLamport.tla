------------------------------ MODULE MCLamport -----------------------------
(***************************************************************************)
(* Lamport's bakery for TLC: thread 0 comes back with a new ticket while   *)
(* the others may still be waiting with an old one.                        *)
(***************************************************************************)
EXTENDS Lamport

MCNLOOP == [t \in Thread |-> IF t = 0 THEN 2 ELSE 1]

=============================================================================
