---------------------------- MODULE MCConcurrent ----------------------------
(***************************************************************************)
(* The concurrent programs for TLC: three threads share pushes and pops.   *)
(* One pushes and one pops, as in main(), or there is a second of either.  *)
(* The ring has two slots and goes round twice; the stack reuses nodes.    *)
(***************************************************************************)
EXTENDS Concurrent

Quota(pushes, pops) == [push |-> pushes, pop |-> pops]

MCQueueSetup ==
  {Quota(<<4, 0, 0>>, <<0, 4, 0>>),
   Quota(<<2, 1, 0>>, <<0, 0, 3>>),
   Quota(<<2, 0, 0>>, <<0, 1, 1>>)}

\* In the last one, the second pop meets ABA.
MCStackSetup ==
  {Quota(<<4, 0, 0>>, <<0, 3, 0>>),
   Quota(<<2, 1, 0>>, <<0, 0, 2>>),
   Quota(<<3, 0, 0>>, <<0, 1, 2>>)}

=============================================================================
