---------------------------- MODULE MCThreadPool ----------------------------
(***************************************************************************)
(* The pool for TLC: two workers, and two clients that enqueue three tasks *)
(* between them, one of which may spawn another or be one with a future.   *)
(***************************************************************************)
EXTENDS ThreadPool, TLC

CONSTANTS c1, c2, k1, k2, k3, k4

Plain(k) == [task |-> k, future |-> FALSE]
WithFuture(k) == [task |-> k, future |-> TRUE]

MCScript ==
  {(c1 :> <<Plain(k1), Plain(k2)>>) @@ (c2 :> <<Plain(k3)>>),
   (c1 :> <<Plain(k2)>>) @@ (c2 :> <<WithFuture(k3)>>)}

\* k2 enqueues k4.
MCSpawned == [k \in Task |-> IF k = k2 THEN k4 ELSE Nobody]

=============================================================================
