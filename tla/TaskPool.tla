------------------------------ MODULE TaskPool ------------------------------
(***************************************************************************)
(* What a thread pool promises its callers: a task is accepted until the   *)
(* pool closes, and the accepted tasks are started in order, each once,    *)
(* those that the closing finds in the queue included.                     *)
(***************************************************************************)
EXTENDS Sequences

CONSTANT Task

VARIABLES pending,  \* the tasks accepted and not started, oldest first
          started,  \* the set of tasks started
          closed    \* the pool accepts no more tasks

poolVars == <<pending, started, closed>>

Init ==
  /\ pending = <<>>
  /\ started = {}
  /\ closed = FALSE

Accept(k) ==
  /\ ~closed
  /\ k \notin started \cup {pending[i] : i \in DOMAIN pending}
  /\ pending' = Append(pending, k)
  /\ UNCHANGED <<started, closed>>

Start ==
  /\ pending # <<>>
  /\ pending' = Tail(pending)
  /\ started' = started \cup {Head(pending)}
  /\ closed' = closed

Close ==
  /\ closed' = TRUE
  /\ UNCHANGED <<pending, started>>

Next == (\E k \in Task : Accept(k)) \/ Start \/ Close

Spec == Init /\ [][Next]_poolVars

=============================================================================
