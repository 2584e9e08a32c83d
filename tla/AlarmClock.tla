----------------------------- MODULE AlarmClock -----------------------------
(***************************************************************************)
(* What a timer promises its callers: a task is given with the time that   *)
(* is left until it is due; each is fired once, less than a millisecond    *)
(* before it is due at the earliest, and none before one that is due       *)
(* sooner.                                                                 *)
(***************************************************************************)
EXTENDS Integers

CONSTANTS Milli,    \* the ticks of the clock in a millisecond
          MaxLate   \* bound: how long a task is late is not told apart beyond this

VARIABLE pending    \* the tasks given and not fired, each with its .time left

Later(time) == IF time > -MaxLate THEN time - 1 ELSE time

Older(t) == [t EXCEPT !.time = Later(@)]

Init == pending = {}

Fire ==
  \E t \in pending :
    /\ t.time < Milli
    /\ \A u \in pending : t.time <= u.time
    /\ pending' = pending \ {t}

Tick == pending' = {Older(t) : t \in pending}

Give ==
  \E t \in pending' :
    /\ \A u \in pending : u.name # t.name
    /\ pending' = pending \cup {t}

Next == Give \/ Fire \/ Tick

=============================================================================
