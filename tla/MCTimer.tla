------------------------------ MODULE MCTimer ------------------------------
(***************************************************************************)
(* The timer for TLC: two clients, of which the first one repeats, cancels *)
(* or stops while the second one adds tasks.                               *)
(***************************************************************************)
EXTENDS Timer, TLC

CONSTANTS c1, c2, k1, k2, k3

Calls(op, k, time, n) == [op |-> op, task |-> k, time |-> time, repeat_num |-> n]

\* Two tasks in the wrong order and a stop; a repeated task that is cancelled, beside
\* one of another client whose callable has state; one that repeats without end.
MCScript ==
  {(c1 :> <<Calls("timePoint", k1, 3, 0), Calls("stop", k1, 0, 0)>>) @@
   (c2 :> <<Calls("duration", k2, 2, 0), Calls("timePoint", k3, -1, 0)>>),
   (c1 :> <<Calls("repeated", k1, 2, 2), Calls("cancel", k1, 0, 0)>>) @@
   (c2 :> <<Calls("repeated", k2, 2, 1)>>),
   (c1 :> <<Calls("repeated", k1, 2, 0), Calls("stop", k1, 0, 0)>>) @@
   (c2 :> <<Calls("duration", k3, 3, 0)>>)}

=============================================================================
