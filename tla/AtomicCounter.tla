---------------------------- MODULE AtomicCounter ---------------------------
(***************************************************************************)
(* What a program that counts under a lock promises: each thread adds one  *)
(* to the counter Times[t] times, and no addition is lost.  doit() of      *)
(* concurrent/mutual-exclusion splits an addition into a load, a           *)
(* printf and a store, and relies on its lock to make them one step.       *)
(***************************************************************************)
EXTENDS Integers

CONSTANTS Thread,   \* the threads that count
          Times     \* Times[t] is how often t does

VARIABLES count,    \* the counter
          left      \* left[t] is how many additions t still has to make

counterVars == <<count, left>>

Init ==
  /\ count = 0
  /\ left = Times

Increment(t) ==
  /\ left[t] > 0
  /\ left' = [left EXCEPT ![t] = @ - 1]
  /\ count' = count + 1

Next == \E t \in Thread : Increment(t)

Spec == Init /\ [][Next]_counterVars

=============================================================================
