------------------------------ MODULE LifoStack -----------------------------
(***************************************************************************)
(* What a stack shared by threads promises: a push puts its value on top,  *)
(* a pop takes the value on top, each in one step.                         *)
(***************************************************************************)
EXTENDS Integers, Sequences

CONSTANT Thread

VARIABLES stack,  \* the values pushed and not popped, the top first
          sent,   \* sent[p] is how many values p has pushed
          got     \* got[c] is the sequence of values c has popped

lifoVars == <<stack, sent, got>>

Init ==
  /\ stack = <<>>
  /\ sent = [p \in Thread |-> 0]
  /\ got = [c \in Thread |-> <<>>]

\* p pushes its number and how many values it has pushed before.
Push(p) ==
  /\ stack' = <<<<p, sent[p]>>>> \o stack
  /\ sent' = [sent EXCEPT ![p] = @ + 1]
  /\ got' = got

Pop(c) ==
  /\ stack # <<>>
  /\ got' = [got EXCEPT ![c] = Append(@, Head(stack))]
  /\ stack' = Tail(stack)
  /\ sent' = sent

Next == \E t \in Thread : Push(t) \/ Pop(t)

Spec == Init /\ [][Next]_lifoVars

=============================================================================
