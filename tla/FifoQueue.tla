------------------------------ MODULE FifoQueue -----------------------------
(***************************************************************************)
(* What a bounded queue of several producers and consumers promises: a     *)
(* push appends, a pop takes the oldest value, each in one step.           *)
(***************************************************************************)
EXTENDS Integers, Sequences

CONSTANTS Thread,  \* the producers and consumers
          Room     \* the most values the queue holds

VARIABLES queue,  \* the values pushed and not popped, oldest first
          sent,   \* sent[p] is how many values p has pushed
          got     \* got[c] is the sequence of values c has popped

fifoVars == <<queue, sent, got>>

\* The value that p pushes with its i-th push, counting from 0.
Item(p, i) == <<p, i>>

Init ==
  /\ queue = <<>>
  /\ sent = [p \in Thread |-> 0]
  /\ got = [c \in Thread |-> <<>>]

Push(p) ==
  /\ Len(queue) < Room
  /\ queue' = Append(queue, Item(p, sent[p]))
  /\ sent' = [sent EXCEPT ![p] = @ + 1]
  /\ got' = got

Pop(c) ==
  /\ queue # <<>>
  /\ got' = [got EXCEPT ![c] = Append(@, Head(queue))]
  /\ queue' = Tail(queue)
  /\ sent' = sent

Next == (\E p \in Thread : Push(p)) \/ (\E c \in Thread : Pop(c))

Spec == Init /\ [][Next]_fifoVars

=============================================================================
