---------------------------- MODULE LockFreeQueue ---------------------------
(***************************************************************************)
(* concurrent/LockFreeQueue.cpp: a ring of `capacity` slots, of which      *)
(* capacity - 1 hold values.  A producer claims a slot by moving write_,   *)
(* fills it and publishes it by moving back_; a consumer reads the slot at *)
(* front_ and claims it by moving front_.                                  *)
(*                                                                         *)
(* One action is one access to an atomic or to a slot, on the memory of    *)
(* CppMemory and with the code's memory orders.  Producers and consumers   *)
(* are the loops of main(): they retry a call that returns false.  main    *)
(* has one of each; the compare-exchange loops allow for more.             *)
(***************************************************************************)
EXTENDS CppMemory

CONSTANTS capacity,
          Setup    \* what the threads may do: quota functions, see Init

VARIABLES quota,   \* quota.push[t] values are pushed by t, quota.pop[t] popped
          pc,      \* pc[t] is the label t is at
          at,      \* at[t] is the cursor t has read, `write` or `front`
          seenAt,  \* history: how often that cursor had moved
          fooled,  \* history: t found room, or a value, where there was none
          result,  \* result[t] is what Pop has read from the slot
          sent,    \* sent[t] is how many pushes of t have succeeded
          got,     \* got[t] is the sequence of values t has popped
          lapped   \* history: a cursor moved for a thread that was fooled, or
                   \* after the cursor had left the value read and come back (ABA)

vars == <<hist, view, race, quota, pc, at, seenAt, fooled, result, sent, got, lapped>>

front_ == <<"front_", 0>>
back_  == <<"back_", 0>>
write_ == <<"write_", 0>>
Slot(i) == <<"data", i>>

NoItem == <<0, 0>>

Label == {"loadWrite", "loadFullFront", "casWrite", "fill", "casBack",
          "loadFront", "loadBack", "readSlot", "casFront", "done"}

Producer == {t \in Thread : quota.push[t] > 0}
Consumer == {t \in Thread : quota.pop[t] > 0}

Init ==
  /\ quota \in Setup
  /\ MemInit([a \in Location |-> IF a \in Plain THEN NoItem ELSE 0])
  /\ pc = [t \in Thread |-> CASE t \in Producer -> "loadWrite"
                              [] t \in Consumer -> "loadFront"
                              [] OTHER -> "done"]
  /\ at = [t \in Thread |-> 0]
  /\ seenAt = [t \in Thread |-> 0]
  /\ fooled = [t \in Thread |-> FALSE]
  /\ result = [t \in Thread |-> NoItem]
  /\ sent = [t \in Thread |-> 0]
  /\ got = [t \in Thread |-> <<>>]
  /\ lapped = FALSE

Goto(t, from, to) ==
  /\ pc[t] = from
  /\ pc' = [pc EXCEPT ![t] = to]

Value(a, n) == hist[a][n].val

\* Seeded bug: the cursor does not wrap.
AfterUnwrapped(i) == i + 1

After(i) == (i + 1) % capacity

\* How often a cursor has moved: its place, had the ring no end.
Moves(a) == Newest(a) - 1

\* cursor = a.load(relaxed)
LoadCursor(t, a) ==
  \E n \in Readable(t, a) :
    /\ Load(t, a, "relaxed", n)
    /\ at' = [at EXCEPT ![t] = Value(a, n)]
    /\ seenAt' = [seenAt EXCEPT ![t] = n - 1]

\* a.compare_exchange_strong(at, After(at), order) succeeds on the newest value,
Advance(t, a, order) ==
  /\ Current(a) = at[t]
  /\ Exchange(t, a, After(at[t]), order)

\* and fails as a relaxed load of another one.
Fails(t, a) ==
  \E n \in Readable(t, a) : Value(a, n) # at[t] /\ Load(t, a, "relaxed", n)

-----------------------------------------------------------------------------
(* Push *)

LoadWrite(t) ==
  /\ Goto(t, "loadWrite", "loadFullFront")
  /\ LoadCursor(t, write_)
  /\ UNCHANGED <<quota, fooled, result, sent, got, lapped>>

\* The test of front_, whose values in fullAt mean that the queue is full.
TestFull(t, fullAt) ==
  \E n \in Readable(t, front_) :
    LET full == Value(front_, n) \in fullAt
    IN  /\ Goto(t, "loadFullFront", IF full THEN "loadWrite" ELSE "casWrite")
        /\ Load(t, front_, "acquire", n)
        /\ fooled' = [fooled EXCEPT ![t] = ~full /\ seenAt[t] - (n - 1) >= capacity - 1]
        /\ UNCHANGED <<quota, at, seenAt, result, sent, got, lapped>>

\* Seeded bug: no test.
NeverFull(t) == TestFull(t, {})

\* if ((write + 1) % capacity == front_.load(acquire)) return false
LoadFullFront(t) == TestFull(t, {After(at[t])})

CasWrite(t) ==
  \/ /\ Goto(t, "casWrite", "fill")
     /\ Advance(t, write_, "relaxed")
     /\ lapped' = (lapped \/ fooled[t] \/ seenAt[t] # Moves(write_))
     /\ UNCHANGED <<quota, at, seenAt, fooled, result, sent, got>>
  \/ /\ Goto(t, "casWrite", "loadWrite")
     /\ Fails(t, write_)
     /\ UNCHANGED <<quota, at, seenAt, fooled, result, sent, got, lapped>>

\* data[write] = value
Fill(t) ==
  /\ Goto(t, "fill", "casBack")
  /\ Write(t, Slot(at[t]), <<t, sent[t]>>)
  /\ UNCHANGED <<quota, at, seenAt, fooled, result, sent, got, lapped>>

\* back_ is moved once the producers before t have moved it up to `write`
MoveBack(t, order) ==
  \/ /\ Goto(t, "casBack", IF sent[t] + 1 = quota.push[t] THEN "done" ELSE "loadWrite")
     /\ Advance(t, back_, order)
     /\ sent' = [sent EXCEPT ![t] = @ + 1]
     /\ UNCHANGED <<quota, at, seenAt, fooled, result, got, lapped>>
  \/ /\ Goto(t, "casBack", "casBack")
     /\ Fails(t, back_)
     /\ UNCHANGED <<quota, at, seenAt, fooled, result, sent, got, lapped>>

\* Seeded bug: compare_exchange_strong(..., relaxed).
CasBackRelaxed(t) == MoveBack(t, "relaxed")

CasBack(t) == MoveBack(t, "release")

-----------------------------------------------------------------------------
(* Pop *)

LoadFront(t) ==
  /\ Goto(t, "loadFront", "loadBack")
  /\ LoadCursor(t, front_)
  /\ UNCHANGED <<quota, fooled, result, sent, got, lapped>>

\* if (front == back_.load(acquire)) return false
LoadBack(t) ==
  \E n \in Readable(t, back_) :
    LET empty == at[t] = Value(back_, n)
    IN  /\ Goto(t, "loadBack", IF empty THEN "loadFront" ELSE "readSlot")
        /\ Load(t, back_, "acquire", n)
        /\ fooled' = [fooled EXCEPT ![t] = ~empty /\ seenAt[t] >= n - 1]
        /\ UNCHANGED <<quota, at, seenAt, result, sent, got, lapped>>

\* result = data[front]
ReadSlot(t) ==
  \E n \in Readable(t, Slot(at[t])) :
    /\ Goto(t, "readSlot", "casFront")
    /\ Read(t, Slot(at[t]), n)
    /\ result' = [result EXCEPT ![t] = Value(Slot(at[t]), n)]
    /\ UNCHANGED <<quota, at, seenAt, fooled, sent, got, lapped>>

CasFront(t) ==
  \/ /\ Goto(t, "casFront", IF Len(got[t]) + 1 = quota.pop[t] THEN "done" ELSE "loadFront")
     /\ Advance(t, front_, "release")
     /\ lapped' = (lapped \/ fooled[t] \/ seenAt[t] # Moves(front_))
     /\ got' = [got EXCEPT ![t] = Append(@, result[t])]
     /\ UNCHANGED <<quota, at, seenAt, fooled, result, sent>>
  \/ /\ Goto(t, "casFront", "loadFront")
     /\ Fails(t, front_)
     /\ UNCHANGED <<quota, at, seenAt, fooled, result, sent, got, lapped>>

-----------------------------------------------------------------------------

Push(t) ==
  LoadWrite(t) \/ LoadFullFront(t) \/ CasWrite(t) \/ Fill(t) \/ CasBack(t)

Pop(t) == LoadFront(t) \/ LoadBack(t) \/ ReadSlot(t) \/ CasFront(t)

Step(t) == Push(t) \/ Pop(t)

BecomeVisible(t) ==
  /\ \E a \in {front_, back_, write_} : Propagate(t, a)
  /\ UNCHANGED <<quota, pc, at, seenAt, fooled, result, sent, got, lapped>>

Ended == \A t \in Thread : pc[t] = "done"

Exit == Ended /\ UNCHANGED vars

Next == (\E t \in Thread : Step(t) \/ BecomeVisible(t)) \/ Exit

Spec == Init /\ [][Next]_vars
             /\ (\A t \in Thread : WF_vars(Step(t)))
             /\ WF_vars(\E t \in Thread : BecomeVisible(t))

-----------------------------------------------------------------------------
(* Properties *)

TypeOK ==
  /\ MemTypeOK([a \in Location |-> IF a \in Plain THEN (Thread \cup {0}) \X Nat
                                                ELSE 0..(capacity - 1)])
  /\ pc \in [Thread -> Label]
  /\ \A t \in Thread : at[t] \in 0..(capacity - 1) /\ sent[t] \in 0..quota.push[t]

\* The values between front_ and back_.
Contents ==
  [i \in 1..((Current(back_) - Current(front_)) % capacity) |->
     Current(Slot((Current(front_) + i - 1) % capacity))]

Queue == INSTANCE FifoQueue
           WITH Room  <- capacity - 1,
                queue <- Contents

\* However the steps of the threads interleave and however late a store becomes
\* visible, a successful Push appends its value when it moves back_ and a
\* successful Pop takes the oldest value when it moves front_: nothing is lost,
\* duplicated, reordered or read before it is there, until a thread is lapped.
ImplementsFifoQueue ==
  Queue!Init /\ [][lapped' \/ Queue!Next]_(Queue!fifoVars)

\* Cursors are compared modulo capacity, and the other side's may be an old value.
\* A lone producer and a lone consumer are never wrong by it; it takes a second
\* producer or a second consumer to be lapped.
LoneSidesNeverLapped ==
  lapped => Cardinality(Producer) > 1 \/ Cardinality(Consumer) > 1

\* The slots are plain memory, and the memory orders keep their accesses apart
\* until a thread is lapped, as long as one thread pops: the slot that a slow
\* consumer reads may have been popped by another and be filled again.
DataRaceFree == race => lapped \/ Cardinality(Consumer) > 1

\* main's loops end: a queue is found full or empty only until the other side
\* has moved on.
Termination == <>(lapped \/ Ended)

=============================================================================
