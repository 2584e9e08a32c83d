------------------------------ MODULE SafeQueue -----------------------------
(***************************************************************************)
(* concurrent/SafeQueue.cpp: a std::queue behind a mutex.  The repository  *)
(* has no caller; here producers and consumers make Calls calls each, and  *)
(* a dequeue that returns false is repeated.  empty() and size() change    *)
(* nothing and are left out.                                               *)
(***************************************************************************)
EXTENDS Integers, Sequences

CONSTANTS Enqueuer, Dequeuer, Calls

Caller == Enqueuer \cup Dequeuer

VARIABLES m_queue,
          m_mutex,  \* the threads that are inside
          pc,       \* pc[t] is the label t is at
          t_,       \* t_[c] is the value that c has copied from the front, if any
          sent,     \* sent[p] is how many values p has put in
          got       \* got[c] is the sequence of values c has taken out

vars == <<m_queue, m_mutex, pc, t_, sent, got>>

Init ==
  /\ m_queue = <<>>
  /\ m_mutex = {}
  /\ pc = [t \in Caller |-> IF t \in Enqueuer THEN "enqueue" ELSE "dequeue"]
  /\ t_ = [t \in Caller |-> <<>>]
  /\ sent = [t \in Caller |-> 0]
  /\ got = [t \in Caller |-> <<>>]

Goto(t, from, to) ==
  /\ pc[t] = from
  /\ pc' = [pc EXCEPT ![t] = to]

\* Seeded bug: dequeue does not lock.
EnterEnqueueOnly(t) ==
  /\ \/ Goto(t, "enqueue", "emplace") /\ m_mutex = {}
     \/ Goto(t, "dequeue", "test")
  /\ m_mutex' = m_mutex \cup {t}
  /\ UNCHANGED <<m_queue, t_, sent, got>>

\* std::unique_lock<std::mutex> lock(m_mutex)
Enter(t) ==
  /\ m_mutex = {}
  /\ \/ Goto(t, "enqueue", "emplace")
     \/ Goto(t, "dequeue", "test")
  /\ m_mutex' = {t}
  /\ UNCHANGED <<m_queue, t_, sent, got>>

\* The destructor of lock, on every return
Leave(t) == m_mutex' = m_mutex \ {t}

Emplace(t) ==
  /\ Goto(t, "emplace", IF sent[t] + 1 = Calls THEN "done" ELSE "enqueue")
  /\ m_queue' = Append(m_queue, <<t, sent[t]>>)
  /\ sent' = [sent EXCEPT ![t] = @ + 1]
  /\ Leave(t)
  /\ UNCHANGED <<t_, got>>

\* if (m_queue.empty()) return false
Test(t) ==
  /\ Goto(t, "test", IF m_queue = <<>> THEN "dequeue" ELSE "front")
  /\ IF m_queue = <<>> THEN Leave(t) ELSE m_mutex' = m_mutex
  /\ UNCHANGED <<m_queue, t_, sent, got>>

\* t = std::move(m_queue.front()), nothing if the queue is empty (undefined in C++)
Front(t) ==
  /\ Goto(t, "front", "pop")
  /\ t_' = [t_ EXCEPT ![t] = IF m_queue = <<>> THEN <<>> ELSE <<Head(m_queue)>>]
  /\ UNCHANGED <<m_queue, m_mutex, sent, got>>

Pop(t) ==
  /\ Goto(t, "pop", IF Len(got[t]) + 1 = Calls THEN "done" ELSE "dequeue")
  /\ m_queue' = IF m_queue = <<>> THEN <<>> ELSE Tail(m_queue)
  /\ got' = [got EXCEPT ![t] = @ \o t_[t]]
  /\ t_' = [t_ EXCEPT ![t] = <<>>]
  /\ Leave(t)
  /\ sent' = sent

Step(t) == Enter(t) \/ Emplace(t) \/ Test(t) \/ Front(t) \/ Pop(t)

Ended == \A t \in Caller : pc[t] = "done"

Next == (\E t \in Caller : Step(t)) \/ (Ended /\ UNCHANGED vars)

\* pthread gives the mutex to whoever comes first: a thread at the lock is let in if it
\* is free again and again.
Spec == Init /\ [][Next]_vars /\ \A t \in Caller : SF_vars(Step(t))

-----------------------------------------------------------------------------
(* Properties *)

Queue == INSTANCE FifoQueue WITH Thread <- Caller, Room <- 10 * Calls, queue <- m_queue

\* Under any interleaving an enqueue appends and a dequeue takes the oldest value, each
\* once: test, copy and removal are one step to the other threads.
ImplementsFifoQueue == Queue!Spec

\* Every call comes to an end.
Termination == <>Ended

=============================================================================
