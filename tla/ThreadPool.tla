----------------------------- MODULE ThreadPool -----------------------------
(***************************************************************************)
(* concurrent/ThreadPool.cpp: worker threads take tasks from a queue under *)
(* m_mutex and sleep on m_cv while it is empty; enqueue adds a task and    *)
(* notifies one of them after it has unlocked; the destructor sets stop,   *)
(* notifies all and joins.                                                 *)
(*                                                                         *)
(* The repository has no user of the pool: the clients here enqueue the    *)
(* tasks of a script, a task may enqueue another, and Owner destroys the   *)
(* pool when the clients are done. An action is what a thread does between *)
(* taking and releasing m_mutex, or outside of it; std::mutex and          *)
(* std::condition_variable are modelled by what they promise, spurious     *)
(* wakeups included.                                                       *)
(***************************************************************************)
EXTENDS Integers, Sequences, FiniteSets

CONSTANTS Worker, Client, Owner, Nobody,
          Task,
          Script,        \* the scripts that clients may follow, see Init
          Spawned,       \* Spawned[k] is the task that k enqueues, or Nobody
          MaxSpurious    \* bound: the spurious wakeups of a behaviour

Thread == Worker \cup Client \cup {Owner}

\* A call of enqueue, or of enqueueWithFuture, that a client makes.
EnqueueCall == [task : Task, future : BOOLEAN]

ASSUME PoolAssumption ==
  /\ IsFiniteSet(Worker) /\ Worker # {} /\ IsFiniteSet(Client)
  /\ Worker \cap Client = {} /\ Owner \notin Worker \cup Client
  /\ Nobody \notin Thread \cup Task
  /\ Script \subseteq [Client -> Seq(EnqueueCall)]
  /\ Spawned \in [Task -> Task \cup {Nobody}]
  /\ MaxSpurious \in Nat

\* A task stands for one call of enqueue: no two calls, be they of a script or of a
\* task that runs, enqueue the same one.
ASSUME TaskAssumption ==
  /\ \A k, m \in Task : Spawned[k] = Spawned[m] /\ Spawned[k] # Nobody => k = m
  /\ \A s \in Script : \A c, d \in Client : \A i \in DOMAIN s[c], n \in DOMAIN s[d] :
       /\ s[c][i].task = s[d][n].task => c = d /\ i = n
       /\ \A k \in Task : s[c][i].task # Spawned[k]

VARIABLES stop, tasks,   \* members of the pool
          mutex,         \* the thread that holds m_mutex, or Nobody
          waiting,       \* the workers that sleep on m_cv
          pc,            \* pc[t] is the label t is at
          job,           \* job[t] is the task t enqueues or runs, or Nobody
          script,        \* script[c] is what client c has still to enqueue
          ran,           \* ran[k] is how often k has been run to its end
          accepted,      \* history: the tasks that were put in the queue
          handle,        \* handle[k] is the shared_ptr local to enqueueWithFuture
          future,        \* future[k] is the shared state of the future of k
          crashed,       \* std::terminate has been called
          spurious       \* spurious wakeups so far

vars == <<stop, tasks, mutex, waiting, pc, job, script, ran, accepted, handle,
          future, crashed, spurious>>

Label == {"idle", "enqueue", "push", "notify", "return",         \* callers
          "lock", "test", "asleep", "run", "running", "exited",  \* workers
          "join", "setStop", "notifyAll", "joining", "destroyed"}    \* Owner

Init ==
  /\ stop = FALSE
  /\ tasks = <<>>
  /\ mutex = Nobody
  /\ waiting = {}
  /\ pc = [t \in Thread |-> IF t \in Worker THEN "lock"
                            ELSE IF t = Owner THEN "join" ELSE "idle"]
  /\ job = [t \in Thread |-> Nobody]
  /\ script \in Script
  /\ ran = [k \in Task |-> 0]
  /\ accepted = {}
  /\ handle = [k \in Task |-> "none"]
  /\ future = [k \in Task |-> "none"]
  /\ crashed = FALSE
  /\ spurious = 0

At(t, label) == ~crashed /\ pc[t] = label

Goto(t, from, to) ==
  /\ At(t, from)
  /\ pc' = [pc EXCEPT ![t] = to]

Acquire(t) == mutex = Nobody /\ mutex' = t

Release(t) == mutex = t /\ mutex' = Nobody

-----------------------------------------------------------------------------
(* enqueue and enqueueWithFuture, called by a client or by a running task *)

\* A client calls enqueue or enqueueWithFuture, which makes the packaged_task and
\* its future.
Call(c) ==
  LET next == Head(script[c])
  IN  /\ Goto(c, "idle", "enqueue")
      /\ script[c] # <<>>
      /\ job' = [job EXCEPT ![c] = next.task]
      /\ script' = [script EXCEPT ![c] = Tail(@)]
      /\ handle' = [handle EXCEPT ![next.task] = IF next.future THEN "alive" ELSE "none"]
      /\ future' = [future EXCEPT ![next.task] = IF next.future THEN "pending" ELSE "none"]
      /\ UNCHANGED <<stop, tasks, mutex, waiting, ran, accepted, crashed, spurious>>

LockQueue(t) ==
  /\ Acquire(t)
  /\ Goto(t, "enqueue", "push")
  /\ UNCHANGED <<stop, tasks, waiting, job, script, ran, accepted, handle, future,
                 crashed, spurious>>

\* throw std::runtime_error, which a task that runs on a worker does not catch
Throw(t) ==
  /\ Goto(t, "push", "return")
  /\ crashed' = (t \in Worker)
  /\ UNCHANGED <<stop, tasks, waiting, job, script, ran, accepted, handle, future, spurious>>

\* tasks.emplace(task)
Emplace(t, to) ==
  /\ Goto(t, "push", to)
  /\ tasks' = Append(tasks, job[t])
  /\ accepted' = accepted \cup {job[t]}
  /\ UNCHANGED <<stop, waiting, job, script, ran, handle, future, crashed, spurious>>

\* Seeded bugs: a throw that keeps m_mutex, no test of stop, and no notification.
PushKeepsLock(t) ==
  \/ stop /\ mutex = t /\ mutex' = t /\ Throw(t)
  \/ ~stop /\ Release(t) /\ Emplace(t, "notify")
PushAlways(t)   == Release(t) /\ Emplace(t, "notify")
PushSilently(t) == Release(t) /\ IF stop THEN Throw(t) ELSE Emplace(t, "return")

\* if (stop) throw ...; tasks.emplace(task)
Push(t) ==
  /\ Release(t)
  /\ \/ stop /\ Throw(t)
     \/ ~stop /\ Emplace(t, "notify")

\* m_cv.notify_one() with m_mutex released
NotifyOne(t) ==
  /\ At(t, "notify")
  /\ \/ /\ waiting = {}
        /\ pc' = [pc EXCEPT ![t] = "return"]
        /\ waiting' = waiting
     \/ \E w \in waiting :
          /\ pc' = [pc EXCEPT ![t] = "return", ![w] = "lock"]
          /\ waiting' = waiting \ {w}
  /\ UNCHANGED <<stop, tasks, mutex, job, script, ran, accepted, handle, future,
                 crashed, spurious>>

\* The local `task` goes out of scope; the lambda in the queue has captured it by
\* reference, so the packaged_task goes with it, and its future breaks if no value
\* is there.
Return(t) ==
  LET k == job[t]
  IN  /\ Goto(t, "return", IF t \in Worker THEN "lock" ELSE "idle")
      /\ job' = [job EXCEPT ![t] = Nobody]
      /\ handle' = [handle EXCEPT ![k] = IF @ = "alive" THEN "gone" ELSE @]
      /\ future' = [future EXCEPT ![k] = IF @ = "pending" THEN "broken" ELSE @]
      /\ UNCHANGED <<stop, tasks, mutex, waiting, script, ran, accepted, crashed, spurious>>

-----------------------------------------------------------------------------
(* Workers *)

LockWorker(w) ==
  /\ Acquire(w)
  /\ Goto(w, "lock", "test")
  /\ UNCHANGED <<stop, tasks, waiting, job, script, ran, accepted, handle, future,
                 crashed, spurious>>

\* The predicate of m_cv.wait: sleep and release m_mutex in one step, or go on.
Sleep(w) ==
  /\ ~stop /\ tasks = <<>>
  /\ Release(w)
  /\ Goto(w, "test", "asleep")
  /\ waiting' = waiting \cup {w}
  /\ UNCHANGED <<stop, tasks, job, script, ran, accepted, handle, future, crashed, spurious>>

\* Seeded bug: if (stop) break
LeaveTasks(w) ==
  /\ stop
  /\ Release(w)
  /\ Goto(w, "test", "exited")
  /\ UNCHANGED <<stop, tasks, waiting, job, script, ran, accepted, handle, future,
                 crashed, spurious>>

\* if (stop && tasks.empty()) break
Leave(w) ==
  /\ stop /\ tasks = <<>>
  /\ Release(w)
  /\ Goto(w, "test", "exited")
  /\ UNCHANGED <<stop, tasks, waiting, job, script, ran, accepted, handle, future,
                 crashed, spurious>>

\* task = std::move(tasks.front()); tasks.pop()
Take(w) ==
  /\ tasks # <<>>
  /\ Release(w)
  /\ Goto(w, "test", "run")
  /\ job' = [job EXCEPT ![w] = Head(tasks)]
  /\ tasks' = Tail(tasks)
  /\ UNCHANGED <<stop, waiting, script, ran, accepted, handle, future, crashed, spurious>>

\* Sleepers may wake for no reason; they test the predicate again.
WakeSpuriously(w) ==
  /\ w \in waiting
  /\ spurious < MaxSpurious
  /\ spurious' = spurious + 1
  /\ Goto(w, "asleep", "lock")
  /\ waiting' = waiting \ {w}
  /\ UNCHANGED <<stop, tasks, mutex, job, script, ran, accepted, handle, future, crashed>>

\* task(), where a lambda that outlived what it refers to may do nothing useful or
\* crash.
Run(w) ==
  /\ At(w, "run")
  /\ \/ /\ handle[job[w]] # "gone"
        /\ pc' = [pc EXCEPT ![w] = "running"]
        /\ UNCHANGED <<job, crashed>>
     \/ /\ handle[job[w]] = "gone"
        /\ pc' = [pc EXCEPT ![w] = "lock"]
        /\ job' = [job EXCEPT ![w] = Nobody]
        /\ crashed' \in BOOLEAN
  /\ UNCHANGED <<stop, tasks, mutex, waiting, script, ran, accepted, handle, future, spurious>>

\* The task ends, with its value in the future if it has one, or goes on to
\* enqueue another task. If the packaged_task it runs in has gone meanwhile, that
\* may bring the process down.
Finish(w) ==
  LET k == job[w]
      spawns == Spawned[k] # Nobody
  IN  /\ Goto(w, "running", IF spawns THEN "enqueue" ELSE "lock")
      /\ job' = [job EXCEPT ![w] = Spawned[k]]
      /\ ran' = [ran EXCEPT ![k] = @ + 1]
      /\ future' = [future EXCEPT ![k] = IF @ = "pending" THEN "ready" ELSE @]
      /\ crashed' \in IF handle[k] = "gone" THEN BOOLEAN ELSE {FALSE}
      /\ UNCHANGED <<stop, tasks, mutex, waiting, script, accepted, handle, spurious>>

-----------------------------------------------------------------------------
(* ~ThreadPool, called once nobody but a task may call enqueue *)

LockOwner ==
  /\ \A c \in Client : pc[c] = "idle" /\ script[c] = <<>>
  /\ Acquire(Owner)
  /\ Goto(Owner, "join", "setStop")
  /\ UNCHANGED <<stop, tasks, waiting, job, script, ran, accepted, handle, future,
                 crashed, spurious>>

SetStop ==
  /\ Release(Owner)
  /\ Goto(Owner, "setStop", "notifyAll")
  /\ stop' = TRUE
  /\ UNCHANGED <<tasks, waiting, job, script, ran, accepted, handle, future, crashed, spurious>>

\* Seeded bug: m_cv.notify_one().
NotifyAnyone ==
  /\ At(Owner, "notifyAll")
  /\ \E woken \in SUBSET waiting :
       /\ Cardinality(woken) = IF waiting = {} THEN 0 ELSE 1
       /\ pc' = [t \in Thread |-> IF t = Owner THEN "joining"
                                  ELSE IF t \in woken THEN "lock" ELSE pc[t]]
       /\ waiting' = waiting \ woken
  /\ UNCHANGED <<stop, tasks, mutex, job, script, ran, accepted, handle, future,
                 crashed, spurious>>

\* m_cv.notify_all()
NotifyAll ==
  /\ At(Owner, "notifyAll")
  /\ pc' = [t \in Thread |-> IF t = Owner THEN "joining"
                             ELSE IF t \in waiting THEN "lock" ELSE pc[t]]
  /\ waiting' = {}
  /\ UNCHANGED <<stop, tasks, mutex, job, script, ran, accepted, handle, future,
                 crashed, spurious>>

\* workers[i].join() for every worker
Join ==
  /\ \A w \in Worker : pc[w] = "exited"
  /\ Goto(Owner, "joining", "destroyed")
  /\ UNCHANGED <<stop, tasks, mutex, waiting, job, script, ran, accepted, handle, future,
                 crashed, spurious>>

-----------------------------------------------------------------------------

Caller(t) == LockQueue(t) \/ Push(t) \/ NotifyOne(t) \/ Return(t)

ClientStep(c) == Call(c) \/ Caller(c)

WorkerStep(w) ==
  LockWorker(w) \/ Sleep(w) \/ Leave(w) \/ Take(w) \/ Run(w) \/ Finish(w) \/ Caller(w)

OwnerStep == LockOwner \/ SetStop \/ NotifyAll \/ Join

Ended == crashed \/ pc[Owner] = "destroyed"

Exit == Ended /\ UNCHANGED vars

Next ==
  \/ \E c \in Client : ClientStep(c)
  \/ \E w \in Worker : WorkerStep(w) \/ WakeSpuriously(w)
  \/ OwnerStep
  \/ Exit

\* The kernel runs every runnable thread, and m_mutex is taken by a thread that
\* waits for it when it is free (nobody waits for ever: the threads that compete
\* for it do so a bounded number of times).
Spec ==
  /\ Init /\ [][Next]_vars
  /\ \A c \in Client : WF_vars(ClientStep(c))
  /\ \A w \in Worker : WF_vars(WorkerStep(w))
  /\ WF_vars(OwnerStep)

-----------------------------------------------------------------------------
(* Properties *)

\* Every variable keeps its range, and m_mutex is held by the thread that is in a
\* block with a lock, whichever way it leaves the block.
TypeOK ==
  /\ stop \in BOOLEAN
  /\ tasks \in Seq(Task)
  /\ mutex \in Thread \cup {Nobody}
  /\ \A t \in Thread : mutex = t <=> pc[t] \in {"push", "test", "setStop"}
  /\ waiting = {w \in Worker : pc[w] = "asleep"}
  /\ pc \in [Thread -> Label]
  /\ job \in [Thread -> Task \cup {Nobody}]
  /\ ran \in [Task -> Nat]
  /\ accepted \subseteq Task
  /\ handle \in [Task -> {"none", "alive", "gone"}]
  /\ future \in [Task -> {"none", "pending", "ready", "broken"}]
  /\ crashed \in BOOLEAN

Pool == INSTANCE TaskPool
          WITH pending <- tasks,
               started <- accepted \ {tasks[i] : i \in DOMAIN tasks},
               closed  <- stop

\* "don't allow enqueueing after stopping the pool", and take what was accepted in
\* order, each task once, however the workers and callers interleave.
ImplementsTaskPool == Pool!Spec

\* A worker sleeps only while every queued task has a worker that is awake to take
\* it or a notification on its way, and while nobody has to be told of the stop:
\* notifying after the unlock loses no wakeup.
NoWakeupLost ==
  waiting # {} =>
    /\ Len(tasks) <= Cardinality({w \in Worker : pc[w] \in {"lock", "test"}})
                       + Cardinality({t \in Thread : pc[t] = "notify"})
    /\ stop => pc[Owner] = "notifyAll"

\* When the destructor has returned, every task that enqueue accepted has been run
\* once, those that were queued when it began and those that they enqueued
\* included, and no worker is left. (A task of enqueueWithFuture may be lost.)
EveryTaskRunsOnce ==
  pc[Owner] = "destroyed" =>
    /\ tasks = <<>>
    /\ \A k \in Task : /\ k \in accepted /\ handle[k] = "none" => ran[k] = 1
                       /\ k \notin accepted => ran[k] = 0
    /\ \A w \in Worker : pc[w] = "exited"

\* The destructor's joins return, or a task has brought the process down.
Termination == <>Ended

\* "return : std::future<decltype(f(args...))>": the future that enqueueWithFuture
\* returns gives the result of the call.
FutureGivesResult == \A k \in Task : future[k] # "broken"

=============================================================================
