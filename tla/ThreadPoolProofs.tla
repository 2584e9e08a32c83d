-------------------------- MODULE ThreadPoolProofs -------------------------
(***************************************************************************)
(* ThreadPool.cpp for any number of workers, clients and tasks: m_mutex is *)
(* held where the code holds it, no wakeup is lost, the pool implements    *)
(* TaskPool, and every accepted task is run once.                          *)
(***************************************************************************)
EXTENDS ThreadPool, FiniteSetTheorems, SequenceTheorems, TLAPS

\* The labels of each kind of thread.
ClientLabel == {"idle", "enqueue", "push", "notify", "return"}
WorkerLabel == {"lock", "test", "asleep", "run", "running", "exited",
                "enqueue", "push", "notify", "return"}
OwnerLabel  == {"join", "setStop", "notifyAll", "joining", "destroyed"}

Roles ==
  /\ \A c \in Client : pc[c] \in ClientLabel
  /\ \A w \in Worker : pc[w] \in WorkerLabel
  /\ pc[Owner] \in OwnerLabel

\* A thread that enqueues or runs a task has one.
JobsHeld ==
  \A t \in Thread : pc[t] \in {"enqueue", "push", "notify", "return", "run", "running"}
                      => job[t] \in Task

ScriptsOK == script \in [Client -> Seq(EnqueueCall)]

StopSet == stop <=> pc[Owner] \in {"notifyAll", "joining", "destroyed"}

\* What the threads are doing: the first inductive invariant.
ThreadInv == TypeOK /\ Roles /\ JobsHeld /\ ScriptsOK /\ StopSet


-----------------------------------------------------------------------------
(* Where the threads are *)

\* The kinds of threads are apart, and nobody is none of them.
LEMMA ThreadsApart ==
  /\ Owner \in Thread /\ Worker \subseteq Thread /\ Client \subseteq Thread
  /\ Nobody \notin Thread /\ Nobody \notin Task
  /\ \A w \in Worker : w \notin Client /\ w # Owner
  /\ \A c \in Client : c # Owner
  BY PoolAssumption DEF Thread

LEMMA InitThreadInv == ASSUME Init PROVE ThreadInv
<1>1. \A t \in Thread : pc[t] = IF t \in Worker THEN "lock" ELSE IF t = Owner THEN "join" ELSE "idle"
  BY DEF Init
<1>2. /\ \A t \in Thread : mutex = t <=> pc[t] \in {"push", "test", "setStop"}
      /\ waiting = {w \in Worker : pc[w] = "asleep"}
      /\ pc \in [Thread -> Label]
  BY <1>1, ThreadsApart DEF Init, Label
<1>3. TypeOK
  <2>1. stop \in BOOLEAN /\ tasks \in Seq(Task) /\ mutex \in Thread \cup {Nobody}
    BY EmptySeq DEF Init
  <2>2. job \in [Thread -> Task \cup {Nobody}] /\ ran \in [Task -> Nat] /\ accepted \subseteq Task
    BY DEF Init
  <2>3. handle \in [Task -> {"none", "alive", "gone"}]
    BY DEF Init
  <2>4. future \in [Task -> {"none", "pending", "ready", "broken"}] /\ crashed \in BOOLEAN
    BY DEF Init
  <2> QED
    BY <1>2, <2>1, <2>2, <2>3, <2>4 DEF TypeOK
<1>4. Roles /\ JobsHeld /\ StopSet
  BY <1>1, ThreadsApart DEF Init, Roles, JobsHeld, StopSet, ClientLabel, WorkerLabel, OwnerLabel
<1>5. ScriptsOK
  BY PoolAssumption DEF Init, ScriptsOK
<1> QED
  BY <1>3, <1>4, <1>5 DEF ThreadInv

LEMMA CallThreadInv ==
  ASSUME ThreadInv, NEW c \in Client, Call(c)
  PROVE  ThreadInv'
<1>1. Head(script[c]) \in EnqueueCall /\ Tail(script[c]) \in Seq(EnqueueCall)
  BY DEF Call, ThreadInv, ScriptsOK
<1>2. TypeOK'
  BY <1>1, ThreadsApart DEF Call, Goto, At, ThreadInv, TypeOK, Label, EnqueueCall
<1>3. Roles' /\ JobsHeld' /\ StopSet'
  BY <1>1, ThreadsApart
  DEF Call, Goto, At, ThreadInv, TypeOK, Roles, JobsHeld, StopSet, EnqueueCall,
      ClientLabel, WorkerLabel, OwnerLabel
<1>4. ScriptsOK'
  BY <1>1 DEF Call, ThreadInv, ScriptsOK
<1> QED
  BY <1>2, <1>3, <1>4 DEF ThreadInv

LEMMA LockQueueThreadInv ==
  ASSUME ThreadInv, NEW t \in Worker \cup Client, LockQueue(t)
  PROVE  ThreadInv'
<1>1. TypeOK'
  BY ThreadsApart DEF LockQueue, Acquire, Goto, At, ThreadInv, TypeOK, JobsHeld, Label
<1>2. Roles' /\ JobsHeld' /\ ScriptsOK' /\ StopSet'
  BY ThreadsApart
  DEF LockQueue, Acquire, Goto, At, ThreadInv, TypeOK, Roles, JobsHeld, ScriptsOK, StopSet,
      ClientLabel, WorkerLabel, OwnerLabel
<1> QED
  BY <1>1, <1>2 DEF ThreadInv

LEMMA NotifyOneThreadInv ==
  ASSUME ThreadInv, NEW t \in Worker \cup Client, NotifyOne(t)
  PROVE  ThreadInv'
<1>1. CASE waiting = {} /\ pc' = [pc EXCEPT ![t] = "return"] /\ waiting' = waiting
  <2>1. TypeOK'
    BY <1>1, ThreadsApart DEF NotifyOne, At, ThreadInv, TypeOK, Label
  <2>2. Roles' /\ JobsHeld' /\ ScriptsOK' /\ StopSet'
    BY <1>1, ThreadsApart
    DEF NotifyOne, At, ThreadInv, TypeOK, Roles, JobsHeld, ScriptsOK, StopSet,
        ClientLabel, WorkerLabel, OwnerLabel
  <2> QED
    BY <2>1, <2>2 DEF ThreadInv
<1>2. ASSUME NEW v \in waiting, pc' = [pc EXCEPT ![t] = "return", ![v] = "lock"],
             waiting' = waiting \ {v}
      PROVE  ThreadInv'
  <2>1. v \in Worker /\ v \in Thread /\ t \in Thread /\ pc[v] = "asleep" /\ pc[t] = "notify"
    BY ThreadsApart DEF NotifyOne, At, ThreadInv, TypeOK
  <2>2. TypeOK'
    <3>1. pc' \in [Thread -> Label]
      BY <1>2, <2>1 DEF ThreadInv, TypeOK, Label
    <3>2. /\ \A u \in Thread : mutex = u <=> pc'[u] \in {"push", "test", "setStop"}
          /\ waiting' = {w \in Worker : pc'[w] = "asleep"}
      BY <1>2, <2>1, ThreadsApart DEF ThreadInv, TypeOK
    <3> QED
      BY <3>1, <3>2 DEF NotifyOne, ThreadInv, TypeOK
  <2>3. \A u \in Thread : pc'[u] = IF u = v THEN "lock" ELSE IF u = t THEN "return" ELSE pc[u]
    BY <1>2, <2>1 DEF ThreadInv, TypeOK
  <2>4. UNCHANGED <<stop, job, script>>
    BY DEF NotifyOne
  <2>5. Roles' /\ JobsHeld' /\ ScriptsOK' /\ StopSet'
    BY <2>1, <2>3, <2>4, ThreadsApart
    DEF ThreadInv, Roles, JobsHeld, ScriptsOK, StopSet, ClientLabel, WorkerLabel, OwnerLabel
  <2> QED
    BY <2>2, <2>5 DEF ThreadInv
<1> QED
  BY <1>1, <1>2 DEF NotifyOne

LEMMA ReturnThreadInv ==
  ASSUME ThreadInv, NEW t \in Worker \cup Client, Return(t)
  PROVE  ThreadInv'
<1>1. TypeOK'
  BY ThreadsApart DEF Return, Goto, At, ThreadInv, TypeOK, JobsHeld, Label
<1>2. Roles' /\ JobsHeld' /\ ScriptsOK' /\ StopSet'
  BY ThreadsApart
  DEF Return, Goto, At, ThreadInv, TypeOK, Roles, JobsHeld, ScriptsOK, StopSet,
      ClientLabel, WorkerLabel, OwnerLabel
<1> QED
  BY <1>1, <1>2 DEF ThreadInv

LEMMA LockWorkerThreadInv ==
  ASSUME ThreadInv, NEW w \in Worker, LockWorker(w)
  PROVE  ThreadInv'
<1>1. TypeOK'
  BY ThreadsApart DEF LockWorker, Acquire, Goto, At, ThreadInv, TypeOK, JobsHeld, Label
<1>2. Roles' /\ JobsHeld' /\ ScriptsOK' /\ StopSet'
  BY ThreadsApart
  DEF LockWorker, Acquire, Goto, At, ThreadInv, TypeOK, Roles, JobsHeld, ScriptsOK, StopSet,
      ClientLabel, WorkerLabel, OwnerLabel
<1> QED
  BY <1>1, <1>2 DEF ThreadInv

LEMMA SleepThreadInv ==
  ASSUME ThreadInv, NEW w \in Worker, Sleep(w)
  PROVE  ThreadInv'
<1>1. TypeOK'
  BY ThreadsApart DEF Sleep, Release, Goto, At, ThreadInv, TypeOK, JobsHeld, Label
<1>2. Roles' /\ JobsHeld' /\ ScriptsOK' /\ StopSet'
  BY ThreadsApart
  DEF Sleep, Release, Goto, At, ThreadInv, TypeOK, Roles, JobsHeld, ScriptsOK, StopSet,
      ClientLabel, WorkerLabel, OwnerLabel
<1> QED
  BY <1>1, <1>2 DEF ThreadInv

LEMMA LeaveThreadInv ==
  ASSUME ThreadInv, NEW w \in Worker, Leave(w)
  PROVE  ThreadInv'
<1>1. TypeOK'
  BY ThreadsApart DEF Leave, Release, Goto, At, ThreadInv, TypeOK, JobsHeld, Label
<1>2. Roles' /\ JobsHeld' /\ ScriptsOK' /\ StopSet'
  BY ThreadsApart
  DEF Leave, Release, Goto, At, ThreadInv, TypeOK, Roles, JobsHeld, ScriptsOK, StopSet,
      ClientLabel, WorkerLabel, OwnerLabel
<1> QED
  BY <1>1, <1>2 DEF ThreadInv

LEMMA TakeThreadInv ==
  ASSUME ThreadInv, NEW w \in Worker, Take(w)
  PROVE  ThreadInv'
<1>1. TypeOK'
  BY ThreadsApart DEF Take, Release, Goto, At, ThreadInv, TypeOK, JobsHeld, Label
<1>2. Roles' /\ JobsHeld' /\ ScriptsOK' /\ StopSet'
  BY ThreadsApart
  DEF Take, Release, Goto, At, ThreadInv, TypeOK, Roles, JobsHeld, ScriptsOK, StopSet,
      ClientLabel, WorkerLabel, OwnerLabel
<1> QED
  BY <1>1, <1>2 DEF ThreadInv

LEMMA WakeThreadInv ==
  ASSUME ThreadInv, NEW w \in Worker, WakeSpuriously(w)
  PROVE  ThreadInv'
<1>1. TypeOK'
  BY ThreadsApart DEF WakeSpuriously, Goto, At, ThreadInv, TypeOK, JobsHeld, Label
<1>2. Roles' /\ JobsHeld' /\ ScriptsOK' /\ StopSet'
  BY ThreadsApart
  DEF WakeSpuriously, Goto, At, ThreadInv, TypeOK, Roles, JobsHeld, ScriptsOK, StopSet,
      ClientLabel, WorkerLabel, OwnerLabel
<1> QED
  BY <1>1, <1>2 DEF ThreadInv

LEMMA RunThreadInv ==
  ASSUME ThreadInv, NEW w \in Worker, Run(w)
  PROVE  ThreadInv'
<1>1. CASE pc' = [pc EXCEPT ![w] = "running"] /\ UNCHANGED <<job, crashed>>
  <2>1. TypeOK'
    BY <1>1, ThreadsApart DEF Run, At, ThreadInv, TypeOK, Label
  <2>2. Roles' /\ JobsHeld' /\ ScriptsOK' /\ StopSet'
    BY <1>1, ThreadsApart
    DEF Run, At, ThreadInv, TypeOK, Roles, JobsHeld, ScriptsOK, StopSet,
        ClientLabel, WorkerLabel, OwnerLabel
  <2> QED
    BY <2>1, <2>2 DEF ThreadInv
<1>2. CASE /\ pc' = [pc EXCEPT ![w] = "lock"] /\ job' = [job EXCEPT ![w] = Nobody]
           /\ crashed' \in BOOLEAN
  <2>1. TypeOK'
    BY <1>2, ThreadsApart DEF Run, At, ThreadInv, TypeOK, Label
  <2>2. Roles' /\ JobsHeld' /\ ScriptsOK' /\ StopSet'
    BY <1>2, ThreadsApart
    DEF Run, At, ThreadInv, TypeOK, Roles, JobsHeld, ScriptsOK, StopSet,
        ClientLabel, WorkerLabel, OwnerLabel
  <2> QED
    BY <2>1, <2>2 DEF ThreadInv
<1> QED
  BY <1>1, <1>2 DEF Run

LEMMA FinishThreadInv ==
  ASSUME ThreadInv, NEW w \in Worker, Finish(w)
  PROVE  ThreadInv'
<1> DEFINE k == job[w]
<1>1. w \in Thread /\ pc[w] = "running" /\ k \in Task
  BY ThreadsApart DEF Finish, Goto, At, ThreadInv, JobsHeld
<1>2. /\ Spawned[k] \in Task \cup {Nobody}
      /\ pc' = [pc EXCEPT ![w] = IF Spawned[k] # Nobody THEN "enqueue" ELSE "lock"]
      /\ job' = [job EXCEPT ![w] = Spawned[k]]
      /\ ran' = [ran EXCEPT ![k] = @ + 1]
      /\ future' = [future EXCEPT ![k] = IF @ = "pending" THEN "ready" ELSE @]
      /\ crashed' \in BOOLEAN
      /\ UNCHANGED <<stop, tasks, mutex, waiting, script, accepted, handle>>
  BY <1>1, PoolAssumption DEF Finish, Goto
<1> HIDE DEF k
<1>3. TypeOK'
  <2>1. /\ ran' \in [Task -> Nat]
        /\ future' \in [Task -> {"none", "pending", "ready", "broken"}]
        /\ job' \in [Thread -> Task \cup {Nobody}]
    BY <1>1, <1>2 DEF ThreadInv, TypeOK
  <2>2. /\ pc' \in [Thread -> Label]
        /\ \A t \in Thread : mutex' = t <=> pc'[t] \in {"push", "test", "setStop"}
        /\ waiting' = {v \in Worker : pc'[v] = "asleep"}
    BY <1>1, <1>2, ThreadsApart DEF ThreadInv, TypeOK, Label
  <2> QED
    BY <1>2, <2>1, <2>2 DEF ThreadInv, TypeOK
<1>4. Roles' /\ JobsHeld' /\ ScriptsOK' /\ StopSet'
  BY <1>1, <1>2, ThreadsApart
  DEF ThreadInv, TypeOK, Roles, JobsHeld, ScriptsOK, StopSet,
      ClientLabel, WorkerLabel, OwnerLabel
<1> QED
  BY <1>3, <1>4 DEF ThreadInv

LEMMA LockOwnerThreadInv ==
  ASSUME ThreadInv, LockOwner
  PROVE  ThreadInv'
<1>1. TypeOK'
  BY ThreadsApart DEF LockOwner, Acquire, Goto, At, ThreadInv, TypeOK, JobsHeld, Label
<1>2. Roles' /\ JobsHeld' /\ ScriptsOK' /\ StopSet'
  BY ThreadsApart
  DEF LockOwner, Acquire, Goto, At, ThreadInv, TypeOK, Roles, JobsHeld, ScriptsOK, StopSet,
      ClientLabel, WorkerLabel, OwnerLabel
<1> QED
  BY <1>1, <1>2 DEF ThreadInv

LEMMA SetStopThreadInv ==
  ASSUME ThreadInv, SetStop
  PROVE  ThreadInv'
<1>1. TypeOK'
  BY ThreadsApart DEF SetStop, Release, Goto, At, ThreadInv, TypeOK, JobsHeld, Label
<1>2. Roles' /\ JobsHeld' /\ ScriptsOK' /\ StopSet'
  BY ThreadsApart
  DEF SetStop, Release, Goto, At, ThreadInv, TypeOK, Roles, JobsHeld, ScriptsOK, StopSet,
      ClientLabel, WorkerLabel, OwnerLabel
<1> QED
  BY <1>1, <1>2 DEF ThreadInv

LEMMA NotifyAllThreadInv ==
  ASSUME ThreadInv, NotifyAll
  PROVE  ThreadInv'
<1>1. TypeOK'
  BY ThreadsApart DEF NotifyAll, At, ThreadInv, TypeOK, JobsHeld, Label
<1>2. Roles' /\ JobsHeld' /\ ScriptsOK' /\ StopSet'
  BY ThreadsApart
  DEF NotifyAll, At, ThreadInv, TypeOK, Roles, JobsHeld, ScriptsOK, StopSet,
      ClientLabel, WorkerLabel, OwnerLabel
<1> QED
  BY <1>1, <1>2 DEF ThreadInv

LEMMA JoinThreadInv ==
  ASSUME ThreadInv, Join
  PROVE  ThreadInv'
<1>1. TypeOK'
  BY ThreadsApart DEF Join, Goto, At, ThreadInv, TypeOK, JobsHeld, Label
<1>2. Roles' /\ JobsHeld' /\ ScriptsOK' /\ StopSet'
  BY ThreadsApart
  DEF Join, Goto, At, ThreadInv, TypeOK, Roles, JobsHeld, ScriptsOK, StopSet,
      ClientLabel, WorkerLabel, OwnerLabel
<1> QED
  BY <1>1, <1>2 DEF ThreadInv

LEMMA ThrowThreadInv ==
  ASSUME ThreadInv, NEW t \in Worker \cup Client, Release(t), Throw(t)
  PROVE  ThreadInv'
<1>1. TypeOK'
  BY ThreadsApart DEF Release, Throw, Goto, At, ThreadInv, TypeOK, JobsHeld, Label
<1>2. Roles' /\ JobsHeld' /\ ScriptsOK' /\ StopSet'
  BY ThreadsApart
  DEF Release, Throw, Goto, At, ThreadInv, TypeOK, Roles, JobsHeld, ScriptsOK, StopSet,
      ClientLabel, WorkerLabel, OwnerLabel
<1> QED
  BY <1>1, <1>2 DEF ThreadInv

LEMMA EmplaceThreadInv ==
  ASSUME ThreadInv, NEW t \in Worker \cup Client, Release(t), Emplace(t, "notify")
  PROVE  ThreadInv'
<1>1. TypeOK'
  BY ThreadsApart DEF Release, Emplace, Goto, At, ThreadInv, TypeOK, JobsHeld, Label
<1>2. Roles' /\ JobsHeld' /\ ScriptsOK' /\ StopSet'
  BY ThreadsApart
  DEF Release, Emplace, Goto, At, ThreadInv, TypeOK, Roles, JobsHeld, ScriptsOK, StopSet,
      ClientLabel, WorkerLabel, OwnerLabel
<1> QED
  BY <1>1, <1>2 DEF ThreadInv

LEMMA StutterThreadInv == ASSUME ThreadInv, UNCHANGED vars PROVE ThreadInv'
  BY DEF ThreadInv, TypeOK, Roles, JobsHeld, ScriptsOK, StopSet, vars

LEMMA StepThreadInv == ASSUME ThreadInv, [Next]_vars PROVE ThreadInv'
<1>1. ASSUME NEW t \in Worker \cup Client, Caller(t) PROVE ThreadInv'
  BY <1>1, LockQueueThreadInv, ThrowThreadInv, EmplaceThreadInv, NotifyOneThreadInv,
     ReturnThreadInv DEF Caller, Push
<1>2. ASSUME NEW c \in Client, ClientStep(c) PROVE ThreadInv'
  BY <1>1, <1>2, CallThreadInv DEF ClientStep
<1>3. ASSUME NEW w \in Worker, WorkerStep(w) \/ WakeSpuriously(w) PROVE ThreadInv'
  BY <1>1, <1>3, LockWorkerThreadInv, SleepThreadInv, LeaveThreadInv, TakeThreadInv,
     RunThreadInv, FinishThreadInv, WakeThreadInv DEF WorkerStep
<1>4. ASSUME OwnerStep PROVE ThreadInv'
  BY <1>4, LockOwnerThreadInv, SetStopThreadInv, NotifyAllThreadInv, JoinThreadInv
  DEF OwnerStep
<1> QED
  BY <1>2, <1>3, <1>4, StutterThreadInv DEF Next, Exit

\* Whatever the pool's threads do, every variable keeps its range and m_mutex is held
\* exactly by the thread that is inside a block with a lock, the throw of enqueue and
\* the return from wait included.
THEOREM TypeCorrect == Spec => []TypeOK
<1>1. Spec => []ThreadInv
  BY InitThreadInv, StepThreadInv, PTL DEF Spec
<1>2. ThreadInv => TypeOK
  BY DEF ThreadInv
<1> QED
  BY <1>1, <1>2, PTL

-----------------------------------------------------------------------------
(* No wakeup is lost *)

\* The workers that will test the queue before they sleep again, and the callers
\* that have put a task there and have still to notify.
Awake == {w \in Worker : pc[w] \in {"lock", "test"}}
Notifiers == {t \in Thread : pc[t] = "notify"}

Wakers == Cardinality(Awake) + Cardinality(Notifiers)

TasksHaveWakers == waiting # {} => Len(tasks) <= Wakers

\* Nobody sleeps on once the pool stops.
NobodySleepsOn == waiting # {} /\ stop => pc[Owner] = "notifyAll"

LEMMA NoWakeupLostParts == NoWakeupLost <=> TasksHaveWakers /\ NobodySleepsOn
  BY DEF NoWakeupLost, TasksHaveWakers, NobodySleepsOn, Wakers, Awake, Notifiers

LEMMA WakersFinite ==
  /\ IsFiniteSet(Awake) /\ IsFiniteSet(Notifiers)
  /\ Cardinality(Awake) \in Nat /\ Cardinality(Notifiers) \in Nat
  /\ IsFiniteSet(Awake') /\ IsFiniteSet(Notifiers')
  /\ Cardinality(Awake') \in Nat /\ Cardinality(Notifiers') \in Nat
<1>1. IsFiniteSet(Worker) /\ IsFiniteSet(Thread)
  <2>1. IsFiniteSet(Worker \cup Client)
    BY FS_Union, PoolAssumption
  <2> QED
    BY <2>1, FS_AddElement, PoolAssumption DEF Thread
<1>2. /\ Awake \subseteq Worker /\ Notifiers \subseteq Thread
      /\ Awake' \subseteq Worker /\ Notifiers' \subseteq Thread
  BY DEF Awake, Notifiers
<1>3. /\ IsFiniteSet(Awake) /\ IsFiniteSet(Notifiers)
      /\ IsFiniteSet(Awake') /\ IsFiniteSet(Notifiers')
  BY <1>1, <1>2, FS_Subset
<1> QED
  BY <1>3, FS_CardinalityType

\* A step that takes nobody from the wakers and adds no task.
LEMMA WakersKept ==
  ASSUME ThreadInv, ThreadInv', TasksHaveWakers,
         waiting' # {} => waiting # {}, tasks' = tasks,
         Awake \subseteq Awake', Notifiers \subseteq Notifiers'
  PROVE  TasksHaveWakers'
<1>1. /\ Cardinality(Awake) <= Cardinality(Awake')
      /\ Cardinality(Notifiers) <= Cardinality(Notifiers')
  BY WakersFinite, FS_Subset
<1>2. Len(tasks) \in Nat
  BY DEF ThreadInv, TypeOK
<1> QED
  BY <1>1, <1>2, WakersFinite DEF TasksHaveWakers, Wakers

LEMMA StepTasksHaveWakers ==
  ASSUME ThreadInv, ThreadInv', TasksHaveWakers, [Next]_vars
  PROVE  TasksHaveWakers'
<1> USE ThreadsApart
<1>1. ASSUME NEW c \in Client, Call(c) PROVE TasksHaveWakers'
  <2>1. UNCHANGED <<waiting, tasks>> /\ Awake' = Awake /\ Notifiers' = Notifiers
    BY <1>1 DEF Call, Goto, At, ThreadInv, TypeOK, Awake, Notifiers
  <2> QED
    BY <2>1, WakersKept
<1>2. ASSUME NEW t \in Worker \cup Client, LockQueue(t) PROVE TasksHaveWakers'
  <2>1. UNCHANGED <<waiting, tasks>> /\ Awake' = Awake /\ Notifiers' = Notifiers
    BY <1>2 DEF LockQueue, Goto, At, ThreadInv, TypeOK, Awake, Notifiers
  <2> QED
    BY <2>1, WakersKept
<1>3. ASSUME NEW t \in Worker \cup Client, Throw(t) PROVE TasksHaveWakers'
  <2>1. UNCHANGED <<waiting, tasks>> /\ Awake' = Awake /\ Notifiers' = Notifiers
    BY <1>3 DEF Throw, Goto, At, ThreadInv, TypeOK, Awake, Notifiers
  <2> QED
    BY <2>1, WakersKept
<1>4. ASSUME NEW t \in Worker \cup Client, Emplace(t, "notify") PROVE TasksHaveWakers'
  <2>1. t \in Thread /\ pc[t] = "push" /\ job[t] \in Task
    BY <1>4 DEF Emplace, Goto, At, ThreadInv, JobsHeld
  <2>2. waiting' = waiting /\ Len(tasks') = Len(tasks) + 1 /\ Len(tasks) \in Nat
    BY <1>4, <2>1 DEF Emplace, ThreadInv, TypeOK
  <2>3. Awake' = Awake /\ Notifiers' = Notifiers \cup {t} /\ t \notin Notifiers
    BY <1>4, <2>1 DEF Emplace, Goto, ThreadInv, TypeOK, Awake, Notifiers
  <2>4. Cardinality(Notifiers') = Cardinality(Notifiers) + 1
    BY <2>3, WakersFinite, FS_AddElement
  <2> QED
    BY <2>2, <2>3, <2>4, WakersFinite DEF TasksHaveWakers, Wakers
<1>5. ASSUME NEW t \in Worker \cup Client, NotifyOne(t) PROVE TasksHaveWakers'
  <2>1. t \in Thread /\ pc[t] = "notify" /\ tasks' = tasks /\ Len(tasks) \in Nat
    BY <1>5 DEF NotifyOne, At, ThreadInv, TypeOK
  <2>2. CASE waiting' = {}
    BY <2>2 DEF TasksHaveWakers
  <2>3. CASE waiting' # {}
    <3>1. PICK w \in waiting : pc' = [pc EXCEPT ![t] = "return", ![w] = "lock"]
      BY <1>5, <2>3 DEF NotifyOne
    <3>2. w \in Worker /\ w \in Thread /\ pc[w] = "asleep"
      BY DEF ThreadInv, TypeOK
    <3>3. \A u \in Thread : pc'[u] = IF u = w THEN "lock" ELSE IF u = t THEN "return" ELSE pc[u]
      BY <3>1, <3>2, <2>1 DEF ThreadInv, TypeOK
    <3>4. /\ Awake' = Awake \cup {w} /\ w \notin Awake
          /\ Notifiers' = Notifiers \ {t} /\ t \in Notifiers
      BY <3>2, <3>3, <2>1 DEF Awake, Notifiers
    <3>5. /\ Cardinality(Awake') = Cardinality(Awake) + 1
          /\ Cardinality(Notifiers') = Cardinality(Notifiers) - 1
      BY <3>4, WakersFinite, FS_AddElement, FS_RemoveElement
    <3>6. waiting # {}
      OBVIOUS
    <3> QED
      BY <2>1, <3>5, <3>6, WakersFinite DEF TasksHaveWakers, Wakers
  <2> QED
    BY <2>2, <2>3
<1>6. ASSUME NEW t \in Worker \cup Client, Return(t) PROVE TasksHaveWakers'
  <2>1. UNCHANGED <<waiting, tasks>> /\ Awake \subseteq Awake' /\ Notifiers' = Notifiers
    BY <1>6 DEF Return, Goto, At, ThreadInv, TypeOK, Awake, Notifiers
  <2> QED
    BY <2>1, WakersKept
<1>7. ASSUME NEW w \in Worker, LockWorker(w) PROVE TasksHaveWakers'
  <2>1. UNCHANGED <<waiting, tasks>> /\ Awake' = Awake /\ Notifiers' = Notifiers
    BY <1>7 DEF LockWorker, Goto, At, ThreadInv, TypeOK, Awake, Notifiers
  <2> QED
    BY <2>1, WakersKept
<1>8. ASSUME NEW w \in Worker, Sleep(w) \/ Leave(w) PROVE TasksHaveWakers'
  <2>1. Len(tasks') = 0
    BY <1>8, EmptySeq DEF Sleep, Leave
  <2> QED
    BY <2>1, WakersFinite DEF TasksHaveWakers, Wakers
<1>9. ASSUME NEW w \in Worker, Take(w) PROVE TasksHaveWakers'
  <2>1. w \in Thread /\ pc[w] = "test" /\ waiting' = waiting
    BY <1>9 DEF Take, Goto, At
  <2>2. Len(tasks') = Len(tasks) - 1 /\ Len(tasks) \in Nat
    BY <1>9 DEF Take, ThreadInv, TypeOK
  <2>3. Awake' = Awake \ {w} /\ w \in Awake /\ Notifiers' = Notifiers
    BY <1>9, <2>1 DEF Take, Goto, ThreadInv, TypeOK, Awake, Notifiers
  <2>4. Cardinality(Awake') = Cardinality(Awake) - 1
    BY <2>3, WakersFinite, FS_RemoveElement
  <2> QED
    BY <2>1, <2>2, <2>3, <2>4, WakersFinite DEF TasksHaveWakers, Wakers
<1>10. ASSUME NEW w \in Worker, Run(w) PROVE TasksHaveWakers'
  <2>1. UNCHANGED <<waiting, tasks>> /\ w \in Thread /\ pc[w] = "run"
    BY <1>10 DEF Run, At
  <2>2. pc' = [pc EXCEPT ![w] = "running"] \/ pc' = [pc EXCEPT ![w] = "lock"]
    BY <1>10 DEF Run
  <2>3. Awake \subseteq Awake' /\ Notifiers' = Notifiers
    BY <2>1, <2>2 DEF ThreadInv, TypeOK, Awake, Notifiers
  <2> QED
    BY <2>1, <2>3, WakersKept
<1>11. ASSUME NEW w \in Worker, Finish(w) PROVE TasksHaveWakers'
  <2>1. UNCHANGED <<waiting, tasks>> /\ Awake \subseteq Awake' /\ Notifiers' = Notifiers
    BY <1>11 DEF Finish, Goto, At, ThreadInv, TypeOK, Awake, Notifiers
  <2> QED
    BY <2>1, WakersKept
<1>12. ASSUME NEW w \in Worker, WakeSpuriously(w) PROVE TasksHaveWakers'
  <2>1. tasks' = tasks /\ waiting # {} /\ Awake \subseteq Awake' /\ Notifiers' = Notifiers
    BY <1>12 DEF WakeSpuriously, Goto, At, ThreadInv, TypeOK, Awake, Notifiers
  <2> QED
    BY <2>1, WakersKept
<1>13. ASSUME LockOwner \/ SetStop \/ Join PROVE TasksHaveWakers'
  <2>1. UNCHANGED <<waiting, tasks>> /\ Awake' = Awake /\ Notifiers' = Notifiers
    BY <1>13 DEF LockOwner, SetStop, Join, Goto, At, ThreadInv, TypeOK, Awake, Notifiers
  <2> QED
    BY <2>1, WakersKept
<1>14. CASE NotifyAll
  BY <1>14 DEF NotifyAll, TasksHaveWakers
<1>15. CASE UNCHANGED vars
  <2>1. UNCHANGED <<waiting, tasks>> /\ Awake' = Awake /\ Notifiers' = Notifiers
    BY <1>15 DEF vars, Awake, Notifiers
  <2> QED
    BY <2>1, WakersKept
<1> QED
  BY <1>1, <1>2, <1>3, <1>4, <1>5, <1>6, <1>7, <1>8, <1>9, <1>10, <1>11, <1>12, <1>13,
     <1>14, <1>15
  DEF Next, Exit, ClientStep, WorkerStep, OwnerStep, Caller, Push

LEMMA StepNobodySleepsOn ==
  ASSUME ThreadInv, ThreadInv', NobodySleepsOn, [Next]_vars
  PROVE  NobodySleepsOn'
<1> USE ThreadsApart
<1>1. ASSUME NEW t \in Worker \cup Client, Caller(t) PROVE NobodySleepsOn'
  <2>1. CASE NotifyOne(t)
    <3>1. t \in Thread /\ t # Owner /\ Owner \notin waiting /\ UNCHANGED stop
      BY <2>1 DEF NotifyOne, ThreadInv, TypeOK
    <3>2. pc'[Owner] = pc[Owner] /\ waiting' \subseteq waiting
      BY <2>1, <3>1 DEF NotifyOne, ThreadInv, TypeOK
    <3> QED
      BY <3>1, <3>2 DEF NobodySleepsOn
  <2>2. CASE LockQueue(t) \/ Return(t)
    <3>1. t \in Thread /\ t # Owner /\ UNCHANGED <<stop, waiting>>
      BY <2>2 DEF LockQueue, Return
    <3>2. pc'[Owner] = pc[Owner]
      BY <2>2, <3>1 DEF LockQueue, Return, Goto, ThreadInv, TypeOK
    <3> QED
      BY <3>1, <3>2 DEF NobodySleepsOn
  <2>3. CASE Push(t)
    <3>1. /\ pc' = [pc EXCEPT ![t] = "return"] \/ pc' = [pc EXCEPT ![t] = "notify"]
          /\ UNCHANGED <<stop, waiting>>
      BY <2>3 DEF Push, Throw, Emplace, Goto
    <3> QED
      BY <3>1 DEF ThreadInv, TypeOK, NobodySleepsOn
  <2> QED
    BY <1>1, <2>1, <2>2, <2>3 DEF Caller
<1>2. ASSUME NEW c \in Client, Call(c) PROVE NobodySleepsOn'
  BY <1>2 DEF Call, Goto, At, ThreadInv, TypeOK, NobodySleepsOn
<1>3. ASSUME NEW w \in Worker, LockWorker(w) \/ Leave(w) \/ Take(w) \/ Finish(w)
      PROVE NobodySleepsOn'
  <2>1. UNCHANGED <<stop, waiting>>
    BY <1>3 DEF LockWorker, Leave, Take, Finish
  <2>2. pc'[Owner] = pc[Owner]
    <3>1. CASE LockWorker(w) BY <3>1 DEF LockWorker, Goto, ThreadInv, TypeOK
    <3>2. CASE Leave(w)      BY <3>2 DEF Leave, Goto, ThreadInv, TypeOK
    <3>3. CASE Take(w)       BY <3>3 DEF Take, Goto, ThreadInv, TypeOK
    <3>4. CASE Finish(w)     BY <3>4 DEF Finish, Goto, ThreadInv, TypeOK
    <3> QED
      BY <1>3, <3>1, <3>2, <3>3, <3>4
  <2> QED
    BY <2>1, <2>2 DEF NobodySleepsOn
<1>4. ASSUME NEW w \in Worker, Sleep(w) PROVE NobodySleepsOn'
  BY <1>4 DEF Sleep, NobodySleepsOn
<1>5. ASSUME NEW w \in Worker, Run(w) PROVE NobodySleepsOn'
  <2>1. /\ pc' = [pc EXCEPT ![w] = "running"] \/ pc' = [pc EXCEPT ![w] = "lock"]
        /\ UNCHANGED <<stop, waiting>>
    BY <1>5 DEF Run
  <2> QED
    BY <2>1 DEF ThreadInv, TypeOK, NobodySleepsOn
<1>6. ASSUME NEW w \in Worker, WakeSpuriously(w) PROVE NobodySleepsOn'
  BY <1>6 DEF WakeSpuriously, Goto, At, ThreadInv, TypeOK, NobodySleepsOn
<1>7. ASSUME OwnerStep PROVE NobodySleepsOn'
  BY <1>7
  DEF OwnerStep, LockOwner, SetStop, NotifyAll, Join, Goto, At, ThreadInv, TypeOK, StopSet,
      NobodySleepsOn
<1>8. CASE UNCHANGED vars
  BY <1>8 DEF vars, NobodySleepsOn
<1> QED
  BY <1>1, <1>2, <1>3, <1>4, <1>5, <1>6, <1>7, <1>8 DEF Next, Exit, ClientStep, WorkerStep

\* While a worker sleeps, every queued task has an awake worker or a notification that is
\* on its way, for any number of workers, callers and spurious wakeups: calling notify_one
\* after the unlock loses no wakeup, and neither does the notify_all of the destructor.
THEOREM WakeupsKept == Spec => []NoWakeupLost
<1> DEFINE Inv == ThreadInv /\ TasksHaveWakers /\ NobodySleepsOn
<1>1. Init => Inv
  BY InitThreadInv, ThreadsApart DEF Init, TasksHaveWakers, NobodySleepsOn
<1>2. Inv /\ [Next]_vars => Inv'
  BY StepThreadInv, StepTasksHaveWakers, StepNobodySleepsOn
<1>3. Inv => NoWakeupLost
  BY NoWakeupLostParts
<1> QED
  BY <1>1, <1>2, <1>3, PTL DEF Spec

-----------------------------------------------------------------------------
(* Where the tasks are *)

\* The task that a thread is about to put in the queue, and the one that a worker has
\* taken from it and not ended.
Offered == [t \in Thread |-> IF pc[t] \in {"enqueue", "push"} THEN job[t] ELSE Nobody]
Running == [w \in Worker |-> IF pc[w] \in {"run", "running"} THEN job[w] ELSE Nobody]

\* Nobody has offered k yet.
Fresh(k) == k \notin accepted /\ \A t \in Thread : Offered[t] # k

ScriptDistinct ==
  \A c, d \in Client : \A i \in DOMAIN script[c], n \in DOMAIN script[d] :
    /\ script[c][i].task = script[d][n].task => c = d /\ i = n
    /\ \A k \in Task : script[c][i].task # Spawned[k]

ScriptFresh == \A c \in Client : \A i \in DOMAIN script[c] : Fresh(script[c][i].task)

SpawnFresh == \A k \in Task : Spawned[k] # Nobody /\ ran[k] = 0 => Fresh(Spawned[k])

OfferedOnce ==
  \A t \in Thread : Offered[t] # Nobody =>
    /\ Offered[t] \notin accepted
    /\ \A u \in Thread : Offered[u] = Offered[t] => u = t

QueuedOnce ==
  \A i \in DOMAIN tasks :
    /\ tasks[i] \in accepted /\ ran[tasks[i]] = 0
    /\ \A n \in DOMAIN tasks : tasks[n] = tasks[i] => n = i
    /\ \A w \in Worker : Running[w] # tasks[i]

RunOnce ==
  \A w \in Worker : Running[w] # Nobody =>
    /\ Running[w] \in accepted /\ ran[Running[w]] = 0
    /\ \A u \in Worker : Running[u] = Running[w] => u = w

RanAccepted == \A k \in Task : ran[k] <= 1 /\ (k \notin accepted => ran[k] = 0)

\* Only a task of enqueueWithFuture whose packaged_task has gone may be lost.
NoneLost ==
  \A k \in accepted :
    \/ handle[k] = "gone"
    \/ ran[k] = 1
    \/ \E i \in DOMAIN tasks : tasks[i] = k
    \/ \E w \in Worker : Running[w] = k

\* A task has not been offered, or it is in one place, or it has been run: the second
\* inductive invariant.
TaskInv ==
  /\ ScriptDistinct /\ ScriptFresh /\ SpawnFresh
  /\ OfferedOnce /\ QueuedOnce /\ RunOnce
  /\ RanAccepted /\ NoneLost

\* The workers leave a pool that is closed and drained, and the destructor outlives them.
LeftDrained ==
  /\ \A w \in Worker : pc[w] = "exited" => stop /\ tasks = <<>>
  /\ pc[Owner] = "destroyed" => \A w \in Worker : pc[w] = "exited"

LEMMA TaskTypes ==
  ASSUME ThreadInv
  PROVE  /\ tasks \in Seq(Task) /\ Len(tasks) \in Nat /\ DOMAIN tasks = 1 .. Len(tasks)
         /\ \A i \in DOMAIN tasks : tasks[i] \in Task
         /\ ran \in [Task -> Nat] /\ accepted \subseteq Task
         /\ Offered \in [Thread -> Task \cup {Nobody}]
         /\ Running \in [Worker -> Task \cup {Nobody}]
         /\ Spawned \in [Task -> Task \cup {Nobody}]
         /\ Worker \subseteq Thread /\ Nobody \notin Task
<1>1. tasks \in Seq(Task) /\ Len(tasks) \in Nat /\ DOMAIN tasks = 1 .. Len(tasks)
  BY DEF ThreadInv, TypeOK
<1>2. \A i \in DOMAIN tasks : tasks[i] \in Task
  BY <1>1, ElementOfSeq
<1>3. /\ Offered \in [Thread -> Task \cup {Nobody}]
      /\ Running \in [Worker -> Task \cup {Nobody}]
  BY ThreadsApart DEF ThreadInv, TypeOK, Offered, Running
<1> QED
  BY <1>1, <1>2, <1>3, ThreadsApart, PoolAssumption DEF ThreadInv, TypeOK

LEMMA ScriptTasks ==
  ASSUME ThreadInv, NEW c \in Client, NEW i \in DOMAIN script[c]
  PROVE  script[c][i].task \in Task
<1>1. script[c] \in Seq(EnqueueCall)
  BY DEF ThreadInv, ScriptsOK
<1>2. script[c][i] \in EnqueueCall
  BY <1>1, ElementOfSeq
<1> QED
  BY <1>2 DEF EnqueueCall

\* What nobody sees of a step that moves no task.
Quiet == UNCHANGED <<tasks, accepted, ran, script, handle, Offered, Running>>

LEMMA QuietTaskInv == ASSUME TaskInv, Quiet PROVE TaskInv'
  BY DEF TaskInv, ScriptDistinct, ScriptFresh, SpawnFresh, OfferedOnce, QueuedOnce,
         RunOnce, RanAccepted, NoneLost, Quiet, Fresh

LEMMA CallTaskInv ==
  ASSUME ThreadInv, TaskInv, NEW c \in Client, Call(c)
  PROVE  TaskInv'
<1> DEFINE k == script[c][1].task
<1>1. /\ script \in [Client -> Seq(EnqueueCall)] /\ script[c] # <<>>
      /\ script' = [script EXCEPT ![c] = Tail(script[c])]
      /\ Head(script[c]) = script[c][1] /\ 1 \in DOMAIN script[c] /\ k \in Task
  <2>1. script \in [Client -> Seq(EnqueueCall)] /\ script[c] # <<>>
    BY DEF Call, ThreadInv, ScriptsOK
  <2>2. 1 \in DOMAIN script[c] /\ Head(script[c]) = script[c][1]
    BY <2>1
  <2>3. k \in Task
    BY <2>2, ScriptTasks
  <2> QED
    BY <2>1, <2>2, <2>3 DEF Call
<1>2. \A d \in Client : \A i \in DOMAIN script'[d] :
        \E n \in DOMAIN script[d] : /\ script'[d][i] = script[d][n]
                                    /\ n = IF d = c THEN i + 1 ELSE i
                                    /\ i \in Nat \ {0}
  BY <1>1
<1>3. /\ UNCHANGED <<tasks, accepted, ran>>
      /\ \A m \in Task : m # k => handle'[m] = handle[m]
      /\ c \in Thread /\ pc[c] = "idle"
      /\ pc' = [pc EXCEPT ![c] = "enqueue"] /\ job' = [job EXCEPT ![c] = k]
  BY <1>1, ThreadsApart DEF Call, Goto, At, ThreadInv, TypeOK
<1>4. Offered' = [Offered EXCEPT ![c] = k] /\ Running' = Running
  BY <1>3, ThreadsApart DEF Offered, Running, ThreadInv, TypeOK
<1>5. Fresh(k) /\ \A m \in Task : k # Spawned[m]
  BY <1>1 DEF TaskInv, ScriptFresh, ScriptDistinct
<1>6. \A d \in Client : \A i \in DOMAIN script'[d] : script'[d][i].task # k
  BY <1>1, <1>2 DEF TaskInv, ScriptDistinct
<1> HIDE DEF k
<1>7. ScriptDistinct'
  BY <1>2 DEF TaskInv, ScriptDistinct
<1>8. ScriptFresh'
  BY <1>2, <1>3, <1>4, <1>6, TaskTypes DEF TaskInv, ScriptFresh, Fresh
<1>9. SpawnFresh'
  BY <1>3, <1>4, <1>5, TaskTypes DEF TaskInv, SpawnFresh, Fresh
<1>10. OfferedOnce'
  BY <1>3, <1>4, <1>5, TaskTypes DEF TaskInv, OfferedOnce, Fresh
<1>11. QueuedOnce' /\ RunOnce' /\ RanAccepted'
  BY <1>3, <1>4 DEF TaskInv, QueuedOnce, RunOnce, RanAccepted
<1>12. NoneLost'
  BY <1>3, <1>4, <1>5, TaskTypes DEF TaskInv, NoneLost, Fresh
<1> QED
  BY <1>7, <1>8, <1>9, <1>10, <1>11, <1>12 DEF TaskInv

LEMMA ThrowTaskInv ==
  ASSUME ThreadInv, TaskInv, NEW t \in Worker \cup Client, Throw(t)
  PROVE  TaskInv'
<1>1. /\ UNCHANGED <<tasks, accepted, ran, script, handle, job>>
      /\ t \in Thread /\ pc[t] = "push" /\ pc' = [pc EXCEPT ![t] = "return"]
  BY ThreadsApart DEF Throw, Goto, At
<1>2. Offered' = [Offered EXCEPT ![t] = Nobody] /\ Running' = Running
  BY <1>1, ThreadsApart DEF Offered, Running, ThreadInv, TypeOK
<1>3. \A k \in Task : Fresh(k) => Fresh(k)'
  BY <1>1, <1>2, TaskTypes DEF Fresh
<1>4. ScriptDistinct' /\ SpawnFresh'
  BY <1>1, <1>3, TaskTypes DEF TaskInv, ScriptDistinct, SpawnFresh
<1>5. ScriptFresh'
  BY <1>1, <1>3, ScriptTasks DEF TaskInv, ScriptFresh
<1>6. OfferedOnce' /\ QueuedOnce' /\ RunOnce' /\ RanAccepted' /\ NoneLost'
  BY <1>1, <1>2, TaskTypes DEF TaskInv, OfferedOnce, QueuedOnce, RunOnce, RanAccepted, NoneLost
<1> QED
  BY <1>4, <1>5, <1>6 DEF TaskInv

LEMMA EmplaceTaskInv ==
  ASSUME ThreadInv, TaskInv, NEW t \in Worker \cup Client, Emplace(t, "notify")
  PROVE  TaskInv'
<1> DEFINE k == job[t]
<1>1. /\ UNCHANGED <<ran, script, handle, job>> /\ accepted' = accepted \cup {k}
      /\ t \in Thread /\ pc[t] = "push" /\ pc' = [pc EXCEPT ![t] = "notify"] /\ k \in Task
  BY ThreadsApart DEF Emplace, Goto, At, ThreadInv, JobsHeld
<1>2. /\ Offered' = [Offered EXCEPT ![t] = Nobody] /\ Running' = Running /\ Offered[t] = k
  BY <1>1, ThreadsApart DEF Offered, Running, ThreadInv, TypeOK
<1> HIDE DEF k
<1>3. /\ DOMAIN tasks' = 1 .. Len(tasks) + 1 /\ tasks'[Len(tasks) + 1] = k
      /\ \A i \in DOMAIN tasks : tasks'[i] = tasks[i]
  BY <1>1, TaskTypes DEF Emplace, k
<1>4. k \notin accepted /\ \A u \in Thread : Offered[u] = k => u = t
  BY <1>1, <1>2, TaskTypes DEF TaskInv, OfferedOnce
<1>5. \A m \in Task : Fresh(m) => Fresh(m)'
  BY <1>1, <1>2, TaskTypes DEF Fresh
<1>6. ScriptDistinct' /\ SpawnFresh'
  BY <1>1, <1>5, TaskTypes DEF TaskInv, ScriptDistinct, SpawnFresh
<1>7. ScriptFresh'
  BY <1>1, <1>5, ScriptTasks DEF TaskInv, ScriptFresh
<1>8. OfferedOnce'
  BY <1>1, <1>2, <1>4, TaskTypes DEF TaskInv, OfferedOnce
<1>9. \A i \in DOMAIN tasks' : /\ i \in Nat
                               /\ \/ i \in DOMAIN tasks /\ tasks'[i] = tasks[i] /\ tasks[i] # k
                                  \/ i = Len(tasks) + 1 /\ tasks'[i] = k
  BY <1>3, <1>4, TaskTypes DEF TaskInv, QueuedOnce
<1>10. \A w \in Worker : Running[w] # k
  BY <1>1, <1>4, TaskTypes DEF TaskInv, RunOnce
<1>11. QueuedOnce'
  BY <1>1, <1>2, <1>4, <1>9, <1>10, TaskTypes DEF TaskInv, QueuedOnce, RanAccepted
<1>12. RunOnce' /\ RanAccepted'
  BY <1>1, <1>2, TaskTypes DEF TaskInv, RunOnce, RanAccepted
<1>13. NoneLost'
  <2>1. Len(tasks) + 1 \in DOMAIN tasks' /\ \A i \in DOMAIN tasks : i \in DOMAIN tasks'
    BY <1>3, TaskTypes
  <2>2. \A m \in Task : (\E i \in DOMAIN tasks : tasks[i] = m) => \E i \in DOMAIN tasks' : tasks'[i] = m
    BY <1>3, <2>1
  <2>3. \E i \in DOMAIN tasks' : tasks'[i] = k
    BY <1>3, <2>1
  <2> QED
    BY <1>1, <1>2, <2>2, <2>3, TaskTypes DEF TaskInv, NoneLost
<1> QED
  BY <1>6, <1>7, <1>8, <1>11, <1>12, <1>13 DEF TaskInv

LEMMA ReturnTaskInv ==
  ASSUME ThreadInv, TaskInv, NEW t \in Worker \cup Client, Return(t)
  PROVE  TaskInv'
<1>1. /\ UNCHANGED <<tasks, accepted, ran, script>>
      /\ \A k \in Task : handle[k] = "gone" => handle'[k] = "gone"
  BY DEF Return, ThreadInv, TypeOK
<1>2. Offered' = Offered /\ Running' = Running
  BY ThreadsApart DEF Return, Goto, At, Offered, Running, ThreadInv, TypeOK
<1>3. \A k \in Task : Fresh(k) <=> Fresh(k)'
  BY <1>1, <1>2 DEF Fresh
<1>4. ScriptDistinct' /\ SpawnFresh'
  BY <1>1, <1>3, TaskTypes DEF TaskInv, ScriptDistinct, SpawnFresh
<1>5. ScriptFresh'
  BY <1>1, <1>3, ScriptTasks DEF TaskInv, ScriptFresh
<1>6. OfferedOnce' /\ QueuedOnce' /\ RunOnce' /\ RanAccepted'
  BY <1>1, <1>2 DEF TaskInv, OfferedOnce, QueuedOnce, RunOnce, RanAccepted
<1>7. NoneLost'
  BY <1>1, <1>2, TaskTypes DEF TaskInv, NoneLost
<1> QED
  BY <1>4, <1>5, <1>6, <1>7 DEF TaskInv

LEMMA TakeTaskInv ==
  ASSUME ThreadInv, TaskInv, NEW w \in Worker, Take(w)
  PROVE  TaskInv'
<1> DEFINE k == tasks[1]
<1>1. /\ UNCHANGED <<accepted, ran, script, handle>>
      /\ w \in Thread /\ pc[w] = "test" /\ pc' = [pc EXCEPT ![w] = "run"]
      /\ tasks # <<>> /\ tasks' = Tail(tasks) /\ Head(tasks) = k
      /\ 1 \in DOMAIN tasks /\ k \in Task /\ job' = [job EXCEPT ![w] = k]
  <2>1. tasks # <<>> /\ tasks \in Seq(Task)
    BY TaskTypes DEF Take
  <2>2. Head(tasks) = k /\ 1 \in DOMAIN tasks
    BY <2>1
  <2> QED
    BY <2>1, <2>2, TaskTypes DEF Take, Goto, At
<1>2. /\ Offered' = Offered /\ Running' = [Running EXCEPT ![w] = k] /\ Running[w] = Nobody
  BY <1>1, ThreadsApart DEF Offered, Running, ThreadInv, TypeOK
<1>3. \A i \in DOMAIN tasks' : i \in Nat \ {0} /\ i + 1 \in DOMAIN tasks /\ tasks'[i] = tasks[i + 1]
  BY <1>1, TaskTypes
<1>4. \A i \in DOMAIN tasks : i # 1 => i - 1 \in DOMAIN tasks' /\ tasks'[i - 1] = tasks[i]
  BY <1>1, TaskTypes
<1> HIDE DEF k
<1>5. \A m \in Task : Fresh(m) <=> Fresh(m)'
  BY <1>1, <1>2 DEF Fresh
<1>6. ScriptDistinct' /\ SpawnFresh'
  BY <1>1, <1>5, TaskTypes DEF TaskInv, ScriptDistinct, SpawnFresh
<1>7. ScriptFresh'
  BY <1>1, <1>5, ScriptTasks DEF TaskInv, ScriptFresh
<1>8. OfferedOnce' /\ RanAccepted'
  BY <1>1, <1>2 DEF TaskInv, OfferedOnce, RanAccepted
<1>9. /\ k \in accepted /\ ran[k] = 0 /\ \A v \in Worker : Running[v] # k
      /\ \A i \in DOMAIN tasks : tasks[i] = k => i = 1
  BY <1>1 DEF TaskInv, QueuedOnce, k
<1>10. QueuedOnce'
  <2> SUFFICES ASSUME NEW i \in DOMAIN tasks'
               PROVE  /\ tasks'[i] \in accepted' /\ ran'[tasks'[i]] = 0
                      /\ \A n \in DOMAIN tasks' : tasks'[n] = tasks'[i] => n = i
                      /\ \A v \in Worker : Running'[v] # tasks'[i]
    BY DEF QueuedOnce
  <2>1. i \in Nat \ {0} /\ i + 1 \in DOMAIN tasks /\ tasks'[i] = tasks[i + 1] /\ i + 1 # 1
    BY <1>3
  <2>2. tasks'[i] \in accepted' /\ ran'[tasks'[i]] = 0
    BY <1>1, <2>1 DEF TaskInv, QueuedOnce
  <2>3. \A n \in DOMAIN tasks' : tasks'[n] = tasks'[i] => n = i
    BY <1>3, <2>1 DEF TaskInv, QueuedOnce
  <2>4. \A v \in Worker : Running'[v] # tasks'[i]
    <3>1. tasks[i + 1] # k
      BY <1>9, <2>1
    <3> QED
      BY <1>2, <2>1, <3>1, TaskTypes DEF TaskInv, QueuedOnce
  <2> QED
    BY <2>2, <2>3, <2>4
<1>11. RunOnce'
  BY <1>1, <1>2, <1>9, TaskTypes DEF TaskInv, RunOnce
<1>12. NoneLost'
  <2>1. \A m \in Task : (\E i \in DOMAIN tasks : tasks[i] = m)
                         => m = k \/ \E i \in DOMAIN tasks' : tasks'[i] = m
    BY <1>4 DEF k
  <2>2. /\ Running'[w] = k
        /\ \A m \in Task : \A v \in Worker : Running[v] = m => Running'[v] = m
    BY <1>2, TaskTypes
  <2> QED
    BY <1>1, <2>1, <2>2, TaskTypes DEF TaskInv, NoneLost
<1> QED
  BY <1>6, <1>7, <1>8, <1>10, <1>11, <1>12 DEF TaskInv

LEMMA RunTaskInv ==
  ASSUME ThreadInv, TaskInv, NEW w \in Worker, Run(w)
  PROVE  TaskInv'
<1>1. w \in Thread /\ pc[w] = "run" /\ UNCHANGED <<tasks, accepted, ran, script, handle>>
  BY ThreadsApart DEF Run, At
<1>2. CASE pc' = [pc EXCEPT ![w] = "running"] /\ job' = job
  <2>1. Offered' = Offered /\ Running' = Running
    BY <1>1, <1>2, ThreadsApart DEF Offered, Running, ThreadInv, TypeOK
  <2> QED
    BY <1>1, <2>1, QuietTaskInv DEF Quiet
<1>3. CASE /\ handle[job[w]] = "gone"
           /\ pc' = [pc EXCEPT ![w] = "lock"] /\ job' = [job EXCEPT ![w] = Nobody]
  <2>1. /\ Offered' = Offered /\ Running' = [Running EXCEPT ![w] = Nobody]
        /\ Running[w] = job[w]
    BY <1>1, <1>3, ThreadsApart DEF Offered, Running, ThreadInv, TypeOK
  <2>2. \A m \in Task : Fresh(m) <=> Fresh(m)'
    BY <1>1, <2>1 DEF Fresh
  <2>3. ScriptDistinct' /\ SpawnFresh'
    BY <1>1, <2>2, TaskTypes DEF TaskInv, ScriptDistinct, SpawnFresh
  <2>4. ScriptFresh'
    BY <1>1, <2>2, ScriptTasks DEF TaskInv, ScriptFresh
  <2>5. OfferedOnce' /\ QueuedOnce' /\ RunOnce' /\ RanAccepted'
    BY <1>1, <2>1, TaskTypes DEF TaskInv, OfferedOnce, QueuedOnce, RunOnce, RanAccepted
  <2>6. NoneLost'
    BY <1>1, <1>3, <2>1, TaskTypes DEF TaskInv, NoneLost
  <2> QED
    BY <2>3, <2>4, <2>5, <2>6 DEF TaskInv
<1> QED
  BY <1>2, <1>3 DEF Run

LEMMA FinishTaskInv ==
  ASSUME ThreadInv, TaskInv, NEW w \in Worker, Finish(w)
  PROVE  TaskInv'
<1> DEFINE k == job[w]
<1>1. /\ UNCHANGED <<tasks, accepted, script, handle>> /\ ran' = [ran EXCEPT ![k] = @ + 1]
      /\ w \in Thread /\ pc[w] = "running" /\ k \in Task
      /\ pc' = [pc EXCEPT ![w] = IF Spawned[k] # Nobody THEN "enqueue" ELSE "lock"]
      /\ job' = [job EXCEPT ![w] = Spawned[k]]
  BY ThreadsApart DEF Finish, Goto, At, ThreadInv, JobsHeld
<1>2. /\ Offered' = [Offered EXCEPT ![w] = Spawned[k]] /\ Offered[w] = Nobody
      /\ Running' = [Running EXCEPT ![w] = Nobody] /\ Running[w] = k
  BY <1>1, ThreadsApart DEF Offered, Running, ThreadInv, TypeOK
<1> HIDE DEF k
<1>3. k \in accepted /\ ran[k] = 0 /\ \A u \in Worker : Running[u] = k => u = w
  BY <1>1, <1>2, TaskTypes DEF TaskInv, RunOnce
<1>4. Spawned[k] = Nobody \/ Fresh(Spawned[k])
  BY <1>1, <1>3 DEF TaskInv, SpawnFresh
<1>5. \A m \in Task : Fresh(m) /\ m # Spawned[k] => Fresh(m)'
  BY <1>1, <1>2, TaskTypes DEF Fresh
<1>6. ScriptDistinct'
  BY <1>1 DEF TaskInv, ScriptDistinct
<1>7. ScriptFresh'
  BY <1>1, <1>5, ScriptTasks DEF TaskInv, ScriptFresh, ScriptDistinct
<1>8. SpawnFresh'
  BY <1>1, <1>3, <1>5, TaskTypes, TaskAssumption DEF TaskInv, SpawnFresh
<1>9. OfferedOnce'
  BY <1>1, <1>2, <1>4, TaskTypes DEF TaskInv, OfferedOnce, Fresh
<1>10. \A i \in DOMAIN tasks : tasks[i] # k
  BY <1>2 DEF TaskInv, QueuedOnce
<1>11. QueuedOnce'
  BY <1>1, <1>2, <1>10, TaskTypes DEF TaskInv, QueuedOnce
<1>12. RunOnce' /\ RanAccepted'
  BY <1>1, <1>2, <1>3, TaskTypes DEF TaskInv, RunOnce, RanAccepted
<1>13. NoneLost'
  BY <1>1, <1>2, <1>3, TaskTypes DEF TaskInv, NoneLost
<1> QED
  BY <1>6, <1>7, <1>8, <1>9, <1>11, <1>12, <1>13 DEF TaskInv

LEMMA InitTaskInv == ASSUME Init PROVE TaskInv
<1>1. ThreadInv
  BY InitThreadInv
<1>2. /\ tasks = <<>> /\ accepted = {} /\ ran = [k \in Task |-> 0] /\ script \in Script
      /\ \A t \in Thread : Offered[t] = Nobody
      /\ \A w \in Worker : Running[w] = Nobody
  BY ThreadsApart DEF Init, Offered, Running
<1>3. \A k \in Task : Fresh(k)
  BY <1>2, ThreadsApart DEF Fresh
<1>4. ScriptDistinct
  BY <1>2, TaskAssumption DEF ScriptDistinct
<1>5. ScriptFresh
  BY <1>1, <1>3, ScriptTasks DEF ScriptFresh
<1>6. SpawnFresh
  BY <1>3, PoolAssumption DEF SpawnFresh
<1>7. QueuedOnce /\ NoneLost
  BY <1>2 DEF QueuedOnce, NoneLost
<1>8. OfferedOnce /\ RunOnce /\ RanAccepted
  BY <1>2 DEF OfferedOnce, RunOnce, RanAccepted
<1> QED
  BY <1>4, <1>5, <1>6, <1>7, <1>8 DEF TaskInv

\* The steps that move no task.
LEMMA QuietSteps ==
  ASSUME ThreadInv,
         \/ \E t \in Worker \cup Client : LockQueue(t) \/ NotifyOne(t)
         \/ \E w \in Worker : LockWorker(w) \/ Sleep(w) \/ Leave(w) \/ WakeSpuriously(w)
         \/ OwnerStep
         \/ UNCHANGED vars
  PROVE  Quiet
<1> USE ThreadsApart
<1>1. ASSUME NEW t \in Worker \cup Client, LockQueue(t) PROVE Quiet
  BY <1>1 DEF LockQueue, Goto, At, ThreadInv, TypeOK, Quiet, Offered, Running
<1>2. ASSUME NEW t \in Worker \cup Client, NotifyOne(t) PROVE Quiet
  <2>1. t \in Thread /\ pc[t] = "notify" /\ UNCHANGED <<tasks, accepted, ran, script, handle, job>>
    BY <1>2 DEF NotifyOne, At
  <2> DEFINE Same(u) == /\ pc'[u] \in {"enqueue", "push"} <=> pc[u] \in {"enqueue", "push"}
                        /\ pc'[u] \in {"run", "running"} <=> pc[u] \in {"run", "running"}
  <2>2. \A u \in Thread : Same(u)
    <3>1. CASE pc' = [pc EXCEPT ![t] = "return"]
      BY <2>1, <3>1 DEF ThreadInv, TypeOK
    <3>2. ASSUME NEW w \in waiting, pc' = [pc EXCEPT ![t] = "return", ![w] = "lock"]
          PROVE  \A u \in Thread : Same(u)
      <4>1. w \in Thread /\ pc[w] = "asleep"
        BY DEF ThreadInv, TypeOK
      <4>2. \A u \in Thread : pc'[u] = IF u = w THEN "lock" ELSE IF u = t THEN "return" ELSE pc[u]
        BY <3>2, <4>1, <2>1 DEF ThreadInv, TypeOK
      <4> QED
        BY <2>1, <4>1, <4>2
    <3> QED
      BY <1>2, <3>1, <3>2 DEF NotifyOne
  <2> QED
    BY <2>1, <2>2 DEF Quiet, Offered, Running
<1>3. ASSUME NEW w \in Worker, LockWorker(w) PROVE Quiet
  BY <1>3 DEF LockWorker, Goto, At, ThreadInv, TypeOK, Quiet, Offered, Running
<1>4. ASSUME NEW w \in Worker, Sleep(w) PROVE Quiet
  BY <1>4 DEF Sleep, Goto, At, ThreadInv, TypeOK, Quiet, Offered, Running
<1>5. ASSUME NEW w \in Worker, Leave(w) PROVE Quiet
  BY <1>5 DEF Leave, Goto, At, ThreadInv, TypeOK, Quiet, Offered, Running
<1>6. ASSUME NEW w \in Worker, WakeSpuriously(w) PROVE Quiet
  BY <1>6 DEF WakeSpuriously, Goto, At, ThreadInv, TypeOK, Quiet, Offered, Running
<1>7. CASE LockOwner
  BY <1>7 DEF LockOwner, Goto, At, ThreadInv, TypeOK, Quiet, Offered, Running
<1>8. CASE SetStop
  BY <1>8 DEF SetStop, Goto, At, ThreadInv, TypeOK, Quiet, Offered, Running
<1>9. CASE NotifyAll
  BY <1>9 DEF NotifyAll, At, ThreadInv, TypeOK, Quiet, Offered, Running
<1>10. CASE Join
  BY <1>10 DEF Join, Goto, At, ThreadInv, TypeOK, Quiet, Offered, Running
<1>11. CASE UNCHANGED vars
  BY <1>11 DEF vars, Quiet, Offered, Running
<1> QED
  BY <1>1, <1>2, <1>3, <1>4, <1>5, <1>6, <1>7, <1>8, <1>9, <1>10, <1>11 DEF OwnerStep

LEMMA StepTaskInv == ASSUME ThreadInv, TaskInv, [Next]_vars PROVE TaskInv'
<1>1. ASSUME NEW t \in Worker \cup Client, Caller(t) PROVE TaskInv'
  BY <1>1, QuietSteps, QuietTaskInv, ThrowTaskInv, EmplaceTaskInv, ReturnTaskInv
  DEF Caller, Push
<1>2. ASSUME NEW c \in Client, Call(c) PROVE TaskInv'
  BY <1>2, CallTaskInv
<1>3. ASSUME NEW w \in Worker, LockWorker(w) \/ Sleep(w) \/ Leave(w) \/ WakeSpuriously(w)
      PROVE  TaskInv'
  BY <1>3, QuietSteps, QuietTaskInv
<1>4. ASSUME NEW w \in Worker, Take(w) \/ Run(w) \/ Finish(w) PROVE TaskInv'
  BY <1>4, TakeTaskInv, RunTaskInv, FinishTaskInv
<1>5. CASE OwnerStep \/ UNCHANGED vars
  BY <1>5, QuietSteps, QuietTaskInv
<1> QED
  BY <1>1, <1>2, <1>3, <1>4, <1>5 DEF Next, Exit, ClientStep, WorkerStep

LEMMA StepLeftDrained ==
  ASSUME ThreadInv, ThreadInv', LeftDrained, [Next]_vars
  PROVE  LeftDrained'
<1> USE ThreadsApart
<1> DEFINE Same(u) == pc[u] \in {"exited", "destroyed"} <=> pc'[u] \in {"exited", "destroyed"}
           Still == (\A u \in Thread : Same(u)) /\ stop' = stop
<1>1. ASSUME Still, tasks' = tasks PROVE LeftDrained'
  BY <1>1 DEF LeftDrained, ThreadInv, Roles, WorkerLabel, OwnerLabel
<1>2. ASSUME NEW t \in Worker \cup Client, LockQueue(t) \/ Throw(t) \/ Return(t)
      PROVE  LeftDrained'
  <2>1. Still /\ tasks' = tasks
    <3>1. CASE LockQueue(t) BY <3>1 DEF LockQueue, Goto, At, ThreadInv, TypeOK
    <3>2. CASE Throw(t)     BY <3>2 DEF Throw, Goto, At, ThreadInv, TypeOK
    <3>3. CASE Return(t)    BY <3>3 DEF Return, Goto, At, ThreadInv, TypeOK
    <3> QED
      BY <1>2, <3>1, <3>2, <3>3
  <2> QED
    BY <1>1, <2>1
<1>3. ASSUME NEW t \in Worker \cup Client, ~stop, Emplace(t, "notify") PROVE LeftDrained'
  <2>1. Still
    BY <1>3 DEF Emplace, Goto, At, ThreadInv, TypeOK
  <2>2. \A w \in Worker : pc'[w] # "exited"
    BY <1>3, <2>1 DEF LeftDrained, ThreadInv, Roles, WorkerLabel
  <2>3. pc'[Owner] # "destroyed"
    BY <1>3, <2>1 DEF ThreadInv, StopSet, Roles, OwnerLabel
  <2> QED
    BY <2>2, <2>3 DEF LeftDrained
<1>4. ASSUME NEW t \in Worker \cup Client, NotifyOne(t) PROVE LeftDrained'
  <2>1. t \in Thread /\ pc[t] = "notify" /\ UNCHANGED <<stop, tasks>>
    BY <1>4 DEF NotifyOne, At
  <2>2. CASE pc' = [pc EXCEPT ![t] = "return"]
    BY <1>1, <2>1, <2>2 DEF ThreadInv, TypeOK
  <2>3. ASSUME NEW w \in waiting, pc' = [pc EXCEPT ![t] = "return", ![w] = "lock"]
        PROVE  LeftDrained'
    <3>1. w \in Thread /\ pc[w] = "asleep"
      BY DEF ThreadInv, TypeOK
    <3>2. \A u \in Thread : pc'[u] = IF u = w THEN "lock" ELSE IF u = t THEN "return" ELSE pc[u]
      BY <2>1, <2>3, <3>1 DEF ThreadInv, TypeOK
    <3> QED
      BY <1>1, <2>1, <3>1, <3>2
  <2> QED
    BY <1>4, <2>2, <2>3 DEF NotifyOne
<1>5. ASSUME NEW c \in Client, Call(c) PROVE LeftDrained'
  BY <1>1, <1>5 DEF Call, Goto, At, ThreadInv, TypeOK
<1>6. ASSUME NEW w \in Worker, LockWorker(w) PROVE LeftDrained'
  BY <1>1, <1>6 DEF LockWorker, Goto, At, ThreadInv, TypeOK
<1>7. ASSUME NEW w \in Worker, Sleep(w) PROVE LeftDrained'
  BY <1>1, <1>7 DEF Sleep, Goto, At, ThreadInv, TypeOK
<1>8. ASSUME NEW w \in Worker, Leave(w) PROVE LeftDrained'
  BY <1>8 DEF Leave, Goto, At, ThreadInv, TypeOK, LeftDrained
<1>9. ASSUME NEW w \in Worker, Take(w) PROVE LeftDrained'
  <2>1. tasks # <<>> /\ Still
    BY <1>9 DEF Take, Goto, At, ThreadInv, TypeOK
  <2>2. (\A v \in Worker : pc'[v] # "exited") /\ \E v \in Worker : pc[v] # "exited"
    BY <2>1, PoolAssumption DEF LeftDrained, ThreadInv, Roles, WorkerLabel
  <2>3. pc'[Owner] # "destroyed"
    BY <2>1, <2>2 DEF LeftDrained, ThreadInv, Roles, OwnerLabel
  <2> QED
    BY <2>2, <2>3 DEF LeftDrained
<1>10. ASSUME NEW w \in Worker, Run(w) PROVE LeftDrained'
  <2>1. /\ w \in Thread /\ pc[w] = "run" /\ UNCHANGED <<stop, tasks>>
        /\ pc' = [pc EXCEPT ![w] = "running"] \/ pc' = [pc EXCEPT ![w] = "lock"]
    BY <1>10 DEF Run, At
  <2>2. Still
    BY <2>1 DEF ThreadInv, TypeOK
  <2> QED
    BY <1>1, <2>1, <2>2
<1>11. ASSUME NEW w \in Worker, Finish(w) PROVE LeftDrained'
  <2>1. tasks' = tasks /\ Still
    BY <1>11 DEF Finish, Goto, At, ThreadInv, TypeOK
  <2> QED
    BY <1>1, <2>1
<1>12. ASSUME NEW w \in Worker, WakeSpuriously(w) PROVE LeftDrained'
  BY <1>1, <1>12 DEF WakeSpuriously, Goto, At, ThreadInv, TypeOK
<1>13. CASE LockOwner
  BY <1>1, <1>13 DEF LockOwner, Goto, At, ThreadInv, TypeOK
<1>14. CASE SetStop
  BY <1>14 DEF SetStop, Goto, At, ThreadInv, TypeOK, LeftDrained
<1>15. CASE NotifyAll
  BY <1>1, <1>15 DEF NotifyAll, At, ThreadInv, TypeOK
<1>16. CASE Join
  BY <1>16 DEF Join, Goto, At, ThreadInv, TypeOK, LeftDrained
<1>17. CASE UNCHANGED vars
  BY <1>1, <1>17 DEF vars
<1> QED
  BY <1>2, <1>3, <1>4, <1>5, <1>6, <1>7, <1>8, <1>9, <1>10, <1>11, <1>12, <1>13, <1>14,
     <1>15, <1>16, <1>17
  DEF Next, Exit, ClientStep, WorkerStep, OwnerStep, Caller, Push

PoolInv == ThreadInv /\ TaskInv /\ LeftDrained

LEMMA Invariance == Spec => []PoolInv
<1>1. Init => PoolInv
  BY InitThreadInv, InitTaskInv, ThreadsApart DEF Init, PoolInv, LeftDrained
<1>2. PoolInv /\ [Next]_vars => PoolInv'
  BY StepThreadInv, StepTaskInv, StepLeftDrained DEF PoolInv
<1> QED
  BY <1>1, <1>2, PTL DEF Spec

\* When the destructor has joined the workers, each accepted task has been run exactly
\* once, whoever enqueued it and whenever, and no other task has been run: none is left in
\* the queue by the workers that leave, none is taken twice, none is run before it counts.
THEOREM AcceptedRunOnce == Spec => []EveryTaskRunsOnce
<1>1. PoolInv => EveryTaskRunsOnce
  <2> SUFFICES ASSUME PoolInv, pc[Owner] = "destroyed"
               PROVE  /\ tasks = <<>>
                      /\ \A k \in Task : /\ k \in accepted /\ handle[k] = "none" => ran[k] = 1
                                         /\ k \notin accepted => ran[k] = 0
                      /\ \A w \in Worker : pc[w] = "exited"
    BY DEF EveryTaskRunsOnce
  <2>1. \A w \in Worker : pc[w] = "exited"
    BY DEF PoolInv, LeftDrained
  <2>2. tasks = <<>>
    BY <2>1, PoolAssumption DEF PoolInv, LeftDrained
  <2>3. \A w \in Worker : Running[w] = Nobody
    BY <2>1 DEF Running
  <2>4. \A k \in accepted : handle[k] = "none" => ran[k] = 1
    BY <2>2, <2>3, TaskTypes DEF PoolInv, TaskInv, NoneLost
  <2> QED
    BY <2>1, <2>2, <2>4 DEF PoolInv, TaskInv, RanAccepted
<1> QED
  BY <1>1, Invariance, PTL

-----------------------------------------------------------------------------
(* The pool implements TaskPool *)

Queued == {tasks[i] : i \in DOMAIN tasks}

LEMMA EmplaceAccepts ==
  ASSUME PoolInv, NEW t \in Worker \cup Client, ~stop, Emplace(t, "notify")
  PROVE  Pool!Accept(job[t])
<1> DEFINE k == job[t]
<1>1. t \in Thread /\ pc[t] = "push" /\ k \in Task /\ stop' = stop
  BY ThreadsApart DEF Emplace, Goto, At, PoolInv, ThreadInv, JobsHeld
<1>2. Offered[t] = k
  BY <1>1 DEF Offered
<1>3. k \notin accepted
  BY <1>1, <1>2, TaskTypes DEF PoolInv, TaskInv, OfferedOnce
<1>4. k \notin Queued
  BY <1>3 DEF PoolInv, TaskInv, QueuedOnce, Queued
<1>5. Queued' = Queued \cup {k}
  <2>1. /\ DOMAIN tasks' = 1 .. Len(tasks) + 1 /\ tasks'[Len(tasks) + 1] = k
        /\ \A i \in DOMAIN tasks : tasks'[i] = tasks[i]
        /\ DOMAIN tasks = 1 .. Len(tasks) /\ Len(tasks) \in Nat
    BY <1>1, TaskTypes DEF Emplace, PoolInv
  <2>2. /\ \A i \in DOMAIN tasks' : i \in DOMAIN tasks \/ i = Len(tasks) + 1
        /\ \A i \in DOMAIN tasks : i \in DOMAIN tasks'
        /\ Len(tasks) + 1 \in DOMAIN tasks'
    BY <2>1
  <2> QED
    BY <2>1, <2>2 DEF Queued
<1> QED
  BY <1>1, <1>3, <1>4, <1>5 DEF Emplace, Pool!Accept, Queued

LEMMA TakeStarts ==
  ASSUME PoolInv, NEW w \in Worker, Take(w)
  PROVE  Pool!Start
<1> DEFINE k == tasks[1]
<1>1. /\ tasks # <<>> /\ tasks' = Tail(tasks) /\ Head(tasks) = k
      /\ 1 \in DOMAIN tasks /\ UNCHANGED <<accepted, stop>>
  <2>1. tasks # <<>> /\ tasks \in Seq(Task)
    BY TaskTypes DEF Take, PoolInv
  <2> QED
    BY <2>1 DEF Take
<1>2. /\ \A i \in DOMAIN tasks' : i + 1 \in DOMAIN tasks /\ i + 1 # 1 /\ tasks'[i] = tasks[i + 1]
      /\ \A i \in DOMAIN tasks : i # 1 => i - 1 \in DOMAIN tasks' /\ tasks'[i - 1] = tasks[i]
  BY <1>1, TaskTypes DEF PoolInv
<1>3. Queued' = Queued \ {k} /\ k \in Queued
  <2>1. \A i \in DOMAIN tasks : tasks[i] = k => i = 1
    BY <1>1 DEF PoolInv, TaskInv, QueuedOnce
  <2>2. k \in Queued
    BY <1>1 DEF Queued
  <2>3. ASSUME NEW m \in Queued' PROVE m \in Queued /\ m # k
    <3>1. PICK i \in DOMAIN tasks' : m = tasks'[i]
      BY DEF Queued
    <3> QED
      BY <1>2, <2>1, <3>1 DEF Queued
  <2>4. ASSUME NEW m \in Queued, m # k PROVE m \in Queued'
    <3>1. PICK i \in DOMAIN tasks : m = tasks[i]
      BY DEF Queued
    <3>2. i - 1 \in DOMAIN tasks' /\ tasks'[i - 1] = m
      BY <1>2, <2>4, <3>1
    <3> QED
      BY <3>2 DEF Queued
  <2> QED
    BY <2>2, <2>3, <2>4
<1>4. k \in accepted
  BY <1>1 DEF PoolInv, TaskInv, QueuedOnce
<1> QED
  BY <1>1, <1>3, <1>4 DEF Pool!Start, Queued

\* The pool refuses a task once it is stopped and starts the accepted tasks in order, each
\* once: every step of the workers, of the callers and of the destructor is one of
\* TaskPool's or changes nothing it tells.
THEOREM PoolImplemented == Spec => ImplementsTaskPool
<1>1. Init => Pool!Init
  BY DEF Init, Pool!Init
<1>2. PoolInv /\ [Next]_vars => [Pool!Next]_(Pool!poolVars)
  <2> SUFFICES ASSUME PoolInv, [Next]_vars
               PROVE  Pool!Next \/ UNCHANGED <<tasks, accepted, stop>>
    BY DEF Pool!poolVars
  <2>1. ASSUME NEW t \in Worker \cup Client, Push(t)
        PROVE  Pool!Next \/ UNCHANGED <<tasks, accepted, stop>>
    <3>1. ASSUME ~stop, Emplace(t, "notify") PROVE Pool!Next
      <4>1. job[t] \in Task
        BY <3>1, ThreadsApart DEF Emplace, Goto, At, PoolInv, ThreadInv, JobsHeld
      <4> QED
        BY <3>1, <4>1, EmplaceAccepts DEF Pool!Next
    <3> QED
      BY <2>1, <3>1 DEF Push, Throw
  <2>2. ASSUME NEW w \in Worker, Take(w) PROVE Pool!Next
    BY <2>2, TakeStarts DEF Pool!Next
  <2>3. ASSUME SetStop PROVE Pool!Next
    BY <2>3 DEF SetStop, Pool!Next, Pool!Close
  <2>4. ASSUME NEW t \in Worker \cup Client, LockQueue(t) \/ NotifyOne(t) \/ Return(t)
        PROVE  UNCHANGED <<tasks, accepted, stop>>
    BY <2>4 DEF LockQueue, NotifyOne, Return
  <2>5. ASSUME NEW c \in Client, Call(c) PROVE UNCHANGED <<tasks, accepted, stop>>
    BY <2>5 DEF Call
  <2>6. ASSUME NEW w \in Worker,
               LockWorker(w) \/ Sleep(w) \/ Leave(w) \/ Run(w) \/ Finish(w) \/ WakeSpuriously(w)
        PROVE  UNCHANGED <<tasks, accepted, stop>>
    BY <2>6 DEF LockWorker, Sleep, Leave, Run, Finish, WakeSpuriously
  <2>7. ASSUME LockOwner \/ NotifyAll \/ Join PROVE UNCHANGED <<tasks, accepted, stop>>
    BY <2>7 DEF LockOwner, NotifyAll, Join
  <2>8. CASE UNCHANGED vars
    BY <2>8 DEF vars
  <2> QED
    BY <2>1, <2>2, <2>3, <2>4, <2>5, <2>6, <2>7, <2>8
    DEF Next, Exit, ClientStep, WorkerStep, OwnerStep, Caller
<1> QED
  BY <1>1, <1>2, Invariance, PTL DEF Spec, ImplementsTaskPool, Pool!Spec

=============================================================================
