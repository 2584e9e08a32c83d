-------------------------------- MODULE Timer --------------------------------
(***************************************************************************)
(* utils/Timer.cpp: callers put tasks in a queue ordered by time, under    *)
(* mutex_; the detached worker of Run sleeps until the first one is due,   *)
(* takes it and runs it. A repeated task puts itself in the queue again    *)
(* from the worker, as long as its id is in repeated_id_state_map_, which  *)
(* no lock protects. Stop clears running_, without the lock.               *)
(*                                                                         *)
(* Callers follow a script. Times are relative: every time and duration is *)
(* what is left of it, and Tick lets all of them grow shorter, so that the *)
(* clock has no end. An id stands for the repeated task it names: ids come *)
(* from an atomic increment. The sections under mutex_ that nothing can    *)
(* interrupt are one action; the worker alone keeps mutex_ over several.   *)
(***************************************************************************)
EXTENDS Integers, Sequences

CONSTANTS Client, Worker,
          Task,        \* the tasks, the repeated ones by their id
          Capturing,   \* the repeated tasks whose callable has state of its own
          Script,      \* the scripts that clients may follow
          Milli,       \* the ticks of the clock in a millisecond
          MaxLate,     \* bound: lateness is not told apart beyond this
          MaxStarts    \* bound: starts are not counted beyond this

Thread == Client \cup {Worker}

\* A call of a public member; `time` is a time point, a delay or a period.
CallOf == [op : {"timePoint", "duration", "repeated", "cancel", "stop"},
           task : Task, time : Int, repeat_num : Int]

ASSUME TimerAssumption ==
  /\ Capturing \subseteq Task
  /\ Script \subseteq [Client -> Seq(CallOf)]
  /\ Milli \in Nat \ {0} /\ MaxLate \in Nat /\ MaxStarts \in Nat \ {0}
  /\ Worker \notin Client /\ "none" \notin Task

\* The calls that give the timer a task
Adding == {"timePoint", "duration", "repeated"}

\* A task stands for one call that adds it, and a client cancels what it has added: the
\* id comes from its AddRepeatedTask.
ASSUME ScriptAssumption ==
  \A s \in Script : \A c \in Client : \A i \in DOMAIN s[c] :
    /\ s[c][i].op \in Adding =>
         \A d \in Client : \A n \in DOMAIN s[d] :
           s[d][n].op \in Adding /\ s[d][n].task = s[c][i].task => d = c /\ n = i
    /\ s[c][i].op = "cancel" =>
         \E n \in DOMAIN s[c] : n < i /\ s[c][n].op = "repeated" /\ s[c][n].task = s[c][i].task

VARIABLES running_,   \* plain bool, written by Stop, read by the worker
          queue_,     \* the tasks in the priority queue
          states,     \* repeated_id_state_map_: the ids in it
          writers,    \* the clients that are in the middle of a change of the map
          torn,       \* two changes of the map have overlapped
          pc,         \* pc[t] is the label t is at
          local,      \* local[t] is the TimerTask t adds or runs
          duration,   \* the worker's `duration`, then what is left of its sleep
          script,     \* script[c] is what client c has still to call
          starts,     \* history: starts[k] is how often task k has been started
          stopped,    \* history: the starts since Stop returned, or NotYet
          cancelled,  \* history: cancelled[k] is the starts since k's cancellation
          asked,      \* history: asked[k] is the repeat_num k was added with, or 0
          crashed     \* the process has died of undefined behaviour

vars == <<running_, queue_, states, writers, torn, pc, local, duration, script,
          starts, stopped, cancelled, asked, crashed>>

A == INSTANCE AlarmClock WITH pending <- queue_

NotYet == -1

Label == {"idle", "emplace", "emplacing", "check", "stamp", "push", "notify",
          "erase", "erasing", "stop", "stopNotify",
          "test", "look", "due", "asleep", "napping", "start", "again", "exited"}

\* A TimerTask: a repeated one has the members its lambda captures.
TimerTask == [name : Task, time : Int, repeated : BOOLEAN, repeat_num : Int, period : Int]

NoTask == [name |-> "none", time |-> 0, repeated |-> FALSE, repeat_num |-> 0, period |-> 0]

Init ==
  /\ running_ = TRUE
  /\ queue_ = {} /\ states = {} /\ writers = {} /\ torn = FALSE
  /\ pc = [t \in Thread |-> IF t = Worker THEN "test" ELSE "idle"]
  /\ local = [t \in Thread |-> NoTask]
  /\ duration = 0
  /\ script \in Script
  /\ starts = [k \in Task |-> 0]
  /\ stopped = NotYet
  /\ cancelled = [k \in Task |-> NotYet]
  /\ asked = [k \in Task |-> 0]
  /\ crashed = FALSE

histories == <<starts, stopped, cancelled>>
map == <<states, writers, torn>>

Goto(t, from, to) ==
  /\ ~crashed
  /\ pc[t] = from
  /\ pc' = [pc EXCEPT ![t] = to]

\* The locals of a function are gone when it returns.
Returned(t) == [local EXCEPT ![t] = NoTask]

\* Where AddRepeatedTaskLocal and AddTask... return to
Caller(t) == IF t = Worker THEN "test" ELSE "idle"

\* The worker holds mutex_ from its look at the queue to its sleep or its pop.
Locked == pc[Worker] = "due"

-----------------------------------------------------------------------------
(* The public members, called by clients *)

\* The next call of c is of member op; its task is prepared as t.
Call(c, op, label, t) ==
  /\ Goto(c, "idle", label)
  /\ script[c] # <<>> /\ Head(script[c]).op = op
  /\ script' = [script EXCEPT ![c] = Tail(@)]
  /\ local' = [local EXCEPT ![c] = t]
  /\ asked' = IF t.repeated THEN [asked EXCEPT ![t.name] = Head(script[c]).repeat_num] ELSE asked
  /\ UNCHANGED <<running_, queue_, map, duration, histories, crashed>>

Once(call, time) ==
  [name |-> call.task, time |-> time, repeated |-> FALSE, repeat_num |-> 0,
   period |-> call.time]

AddTaskWithTimePoint(c) ==
  LET call == Head(script[c]) IN Call(c, "timePoint", "push", Once(call, call.time))

AddTaskAfterDuration(c) ==
  LET call == Head(script[c]) IN Call(c, "duration", "stamp", Once(call, 0))

AddRepeatedTask(c) ==
  LET call == Head(script[c])
  IN  Call(c, "repeated", "emplace",
           [name |-> call.task, time |-> 0, repeated |-> TRUE,
            repeat_num |-> call.repeat_num - 1, period |-> call.time])

CancelRepeatedTask(c) ==
  LET call == Head(script[c]) IN Call(c, "cancel", "erase", Once(call, 0))

\* running_ = false
Stop(c) ==
  /\ Goto(c, "idle", "stopNotify")
  /\ script[c] # <<>> /\ Head(script[c]).op = "stop"
  /\ script' = [script EXCEPT ![c] = Tail(@)]
  /\ running_' = FALSE
  /\ UNCHANGED <<queue_, map, local, duration, histories, asked, crashed>>

-----------------------------------------------------------------------------
(* repeated_id_state_map_ *)

\* A read or a write of the map while somebody else writes it is undefined: the tree
\* may be caught in the middle of being linked.
Races(t) == torn \/ writers \ {t} # {}

\* What find(id) may answer
Found(t, id) == IF Races(t) THEN {FALSE, (id \in states)} ELSE {(id \in states)}

MayCrash(t) == IF Races(t) THEN BOOLEAN ELSE {FALSE}

BeginWrite(c, from, to) ==
  /\ Goto(c, from, to)
  /\ writers' = writers \cup {c}
  /\ torn' = Races(c)
  /\ crashed' \in MayCrash(c)
  /\ UNCHANGED <<running_, queue_, states, local, duration, script, histories, asked>>

EndWrite(c, from, to) ==
  /\ Goto(c, from, to)
  /\ writers' = writers \ {c}
  /\ torn' = Races(c)
  /\ crashed' \in MayCrash(c)
  /\ UNCHANGED <<running_, queue_, duration, script, starts, stopped, asked>>

BeginEmplace(c) == BeginWrite(c, "emplace", "emplacing")

EndEmplace(c) ==
  /\ EndWrite(c, "emplacing", "check")
  /\ states' = states \cup {local[c].name}
  /\ UNCHANGED <<local, cancelled>>

BeginErase(c) == BeginWrite(c, "erase", "erasing")

EndErase(c) ==
  /\ EndWrite(c, "erasing", "idle")
  /\ states' = states \ {local[c].name}
  /\ cancelled' = [cancelled EXCEPT ![local[c].name] = 0]
  /\ local' = Returned(c)

-----------------------------------------------------------------------------
(* Adding to the queue: the end of AddTask... and AddRepeatedTaskLocal *)

\* if (find(id) == end()) return
Check(t) ==
  \E found \in Found(t, local[t].name) :
    /\ Goto(t, "check", IF found THEN "stamp" ELSE Caller(t))
    /\ local' = IF found THEN local ELSE Returned(t)
    /\ crashed' \in MayCrash(t)
    /\ UNCHANGED <<running_, queue_, map, duration, script, histories, asked>>

\* time_point = now() + time
Stamp(t) ==
  /\ Goto(t, "stamp", "push")
  /\ local' = [local EXCEPT ![t].time = local[t].period]
  /\ UNCHANGED <<running_, queue_, map, duration, script, histories, asked, crashed>>

\* queue_.push(t) under mutex_
Push(t) ==
  /\ ~Locked
  /\ Goto(t, "push", "notify")
  /\ queue_' = queue_ \cup {local[t]}
  /\ UNCHANGED <<running_, map, local, duration, script, histories, asked, crashed>>

\* cond_.notify_all(): a worker in wait tests the predicate again, one in wait_for
\* goes on with its loop.
Awake(label) == CASE label = "asleep"  -> "look"
                  [] label = "napping" -> "test"
                  [] OTHER             -> label

Notify(t, from, to) ==
  /\ ~crashed /\ pc[t] = from
  /\ pc' = [[pc EXCEPT ![t] = to] EXCEPT ![Worker] = Awake(@)]
  /\ local' = Returned(t)
  /\ UNCHANGED <<running_, queue_, map, duration, script, starts, cancelled, asked, crashed>>

\* Seeded bug: only a worker that waits for a first task is told.
NotifyIdle(t) ==
  /\ Goto(t, "notify", Caller(t))
  /\ pc[Worker] # "asleep"
  /\ local' = Returned(t)
  /\ UNCHANGED <<running_, queue_, map, duration, script, histories, asked, crashed>>

NotifyFirst(t) ==
  \/ /\ pc[Worker] = "asleep"
     /\ Notify(t, "notify", Caller(t))
     /\ stopped' = stopped
  \/ NotifyIdle(t)

NotifyAll(t) == Notify(t, "notify", Caller(t)) /\ stopped' = stopped

NotifyStop(c) == Notify(c, "stopNotify", "idle") /\ stopped' = 0

-----------------------------------------------------------------------------
(* The worker *)

\* Seeded bug: while (true)
TestForEver ==
  /\ Goto(Worker, "test", "look")
  /\ local' = Returned(Worker) /\ duration' = 0
  /\ UNCHANGED <<running_, queue_, map, script, histories, asked, crashed>>

\* while (running_)
Test ==
  /\ Goto(Worker, "test", IF running_ THEN "look" ELSE "exited")
  /\ local' = Returned(Worker) /\ duration' = 0
  /\ UNCHANGED <<running_, queue_, map, script, histories, asked, crashed>>

\* The lock is taken; cond_.wait(lock, !queue_.empty()) sleeps.
Wait ==
  /\ queue_ = {}
  /\ Goto(Worker, "look", "asleep")
  /\ UNCHANGED <<running_, queue_, map, local, duration, script, histories, asked, crashed>>

\* Seeded bug: operator< compares the wrong way, so that top() is the last task due.
Latest == {t \in queue_ : \A u \in queue_ : u.time <= t.time}

Top == {t \in queue_ : \A u \in queue_ : t.time <= u.time}

\* s = queue_.top(); duration = s.time_point - now()
Look ==
  \E s \in Top :
    /\ Goto(Worker, "look", "due")
    /\ local' = [local EXCEPT ![Worker] = s]
    /\ duration' = s.time
    /\ UNCHANGED <<running_, queue_, map, script, histories, asked, crashed>>

\* milliseconds.count() > 0, where the cast has cut off what is less than one
Whole == duration >= Milli

\* Seeded bug: cond_.wait(lock) for a task that is not due yet.
WaitForEver ==
  /\ Whole
  /\ Goto(Worker, "due", "asleep")
  /\ UNCHANGED <<running_, queue_, map, local, duration, script, histories, asked, crashed>>

\* cond_.wait_for(lock, duration)
WaitFor ==
  /\ Whole
  /\ Goto(Worker, "due", "napping")
  /\ UNCHANGED <<running_, queue_, map, local, duration, script, histories, asked, crashed>>

\* The sleep ends when its time is over, or at any moment for no reason.
TimeOut ==
  /\ duration = 0
  /\ Goto(Worker, "napping", "test")
  /\ UNCHANGED <<running_, queue_, map, local, duration, script, histories, asked, crashed>>

WakeSpuriously ==
  /\ \/ Goto(Worker, "napping", "test")
     \/ Goto(Worker, "asleep", "look")
  /\ UNCHANGED <<running_, queue_, map, local, duration, script, histories, asked, crashed>>

\* Seeded bug: top() without pop().
PopForgotten ==
  /\ ~Whole
  /\ Goto(Worker, "due", "start")
  /\ duration' = 0
  /\ UNCHANGED <<running_, queue_, map, local, script, histories, asked, crashed>>

\* queue_.pop()
Pop ==
  /\ ~Whole
  /\ Goto(Worker, "due", "start")
  /\ queue_' = queue_ \ {local[Worker]}
  /\ duration' = 0
  /\ UNCHANGED <<running_, map, local, script, histories, asked, crashed>>

OneMore(n) == IF n < MaxStarts THEN n + 1 ELSE n

Since(n) == IF n = NotYet THEN NotYet ELSE OneMore(n)

\* s.task(), or the temp_task() it calls through a reference to a local that is gone:
\* harmless for a callable that has no state, else it may crash.
Start ==
  LET s == local[Worker]
  IN  /\ Goto(Worker, "start", IF s.repeated THEN "again" ELSE "test")
      /\ starts' = [starts EXCEPT ![s.name] = OneMore(@)]
      /\ stopped' = Since(stopped)
      /\ cancelled' = [cancelled EXCEPT ![s.name] = Since(@)]
      /\ crashed' \in IF s.name \in Capturing THEN BOOLEAN ELSE {FALSE}
      /\ UNCHANGED <<running_, queue_, map, local, duration, script, asked>>

\* repeat_num - 1; below zero one is as good as another (int is wide enough)
OneLess(n) == IF n < 0 THEN n ELSE n - 1

\* if (find(id) == end() || repeat_num == 0) return; AddRepeatedTaskLocal(...)
Again ==
  \E found \in Found(Worker, local[Worker].name) :
    LET repeats == found /\ local[Worker].repeat_num # 0
    IN  /\ Goto(Worker, "again", IF repeats THEN "check" ELSE "test")
        /\ local' = [local EXCEPT ![Worker].repeat_num = IF repeats THEN OneLess(@) ELSE @]
        /\ crashed' \in MayCrash(Worker)
        /\ UNCHANGED <<running_, queue_, map, duration, script, histories, asked>>

-----------------------------------------------------------------------------
(* The clock *)

\* Every time that is left gets shorter; `duration` is read once and is counted down
\* only when the worker sleeps.
Tick ==
  /\ ~crashed
  /\ queue_' = {A!Older(t) : t \in queue_}
  /\ local' = [t \in Thread |-> IF local[t].name \in Task THEN A!Older(local[t]) ELSE local[t]]
  /\ duration' = IF pc[Worker] = "napping" /\ duration > 0 THEN duration - 1 ELSE duration
  /\ UNCHANGED <<running_, map, pc, script, histories, asked, crashed>>

-----------------------------------------------------------------------------

Add(t) == Check(t) \/ Stamp(t) \/ Push(t) \/ NotifyAll(t)

ClientStep(c) ==
  \/ AddTaskWithTimePoint(c) \/ AddTaskAfterDuration(c) \/ AddRepeatedTask(c)
  \/ CancelRepeatedTask(c) \/ Stop(c)
  \/ BeginEmplace(c) \/ EndEmplace(c) \/ BeginErase(c) \/ EndErase(c)
  \/ Add(c) \/ NotifyStop(c)

WorkerStep ==
  Test \/ Wait \/ Look \/ WaitFor \/ TimeOut \/ Pop \/ Start \/ Again \/ Add(Worker)

Ended == crashed /\ UNCHANGED vars

Next ==
  \/ \E c \in Client : ClientStep(c)
  \/ WorkerStep
  \/ WakeSpuriously
  \/ Tick
  \/ Ended

\* Threads that can run do so, and time passes; no lock is wanted for ever, since the
\* worker sleeps between two tasks. Nothing wakes the worker before its time for sure.
Spec ==
  /\ Init /\ [][Next]_vars
  /\ \A c \in Client : WF_vars(ClientStep(c))
  /\ WF_vars(WorkerStep)
  /\ WF_vars(Tick)

-----------------------------------------------------------------------------
(* Properties *)

Notified == \E t \in Thread : pc[t] \in {"notify", "stopNotify"}

\* Every variable keeps its range; a task is at most once in the queue, a repeated one
\* included; and the worker that holds mutex_ has a task of the queue in its hands, so
\* that pop() removes the one that top() gave.
TypeOK ==
  /\ running_ \in BOOLEAN /\ torn \in BOOLEAN /\ crashed \in BOOLEAN
  /\ \A t \in queue_ : t \in TimerTask /\ \A u \in queue_ : t.name = u.name => t = u
  /\ states \subseteq Task
  /\ writers = {c \in Client : pc[c] \in {"emplacing", "erasing"}}
  /\ pc \in [Thread -> Label]
  /\ \A t \in Thread : local[t] \in TimerTask \/ local[t] = NoTask
  /\ Locked => local[Worker] \in queue_
  /\ duration \in Int
  /\ starts \in [Task -> 0 .. MaxStarts]
  /\ stopped \in NotYet .. MaxStarts
  /\ cancelled \in [Task -> NotYet .. MaxStarts]

\* The tasks that callers and repeated tasks put in the queue are run once each, less
\* than a millisecond early at most, and in the order of their times.
ImplementsAlarmClock == A!Init /\ [][A!Next]_queue_

\* The worker does not sleep on a task, nor longer than until the first task is due,
\* without a notification on its way: mutex_ covers the look at the queue and the
\* start of the sleep, and cond_ is notified after every push.
WakesInTime ==
  /\ pc[Worker] = "asleep" /\ queue_ # {} => Notified
  /\ pc[Worker] = "napping" /\ ~Notified =>
       \A t \in queue_ : local[Worker].time <= t.time

\* After Stop has returned at most one task is started, and after CancelRepeatedTask(id)
\* has returned the repeated task is started once more at most, wherever the worker was;
\* AddRepeatedTask(n, ...) with n > 0 starts it n times at most. (Changes of the map that
\* overlap may lose a cancellation.)
OnceMoreAtMost ==
  /\ stopped <= 1
  /\ ~torn => \A k \in Task : cancelled[k] <= 1
  /\ \A k \in Task : asked[k] > 0 => starts[k] <= asked[k]

Dead == crashed \/ ~running_

\* Every task in the queue is run in the end, unless the timer is stopped; and Stop ends
\* the worker, unless it sleeps on an empty queue.
Progress ==
  /\ \A k \in Task : (\E t \in queue_ : t.name = k) ~> (Dead \/ \A t \in queue_ : t.name # k)
  /\ ~running_ ~> \/ crashed
                  \/ pc[Worker] = "exited"
                  \/ pc[Worker] = "asleep" /\ queue_ = {}

=============================================================================
