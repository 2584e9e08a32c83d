---------------------------- MODULE TimerProofs ----------------------------
(***************************************************************************)
(* Timer.cpp for any clients, scripts, tasks and resolution of the clock:  *)
(* the worker wakes in time, a task is once in the queue, the timer is an  *)
(* AlarmClock, and Stop, CancelRepeatedTask and repeat_num bound what is   *)
(* still started.                                                          *)
(***************************************************************************)
EXTENDS Timer, SequenceTheorems, TLAPS

ClientLabel == {"idle", "emplace", "emplacing", "check", "stamp", "push", "notify",
                "erase", "erasing", "stopNotify"}
WorkerLabel == {"test", "look", "due", "asleep", "napping", "start", "again", "check",
                "stamp", "push", "notify", "exited"}

\* At these a thread carries a task that is not in the queue.
Carrying == {"emplace", "emplacing", "check", "stamp", "push", "start", "again"}

\* What TypeOK says of each variable by itself, and of those it leaves out.
Types ==
  /\ running_ \in BOOLEAN /\ torn \in BOOLEAN /\ crashed \in BOOLEAN
  /\ queue_ \subseteq TimerTask
  /\ states \subseteq Task
  /\ writers = {c \in Client : pc[c] \in {"emplacing", "erasing"}}
  /\ pc \in [Thread -> Label]
  /\ local \in [Thread -> TimerTask \cup {NoTask}]
  /\ duration \in Int
  /\ starts \in [Task -> 0 .. MaxStarts]
  /\ stopped \in NotYet .. MaxStarts
  /\ cancelled \in [Task -> NotYet .. MaxStarts]
  /\ script \in [Client -> Seq(CallOf)]
  /\ asked \in [Task -> Int]

Roles ==
  /\ \A c \in Client : pc[c] \in ClientLabel
  /\ pc[Worker] \in WorkerLabel

\* A thread has a task where it needs one.
LocalsHeld ==
  \A t \in Thread : pc[t] \in Carrying \cup {"erase", "erasing", "due", "napping"}
                      => local[t] \in TimerTask

ThreadInv == Types /\ Roles /\ LocalsHeld

\* What a client has prepared for a call.
Prepared(call, label, x) ==
  /\ x \in TimerTask /\ x.name = call.task
  /\ \/ call.op = "timePoint" /\ label = "push"    /\ ~x.repeated
     \/ call.op = "duration"  /\ label = "stamp"   /\ ~x.repeated
     \/ call.op = "cancel"    /\ label = "erase"   /\ ~x.repeated
     \/ /\ call.op = "repeated" /\ label = "emplace"
        /\ x.repeated /\ x.repeat_num = call.repeat_num - 1

Asks(c) ==
  \/ AddTaskWithTimePoint(c) \/ AddTaskAfterDuration(c)
  \/ AddRepeatedTask(c) \/ CancelRepeatedTask(c)

-----------------------------------------------------------------------------
(* Where the threads are *)

LEMMA Threads ==
  /\ Worker \in Thread /\ Client \subseteq Thread /\ Worker \notin Client
  /\ \A t \in Thread : t = Worker \/ t \in Client
  /\ NoTask \notin TimerTask
  BY TimerAssumption DEF Thread, NoTask, TimerTask

LEMMA OlderTask ==
  ASSUME NEW x \in TimerTask
  PROVE  /\ A!Older(x) \in TimerTask /\ A!Older(x).name = x.name
         /\ A!Older(x).repeated = x.repeated /\ A!Older(x).repeat_num = x.repeat_num
         /\ A!Older(x).time = A!Later(x.time) /\ x.time \in Int /\ x.name \in Task
  BY TimerAssumption DEF A!Older, A!Later, TimerTask

\* Growing older keeps the order of two times, and makes neither of them longer.
LEMMA LaterMonotone ==
  ASSUME NEW a \in Int, NEW b \in Int
  PROVE  A!Later(a) \in Int /\ A!Later(a) <= a /\ (a <= b => A!Later(a) <= A!Later(b))
  BY TimerAssumption DEF A!Later

LEMMA HeadCall ==
  ASSUME ThreadInv, NEW c \in Client, script[c] # <<>>
  PROVE  /\ Head(script[c]) \in CallOf /\ Head(script[c]) = script[c][1]
         /\ 1 \in DOMAIN script[c] /\ Tail(script[c]) \in Seq(CallOf)
  BY DEF ThreadInv, Types

LEMMA AskPrepares ==
  ASSUME ThreadInv, NEW c \in Client, Asks(c)
  PROVE  /\ script[c] # <<>>
         /\ \E op, label, x : Call(c, op, label, x) /\ Prepared(Head(script[c]), label, x)
<1> DEFINE call == Head(script[c])
<1>1. script[c] # <<>>
  BY DEF Asks, AddTaskWithTimePoint, AddTaskAfterDuration, AddRepeatedTask, CancelRepeatedTask, Call
<1>2. call.task \in Task /\ call.time \in Int /\ call.repeat_num \in Int
  BY <1>1, HeadCall DEF CallOf
<1> HIDE DEF call
<1>3. \A time \in Int : Once(call, time) \in TimerTask /\ Once(call, time).name = call.task
                        /\ ~Once(call, time).repeated
  BY <1>2 DEF Once, TimerTask
<1>4. CASE AddTaskWithTimePoint(c)
  <2>1. Call(c, "timePoint", "push", Once(call, call.time))
    BY <1>4 DEF AddTaskWithTimePoint, call
  <2>2. Prepared(call, "push", Once(call, call.time))
    BY <1>2, <1>3, <2>1 DEF Call, Prepared, call
  <2> QED
    BY <1>1, <2>1, <2>2 DEF call
<1>5. CASE AddTaskAfterDuration(c)
  <2>1. Call(c, "duration", "stamp", Once(call, 0))
    BY <1>5 DEF AddTaskAfterDuration, call
  <2>2. Prepared(call, "stamp", Once(call, 0))
    BY <1>2, <1>3, <2>1 DEF Call, Prepared, call
  <2> QED
    BY <1>1, <2>1, <2>2 DEF call
<1>6. CASE AddRepeatedTask(c)
  <2> DEFINE x == [name |-> call.task, time |-> 0, repeated |-> TRUE,
                   repeat_num |-> call.repeat_num - 1, period |-> call.time]
  <2>1. /\ x \in TimerTask /\ x.name = call.task /\ x.repeated
        /\ x.repeat_num = call.repeat_num - 1
    BY <1>2 DEF TimerTask
  <2>2. Call(c, "repeated", "emplace", x)
    BY <1>6 DEF AddRepeatedTask, call
  <2>3. call.op = "repeated"
    BY <2>2 DEF Call, call
  <2> QED
    BY <1>1, <2>1, <2>2, <2>3 DEF Prepared, call
<1>7. CASE CancelRepeatedTask(c)
  <2>1. Call(c, "cancel", "erase", Once(call, 0))
    BY <1>7 DEF CancelRepeatedTask, call
  <2>2. Prepared(call, "erase", Once(call, 0))
    BY <1>2, <1>3, <2>1 DEF Call, Prepared, call
  <2> QED
    BY <1>1, <2>1, <2>2 DEF call
<1> QED
  BY <1>1, <1>4, <1>5, <1>6, <1>7 DEF Asks

LEMMA InitThreadInv == ASSUME Init PROVE ThreadInv
<1>1. \A t \in Thread : pc[t] = IF t = Worker THEN "test" ELSE "idle"
  BY DEF Init
<1>2. Types
  <2>1. /\ pc \in [Thread -> Label] /\ local \in [Thread -> TimerTask \cup {NoTask}]
        /\ writers = {c \in Client : pc[c] \in {"emplacing", "erasing"}}
    BY <1>1, Threads DEF Init, Label
  <2>2. /\ starts \in [Task -> 0 .. MaxStarts] /\ stopped \in NotYet .. MaxStarts
        /\ cancelled \in [Task -> NotYet .. MaxStarts]
    BY TimerAssumption DEF Init, NotYet
  <2>3. script \in [Client -> Seq(CallOf)] /\ asked \in [Task -> Int]
    BY TimerAssumption DEF Init
  <2>4. running_ \in BOOLEAN /\ torn \in BOOLEAN /\ crashed \in BOOLEAN
    BY DEF Init
  <2>5. queue_ \subseteq TimerTask /\ states \subseteq Task
    BY DEF Init
  <2>6. duration \in Int
    BY DEF Init
  <2> QED
    BY <2>1, <2>2, <2>3, <2>4, <2>5, <2>6 DEF Types
<1>3. Roles /\ LocalsHeld
  BY <1>1, Threads DEF Roles, LocalsHeld, ClientLabel, WorkerLabel, Carrying
<1> QED
  BY <1>2, <1>3 DEF ThreadInv

LEMMA CallThreadInv ==
  ASSUME ThreadInv, NEW c \in Client, NEW op, NEW label, NEW x,
         Call(c, op, label, x), Prepared(Head(script[c]), label, x)
  PROVE  ThreadInv'
<1>1. /\ Head(script[c]).repeat_num \in Int /\ Tail(script[c]) \in Seq(CallOf)
      /\ x \in TimerTask /\ x.name \in Task
      /\ label \in {"push", "stamp", "erase", "emplace"}
  BY HeadCall DEF Call, Prepared, CallOf, TimerTask
<1>2. pc[c] = "idle" /\ pc' = [pc EXCEPT ![c] = label] /\ local' = [local EXCEPT ![c] = x]
  BY DEF Call, Goto
<1>3. Types'
  <2>1. /\ pc' \in [Thread -> Label] /\ local' \in [Thread -> TimerTask \cup {NoTask}]
        /\ writers = {d \in Client : pc'[d] \in {"emplacing", "erasing"}}
    BY <1>1, <1>2, Threads DEF ThreadInv, Types, Label
  <2>2. script' \in [Client -> Seq(CallOf)] /\ asked' \in [Task -> Int]
    BY <1>1 DEF Call, ThreadInv, Types
  <2> QED
    BY <2>1, <2>2 DEF Call, ThreadInv, Types, histories, map
<1>4. Roles' /\ LocalsHeld'
  BY <1>1, <1>2, Threads
  DEF ThreadInv, Types, Roles, LocalsHeld, Carrying, ClientLabel, WorkerLabel
<1> QED
  BY <1>3, <1>4 DEF ThreadInv

LEMMA StopThreadInv ==
  ASSUME ThreadInv, NEW c \in Client, Stop(c)
  PROVE  ThreadInv'
<1>1. Types'
  <2>1. script' \in [Client -> Seq(CallOf)]
    BY HeadCall DEF Stop, ThreadInv, Types
  <2>2. /\ pc' \in [Thread -> Label]
        /\ writers = {d \in Client : pc'[d] \in {"emplacing", "erasing"}}
    BY Threads DEF Stop, Goto, ThreadInv, Types, Label
  <2> QED
    BY <2>1, <2>2 DEF Stop, ThreadInv, Types, histories, map
<1>2. Roles' /\ LocalsHeld'
  BY Threads
  DEF Stop, Goto, ThreadInv, Types, Roles, LocalsHeld, Carrying, ClientLabel, WorkerLabel
<1> QED
  BY <1>1, <1>2 DEF ThreadInv

LEMMA BeginEmplaceThreadInv ==
  ASSUME ThreadInv, NEW c \in Client, BeginEmplace(c)
  PROVE  ThreadInv'
<1>1. Types'
  BY Threads DEF BeginEmplace, BeginWrite, MayCrash, Races, Goto, ThreadInv, Types, Label, histories, map
<1>2. Roles' /\ LocalsHeld'
  BY Threads
  DEF BeginEmplace, BeginWrite, MayCrash, Races, Goto, ThreadInv, Types, Roles, LocalsHeld, Carrying, ClientLabel, WorkerLabel
<1> QED
  BY <1>1, <1>2 DEF ThreadInv

LEMMA EndEmplaceThreadInv ==
  ASSUME ThreadInv, NEW c \in Client, EndEmplace(c)
  PROVE  ThreadInv'
<1>1. Types'
  <2>1. c \in Thread /\ pc[c] = "emplacing" /\ local[c] \in TimerTask /\ local[c].name \in Task
    BY Threads DEF EndEmplace, EndWrite, Goto, ThreadInv, LocalsHeld, Carrying, TimerTask
  <2>2. /\ pc' \in [Thread -> Label]
        /\ writers' = {d \in Client : pc'[d] \in {"emplacing", "erasing"}}
    BY <2>1, Threads DEF EndEmplace, EndWrite, Goto, ThreadInv, Types, Label
  <2>3. /\ states' \subseteq Task /\ local' \in [Thread -> TimerTask \cup {NoTask}]
        /\ cancelled' \in [Task -> NotYet .. MaxStarts]
    BY <2>1, TimerAssumption DEF EndEmplace, Returned, ThreadInv, Types, NotYet
  <2>4. crashed' \in BOOLEAN /\ torn' \in BOOLEAN
    BY DEF EndEmplace, EndWrite, MayCrash, Races, ThreadInv, Types
  <2> QED
    BY <2>2, <2>3, <2>4 DEF EndEmplace, EndWrite, ThreadInv, Types
<1>2. Roles' /\ LocalsHeld'
  BY Threads
  DEF EndEmplace, EndWrite, MayCrash, Races, Goto, ThreadInv, Types, Roles, LocalsHeld, Carrying, ClientLabel, WorkerLabel
<1> QED
  BY <1>1, <1>2 DEF ThreadInv

LEMMA BeginEraseThreadInv ==
  ASSUME ThreadInv, NEW c \in Client, BeginErase(c)
  PROVE  ThreadInv'
<1>1. Types'
  BY Threads DEF BeginErase, BeginWrite, MayCrash, Races, Goto, ThreadInv, Types, Label, histories, map
<1>2. Roles' /\ LocalsHeld'
  BY Threads
  DEF BeginErase, BeginWrite, MayCrash, Races, Goto, ThreadInv, Types, Roles, LocalsHeld, Carrying, ClientLabel, WorkerLabel
<1> QED
  BY <1>1, <1>2 DEF ThreadInv

LEMMA EndEraseThreadInv ==
  ASSUME ThreadInv, NEW c \in Client, EndErase(c)
  PROVE  ThreadInv'
<1>1. Types'
  <2>1. c \in Thread /\ pc[c] = "erasing" /\ local[c] \in TimerTask /\ local[c].name \in Task
    BY Threads DEF EndErase, EndWrite, Goto, ThreadInv, LocalsHeld, Carrying, TimerTask
  <2>2. /\ pc' \in [Thread -> Label]
        /\ writers' = {d \in Client : pc'[d] \in {"emplacing", "erasing"}}
    BY <2>1, Threads DEF EndErase, EndWrite, Goto, ThreadInv, Types, Label
  <2>3. /\ states' \subseteq Task /\ local' \in [Thread -> TimerTask \cup {NoTask}]
        /\ cancelled' \in [Task -> NotYet .. MaxStarts]
    BY <2>1, TimerAssumption DEF EndErase, Returned, ThreadInv, Types, NotYet
  <2>4. crashed' \in BOOLEAN /\ torn' \in BOOLEAN
    BY DEF EndErase, EndWrite, MayCrash, Races, ThreadInv, Types
  <2> QED
    BY <2>2, <2>3, <2>4 DEF EndErase, EndWrite, ThreadInv, Types
<1>2. Roles' /\ LocalsHeld'
  BY Threads
  DEF EndErase, EndWrite, MayCrash, Races, Goto, Returned, ThreadInv, Types, Roles, LocalsHeld, Carrying, ClientLabel, WorkerLabel
<1> QED
  BY <1>1, <1>2 DEF ThreadInv

LEMMA CheckThreadInv ==
  ASSUME ThreadInv, NEW t \in Thread, Check(t)
  PROVE  ThreadInv'
<1>1. Types'
  BY Threads DEF Check, MayCrash, Goto, Caller, Returned, ThreadInv, Types, Label, histories, map
<1>2. Roles' /\ LocalsHeld'
  BY Threads
  DEF Check, MayCrash, Goto, Caller, Returned, ThreadInv, Types, Roles, LocalsHeld, Carrying, ClientLabel, WorkerLabel
<1> QED
  BY <1>1, <1>2 DEF ThreadInv

LEMMA StampThreadInv ==
  ASSUME ThreadInv, NEW t \in Thread, Stamp(t)
  PROVE  ThreadInv'
<1> DEFINE x == [local[t] EXCEPT !.time = local[t].period]
<1>1. pc[t] = "stamp" /\ pc' = [pc EXCEPT ![t] = "push"] /\ x \in TimerTask
  BY DEF Stamp, Goto, ThreadInv, LocalsHeld, Carrying, TimerTask
<1>2. local' = [local EXCEPT ![t] = x]
  BY DEF Stamp, ThreadInv, Types
<1> HIDE DEF x
<1>3. Types'
  <2>1. /\ pc' \in [Thread -> Label] /\ local' \in [Thread -> TimerTask \cup {NoTask}]
        /\ writers = {d \in Client : pc'[d] \in {"emplacing", "erasing"}}
    BY <1>1, <1>2, Threads DEF ThreadInv, Types, Label
  <2> QED
    BY <2>1 DEF Stamp, ThreadInv, Types, histories, map
<1>4. Roles' /\ LocalsHeld'
  BY <1>1, <1>2, Threads
  DEF ThreadInv, Types, Roles, LocalsHeld, Carrying, ClientLabel, WorkerLabel
<1> QED
  BY <1>3, <1>4 DEF ThreadInv

LEMMA PushThreadInv ==
  ASSUME ThreadInv, NEW t \in Thread, Push(t)
  PROVE  ThreadInv'
<1>1. Types'
  BY Threads DEF Push, Goto, ThreadInv, Types, LocalsHeld, Carrying, Label, histories, map
<1>2. Roles' /\ LocalsHeld'
  BY Threads
  DEF Push, Goto, ThreadInv, Types, Roles, LocalsHeld, Carrying, ClientLabel, WorkerLabel
<1> QED
  BY <1>1, <1>2 DEF ThreadInv

LEMMA NotifyThreadInv ==
  ASSUME ThreadInv, NEW t \in Thread, NEW from \in {"notify", "stopNotify"},
         Notify(t, from, Caller(t)), stopped' = stopped \/ stopped' = 0
  PROVE  ThreadInv'
<1>1. pc[t] = from
  BY DEF Notify
<1>2. \A u \in Thread :
        pc'[u] = IF u = t THEN Caller(t) ELSE IF u = Worker THEN Awake(pc[u]) ELSE pc[u]
  BY Threads DEF Notify, ThreadInv, Types, Awake, Caller
<1>3. \A u \in Thread : local'[u] = IF u = t THEN NoTask ELSE local[u]
  BY DEF Notify, Returned, ThreadInv, Types
<1>4. Types'
  <2>1. pc' \in [Thread -> Label]
    BY <1>1, Threads DEF Notify, Awake, Caller, ThreadInv, Types, Label
  <2>2. writers = {c \in Client : pc'[c] \in {"emplacing", "erasing"}}
    BY <1>1, <1>2, Threads DEF ThreadInv, Types, Caller
  <2>3. local' \in [Thread -> TimerTask \cup {NoTask}]
    BY DEF Notify, Returned, ThreadInv, Types
  <2>4. stopped' \in NotYet .. MaxStarts
    BY TimerAssumption DEF ThreadInv, Types, NotYet
  <2> QED
    BY <2>1, <2>2, <2>3, <2>4 DEF Notify, ThreadInv, Types, map
<1>5. Roles' /\ LocalsHeld'
  BY <1>1, <1>2, <1>3, Threads
  DEF ThreadInv, Roles, LocalsHeld, Awake, Caller, Carrying, ClientLabel, WorkerLabel
<1> QED
  BY <1>4, <1>5 DEF ThreadInv

LEMMA TestThreadInv ==
  ASSUME ThreadInv, Test
  PROVE  ThreadInv'
<1>1. Types'
  BY Threads DEF Test, Goto, Returned, ThreadInv, Types, Label, histories, map
<1>2. Roles' /\ LocalsHeld'
  BY Threads
  DEF Test, Goto, Returned, ThreadInv, Types, Roles, LocalsHeld, Carrying, ClientLabel, WorkerLabel
<1> QED
  BY <1>1, <1>2 DEF ThreadInv

LEMMA WaitThreadInv ==
  ASSUME ThreadInv, Wait
  PROVE  ThreadInv'
<1>1. Types'
  BY Threads DEF Wait, Goto, ThreadInv, Types, Label, histories, map
<1>2. Roles' /\ LocalsHeld'
  BY Threads
  DEF Wait, Goto, ThreadInv, Types, Roles, LocalsHeld, Carrying, ClientLabel, WorkerLabel
<1> QED
  BY <1>1, <1>2 DEF ThreadInv

LEMMA LookThreadInv ==
  ASSUME ThreadInv, Look
  PROVE  ThreadInv'
<1>1. PICK s \in Top : local' = [local EXCEPT ![Worker] = s] /\ duration' = s.time
  BY DEF Look
<1>2. /\ s \in TimerTask /\ s.time \in Int
      /\ pc[Worker] = "look" /\ pc' = [pc EXCEPT ![Worker] = "due"]
  BY DEF Look, Goto, Top, ThreadInv, Types, TimerTask
<1>3. Types'
  BY <1>1, <1>2, Threads DEF Look, ThreadInv, Types, Label, histories, map
<1>4. Roles' /\ LocalsHeld'
  BY <1>1, <1>2, Threads
  DEF ThreadInv, Types, Roles, LocalsHeld, Carrying, ClientLabel, WorkerLabel
<1> QED
  BY <1>3, <1>4 DEF ThreadInv

LEMMA WaitForThreadInv ==
  ASSUME ThreadInv, WaitFor
  PROVE  ThreadInv'
<1>1. Types'
  BY Threads DEF WaitFor, Goto, ThreadInv, Types, Label, histories, map
<1>2. Roles' /\ LocalsHeld'
  BY Threads
  DEF WaitFor, Goto, ThreadInv, Types, Roles, LocalsHeld, Carrying, ClientLabel, WorkerLabel
<1> QED
  BY <1>1, <1>2 DEF ThreadInv

LEMMA TimeOutThreadInv ==
  ASSUME ThreadInv, TimeOut
  PROVE  ThreadInv'
<1>1. Types'
  BY Threads DEF TimeOut, Goto, ThreadInv, Types, Label, histories, map
<1>2. Roles' /\ LocalsHeld'
  BY Threads
  DEF TimeOut, Goto, ThreadInv, Types, Roles, LocalsHeld, Carrying, ClientLabel, WorkerLabel
<1> QED
  BY <1>1, <1>2 DEF ThreadInv

LEMMA PopThreadInv ==
  ASSUME ThreadInv, Pop
  PROVE  ThreadInv'
<1>1. Types'
  BY Threads DEF Pop, Goto, ThreadInv, Types, Label, histories, map
<1>2. Roles' /\ LocalsHeld'
  BY Threads
  DEF Pop, Goto, ThreadInv, Types, Roles, LocalsHeld, Carrying, ClientLabel, WorkerLabel
<1> QED
  BY <1>1, <1>2 DEF ThreadInv

LEMMA Counting ==
  /\ \A n \in 0 .. MaxStarts : OneMore(n) \in 0 .. MaxStarts /\ OneMore(n) <= n + 1
  /\ \A n \in NotYet .. MaxStarts : Since(n) \in NotYet .. MaxStarts
  BY TimerAssumption DEF OneMore, Since, NotYet

LEMMA StartThreadInv ==
  ASSUME ThreadInv, Start
  PROVE  ThreadInv'
<1> DEFINE k == local[Worker].name
<1>1. /\ pc[Worker] = "start" /\ Worker \in Thread /\ k \in Task
      /\ \/ pc' = [pc EXCEPT ![Worker] = "again"]
         \/ pc' = [pc EXCEPT ![Worker] = "test"]
      /\ local' = local
  BY Threads DEF Start, Goto, ThreadInv, LocalsHeld, Carrying, TimerTask
<1>2. Types'
  <2>1. starts[k] \in 0 .. MaxStarts /\ cancelled[k] \in NotYet .. MaxStarts
    BY <1>1 DEF ThreadInv, Types
  <2>2. /\ starts' \in [Task -> 0 .. MaxStarts] /\ stopped' \in NotYet .. MaxStarts
        /\ cancelled' \in [Task -> NotYet .. MaxStarts]
    BY <1>1, <2>1, Counting DEF Start, ThreadInv, Types
  <2>3. /\ pc' \in [Thread -> Label]
        /\ writers = {d \in Client : pc'[d] \in {"emplacing", "erasing"}}
    BY <1>1, Threads DEF ThreadInv, Types, Label
  <2> QED
    BY <2>2, <2>3 DEF Start, ThreadInv, Types, map
<1>3. Roles' /\ LocalsHeld'
  BY <1>1, Threads
  DEF ThreadInv, Types, Roles, LocalsHeld, Carrying, ClientLabel, WorkerLabel
<1> QED
  BY <1>2, <1>3 DEF ThreadInv

LEMMA AgainMoves ==
  ASSUME ThreadInv, Again
  PROVE  /\ Worker \in Thread /\ pc[Worker] = "again" /\ local[Worker] \in TimerTask
         /\ UNCHANGED <<running_, queue_, map, duration, script, histories, asked>>
         /\ \/ pc' = [pc EXCEPT ![Worker] = "test"] /\ local' = local
            \/ /\ pc' = [pc EXCEPT ![Worker] = "check"]
               /\ local[Worker].name \in states /\ local[Worker].repeat_num # 0
               /\ \E x \in TimerTask :
                    /\ local' = [local EXCEPT ![Worker] = x]
                    /\ x.name = local[Worker].name /\ x.repeated = local[Worker].repeated
                    /\ x.repeat_num = OneLess(local[Worker].repeat_num)
<1>1. /\ Worker \in Thread /\ pc[Worker] = "again" /\ local[Worker] \in TimerTask
      /\ local[Worker].repeat_num \in Int
  BY Threads DEF Again, Goto, ThreadInv, LocalsHeld, Carrying, TimerTask
<1>2. PICK found \in Found(Worker, local[Worker].name) :
        LET repeats == found /\ local[Worker].repeat_num # 0
        IN  /\ Goto(Worker, "again", IF repeats THEN "check" ELSE "test")
            /\ local' = [local EXCEPT ![Worker].repeat_num = IF repeats THEN OneLess(@) ELSE @]
  BY DEF Again
<1>3. CASE found /\ local[Worker].repeat_num # 0
  <2> DEFINE x == [local[Worker] EXCEPT !.repeat_num = OneLess(local[Worker].repeat_num)]
  <2>1. OneLess(local[Worker].repeat_num) \in Int
    BY <1>1 DEF OneLess
  <2>2. /\ x \in TimerTask /\ x.name = local[Worker].name
        /\ x.repeated = local[Worker].repeated
        /\ x.repeat_num = OneLess(local[Worker].repeat_num)
    BY <1>1, <2>1 DEF TimerTask
  <2>3. local' = [local EXCEPT ![Worker] = x] /\ pc' = [pc EXCEPT ![Worker] = "check"]
    BY <1>1, <1>2, <1>3 DEF Goto, ThreadInv, Types
  <2>4. local[Worker].name \in states
    BY <1>3, Zenon DEF Found
  <2> HIDE DEF x
  <2> QED
    BY <1>1, <1>3, <2>2, <2>3, <2>4 DEF Again
<1>4. CASE ~(found /\ local[Worker].repeat_num # 0)
  <2>1. local' = [local EXCEPT ![Worker].repeat_num = @] /\ pc' = [pc EXCEPT ![Worker] = "test"]
    BY <1>2, <1>4 DEF Goto
  <2>2. local' = local
    BY <1>1, <2>1 DEF ThreadInv, Types, TimerTask
  <2> QED
    BY <1>1, <2>1, <2>2 DEF Again
<1> QED
  BY <1>3, <1>4

LEMMA AgainThreadInv ==
  ASSUME ThreadInv, Again
  PROVE  ThreadInv'
<1>1. /\ Worker \in Thread /\ pc[Worker] = "again" /\ local[Worker] \in TimerTask
      /\ \E label \in {"check", "test"}, x \in TimerTask :
           pc' = [pc EXCEPT ![Worker] = label] /\ local' = [local EXCEPT ![Worker] = x]
  BY AgainMoves DEF ThreadInv, Types
<1>2. Types'
  <2>1. crashed' \in BOOLEAN
    BY DEF Again, MayCrash
  <2> QED
    <3>1. /\ pc' \in [Thread -> Label] /\ local' \in [Thread -> TimerTask \cup {NoTask}]
          /\ writers = {d \in Client : pc'[d] \in {"emplacing", "erasing"}}
      BY <1>1, Threads DEF ThreadInv, Types, Label
    <3> QED
      BY <2>1, <3>1, AgainMoves DEF ThreadInv, Types, histories, map
<1>3. Roles' /\ LocalsHeld'
  BY <1>1, Threads
  DEF ThreadInv, Types, Roles, LocalsHeld, Carrying, ClientLabel, WorkerLabel
<1> QED
  BY <1>2, <1>3 DEF ThreadInv

LEMMA WakeThreadInv ==
  ASSUME ThreadInv, WakeSpuriously
  PROVE  ThreadInv'
<1>1. Types'
  BY Threads DEF WakeSpuriously, Goto, ThreadInv, Types, Label, histories, map
<1>2. Roles' /\ LocalsHeld'
  BY Threads
  DEF WakeSpuriously, Goto, ThreadInv, Types, Roles, LocalsHeld, Carrying, ClientLabel, WorkerLabel
<1> QED
  BY <1>1, <1>2 DEF ThreadInv

LEMMA TickMoves ==
  ASSUME ThreadInv, Tick
  PROVE  /\ \A t \in Thread : local[t] \in TimerTask => local'[t] = A!Older(local[t])
         /\ \A t \in Thread : local[t] = NoTask => local'[t] = NoTask
         /\ local' \in [Thread -> TimerTask \cup {NoTask}]
         /\ queue_' = {A!Older(q) : q \in queue_} /\ queue_' \subseteq TimerTask
         /\ UNCHANGED <<running_, map, pc, script, histories, asked, crashed>>
<1>1. \A x \in TimerTask : x.name \in Task /\ A!Older(x) \in TimerTask
  BY OlderTask
<1>2. NoTask.name \notin Task
  BY TimerAssumption DEF NoTask
<1>3. \A t \in Thread : local[t] \in TimerTask \/ local[t] = NoTask
  BY DEF ThreadInv, Types
<1>4. local' = [t \in Thread |-> IF local[t].name \in Task THEN A!Older(local[t]) ELSE local[t]]
  BY DEF Tick
<1>5. queue_' \subseteq TimerTask
  BY <1>1 DEF Tick, ThreadInv, Types
<1> QED
  BY <1>1, <1>2, <1>3, <1>4, <1>5 DEF Tick

LEMMA TickThreadInv ==
  ASSUME ThreadInv, Tick
  PROVE  ThreadInv'
<1>1. duration' \in Int
  BY DEF Tick, ThreadInv, Types
<1>2. Types'
  BY <1>1, TickMoves DEF ThreadInv, Types, histories, map
<1>3. Roles' /\ LocalsHeld'
  BY TickMoves, OlderTask DEF ThreadInv, Types, Roles, LocalsHeld
<1> QED
  BY <1>2, <1>3 DEF ThreadInv

LEMMA StutterThreadInv == ASSUME ThreadInv, UNCHANGED vars PROVE ThreadInv'
  BY DEF ThreadInv, Types, Roles, LocalsHeld, vars

LEMMA NotifiersAre ==
  ASSUME NEW t \in Thread, NotifyAll(t) \/ (t \in Client /\ NotifyStop(t))
  PROVE  \E from \in {"notify", "stopNotify"} :
           Notify(t, from, Caller(t)) /\ (stopped' = stopped \/ stopped' = 0)
<1>1. CASE NotifyAll(t)
  BY <1>1 DEF NotifyAll
<1>2. CASE t \in Client /\ NotifyStop(t)
  BY <1>2, Threads DEF NotifyStop, Caller
<1> QED
  BY <1>1, <1>2

LEMMA StepThreadInv == ASSUME ThreadInv, [Next]_vars PROVE ThreadInv'
<1>1. ASSUME NEW t \in Thread, Add(t) PROVE ThreadInv'
  BY <1>1, CheckThreadInv, StampThreadInv, PushThreadInv, NotifyThreadInv, NotifiersAre DEF Add
<1>2. ASSUME NEW c \in Client, Asks(c) PROVE ThreadInv'
  BY <1>2, AskPrepares, CallThreadInv
<1>3. ASSUME NEW c \in Client,
             \/ Stop(c) \/ BeginEmplace(c) \/ EndEmplace(c) \/ BeginErase(c) \/ EndErase(c)
      PROVE  ThreadInv'
  BY <1>3, StopThreadInv, BeginEmplaceThreadInv, EndEmplaceThreadInv, BeginEraseThreadInv,
     EndEraseThreadInv
<1>4. ASSUME NEW c \in Client, NotifyStop(c) PROVE ThreadInv'
  BY <1>4, NotifyThreadInv, NotifiersAre, Threads
<1>5. CASE WorkerStep
  BY <1>1, <1>5, Threads, TestThreadInv, WaitThreadInv, LookThreadInv, WaitForThreadInv,
     TimeOutThreadInv, PopThreadInv, StartThreadInv, AgainThreadInv DEF WorkerStep
<1> QED
  BY <1>1, <1>2, <1>3, <1>4, <1>5, Threads, WakeThreadInv, TickThreadInv, StutterThreadInv
  DEF Next, Ended, ClientStep, Asks

-----------------------------------------------------------------------------
(* The worker wakes in time *)

\* While the worker has the lock, what it looks at is in the queue and the first one due,
\* and it has read `duration` not before.
LookedUp ==
  pc[Worker] = "due" =>
    /\ local[Worker] \in queue_
    /\ \A q \in queue_ : local[Worker].time <= q.time
    /\ local[Worker].time <= duration

WakeInv == LookedUp /\ WakesInTime

\* What the worker's sleep depends on.
LEMMA AsleepStill ==
  ASSUME ThreadInv, WakeInv, UNCHANGED <<queue_, duration>>,
         pc'[Worker] = pc[Worker] \/ pc'[Worker] \notin {"due", "asleep", "napping"},
         local'[Worker] = local[Worker] \/ pc'[Worker] \notin {"due", "napping"},
         Notified => Notified' \/ pc'[Worker] \notin {"asleep", "napping"}
  PROVE  WakeInv'
  BY DEF WakeInv, LookedUp, WakesInTime

LEMMA NotifiedStill ==
  ASSUME ThreadInv, \A t \in Thread : pc[t] \in {"notify", "stopNotify"} => pc'[t] = pc[t]
  PROVE  Notified => Notified'
  BY DEF Notified

LEMMA StepWakeInv == ASSUME ThreadInv, ThreadInv', WakeInv, [Next]_vars PROVE WakeInv'
<1> USE Threads
<1>1. ASSUME NEW t \in Thread, Check(t) PROVE WakeInv'
  <2>1. PICK label \in {"stamp", "test", "idle"} :
          pc[t] = "check" /\ pc' = [pc EXCEPT ![t] = label]
    BY <1>1 DEF Check, Goto, Caller
  <2>2. UNCHANGED <<queue_, duration>> /\ (t # Worker => local'[Worker] = local[Worker])
    BY <1>1 DEF Check, Returned, ThreadInv, Types
  <2> QED
    BY <2>1, <2>2, AsleepStill, NotifiedStill DEF ThreadInv, Types
<1>2. ASSUME NEW t \in Thread, Stamp(t) PROVE WakeInv'
  <2>1. UNCHANGED <<queue_, duration>> /\ (t # Worker => local'[Worker] = local[Worker])
    BY <1>2 DEF Stamp, ThreadInv, Types
  <2> QED
    BY <1>2, <2>1, AsleepStill, NotifiedStill DEF Stamp, Goto, ThreadInv, Types
<1>3. ASSUME NEW t \in Thread, Push(t) PROVE WakeInv'
  <2>1. pc'[t] = "notify" /\ pc'[Worker] # "due"
    BY <1>3 DEF Push, Goto, Locked, ThreadInv, Types
  <2> QED
    BY <2>1 DEF WakeInv, LookedUp, WakesInTime, Notified
<1>4. ASSUME NEW t \in Thread, NotifyAll(t) \/ (t \in Client /\ NotifyStop(t))
      PROVE WakeInv'
  <2>1. /\ UNCHANGED <<queue_, duration>> /\ (t # Worker => local'[Worker] = local[Worker])
        /\ pc'[Worker] = Awake(IF t = Worker THEN "test" ELSE pc[Worker])
    BY <1>4, NotifiersAre DEF Notify, Returned, Caller, ThreadInv, Types
  <2>2. pc'[Worker] \notin {"asleep", "napping"}
    BY <2>1 DEF Awake, ThreadInv, Types, Label
  <2>3. pc'[Worker] = "due" => pc[Worker] = "due" /\ t # Worker
    BY <2>1 DEF Awake, ThreadInv, Types, Label
  <2> QED
    BY <2>1, <2>2, <2>3 DEF WakeInv, LookedUp, WakesInTime
<1>5. ASSUME NEW c \in Client, Asks(c) PROVE WakeInv'
  <2>1. PICK op, label, x : Call(c, op, label, x)
    BY <1>5, AskPrepares
  <2>2. /\ UNCHANGED <<queue_, duration>> /\ local'[Worker] = local[Worker]
        /\ pc[c] = "idle" /\ pc' = [pc EXCEPT ![c] = label]
    BY <2>1 DEF Call, Goto, ThreadInv, Types
  <2> QED
    BY <2>2, AsleepStill, NotifiedStill DEF ThreadInv, Types
<1>6. ASSUME NEW c \in Client,
             \/ Stop(c) \/ BeginEmplace(c) \/ EndEmplace(c) \/ BeginErase(c) \/ EndErase(c)
      PROVE  WakeInv'
  <2>1. UNCHANGED <<queue_, duration>> /\ local'[Worker] = local[Worker]
    BY <1>6
    DEF Stop, BeginEmplace, EndEmplace, BeginErase, EndErase, BeginWrite, EndWrite, Returned,
        ThreadInv, Types
  <2>2. /\ pc[c] \in {"idle", "emplace", "emplacing", "erase", "erasing"}
        /\ \E label : pc' = [pc EXCEPT ![c] = label]
    BY <1>6
    DEF Stop, BeginEmplace, EndEmplace, BeginErase, EndErase, BeginWrite, EndWrite, Goto
  <2> QED
    BY <2>1, <2>2, AsleepStill, NotifiedStill DEF ThreadInv, Types
<1>7. CASE Test
  BY <1>7, NotifiedStill DEF Test, Goto, ThreadInv, Types, WakeInv, LookedUp, WakesInTime
<1>8. CASE Wait
  BY <1>8 DEF Wait, Goto, ThreadInv, Types, WakeInv, LookedUp, WakesInTime
<1>9. CASE Look
  <2>1. PICK s \in Top : local' = [local EXCEPT ![Worker] = s] /\ duration' = s.time
    BY <1>9 DEF Look
  <2>2. s \in queue_ /\ s.time \in Int /\ (\A q \in queue_ : s.time <= q.time) /\ queue_' = queue_
    BY <1>9, OlderTask DEF Look, Top, ThreadInv, Types
  <2> QED
    BY <1>9, <2>1, <2>2 DEF Look, Goto, ThreadInv, Types, WakeInv, LookedUp, WakesInTime
<1>10. CASE WaitFor
  BY <1>10 DEF WaitFor, Goto, ThreadInv, Types, WakeInv, LookedUp, WakesInTime
<1>11. CASE TimeOut \/ WakeSpuriously
  BY <1>11 DEF TimeOut, WakeSpuriously, Goto, ThreadInv, Types, WakeInv, LookedUp, WakesInTime
<1>12. CASE Pop
  BY <1>12 DEF Pop, Goto, ThreadInv, Types, WakeInv, LookedUp, WakesInTime
<1>13. CASE Start
  <2>1. pc'[Worker] \in {"test", "again"}
    BY <1>13 DEF Start, Goto, ThreadInv, Types
  <2> QED
    BY <2>1 DEF WakeInv, LookedUp, WakesInTime
<1>14. CASE Again
  <2>1. pc'[Worker] \in {"test", "check"}
    BY <1>14, AgainMoves DEF ThreadInv, Types
  <2> QED
    BY <2>1 DEF WakeInv, LookedUp, WakesInTime
<1>15. CASE Tick
  <2>1. pc' = pc /\ (Notified <=> Notified') /\ (pc[Worker] = "due" => duration' = duration)
    BY <1>15 DEF Tick, Notified
  <2>2. ASSUME pc[Worker] \in {"due", "napping"}, \A q \in queue_ : local[Worker].time <= q.time
        PROVE  \A q \in queue_' : local'[Worker].time <= q.time
    <3>1. local[Worker] \in TimerTask /\ local'[Worker] = A!Older(local[Worker])
      BY <1>15, <2>2, TickMoves DEF ThreadInv, LocalsHeld
    <3>2. ASSUME NEW q \in queue_ PROVE A!Older(local[Worker]).time <= A!Older(q).time
      <4>1. q \in TimerTask /\ local[Worker].time <= q.time
        BY <2>2 DEF ThreadInv, Types
      <4>2. /\ A!Older(local[Worker]).time = A!Later(local[Worker].time)
            /\ A!Older(q).time = A!Later(q.time)
            /\ local[Worker].time \in Int /\ q.time \in Int
        BY <3>1, <4>1, OlderTask
      <4> QED
        BY <4>1, <4>2, LaterMonotone
    <3> QED
      BY <1>15, <3>1, <3>2, TickMoves
  <2>3. ASSUME pc[Worker] = "due", local[Worker] \in queue_, local[Worker].time <= duration
        PROVE  local'[Worker] \in queue_' /\ local'[Worker].time <= duration'
    <3>1. local[Worker] \in TimerTask /\ local'[Worker] = A!Older(local[Worker])
      BY <1>15, <2>3, TickMoves DEF ThreadInv, LocalsHeld
    <3>2. A!Older(local[Worker]).time <= local[Worker].time /\ local[Worker].time \in Int
          /\ A!Older(local[Worker]).time \in Int
      BY <3>1, OlderTask, LaterMonotone
    <3> QED
      BY <1>15, <2>1, <2>3, <3>1, <3>2, TickMoves DEF ThreadInv, Types
  <2>4. queue_' # {} => queue_ # {}
    BY <1>15, TickMoves
  <2> QED
    BY <2>1, <2>2, <2>3, <2>4 DEF WakeInv, LookedUp, WakesInTime
<1>16. CASE UNCHANGED vars
  BY <1>16 DEF vars, WakeInv, LookedUp, WakesInTime, Notified
<1> QED
  BY <1>1, <1>2, <1>3, <1>4, <1>5, <1>6, <1>7, <1>8, <1>9, <1>10, <1>11, <1>12, <1>13,
     <1>14, <1>15, <1>16
  DEF Next, Ended, ClientStep, WorkerStep, Add, Asks

\* Whatever is pushed while the worker decides to sleep, it does not sleep on a task, nor
\* longer than until the first task is due, unless a notification is on its way.
THEOREM NeverOversleeps == Spec => []WakesInTime
<1> DEFINE Inv == ThreadInv /\ WakeInv
<1>1. Init => Inv
  BY InitThreadInv, Threads DEF Init, WakeInv, LookedUp, WakesInTime
<1>2. Inv /\ [Next]_vars => Inv'
  BY StepThreadInv, StepWakeInv
<1>3. Inv => WakesInTime
  BY DEF WakeInv
<1> QED
  BY <1>1, <1>2, <1>3, PTL DEF Spec

-----------------------------------------------------------------------------
(* Where the tasks are *)

\* The task that t carries from one place to the next, if any.
Held == [t \in Thread |-> IF pc[t] \in Carrying THEN local[t].name ELSE "none"]

\* A client has still to add k.
AddsOf(k) ==
  \E c \in Client : \E i \in DOMAIN script[c] : script[c][i].op \in Adding /\ script[c][i].task = k

\* The clients have done their part for k: it is with the queue or the worker, or gone.
Out(k) == ~AddsOf(k) /\ \A c \in Client : Held[c] # k

QueueNames == \A p, q \in queue_ : p.name = q.name => p = q

HeldOnce ==
  \A t \in Thread : Held[t] # "none" =>
    /\ \A u \in Thread : Held[u] = Held[t] => u = t
    /\ \A q \in queue_ : q.name # Held[t]
    /\ ~AddsOf(Held[t])

QueuedOut == \A q \in queue_ : Out(q.name)

ScriptFresh == \A k \in Task : AddsOf(k) => starts[k] = 0 /\ asked[k] = 0

AddsDistinct ==
  \A c, d \in Client : \A i \in DOMAIN script[c], n \in DOMAIN script[d] :
    script[c][i].op \in Adding /\ script[d][n].op \in Adding /\ script[c][i].task = script[d][n].task
      => c = d /\ i = n

\* c has not yet added what it will cancel, or it is the only one that may be adding it.
AddedBefore(c, i) ==
  \/ \E n \in DOMAIN script[c] : n < i /\ script[c][n].op = "repeated" /\ script[c][n].task = script[c][i].task
  \/ /\ ~AddsOf(script[c][i].task)
     /\ \A d \in Client : Held[d] = script[c][i].task => d = c

CancelsOwn ==
  \A c \in Client : \A i \in DOMAIN script[c] : script[c][i].op = "cancel" => AddedBefore(c, i)

\* What is left of the repetitions of x that were asked for, n of them begun.
Left(x, n) ==
  IF x.repeated
  THEN asked[x.name] > 0 => x.repeat_num \in Nat /\ starts[x.name] + x.repeat_num + n <= asked[x.name]
  ELSE asked[x.name] = 0

RepeatsLeft ==
  /\ \A q \in queue_ : Left(q, 1)
  /\ \A t \in Thread : pc[t] \in Carrying => Left(local[t], IF pc[t] = "again" THEN 0 ELSE 1)
  /\ \A k \in Task : asked[k] > 0 => starts[k] <= asked[k]

\* A task is in one place at a time, and comes there with the repetitions it has left.
TokenInv ==
  /\ QueueNames /\ HeldOnce /\ QueuedOut
  /\ ScriptFresh /\ AddsDistinct /\ CancelsOwn
  /\ RepeatsLeft

SameToken(x, y) ==
  x.name = y.name /\ x.repeated = y.repeated /\ x.repeat_num = y.repeat_num

\* Whoever carries a task after the step has carried it before.
CarriesOn ==
  \A t \in Thread : pc'[t] \in Carrying =>
    /\ pc[t] \in Carrying /\ SameToken(local'[t], local[t])
    /\ pc'[t] = "again" <=> pc[t] = "again"

\* A step that moves no task, or drops one.
Calm == UNCHANGED <<script, queue_, starts, asked>> /\ CarriesOn

LEMMA TokenTypes ==
  ASSUME ThreadInv
  PROVE  /\ \A t \in Thread : pc[t] \in Carrying =>
              local[t] \in TimerTask /\ Held[t] = local[t].name /\ Held[t] \in Task
         /\ \A t \in Thread : pc[t] \notin Carrying => Held[t] = "none"
         /\ \A t \in Thread : Held[t] # "none" => pc[t] \in Carrying
         /\ \A q \in queue_ : q.name \in Task /\ q \in TimerTask
         /\ "none" \notin Task /\ Worker \in Thread /\ Client \subseteq Thread
<1>1. \A x \in TimerTask : x.name \in Task
  BY DEF TimerTask
<1> QED
  BY <1>1, Threads, TimerAssumption DEF ThreadInv, Types, LocalsHeld, Held

LEMMA ScriptCalls ==
  ASSUME ThreadInv, NEW c \in Client, NEW i \in DOMAIN script[c]
  PROVE  script[c][i] \in CallOf /\ script[c][i].task \in Task
<1>1. script[c] \in Seq(CallOf)
  BY DEF ThreadInv, Types
<1>2. script[c][i] \in CallOf
  BY <1>1, ElementOfSeq
<1> QED
  BY <1>2 DEF CallOf

\* What a step that carries on leaves of Held.
LEMMA HeldCarried ==
  ASSUME ThreadInv, CarriesOn
  PROVE  \A t \in Thread : Held'[t] = Held[t] \/ Held'[t] = "none"
  BY DEF CarriesOn, SameToken, Held

\* The parts of TokenInv that speak of Held and not of repetitions.
LEMMA FewerHeld ==
  ASSUME ThreadInv, TokenInv, UNCHANGED <<script, queue_>>,
         \A t \in Thread : Held'[t] = Held[t] \/ Held'[t] = "none"
  PROVE  /\ QueueNames' /\ HeldOnce' /\ QueuedOut' /\ AddsDistinct' /\ CancelsOwn'
         /\ \A k \in Task : Out(k) => Out(k)'
<1>1. \A k : AddsOf(k)' <=> AddsOf(k)
  BY DEF AddsOf
<1>2. \A k \in Task : Out(k) => Out(k)'
  BY <1>1, TokenTypes DEF Out
<1>3. QueueNames' /\ AddsDistinct'
  BY DEF TokenInv, QueueNames, AddsDistinct
<1>4. HeldOnce'
  BY <1>1 DEF TokenInv, HeldOnce
<1>5. QueuedOut'
  BY <1>2, TokenTypes DEF TokenInv, QueuedOut
<1>6. CancelsOwn'
  <2> SUFFICES ASSUME NEW c \in Client, NEW i \in DOMAIN script[c], script[c][i].op = "cancel"
               PROVE  AddedBefore(c, i)'
    BY DEF CancelsOwn
  <2>1. AddedBefore(c, i) /\ script[c][i].task \in Task
    BY ScriptCalls DEF TokenInv, CancelsOwn
  <2> QED
    BY <1>1, <2>1, TokenTypes DEF AddedBefore
<1> QED
  BY <1>2, <1>3, <1>4, <1>5, <1>6

LEMMA CalmTokenInv == ASSUME ThreadInv, TokenInv, Calm PROVE TokenInv'
<1>1. /\ UNCHANGED <<script, queue_, starts, asked>>
      /\ \A t \in Thread : Held'[t] = Held[t] \/ Held'[t] = "none"
  BY HeldCarried DEF Calm
<1>2. ScriptFresh'
  BY <1>1 DEF TokenInv, ScriptFresh, AddsOf
<1>3. RepeatsLeft'
  BY <1>1 DEF Calm, CarriesOn, SameToken, TokenInv, RepeatsLeft, Left
<1> QED
  BY <1>1, <1>2, <1>3, FewerHeld DEF TokenInv

LEMMA CalmSteps ==
  ASSUME ThreadInv,
         \/ \E c \in Client :
              BeginEmplace(c) \/ EndEmplace(c) \/ BeginErase(c) \/ EndErase(c) \/ NotifyStop(c)
         \/ \E t \in Thread : Check(t) \/ Stamp(t) \/ NotifyAll(t)
         \/ Test \/ Wait \/ Look \/ WaitFor \/ TimeOut \/ WakeSpuriously
         \/ UNCHANGED vars
  PROVE  Calm
<1> USE Threads
<1>1. ASSUME NEW c \in Client, BeginEmplace(c) \/ BeginErase(c) PROVE Calm
  BY <1>1 DEF BeginEmplace, BeginErase, BeginWrite, Goto, histories, ThreadInv, Types,
              Carrying, Calm, CarriesOn, SameToken
<1>2. ASSUME NEW c \in Client, EndEmplace(c) PROVE Calm
  BY <1>2 DEF EndEmplace, EndWrite, Goto, ThreadInv, Types, Carrying, Calm, CarriesOn, SameToken
<1>3. ASSUME NEW c \in Client, EndErase(c) PROVE Calm
  BY <1>3 DEF EndErase, EndWrite, Goto, Returned, ThreadInv, Types, Carrying, Calm, CarriesOn,
              SameToken
<1>4. ASSUME NEW t \in Thread, NotifyAll(t) \/ (t \in Client /\ NotifyStop(t)) PROVE Calm
  <2>1. /\ UNCHANGED <<script, queue_, starts, asked>>
        /\ \A u \in Thread :
             pc'[u] = IF u = t THEN Caller(t) ELSE IF u = Worker THEN Awake(pc[u]) ELSE pc[u]
        /\ \A u \in Thread : u # t => local'[u] = local[u]
    BY <1>4, NotifiersAre DEF Notify, Returned, Awake, Caller, ThreadInv, Types
  <2> QED
    BY <2>1 DEF Awake, Caller, Carrying, Calm, CarriesOn, SameToken
<1>5. ASSUME NEW t \in Thread, Check(t) PROVE Calm
  <2>1. /\ UNCHANGED <<script, queue_, starts, asked>> /\ pc[t] = "check"
        /\ local' = local \/ local' = Returned(t)
        /\ \/ pc' = [pc EXCEPT ![t] = "stamp"] /\ local' = local
           \/ pc' = [pc EXCEPT ![t] = Caller(t)]
    BY <1>5 DEF Check, Goto, histories
  <2>2. /\ \A u \in Thread : u # t => pc'[u] = pc[u] /\ local'[u] = local[u]
        /\ \/ pc'[t] = "stamp" /\ local'[t] = local[t]
           \/ pc'[t] = Caller(t)
    BY <2>1 DEF Returned, ThreadInv, Types
  <2> QED
    BY <2>1, <2>2 DEF Caller, Carrying, Calm, CarriesOn, SameToken
<1>6. ASSUME NEW t \in Thread, Stamp(t) PROVE Calm
  <2>1. /\ UNCHANGED <<script, queue_, starts, asked>>
        /\ pc[t] = "stamp" /\ pc' = [pc EXCEPT ![t] = "push"] /\ local[t] \in TimerTask
        /\ local' = [local EXCEPT ![t].time = local[t].period]
    BY <1>6 DEF Stamp, Goto, histories, ThreadInv, LocalsHeld, Carrying
  <2>2. /\ \A u \in Thread : u # t => pc'[u] = pc[u] /\ local'[u] = local[u]
        /\ pc'[t] = "push" /\ SameToken(local'[t], local[t])
    BY <2>1 DEF SameToken, TimerTask, ThreadInv, Types
  <2> QED
    BY <2>1, <2>2 DEF Carrying, Calm, CarriesOn, SameToken
<1>7. CASE Test
  BY <1>7 DEF Test, Goto, Returned, histories, ThreadInv, Types, Carrying, Calm, CarriesOn, SameToken
<1>8. CASE Wait \/ WaitFor
  BY <1>8 DEF Wait, WaitFor, Goto, histories, ThreadInv, Types, Carrying, Calm, CarriesOn, SameToken
<1>9. CASE Look
  <2>1. /\ UNCHANGED <<script, queue_, starts, asked>> /\ pc' = [pc EXCEPT ![Worker] = "due"]
        /\ \A u \in Thread : u # Worker => local'[u] = local[u]
    BY <1>9 DEF Look, Goto, histories, ThreadInv, Types
  <2> QED
    BY <2>1 DEF ThreadInv, Types, Carrying, Calm, CarriesOn, SameToken
<1>10. CASE TimeOut \/ WakeSpuriously
  BY <1>10 DEF TimeOut, WakeSpuriously, Goto, histories, ThreadInv, Types, Carrying, Calm, CarriesOn,
               SameToken
<1>11. CASE UNCHANGED vars
  BY <1>11 DEF vars, Calm, CarriesOn, SameToken
<1> QED
  BY <1>1, <1>2, <1>3, <1>4, <1>5, <1>6, <1>7, <1>8, <1>9, <1>10, <1>11

\* The script of c without its first call.
LEMMA ScriptShorter ==
  ASSUME ThreadInv, NEW c \in Client, script[c] # <<>>, script' = [script EXCEPT ![c] = Tail(@)]
  PROVE  /\ \A d \in Client : \A i \in DOMAIN script'[d] :
              \E n \in DOMAIN script[d] : /\ script'[d][i] = script[d][n]
                                          /\ n = IF d = c THEN i + 1 ELSE i
                                          /\ i \in Nat \ {0}
         /\ \A n \in DOMAIN script[c] : n # 1 =>
              n \in Nat /\ n - 1 \in DOMAIN script'[c] /\ script'[c][n - 1] = script[c][n]
         /\ \A d \in Client : d # c => script'[d] = script[d]
         /\ \A k : AddsOf(k)' => AddsOf(k)
<1>1. script \in [Client -> Seq(CallOf)]
  BY DEF ThreadInv, Types
<1>2. \A d \in Client : \A i \in DOMAIN script'[d] :
        \E n \in DOMAIN script[d] : /\ script'[d][i] = script[d][n]
                                    /\ n = IF d = c THEN i + 1 ELSE i
                                    /\ i \in Nat \ {0}
  BY <1>1
<1>3. \A n \in DOMAIN script[c] : n # 1 =>
        n \in Nat /\ n - 1 \in DOMAIN script'[c] /\ script'[c][n - 1] = script[c][n]
  BY <1>1
<1>4. \A d \in Client : d # c => script'[d] = script[d]
  BY <1>1
<1>5. \A k : AddsOf(k)' => AddsOf(k)
  BY <1>2 DEF AddsOf
<1> QED
  BY <1>2, <1>3, <1>4, <1>5

\* What the parts of TokenInv that speak of the scripts become when c makes a call.
LEMMA CallScripts ==
  ASSUME ThreadInv, TokenInv, NEW c \in Client,
         script[c] # <<>>, script' = [script EXCEPT ![c] = Tail(@)],
         UNCHANGED queue_,
         \A t \in Thread : \/ Held'[t] = Held[t]
                           \/ t = c /\ Held[c] = "none" /\ Held'[c] = Head(script[c]).task
                              /\ Head(script[c]).op \in Adding
  PROVE  /\ AddsDistinct' /\ CancelsOwn' /\ QueuedOut'
         /\ \A k \in Task : Out(k) => Out(k)'
<1>1. /\ Head(script[c]) = script[c][1] /\ 1 \in DOMAIN script[c]
      /\ script[c][1].task \in Task
  BY HeadCall, ScriptCalls
<1>2. PICK k \in Task : k = script[c][1].task
  BY <1>1
<1>3. \A t \in Thread : Held'[t] = Held[t] \/ (t = c /\ Held'[t] = k /\ AddsOf(k))
  BY <1>1, <1>2 DEF AddsOf
<1>4. AddsDistinct'
  <2> SUFFICES ASSUME NEW d \in Client, NEW e \in Client,
                      NEW i \in DOMAIN script'[d], NEW n \in DOMAIN script'[e],
                      script'[d][i].op \in Adding, script'[e][n].op \in Adding,
                      script'[d][i].task = script'[e][n].task
               PROVE  d = e /\ i = n
    BY DEF AddsDistinct
  <2>1. PICK i1 \in DOMAIN script[d] : /\ script'[d][i] = script[d][i1]
                                       /\ i1 = IF d = c THEN i + 1 ELSE i
                                       /\ i \in Nat \ {0}
    BY ScriptShorter
  <2>2. PICK n1 \in DOMAIN script[e] : /\ script'[e][n] = script[e][n1]
                                       /\ n1 = IF e = c THEN n + 1 ELSE n
                                       /\ n \in Nat \ {0}
    BY ScriptShorter
  <2>3. d = e /\ i1 = n1
    BY <2>1, <2>2 DEF TokenInv, AddsDistinct
  <2> QED
    BY <2>1, <2>2, <2>3
<1>5. \A m \in Task : AddsOf(m)' => AddsOf(m)
  BY ScriptShorter
<1>6. \A m \in Task : Out(m) => Out(m)'
  BY <1>3, <1>5, TokenTypes DEF Out
<1>7. QueuedOut'
  BY <1>6, TokenTypes DEF TokenInv, QueuedOut
<1>8. CancelsOwn'
  <2> SUFFICES ASSUME NEW d \in Client, NEW i \in DOMAIN script'[d], script'[d][i].op = "cancel"
               PROVE  AddedBefore(d, i)'
    BY DEF CancelsOwn
  <2>1. PICK n \in DOMAIN script[d] : /\ script'[d][i] = script[d][n]
                                      /\ n = IF d = c THEN i + 1 ELSE i
                                      /\ i \in Nat \ {0}
    BY ScriptShorter
  <2>2. PICK m \in Task : m = script[d][n].task
    BY ScriptCalls
  <2>3. AddedBefore(d, n) /\ script'[d][i].task = m
    BY <2>1, <2>2 DEF TokenInv, CancelsOwn
  <2>4. ASSUME ~AddsOf(m), \A e \in Client : Held[e] = m => e = d
        PROVE  AddedBefore(d, i)'
    <3>1. ~AddsOf(m)'
      BY <2>4, <1>5
    <3>2. \A e \in Client : Held'[e] = m => e = d
      BY <1>3, <2>4, TokenTypes
    <3> QED
      BY <2>3, <3>1, <3>2 DEF AddedBefore
  <2>5. ASSUME NEW l \in DOMAIN script[d], l < n, script[d][l].op = "repeated", script[d][l].task = m
        PROVE  AddedBefore(d, i)'
    <3>1. CASE d # c
      BY <2>1, <2>3, <2>5, <3>1, ScriptShorter DEF AddedBefore
    <3>2. CASE d = c /\ l # 1
      <4>1. l \in Nat /\ l - 1 \in DOMAIN script'[c] /\ script'[c][l - 1] = script[c][l]
        BY <2>5, <3>2, ScriptShorter
      <4>2. l - 1 < i
        BY <2>1, <2>5, <3>2, <4>1
      <4> QED
        BY <2>3, <2>5, <3>2, <4>1, <4>2 DEF AddedBefore
    <3>3. CASE d = c /\ l = 1
      <4>1. script[c][1].op \in Adding /\ m = k
        BY <1>2, <2>5, <3>3 DEF Adding
      <4>2. ~AddsOf(k)'
        <5>1. ASSUME NEW e \in Client, NEW j \in DOMAIN script'[e],
                     script'[e][j].op \in Adding, script'[e][j].task = k
              PROVE  FALSE
          <6>1. PICK h \in DOMAIN script[e] : /\ script'[e][j] = script[e][h]
                                              /\ h = IF e = c THEN j + 1 ELSE j
                                              /\ j \in Nat \ {0}
            BY ScriptShorter
          <6>2. e = c /\ h = 1
            BY <1>1, <1>2, <4>1, <5>1, <6>1 DEF TokenInv, AddsDistinct
          <6> QED
            BY <6>1, <6>2
        <5> QED
          BY <5>1 DEF AddsOf
      <4>3. \A t \in Thread : Held[t] # k
        <5>1. AddsOf(k)
          BY <1>1, <1>2, <4>1 DEF AddsOf
        <5> QED
          BY <5>1, TokenTypes DEF TokenInv, HeldOnce
      <4>4. \A e \in Client : Held'[e] = k => e = d
        BY <1>3, <3>3, <4>3, TokenTypes
      <4> QED
        BY <2>3, <4>1, <4>2, <4>4 DEF AddedBefore
    <3> QED
      BY <3>1, <3>2, <3>3
  <2> QED
    BY <2>2, <2>3, <2>4, <2>5 DEF AddedBefore
<1> QED
  BY <1>4, <1>6, <1>7, <1>8

LEMMA StopTokenInv ==
  ASSUME ThreadInv, TokenInv, NEW c \in Client, Stop(c)
  PROVE  TokenInv' /\ \A k \in Task : Out(k) => Out(k)'
<1>1. /\ script[c] # <<>> /\ script' = [script EXCEPT ![c] = Tail(@)]
      /\ UNCHANGED <<queue_, starts, asked, local>>
      /\ pc[c] = "idle" /\ pc' = [pc EXCEPT ![c] = "stopNotify"]
  BY DEF Stop, Goto, histories
<1>2. CarriesOn
  BY <1>1, Threads DEF CarriesOn, SameToken, Carrying, ThreadInv, Types
<1>3. Held' = Held
  BY <1>1, Threads DEF Held, Carrying, ThreadInv, Types
<1>4. AddsDistinct' /\ CancelsOwn' /\ QueuedOut' /\ \A k \in Task : Out(k) => Out(k)'
  BY <1>1, <1>3, CallScripts
<1>5. QueueNames'
  BY <1>1 DEF TokenInv, QueueNames
<1>6. HeldOnce'
  BY <1>1, <1>3, ScriptShorter DEF TokenInv, HeldOnce
<1>7. ScriptFresh'
  BY <1>1, ScriptShorter DEF TokenInv, ScriptFresh
<1>8. RepeatsLeft'
  BY <1>1, <1>2 DEF CarriesOn, SameToken, TokenInv, RepeatsLeft, Left
<1> QED
  BY <1>4, <1>5, <1>6, <1>7, <1>8 DEF TokenInv

LEMMA AskTokenInv ==
  ASSUME ThreadInv, TokenInv, NEW c \in Client, NEW op, NEW label, NEW x,
         Call(c, op, label, x), Prepared(Head(script[c]), label, x)
  PROVE  TokenInv' /\ \A k \in Task : Out(k) => Out(k)'
<1> DEFINE k == x.name
           call == Head(script[c])
<1>1. /\ script[c] # <<>> /\ script' = [script EXCEPT ![c] = Tail(@)]
      /\ UNCHANGED <<queue_, starts>> /\ c \in Thread /\ c # Worker
      /\ pc[c] = "idle" /\ pc' = [pc EXCEPT ![c] = label] /\ local' = [local EXCEPT ![c] = x]
      /\ asked' = IF x.repeated THEN [asked EXCEPT ![k] = call.repeat_num] ELSE asked
  BY Threads DEF Call, Goto, histories
<1>2. /\ call = script[c][1] /\ 1 \in DOMAIN script[c] /\ call.task \in Task
      /\ k = call.task /\ x \in TimerTask /\ call.repeat_num \in Int
  BY <1>1, HeadCall DEF Prepared, CallOf
<1>3. /\ \A t \in Thread : t # c => pc'[t] = pc[t] /\ local'[t] = local[t]
      /\ pc'[c] = label /\ local'[c] = x
  BY <1>1 DEF ThreadInv, Types
<1>4. CASE label = "erase"
  <2>1. CarriesOn
    BY <1>3, <1>4 DEF CarriesOn, SameToken, Carrying
  <2>2. Held' = Held
    BY <1>1, <1>3, <1>4 DEF Held, Carrying
  <2>3. AddsDistinct' /\ CancelsOwn' /\ QueuedOut' /\ \A m \in Task : Out(m) => Out(m)'
    BY <1>1, <2>2, CallScripts
  <2>4. asked' = asked
    BY <1>1, <1>4 DEF Prepared
  <2>5. QueueNames'
    BY <1>1 DEF TokenInv, QueueNames
  <2>6. HeldOnce'
    BY <1>1, <2>2, ScriptShorter DEF TokenInv, HeldOnce
  <2>7. ScriptFresh'
    BY <1>1, <2>4, ScriptShorter DEF TokenInv, ScriptFresh
  <2>8. RepeatsLeft'
    BY <1>1, <2>1, <2>4 DEF CarriesOn, SameToken, TokenInv, RepeatsLeft, Left
  <2> QED
    BY <2>3, <2>5, <2>6, <2>7, <2>8 DEF TokenInv
<1>5. CASE label # "erase"
  <2>1. label \in {"push", "stamp", "emplace"} /\ call.op \in Adding
    BY <1>5 DEF Prepared, Adding
  <2>2. AddsOf(k) /\ starts[k] = 0 /\ asked[k] = 0
    BY <1>2, <2>1 DEF AddsOf, TokenInv, ScriptFresh
  <2>3. /\ \A t \in Thread : Held[t] # k
        /\ \A q \in queue_ : q.name # k
    BY <1>2, <2>2, TokenTypes DEF TokenInv, HeldOnce, QueuedOut, Out
  <2>4. Held[c] = "none" /\ Held'[c] = k /\ \A t \in Thread : t # c => Held'[t] = Held[t]
    BY <1>1, <1>3, <2>1 DEF Held, Carrying
  <2>5. AddsDistinct' /\ CancelsOwn' /\ QueuedOut' /\ \A m \in Task : Out(m) => Out(m)'
    BY <1>1, <1>2, <2>1, <2>4, CallScripts
  <2>6. ~AddsOf(x.name)'
    <3>1. ASSUME NEW e \in Client, NEW j \in DOMAIN script'[e],
                 script'[e][j].op \in Adding, script'[e][j].task = k
          PROVE  FALSE
      <4>1. PICK l \in DOMAIN script[e] : /\ script'[e][j] = script[e][l]
                                          /\ l = IF e = c THEN j + 1 ELSE j
                                          /\ j \in Nat \ {0}
        BY <1>1, ScriptShorter
      <4>2. e = c /\ l = 1
        BY <1>2, <2>1, <3>1, <4>1 DEF TokenInv, AddsDistinct
      <4> QED
        BY <4>1, <4>2
    <3> QED
      BY <3>1 DEF AddsOf
  <2>7. QueueNames'
    BY <1>1 DEF TokenInv, QueueNames
  <2>8. HeldOnce'
    <3>1. ASSUME NEW t \in Thread, Held'[t] # "none", t # c
          PROVE  /\ \A u \in Thread : Held'[u] = Held'[t] => u = t
                 /\ \A q \in queue_ : q.name # Held'[t]
                 /\ ~AddsOf(Held[t])
      BY <2>3, <2>4, <3>1 DEF TokenInv, HeldOnce
    <3>2. ASSUME NEW t \in Thread, Held'[t] # "none", t # c PROVE ~AddsOf(Held[t])'
      <4>1. PICK m : m = Held[t] /\ m = Held'[t]
        BY <2>4, <3>2
      <4>2. ~AddsOf(m)
        BY <3>1, <3>2, <4>1
      <4>3. AddsOf(m)' => AddsOf(m)
        BY <1>1, ScriptShorter
      <4> QED
        BY <4>1, <4>2, <4>3
    <3>3. /\ \A u \in Thread : Held'[u] = Held'[c] => u = c
          /\ \A q \in queue_ : q.name # Held'[c]
      BY <2>3, <2>4
    <3>4. ~AddsOf(Held[c])'
      BY <2>4, <2>6
    <3> QED
      BY <1>1, <3>1, <3>2, <3>3, <3>4 DEF HeldOnce
  <2>9. \A m \in Task : m # k => asked'[m] = asked[m]
    BY <1>1, <1>2 DEF ThreadInv, Types
  <2>10. ScriptFresh'
    BY <1>1, <2>6, <2>9, ScriptShorter DEF TokenInv, ScriptFresh
  <2>11. asked'[k] = IF x.repeated THEN call.repeat_num ELSE 0
    BY <1>1, <1>2, <2>2 DEF ThreadInv, Types
  <2>12. Left(x, 1)'
    BY <1>1, <1>2, <2>1, <2>2, <2>11 DEF Left, Prepared
  <2>13. RepeatsLeft'
    <3>1. ASSUME NEW q \in queue_ PROVE Left(q, 1)'
      BY <1>1, <2>3, <2>9, TokenTypes DEF TokenInv, RepeatsLeft, Left
    <3>2. ASSUME NEW t \in Thread, t # c, pc[t] \in Carrying
          PROVE  Left(local[t], IF pc[t] = "again" THEN 0 ELSE 1)'
      <4>1. local[t].name # k /\ local[t].name \in Task /\ local'[t] = local[t] /\ pc'[t] = pc[t]
        BY <1>3, <2>3, <3>2, TokenTypes
      <4> QED
        BY <1>1, <2>9, <3>2, <4>1 DEF TokenInv, RepeatsLeft, Left
    <3>3. \A m \in Task : asked'[m] > 0 => starts'[m] <= asked'[m]
      BY <1>1, <1>2, <2>2, <2>9, <2>11 DEF TokenInv, RepeatsLeft, ThreadInv, Types
    <3>4. pc'[c] # "again"
      BY <1>3, <2>1
    <3> QED
      BY <1>1, <1>3, <2>12, <3>1, <3>2, <3>3, <3>4 DEF RepeatsLeft
  <2> QED
    BY <2>5, <2>7, <2>8, <2>10, <2>13 DEF TokenInv
<1> QED
  BY <1>4, <1>5

LEMMA PushTokenInv ==
  ASSUME ThreadInv, TokenInv, NEW t \in Thread, Push(t)
  PROVE  TokenInv' /\ \A k \in Task : Out(k) => Out(k)'
<1>1. PICK x \in TimerTask : x = local[t]
  BY DEF Push, Goto, ThreadInv, LocalsHeld, Carrying
<1>2. /\ UNCHANGED <<script, starts, asked, local>> /\ queue_' = queue_ \cup {x}
      /\ pc[t] = "push" /\ pc' = [pc EXCEPT ![t] = "notify"]
  BY <1>1 DEF Push, Goto, histories
<1>3. \A u \in Thread : u # t => pc'[u] = pc[u]
  BY <1>2 DEF ThreadInv, Types
<1>4. pc'[t] = "notify"
  BY <1>2 DEF ThreadInv, Types
<1>5. Held[t] = x.name /\ x.name \in Task
  BY <1>1, <1>2, TokenTypes DEF Carrying
<1>6. Held'[t] = "none" /\ \A u \in Thread : u # t => Held'[u] = Held[u]
  BY <1>2, <1>3, <1>4 DEF Held, Carrying
<1>7. /\ \A u \in Thread : Held[u] = x.name => u = t
      /\ \A q \in queue_ : q.name # x.name
      /\ ~AddsOf(x.name)
  BY <1>5, TokenTypes DEF TokenInv, HeldOnce
<1>8. \A m : AddsOf(m)' <=> AddsOf(m)
  BY <1>2 DEF AddsOf
<1>9. \A m \in Task : Out(m) => Out(m)'
  BY <1>6, <1>8, TokenTypes DEF Out
<1>10. QueueNames'
  BY <1>2, <1>7 DEF TokenInv, QueueNames
<1>11. HeldOnce'
  BY <1>2, <1>6, <1>7, <1>8 DEF TokenInv, HeldOnce
<1>12. Out(x.name)'
  BY <1>5, <1>6, <1>7, <1>8, TokenTypes DEF Out
<1>13. QueuedOut'
  BY <1>2, <1>9, <1>12, TokenTypes DEF TokenInv, QueuedOut
<1>14. ScriptFresh' /\ AddsDistinct'
  BY <1>2, <1>8 DEF TokenInv, ScriptFresh, AddsDistinct
<1>15. CancelsOwn'
  <2> SUFFICES ASSUME NEW c \in Client, NEW i \in DOMAIN script[c], script[c][i].op = "cancel"
               PROVE  AddedBefore(c, i)'
    BY <1>2 DEF CancelsOwn
  <2>1. AddedBefore(c, i) /\ script[c][i].task \in Task
    BY ScriptCalls DEF TokenInv, CancelsOwn
  <2> QED
    BY <1>2, <1>6, <1>8, <2>1, TokenTypes DEF AddedBefore
<1>16. RepeatsLeft'
  <2>1. Left(x, 1)
    BY <1>1, <1>2 DEF TokenInv, RepeatsLeft, Carrying
  <2> QED
    BY <1>2, <1>3, <1>4, <2>1 DEF TokenInv, RepeatsLeft, Left, Carrying
<1> QED
  BY <1>9, <1>10, <1>11, <1>13, <1>14, <1>15, <1>16 DEF TokenInv

LEMMA PopTokenInv ==
  ASSUME ThreadInv, LookedUp, TokenInv, Pop
  PROVE  TokenInv' /\ \A k \in Task : Out(k) => Out(k)'
<1>1. PICK x \in queue_ : x = local[Worker]
  BY DEF LookedUp, Pop, Goto
<1>2. /\ UNCHANGED <<script, starts, asked, local>> /\ queue_' = queue_ \ {x}
      /\ pc[Worker] = "due" /\ pc' = [pc EXCEPT ![Worker] = "start"] /\ Worker \in Thread
  BY <1>1, Threads DEF Pop, Goto, histories
<1>3. pc'[Worker] = "start" /\ \A u \in Thread : u # Worker => pc'[u] = pc[u]
  BY <1>2 DEF ThreadInv, Types
<1>4. x.name \in Task /\ Held[Worker] = "none"
  BY <1>1, <1>2, TokenTypes DEF Carrying
<1>5. Held'[Worker] = x.name /\ \A u \in Thread : u # Worker => Held'[u] = Held[u]
  BY <1>1, <1>2, <1>3 DEF Held, Carrying
<1>6. Out(x.name)
  BY <1>1 DEF TokenInv, QueuedOut
<1>7. /\ \A u \in Thread : Held[u] # x.name
      /\ \A q \in queue_' : q.name # x.name
  BY <1>1, <1>2, <1>4, TokenTypes DEF TokenInv, QueueNames, HeldOnce
<1>8. \A m : AddsOf(m)' <=> AddsOf(m)
  BY <1>2 DEF AddsOf
<1>9. \A m \in Task : Out(m) => Out(m)'
  BY <1>5, <1>8, Threads DEF Out
<1>10. QueueNames'
  BY <1>2 DEF TokenInv, QueueNames
<1>11. ~AddsOf(x.name)
  BY <1>6 DEF Out
<1>12. HeldOnce'
  BY <1>2, <1>5, <1>7, <1>8, <1>11 DEF TokenInv, HeldOnce
<1>13. QueuedOut'
  BY <1>2, <1>9, TokenTypes DEF TokenInv, QueuedOut
<1>14. ScriptFresh' /\ AddsDistinct'
  BY <1>2, <1>8 DEF TokenInv, ScriptFresh, AddsDistinct
<1>15. CancelsOwn'
  <2> SUFFICES ASSUME NEW c \in Client, NEW i \in DOMAIN script[c], script[c][i].op = "cancel"
               PROVE  AddedBefore(c, i)'
    BY <1>2 DEF CancelsOwn
  <2>1. AddedBefore(c, i) /\ script[c][i].task \in Task
    BY ScriptCalls DEF TokenInv, CancelsOwn
  <2> QED
    BY <1>2, <1>5, <1>8, <2>1, Threads DEF AddedBefore
<1>16. RepeatsLeft'
  <2>1. Left(x, 1)
    BY <1>1 DEF TokenInv, RepeatsLeft
  <2> QED
    BY <1>1, <1>2, <1>3, <2>1 DEF TokenInv, RepeatsLeft, Left, Carrying
<1> QED
  BY <1>9, <1>10, <1>12, <1>13, <1>14, <1>15, <1>16 DEF TokenInv

LEMMA StartTokenInv ==
  ASSUME ThreadInv, TokenInv, Start
  PROVE  TokenInv' /\ \A k \in Task : Out(k) => Out(k)'
<1>1. PICK x \in TimerTask : x = local[Worker]
  BY Threads DEF Start, Goto, ThreadInv, LocalsHeld, Carrying
<1>2. /\ UNCHANGED <<script, queue_, asked, local>> /\ pc[Worker] = "start" /\ Worker \in Thread
      /\ starts' = [starts EXCEPT ![x.name] = OneMore(@)]
      /\ pc' = [pc EXCEPT ![Worker] = IF x.repeated THEN "again" ELSE "test"]
  BY <1>1, Threads DEF Start, Goto
<1>3. /\ pc'[Worker] = IF x.repeated THEN "again" ELSE "test"
      /\ \A u \in Thread : u # Worker => pc'[u] = pc[u]
  BY <1>2 DEF ThreadInv, Types
<1>4. Held[Worker] = x.name /\ x.name \in Task
  BY <1>1, <1>2, TokenTypes DEF Carrying
<1>5. \A t \in Thread : Held'[t] = Held[t] \/ Held'[t] = "none"
  BY <1>2, <1>3 DEF Held, Carrying
<1>6. /\ \A u \in Thread : Held[u] = x.name => u = Worker
      /\ \A q \in queue_ : q.name # x.name
      /\ ~AddsOf(x.name)
  BY <1>2, <1>4, TokenTypes DEF TokenInv, HeldOnce
<1>7. \A m : AddsOf(m)' <=> AddsOf(m)
  BY <1>2 DEF AddsOf
<1>8. /\ \A m \in Task : m # x.name => starts'[m] = starts[m]
      /\ starts'[x.name] <= starts[x.name] + 1 /\ starts[x.name] \in Nat /\ starts'[x.name] \in Nat
  BY <1>2, <1>4, Counting DEF ThreadInv, Types
<1>9. ScriptFresh'
  BY <1>2, <1>6, <1>7, <1>8 DEF TokenInv, ScriptFresh
<1>10. RepeatsLeft'
  <2>1. Left(x, 1)
    BY <1>1, <1>2 DEF TokenInv, RepeatsLeft, Carrying
  <2>2. asked[x.name] \in Int /\ x.repeat_num \in Int
    BY <1>4 DEF ThreadInv, Types, TimerTask
  <2>3. Left(x, 0)'
    BY <1>2, <1>8, <2>1, <2>2 DEF Left
  <2>4. asked[x.name] > 0 => starts'[x.name] <= asked[x.name]
    BY <1>8, <2>1, <2>2 DEF Left
  <2>5. ASSUME NEW q \in queue_ PROVE Left(q, 1)'
    BY <1>2, <1>6, <1>8, TokenTypes DEF TokenInv, RepeatsLeft, Left
  <2>6. ASSUME NEW t \in Thread, t # Worker, pc[t] \in Carrying
        PROVE  Left(local[t], IF pc[t] = "again" THEN 0 ELSE 1)'
    <3>1. local[t].name # x.name /\ local[t].name \in Task /\ local'[t] = local[t] /\ pc'[t] = pc[t]
      BY <1>2, <1>3, <1>6, <2>6, TokenTypes
    <3> QED
      BY <1>2, <1>8, <2>6, <3>1 DEF TokenInv, RepeatsLeft, Left
  <2>7. \A m \in Task : asked'[m] > 0 => starts'[m] <= asked'[m]
    BY <1>2, <1>8, <2>4 DEF TokenInv, RepeatsLeft
  <2> QED
    BY <1>1, <1>2, <1>3, <2>3, <2>5, <2>6, <2>7 DEF RepeatsLeft, Carrying
<1> QED
  BY <1>2, <1>5, <1>9, <1>10, FewerHeld DEF TokenInv

LEMMA AgainTokenInv ==
  ASSUME ThreadInv, TokenInv, Again
  PROVE  TokenInv' /\ \A k \in Task : Out(k) => Out(k)'
<1>1. /\ UNCHANGED <<script, queue_, starts, asked>> /\ pc[Worker] = "again" /\ Worker \in Thread
  BY AgainMoves DEF histories
<1>2. CASE pc' = [pc EXCEPT ![Worker] = "test"] /\ local' = local
  <2>1. Calm
    BY <1>1, <1>2 DEF Calm, CarriesOn, SameToken, Carrying, ThreadInv, Types
  <2> QED
    BY <1>1, <2>1, CalmTokenInv, HeldCarried, FewerHeld DEF Calm
<1>3. ASSUME NEW x \in TimerTask, local' = [local EXCEPT ![Worker] = x],
             x.name = local[Worker].name, x.repeated = local[Worker].repeated,
             x.repeat_num = OneLess(local[Worker].repeat_num),
             local[Worker].repeat_num # 0, pc' = [pc EXCEPT ![Worker] = "check"]
      PROVE  TokenInv' /\ \A k \in Task : Out(k) => Out(k)'
  <2>1. /\ pc'[Worker] = "check" /\ local'[Worker] = x
        /\ \A u \in Thread : u # Worker => pc'[u] = pc[u] /\ local'[u] = local[u]
    BY <1>1, <1>3 DEF ThreadInv, Types
  <2>2. \A t \in Thread : Held'[t] = Held[t] \/ Held'[t] = "none"
    BY <1>1, <1>3, <2>1 DEF Held, Carrying
  <2>3. ScriptFresh'
    BY <1>1 DEF TokenInv, ScriptFresh, AddsOf
  <2>4. Left(local[Worker], 0)
    BY <1>1 DEF TokenInv, RepeatsLeft, Carrying
  <2>5. /\ asked[x.name] \in Int /\ starts[x.name] \in Nat
        /\ local[Worker].repeat_num \in Int /\ x.repeat_num \in Int
    BY <1>1, <1>3, AgainMoves DEF ThreadInv, Types, TimerTask
  <2>6. Left(x, 1)'
    BY <1>1, <1>3, <2>4, <2>5 DEF Left, OneLess
  <2>7. RepeatsLeft'
    BY <1>1, <2>1, <2>6 DEF TokenInv, RepeatsLeft, Left, Carrying
  <2> QED
    BY <1>1, <2>2, <2>3, <2>7, FewerHeld DEF TokenInv
<1> QED
  BY <1>2, <1>3, AgainMoves

LEMMA TickTokenInv ==
  ASSUME ThreadInv, TokenInv, Tick
  PROVE  TokenInv' /\ \A k \in Task : Out(k) => Out(k)'
<1>1. /\ UNCHANGED <<script, starts, asked, pc>> /\ queue_' = {A!Older(q) : q \in queue_}
  BY DEF Tick, histories
<1>2. CarriesOn
  BY <1>1, TickMoves, OlderTask, TokenTypes DEF CarriesOn, SameToken
<1>3. \A q \in queue_' : \E p \in queue_ : q = A!Older(p) /\ SameToken(q, p)
  BY <1>1, OlderTask, TokenTypes DEF SameToken
<1>4. Held' = Held
  BY <1>1, <1>2 DEF CarriesOn, SameToken, Held
<1>5. \A m : AddsOf(m)' <=> AddsOf(m)
  BY <1>1 DEF AddsOf
<1>6. \A m \in Task : Out(m)' <=> Out(m)
  BY <1>4, <1>5 DEF Out
<1>7. QueueNames'
  BY <1>3 DEF SameToken, TokenInv, QueueNames
<1>8. HeldOnce'
  BY <1>3, <1>4, <1>5 DEF SameToken, TokenInv, HeldOnce
<1>9. QueuedOut'
  BY <1>3, <1>6, TokenTypes DEF SameToken, TokenInv, QueuedOut
<1>10. ScriptFresh' /\ AddsDistinct'
  BY <1>1, <1>5 DEF TokenInv, ScriptFresh, AddsDistinct
<1>11. CancelsOwn'
  <2> SUFFICES ASSUME NEW c \in Client, NEW i \in DOMAIN script[c], script[c][i].op = "cancel"
               PROVE  AddedBefore(c, i)'
    BY <1>1 DEF CancelsOwn
  <2>1. AddedBefore(c, i) /\ script[c][i].task \in Task
    BY ScriptCalls DEF TokenInv, CancelsOwn
  <2> QED
    BY <1>1, <1>4, <1>5, <2>1 DEF AddedBefore
<1>12. RepeatsLeft'
  <2>1. \A q \in queue_' : Left(q, 1)'
    BY <1>1, <1>3 DEF SameToken, TokenInv, RepeatsLeft, Left
  <2> QED
    BY <1>1, <1>2, <2>1 DEF CarriesOn, SameToken, TokenInv, RepeatsLeft, Left
<1> QED
  BY <1>6, <1>7, <1>8, <1>9, <1>10, <1>11, <1>12 DEF TokenInv

LEMMA InitTokenInv == ASSUME Init PROVE TokenInv
<1>1. /\ \A t \in Thread : Held[t] = "none" /\ pc[t] \notin Carrying
      /\ queue_ = {} /\ script \in Script
  BY DEF Init, Held, Carrying
<1>2. /\ \A k \in Task : starts[k] = 0 /\ asked[k] = 0
      /\ \A k \in Task : "none" # k
  BY TimerAssumption DEF Init
<1>3. QueueNames /\ HeldOnce /\ QueuedOut
  BY <1>1 DEF QueueNames, HeldOnce, QueuedOut
<1>4. ScriptFresh
  BY <1>2 DEF ScriptFresh
<1>5. AddsDistinct
  BY <1>1, ScriptAssumption DEF AddsDistinct
<1>6. CancelsOwn
  BY <1>1, ScriptAssumption DEF CancelsOwn, AddedBefore
<1>7. RepeatsLeft
  BY <1>1, <1>2 DEF RepeatsLeft
<1> QED
  BY <1>3, <1>4, <1>5, <1>6, <1>7 DEF TokenInv

LEMMA StepTokenInv ==
  ASSUME ThreadInv, LookedUp, TokenInv, [Next]_vars
  PROVE  TokenInv' /\ \A k \in Task : Out(k) => Out(k)'
<1> DEFINE Goal == TokenInv' /\ \A k \in Task : Out(k) => Out(k)'
<1>1. CASE Calm
  <2>1. UNCHANGED <<script, queue_>>
    BY <1>1 DEF Calm
  <2> QED
    BY <1>1, <2>1, CalmTokenInv, HeldCarried, FewerHeld DEF Calm
<1>2. ASSUME NEW c \in Client, Asks(c) PROVE Goal
  BY <1>2, AskPrepares, AskTokenInv
<1>3. ASSUME NEW c \in Client, Stop(c) PROVE Goal
  BY <1>3, StopTokenInv
<1>4. ASSUME NEW t \in Thread, Push(t) PROVE Goal
  BY <1>4, PushTokenInv
<1>5. CASE Pop \/ Start \/ Again \/ Tick
  BY <1>5, PopTokenInv, StartTokenInv, AgainTokenInv, TickTokenInv
<1> QED
  BY <1>1, <1>2, <1>3, <1>4, <1>5, CalmSteps, Threads
  DEF Next, Ended, ClientStep, WorkerStep, Add, Asks

LEMMA Invariance == Spec => [](ThreadInv /\ WakeInv /\ TokenInv)
<1>1. Init => ThreadInv /\ WakeInv /\ TokenInv
  BY InitThreadInv, InitTokenInv, Threads DEF Init, WakeInv, LookedUp, WakesInTime
<1>2. ThreadInv /\ WakeInv /\ TokenInv /\ [Next]_vars => (ThreadInv /\ WakeInv /\ TokenInv)'
  BY StepThreadInv, StepWakeInv, StepTokenInv DEF WakeInv
<1> QED
  BY <1>1, <1>2, PTL DEF Spec

\* A task is at most once in the queue, a repeated one included, and the worker that has
\* the lock has a task of the queue in its hands.
THEOREM TypeCorrect == Spec => []TypeOK
<1>1. ThreadInv /\ WakeInv /\ TokenInv => TypeOK
  <2> SUFFICES ASSUME ThreadInv, WakeInv, TokenInv PROVE TypeOK
    OBVIOUS
  <2>1. \A q \in queue_ : q \in TimerTask /\ \A p \in queue_ : q.name = p.name => q = p
    BY DEF ThreadInv, Types, TokenInv, QueueNames
  <2>2. Locked => local[Worker] \in queue_
    BY DEF WakeInv, LookedUp, Locked
  <2> QED
    BY <2>1, <2>2 DEF TypeOK, ThreadInv, Types
<1> QED
  BY <1>1, Invariance, PTL

\* The queue of the timer is an alarm clock: a task is given once, and fired once, when
\* it is the first one due and less than a millisecond away.
THEOREM ClockImplemented == Spec => ImplementsAlarmClock
<1>1. Init => A!Init
  BY DEF Init, A!Init
<1>2. ThreadInv /\ WakeInv /\ TokenInv /\ [Next]_vars => [A!Next]_queue_
  <2> SUFFICES ASSUME ThreadInv, WakeInv, TokenInv, [Next]_vars
               PROVE  A!Next \/ UNCHANGED queue_
    OBVIOUS
  <2>1. CASE Calm
    BY <2>1 DEF Calm
  <2>2. ASSUME NEW t \in Thread, Push(t) PROVE A!Next
    <3>1. PICK x \in TimerTask : x = local[t]
      BY <2>2 DEF Push, Goto, ThreadInv, LocalsHeld, Carrying
    <3>2. queue_' = queue_ \cup {x} /\ pc[t] = "push"
      BY <2>2, <3>1 DEF Push, Goto
    <3>3. \A q \in queue_ : q.name # x.name
      BY <3>1, <3>2, TokenTypes DEF TokenInv, HeldOnce, Carrying
    <3>4. A!Give
      BY <3>2, <3>3 DEF A!Give
    <3> QED
      BY <3>4 DEF A!Next
  <2>3. CASE Pop
    <3>1. PICK x \in queue_ : x = local[Worker]
      BY <2>3 DEF WakeInv, LookedUp, Pop, Goto
    <3>2. /\ queue_' = queue_ \ {x} /\ x.time <= duration /\ duration \in Int
          /\ x.time \in Int /\ \A q \in queue_ : x.time <= q.time
      BY <2>3, <3>1, OlderTask DEF WakeInv, LookedUp, Pop, Goto, ThreadInv, Types
    <3>3. x.time < Milli
      BY <2>3, <3>2, TimerAssumption DEF Pop, Whole
    <3> QED
      BY <3>2, <3>3 DEF A!Fire, A!Next
  <2>4. CASE Tick
    BY <2>4 DEF Tick, A!Tick, A!Next
  <2>5. ASSUME NEW c \in Client, Asks(c) PROVE UNCHANGED queue_
    BY <2>5, AskPrepares DEF Call
  <2>6. ASSUME NEW c \in Client, Stop(c) PROVE UNCHANGED queue_
    BY <2>6 DEF Stop
  <2>7. CASE Start \/ Again
    BY <2>7 DEF Start, Again
  <2> QED
    BY <2>1, <2>2, <2>3, <2>4, <2>5, <2>6, <2>7, CalmSteps, Threads
    DEF Next, Ended, ClientStep, WorkerStep, Add, Asks
<1> QED
  BY <1>1, <1>2, Invariance, PTL DEF Spec, ImplementsAlarmClock

-----------------------------------------------------------------------------
(* What is still started *)

\* Where the worker is between the start after Stop and the end of its loop.
Leaving == {"again", "check", "stamp", "push", "notify", "test", "exited"}

\* The one start after Stop is that of the task the worker had in its hands.
StopKept ==
  /\ \A c \in Client : pc[c] = "stopNotify" => ~running_
  /\ stopped # NotYet => ~running_
  /\ stopped <= 1
  /\ stopped = 1 => pc[Worker] \in Leaving

Erasing == {"erase", "erasing"}

\* A cancelled task has been added before, and its id is gone from the map for good.
CancelledOut ==
  /\ \A c \in Client : pc[c] \in Erasing => Out(local[c].name)
  /\ \A k \in Task : cancelled[k] # NotYet => Out(k) /\ (~torn => k \notin states)

\* Once it has been started again, it is nowhere but in the hands of the worker that is
\* about to look for its id.
CancelledOnce ==
  ~torn => \A k \in Task :
    /\ cancelled[k] <= 1
    /\ cancelled[k] = 1 => /\ \A q \in queue_ : q.name # k
                           /\ Held[Worker] = k => pc[Worker] = "again"

CancelInv == CancelledOut /\ CancelledOnce

\* A step that does not let go of a task that was cancelled: what comes to the queue was
\* pushed, what comes to the worker was in the queue, and the worker goes on with a task
\* only when it has found the id.
Onward ==
  /\ UNCHANGED cancelled /\ (torn => torn')
  /\ \A c \in Client : pc'[c] \in Erasing =>
       \/ pc[c] \in Erasing /\ local'[c].name = local[c].name
       \/ Out(local[c].name)'
  /\ \A k \in states' : k \in states \/ \E c \in Client : Held[c] = k
  /\ \A q \in queue_' : \/ \E p \in queue_ : p.name = q.name
                        \/ \E t \in Thread : pc[t] = "push" /\ Held[t] = q.name
  /\ \/ /\ Held'[Worker] = Held[Worker]
        /\ pc[Worker] = "again" => pc'[Worker] = "again" \/ Held[Worker] \in states
     \/ Held'[Worker] = "none"
     \/ \E p \in queue_ : p.name = Held'[Worker]

LEMMA OnwardCancelInv ==
  ASSUME ThreadInv, CancelInv, Onward, \A k \in Task : Out(k) => Out(k)'
  PROVE  CancelInv'
<1>1. \A c \in Client : pc'[c] \in Erasing => Out(local[c].name)'
  <2> SUFFICES ASSUME NEW c \in Client, pc[c] \in Erasing, local'[c].name = local[c].name
               PROVE  Out(local[c].name)'
    BY DEF Onward
  <2>1. PICK k \in Task : k = local[c].name
    BY Threads DEF Erasing, ThreadInv, LocalsHeld, TimerTask
  <2> QED
    BY <2>1 DEF CancelInv, CancelledOut
<1>2. ASSUME NEW k \in Task, cancelled'[k] # NotYet
      PROVE  Out(k)' /\ (~torn' => k \notin states')
  BY <1>2 DEF CancelInv, CancelledOut, Onward, Out
<1>3. ASSUME ~torn', NEW k \in Task
      PROVE  /\ cancelled'[k] <= 1
             /\ cancelled'[k] = 1 => /\ \A q \in queue_' : q.name # k
                                     /\ Held'[Worker] = k => pc'[Worker] = "again"
  <2>1. ~torn /\ cancelled'[k] = cancelled[k] /\ cancelled[k] <= 1
    BY <1>3 DEF Onward, CancelInv, CancelledOnce
  <2>2. ASSUME cancelled[k] = 1
        PROVE  /\ Out(k) /\ k \notin states
               /\ \A q \in queue_ : q.name # k
               /\ Held[Worker] = k => pc[Worker] = "again"
    BY <2>1, <2>2 DEF NotYet, CancelInv, CancelledOut, CancelledOnce
  <2>3. ASSUME cancelled[k] = 1, NEW q \in queue_' PROVE q.name # k
    BY <2>2, <2>3, Threads DEF Onward, Out
  <2>4. ASSUME cancelled[k] = 1, Held'[Worker] = k PROVE pc'[Worker] = "again"
    BY <2>2, <2>4, TimerAssumption DEF Onward, Held, Carrying
  <2> QED
    BY <2>1, <2>3, <2>4
<1> QED
  BY <1>1, <1>2, <1>3 DEF CancelInv, CancelledOut, CancelledOnce

\* The steps that move no task, but for EndErase, which takes a task's id out of the map.
LEMMA CalmOnward ==
  ASSUME ThreadInv, Calm, UNCHANGED cancelled, torn => torn',
         \A c \in Client : pc'[c] \in Erasing => pc[c] \in Erasing /\ local'[c].name = local[c].name,
         \A k \in states' : k \in states \/ \E c \in Client : Held[c] = k
  PROVE  Onward
<1>1. Held'[Worker] = Held[Worker] \/ Held'[Worker] = "none"
  BY HeldCarried, Threads DEF Calm
<1>2. Held'[Worker] # "none" => (pc'[Worker] = "again" <=> pc[Worker] = "again")
  BY Threads DEF Calm, CarriesOn, Held
<1>3. queue_' = queue_
  BY DEF Calm
<1> QED
  BY <1>1, <1>2, <1>3 DEF Onward

LEMMA StepOnward ==
  ASSUME ThreadInv, LookedUp, TokenInv, ThreadInv', [Next]_vars
  PROVE  \/ Onward \/ Start
         \/ \E c \in Client : Asks(c) \/ EndErase(c)
<1> USE Threads
<1>1. ASSUME NEW c \in Client, BeginEmplace(c) \/ BeginErase(c) PROVE Onward
  <2>1. Calm
    BY <1>1, CalmSteps
  <2>2. UNCHANGED <<cancelled, states>> /\ (torn => torn')
    BY <1>1 DEF BeginEmplace, BeginErase, BeginWrite, Races, histories
  <2>3. \A d \in Client : pc'[d] \in Erasing => pc[d] \in Erasing /\ local'[d].name = local[d].name
    BY <1>1 DEF BeginEmplace, BeginErase, BeginWrite, Goto, Erasing, ThreadInv, Types
  <2> QED
    BY <2>1, <2>2, <2>3, CalmOnward
<1>2. ASSUME NEW c \in Client, EndEmplace(c) PROVE Onward
  <2>1. Calm
    BY <1>2, CalmSteps
  <2>2. UNCHANGED cancelled /\ (torn => torn')
    BY <1>2 DEF EndEmplace, EndWrite, Races
  <2>3. \A d \in Client : pc'[d] \in Erasing => pc[d] \in Erasing /\ local'[d].name = local[d].name
    BY <1>2 DEF EndEmplace, EndWrite, Goto, Erasing, ThreadInv, Types
  <2>4. states' = states \cup {Held[c]}
    BY <1>2 DEF EndEmplace, EndWrite, Goto, Held, Carrying
  <2> QED
    BY <2>1, <2>2, <2>3, <2>4, CalmOnward
<1>3. ASSUME NEW t \in Thread, Check(t) \/ Stamp(t) PROVE Onward
  <2>1. Calm
    BY <1>3, CalmSteps
  <2>2. UNCHANGED <<cancelled, torn, states>>
    BY <1>3 DEF Check, Stamp, histories, map
  <2>3. /\ pc'[t] \notin Erasing /\ \A u \in Thread : u # t => pc'[u] = pc[u] /\ local'[u] = local[u]
    BY <1>3 DEF Check, Stamp, Goto, Caller, Returned, Erasing, ThreadInv, Types
  <2> QED
    BY <2>1, <2>2, <2>3, CalmOnward
<1>4. ASSUME NEW t \in Thread, NotifyAll(t) \/ (t \in Client /\ NotifyStop(t)) PROVE Onward
  <2>1. Calm
    BY <1>4, CalmSteps
  <2>2. UNCHANGED <<cancelled, torn, states>>
    BY <1>4, NotifiersAre DEF Notify, map
  <2>3. \A d \in Client : pc'[d] \in Erasing => pc[d] \in Erasing /\ local'[d].name = local[d].name
    BY <1>4, NotifiersAre DEF Notify, Caller, Returned, Erasing, ThreadInv, Types
  <2> QED
    BY <2>1, <2>2, <2>3, CalmOnward
<1>5. CASE Test \/ Wait \/ Look \/ WaitFor \/ TimeOut \/ WakeSpuriously \/ UNCHANGED vars
  <2>1. Calm
    BY <1>5, CalmSteps
  <2>2. UNCHANGED <<cancelled, torn, states>>
    BY <1>5 DEF Test, Wait, Look, WaitFor, TimeOut, WakeSpuriously, histories, map, vars
  <2>3. \A d \in Client : pc'[d] = pc[d] /\ local'[d] = local[d]
    BY <1>5 DEF Test, Wait, Look, WaitFor, TimeOut, WakeSpuriously, Goto, Returned, vars, ThreadInv, Types
  <2> QED
    BY <2>1, <2>2, <2>3, CalmOnward
<1>6. ASSUME NEW c \in Client, Stop(c) PROVE Onward
  <2>1. UNCHANGED <<cancelled, torn, states, queue_, local>>
    BY <1>6 DEF Stop, histories, map
  <2>2. pc[c] = "idle" /\ pc' = [pc EXCEPT ![c] = "stopNotify"]
    BY <1>6 DEF Stop, Goto
  <2>3. Held'[Worker] = Held[Worker] /\ pc'[Worker] = pc[Worker]
    BY <2>1, <2>2 DEF Held, ThreadInv, Types
  <2>4. \A d \in Client : pc'[d] \in Erasing => pc[d] \in Erasing
    BY <2>2 DEF Erasing, ThreadInv, Types
  <2> QED
    BY <2>1, <2>3, <2>4 DEF Onward
<1>7. ASSUME NEW t \in Thread, Push(t) PROVE Onward
  <2>1. UNCHANGED <<cancelled, torn, states, local>> /\ queue_' = queue_ \cup {local[t]}
    BY <1>7 DEF Push, histories, map
  <2>2. pc[t] = "push" /\ pc' = [pc EXCEPT ![t] = "notify"]
    BY <1>7 DEF Push, Goto
  <2>3. Held[t] = local[t].name
    BY <2>2 DEF Held, Carrying
  <2>4. \A u \in Thread : u # t => pc'[u] = pc[u]
    BY <2>2 DEF ThreadInv, Types
  <2>5. pc'[t] = "notify"
    BY <2>2 DEF ThreadInv, Types
  <2>6. \/ Held'[Worker] = "none"
        \/ Held'[Worker] = Held[Worker] /\ pc'[Worker] = pc[Worker]
    BY <2>1, <2>4, <2>5 DEF Held, Carrying
  <2>7. \A d \in Client : pc'[d] \in Erasing => pc[d] \in Erasing
    BY <2>4, <2>5 DEF Erasing
  <2>8. \A q \in queue_' : \/ \E p \in queue_ : p.name = q.name
                           \/ \E u \in Thread : pc[u] = "push" /\ Held[u] = q.name
    BY <2>1, <2>2, <2>3
  <2>9. torn => torn'
    BY <2>1
  <2>10. \A d \in Client : pc'[d] \in Erasing => pc[d] \in Erasing /\ local'[d].name = local[d].name
    BY <2>1, <2>7
  <2>11. \A k \in states' : k \in states
    BY <2>1
  <2>12. UNCHANGED cancelled
    BY <2>1
  <2> QED
    BY <2>6, <2>8, <2>9, <2>10, <2>11, <2>12, Zenon DEF Onward
<1>8. CASE Pop
  <2>1. UNCHANGED <<cancelled, torn, states, local>> /\ queue_' \subseteq queue_ /\ local[Worker] \in queue_
    BY <1>8 DEF Pop, Goto, LookedUp, histories, map
  <2>2. pc' = [pc EXCEPT ![Worker] = "start"]
    BY <1>8 DEF Pop, Goto
  <2>3. Held'[Worker] = local[Worker].name
    BY <2>1, <2>2 DEF Held, Carrying, ThreadInv, Types
  <2>4. \A d \in Client : pc'[d] = pc[d]
    BY <2>2 DEF ThreadInv, Types
  <2> QED
    BY <2>1, <2>3, <2>4 DEF Onward
<1>9. CASE Again
  <2>1. UNCHANGED <<cancelled, torn, states, queue_>> /\ pc[Worker] = "again"
    BY <1>9, AgainMoves DEF histories, map
  <2>2. \A d \in Client : pc'[d] = pc[d] /\ local'[d] = local[d]
    BY <1>9, AgainMoves DEF ThreadInv, Types
  <2>3. Held[Worker] = local[Worker].name
    BY <2>1 DEF Held, Carrying
  <2>4. \/ pc'[Worker] = "test"
        \/ /\ pc'[Worker] = "check" /\ local[Worker].name \in states
           /\ local'[Worker].name = local[Worker].name
    BY <1>9, AgainMoves DEF ThreadInv, Types
  <2>5. \/ Held'[Worker] = "none"
        \/ Held'[Worker] = Held[Worker] /\ Held[Worker] \in states
    BY <2>3, <2>4 DEF Held, Carrying
  <2> QED
    BY <2>1, <2>2, <2>5 DEF Onward
<1>10. CASE Tick
  <2>1. UNCHANGED <<cancelled, torn, states, pc>>
    BY <1>10 DEF Tick, histories, map
  <2>2. ASSUME NEW t \in Thread PROVE local'[t].name = local[t].name
    <3>1. local[t] \in TimerTask \/ local[t] = NoTask
      BY DEF ThreadInv, Types
    <3> QED
      BY <1>10, <3>1, TickMoves, OlderTask
  <2>3. Held'[Worker] = Held[Worker]
    BY <2>1, <2>2 DEF Held
  <2>4. \A q \in queue_' : \E p \in queue_ : p.name = q.name
    BY <1>10, TickMoves, OlderTask, TokenTypes
  <2> QED
    BY <2>1, <2>2, <2>3, <2>4 DEF Onward
<1> QED
  BY <1>1, <1>2, <1>3, <1>4, <1>5, <1>6, <1>7, <1>8, <1>9, <1>10
  DEF Next, Ended, ClientStep, WorkerStep, Add, Asks

\* EndErase starts the count of the task that is cancelled.
LEMMA EndEraseCancelInv ==
  ASSUME ThreadInv, TokenInv, CancelInv, NEW c \in Client, EndErase(c),
         \A k \in Task : Out(k) => Out(k)'
  PROVE  CancelInv'
<1>1. /\ pc[c] = "erasing" /\ c \in Thread /\ c # Worker
      /\ pc' = [pc EXCEPT ![c] = "idle"] /\ local' = Returned(c)
      /\ states' = states \ {local[c].name} /\ queue_' = queue_ /\ (torn => torn')
      /\ cancelled' = [cancelled EXCEPT ![local[c].name] = 0]
  BY Threads DEF EndErase, EndWrite, Goto, Races
<1>2. PICK k \in Task : k = local[c].name
  BY <1>1 DEF ThreadInv, LocalsHeld, TimerTask
<1>3. /\ cancelled'[k] = 0 /\ \A m \in Task : m # k => cancelled'[m] = cancelled[m]
  BY <1>1, <1>2 DEF ThreadInv, Types
<1>4. /\ pc'[c] = "idle" /\ \A t \in Thread : t # c => pc'[t] = pc[t] /\ local'[t] = local[t]
  BY <1>1 DEF Returned, ThreadInv, Types
<1>5. Held'[Worker] = Held[Worker] /\ pc'[Worker] = pc[Worker]
  BY <1>1, <1>4, Threads DEF Held
<1>6. Out(k) /\ k \notin states'
  BY <1>1, <1>2 DEF CancelInv, CancelledOut, Erasing
<1>7. ASSUME NEW d \in Client, pc'[d] \in Erasing PROVE Out(local[d].name)'
  <2>1. d # c /\ pc[d] \in Erasing /\ local'[d] = local[d] /\ d \in Thread
    BY <1>4, <1>7, Threads DEF Erasing
  <2>2. PICK m \in Task : m = local[d].name
    BY <2>1 DEF Erasing, ThreadInv, LocalsHeld, TimerTask
  <2>3. Out(m)'
    BY <2>1, <2>2 DEF CancelInv, CancelledOut
  <2> QED
    BY <2>1, <2>2, <2>3
<1>8. ASSUME NEW m \in Task, cancelled'[m] # NotYet
      PROVE  Out(m)' /\ (~torn' => m \notin states')
  <2>1. CASE m = k
    BY <1>6, <2>1
  <2>2. CASE m # k
    BY <1>1, <1>3, <1>8, <2>2 DEF CancelInv, CancelledOut
  <2> QED
    BY <2>1, <2>2
<1>9. CancelledOnce'
  BY <1>1, <1>3, <1>5 DEF CancelInv, CancelledOnce
<1> QED
  BY <1>7, <1>8, <1>9 DEF CancelInv, CancelledOut

\* A cancelled task that is started has not been started since, and is the worker's.
LEMMA StartCancelInv ==
  ASSUME ThreadInv, TokenInv, CancelInv, Start, \A k \in Task : Out(k) => Out(k)'
  PROVE  CancelInv'
<1>1. PICK x \in TimerTask : x = local[Worker]
  BY Threads DEF Start, Goto, ThreadInv, LocalsHeld, Carrying
<1>2. /\ pc[Worker] = "start" /\ Worker \in Thread /\ UNCHANGED <<queue_, local, states, torn>>
      /\ pc' = [pc EXCEPT ![Worker] = IF x.repeated THEN "again" ELSE "test"]
      /\ cancelled' = [cancelled EXCEPT ![x.name] = Since(@)]
  BY <1>1, Threads DEF Start, Goto, map
<1>3. /\ pc'[Worker] = IF x.repeated THEN "again" ELSE "test"
      /\ \A t \in Thread : t # Worker => pc'[t] = pc[t]
  BY <1>2 DEF ThreadInv, Types
<1>4. Held[Worker] = x.name /\ x.name \in Task
  BY <1>1, <1>2, TokenTypes DEF Carrying
<1>5. Held'[Worker] = "none" \/ (Held'[Worker] = x.name /\ pc'[Worker] = "again")
  BY <1>1, <1>2, <1>3 DEF Held, Carrying
<1>6. \A q \in queue_ : q.name # x.name
  BY <1>2, <1>4, TokenTypes DEF TokenInv, HeldOnce
<1>7. /\ cancelled'[x.name] = Since(cancelled[x.name])
      /\ cancelled[x.name] \in NotYet .. MaxStarts
      /\ \A m \in Task : m # x.name => cancelled'[m] = cancelled[m]
  BY <1>2, <1>4 DEF ThreadInv, Types
<1>8. cancelled'[x.name] # NotYet <=> cancelled[x.name] # NotYet
  BY <1>7, TimerAssumption DEF Since, OneMore, NotYet
<1>9. ASSUME NEW c \in Client, pc'[c] \in Erasing PROVE Out(local[c].name)'
  <2>1. c # Worker /\ c \in Thread /\ pc[c] \in Erasing
    BY <1>3, <1>9, Threads
  <2>2. PICK m \in Task : m = local[c].name
    BY <2>1 DEF Erasing, ThreadInv, LocalsHeld, TimerTask
  <2>3. Out(m)'
    BY <2>1, <2>2 DEF CancelInv, CancelledOut
  <2> QED
    BY <1>2, <2>2, <2>3
<1>10. ASSUME NEW m \in Task, cancelled'[m] # NotYet
       PROVE  Out(m)' /\ (~torn' => m \notin states')
  BY <1>2, <1>7, <1>8, <1>10 DEF CancelInv, CancelledOut
<1>11. ASSUME ~torn PROVE cancelled'[x.name] <= 1
  <2>1. cancelled[x.name] <= 1 /\ cancelled[x.name] # 1
    BY <1>2, <1>4, <1>11 DEF CancelInv, CancelledOnce
  <2> QED
    BY <1>7, <2>1, TimerAssumption DEF Since, OneMore, NotYet
<1>12. ASSUME ~torn, NEW m \in Task, m # x.name
       PROVE  /\ cancelled'[m] <= 1
              /\ cancelled'[m] = 1 => /\ \A q \in queue_' : q.name # m
                                      /\ Held'[Worker] = m => pc'[Worker] = "again"
  BY <1>2, <1>5, <1>7, <1>12, TimerAssumption DEF CancelInv, CancelledOnce
<1>13. CancelledOnce'
  BY <1>2, <1>5, <1>6, <1>11, <1>12, TimerAssumption DEF CancelledOnce
<1> QED
  BY <1>9, <1>10, <1>13 DEF CancelInv, CancelledOut

\* CancelRepeatedTask: its client has added the task before.
LEMMA AskOnward ==
  ASSUME ThreadInv, TokenInv, TokenInv', NEW c \in Client, NEW op, NEW label, NEW x,
         Call(c, op, label, x), Prepared(Head(script[c]), label, x),
         \A k \in Task : Out(k) => Out(k)'
  PROVE  Onward
<1> DEFINE call == Head(script[c])
<1>1. /\ UNCHANGED <<queue_, cancelled, states, torn>> /\ c \in Thread /\ c # Worker
      /\ pc[c] = "idle" /\ pc' = [pc EXCEPT ![c] = label] /\ local' = [local EXCEPT ![c] = x]
      /\ script[c] # <<>>
  BY Threads DEF Call, Goto, histories, map
<1>2. /\ call = script[c][1] /\ 1 \in DOMAIN script[c] /\ call.task \in Task /\ x.name = call.task
      /\ DOMAIN script[c] \subseteq Nat \ {0}
  <2>1. script[c] \in Seq(CallOf)
    BY DEF ThreadInv, Types
  <2>2. DOMAIN script[c] \subseteq Nat \ {0}
    BY <2>1
  <2> QED
    BY <1>1, <2>2, HeadCall DEF Prepared, CallOf
<1>3. /\ \A t \in Thread : t # c => pc'[t] = pc[t] /\ local'[t] = local[t]
      /\ pc'[c] = label /\ local'[c] = x
  BY <1>1 DEF ThreadInv, Types
<1>4. Held'[Worker] = Held[Worker] /\ pc'[Worker] = pc[Worker]
  BY <1>1, <1>3, Threads DEF Held
<1>5. ASSUME label \in Erasing PROVE Out(x.name)'
  <2>1. call.op = "cancel"
    BY <1>5 DEF Prepared, Erasing
  <2>2. AddedBefore(c, 1)
    BY <1>2, <2>1 DEF TokenInv, CancelsOwn
  <2>3. ~AddsOf(x.name) /\ \A d \in Client : Held[d] = x.name => d = c
    BY <1>2, <2>2 DEF AddedBefore
  <2>4. Held[c] = "none" /\ "none" \notin Task
    BY <1>1, TokenTypes DEF Carrying
  <2>5. Out(x.name)
    BY <1>2, <2>3, <2>4 DEF Out
  <2>6. PICK k \in Task : k = x.name
    BY <1>2
  <2> QED
    BY <2>5, <2>6
<1>6. ASSUME NEW d \in Client, pc'[d] \in Erasing
      PROVE  \/ pc[d] \in Erasing /\ local'[d].name = local[d].name
             \/ Out(local[d].name)'
  <2>1. CASE d = c
    BY <1>3, <1>5, <1>6, <2>1
  <2>2. CASE d # c
    BY <1>3, <1>6, <2>2, Threads
  <2> QED
    BY <2>1, <2>2
<1> QED
  BY <1>1, <1>4, <1>6 DEF Onward

LEMMA StepCancelInv ==
  ASSUME ThreadInv, LookedUp, TokenInv, CancelInv, ThreadInv', TokenInv', [Next]_vars
  PROVE  CancelInv'
<1>1. \A k \in Task : Out(k) => Out(k)'
  BY StepTokenInv
<1>2. CASE Onward
  BY <1>1, <1>2, OnwardCancelInv
<1>3. CASE Start
  BY <1>1, <1>3, StartCancelInv
<1>4. ASSUME NEW c \in Client, EndErase(c) PROVE CancelInv'
  BY <1>1, <1>4, EndEraseCancelInv
<1>5. ASSUME NEW c \in Client, Asks(c) PROVE CancelInv'
  <2>1. Onward
    BY <1>1, <1>5, AskPrepares, AskOnward
  <2> QED
    BY <1>1, <2>1, OnwardCancelInv
<1> QED
  BY <1>2, <1>3, <1>4, <1>5, StepOnward

LEMMA StopStill ==
  ASSUME StopKept, UNCHANGED <<running_, stopped>>,
         \A c \in Client : pc'[c] = "stopNotify" => pc[c] = "stopNotify",
         ~running_ /\ pc[Worker] \in Leaving => pc'[Worker] \in Leaving
  PROVE  StopKept'
  BY DEF StopKept, Leaving, NotYet

LEMMA StepStopKept == ASSUME ThreadInv, StopKept, [Next]_vars PROVE StopKept'
<1> USE Threads
<1>1. ASSUME NEW c \in Client, Asks(c) PROVE StopKept'
  <2>1. PICK op, label, x : Call(c, op, label, x) /\ Prepared(Head(script[c]), label, x)
    BY <1>1, AskPrepares
  <2>2. /\ UNCHANGED <<running_, stopped>> /\ label # "stopNotify"
        /\ pc[c] = "idle" /\ pc' = [pc EXCEPT ![c] = label]
    BY <2>1 DEF Call, Goto, histories, Prepared
  <2> QED
    BY <2>2, StopStill DEF ThreadInv, Types
<1>2. ASSUME NEW c \in Client, Stop(c) PROVE StopKept'
  <2>1. running_' = FALSE /\ stopped' = stopped /\ pc'[Worker] = pc[Worker]
    BY <1>2 DEF Stop, Goto, histories, ThreadInv, Types
  <2> QED
    BY <2>1 DEF StopKept
<1>3. ASSUME NEW c \in Client, BeginEmplace(c) \/ EndEmplace(c) \/ BeginErase(c) \/ EndErase(c)
      PROVE  StopKept'
  <2>1. UNCHANGED <<running_, stopped>>
    BY <1>3 DEF BeginEmplace, EndEmplace, BeginErase, EndErase, BeginWrite, EndWrite, histories
  <2>2. \E label \in {"emplacing", "check", "erasing", "idle"} : pc' = [pc EXCEPT ![c] = label]
    BY <1>3 DEF BeginEmplace, EndEmplace, BeginErase, EndErase, BeginWrite, EndWrite, Goto
  <2> QED
    BY <2>1, <2>2, StopStill DEF ThreadInv, Types
<1>4. ASSUME NEW t \in Thread, Check(t) \/ Stamp(t) \/ Push(t) PROVE StopKept'
  <2>1. UNCHANGED <<running_, stopped>>
    BY <1>4 DEF Check, Stamp, Push, histories
  <2>2. \E label \in {"stamp", "push", "notify", Caller(t)} : pc' = [pc EXCEPT ![t] = label]
    BY <1>4 DEF Check, Stamp, Push, Goto
  <2>3. /\ pc'[t] \in {"stamp", "push", "notify", IF t = Worker THEN "test" ELSE "idle"}
        /\ \A u \in Thread : u # t => pc'[u] = pc[u]
    BY <2>2 DEF Caller, ThreadInv, Types
  <2> QED
    BY <2>1, <2>3, StopStill DEF Leaving
<1>5. ASSUME NEW t \in Thread, NotifyAll(t) \/ (t \in Client /\ NotifyStop(t)) PROVE StopKept'
  <2>1. PICK from \in {"notify", "stopNotify"} : Notify(t, from, Caller(t))
    BY <1>5, NotifiersAre
  <2>2. /\ pc[t] = from /\ running_' = running_
        /\ \A u \in Thread :
             pc'[u] = IF u = t THEN Caller(t) ELSE IF u = Worker THEN Awake(pc[u]) ELSE pc[u]
    BY <2>1 DEF Notify, Awake, Caller, ThreadInv, Types
  <2>3. \A c \in Client : pc'[c] = "stopNotify" => pc[c] = "stopNotify"
    BY <2>2 DEF Caller
  <2>4. pc[Worker] \in Leaving => pc'[Worker] \in Leaving
    BY <2>2 DEF Caller, Awake, Leaving
  <2>5. CASE NotifyAll(t)
    BY <2>2, <2>3, <2>4, <2>5, StopStill DEF NotifyAll
  <2>6. CASE t \in Client /\ NotifyStop(t)
    <3>1. stopped' = 0 /\ pc[t] = "stopNotify"
      BY <2>6 DEF NotifyStop, Notify
    <3> QED
      BY <2>2, <2>3, <2>6, <3>1 DEF StopKept
  <2> QED
    BY <1>5, <2>5, <2>6
<1>6. CASE Test \/ Wait \/ Look \/ WaitFor \/ TimeOut \/ WakeSpuriously \/ Pop
  <2>1. UNCHANGED <<running_, stopped>>
    BY <1>6 DEF Test, Wait, Look, WaitFor, TimeOut, WakeSpuriously, Pop, histories
  <2>2. \A c \in Client : pc'[c] = pc[c]
    BY <1>6 DEF Test, Wait, Look, WaitFor, TimeOut, WakeSpuriously, Pop, Goto, ThreadInv, Types
  <2>3. ~running_ /\ pc[Worker] \in Leaving => pc'[Worker] \in Leaving
    BY <1>6 DEF Test, Wait, Look, WaitFor, TimeOut, WakeSpuriously, Pop, Goto, Leaving,
                ThreadInv, Types
  <2> QED
    BY <2>1, <2>2, <2>3, StopStill
<1>7. CASE Start
  <2>1. /\ running_' = running_ /\ stopped' = Since(stopped) /\ pc[Worker] = "start"
        /\ pc'[Worker] \in {"again", "test"} /\ \A c \in Client : pc'[c] = pc[c]
    BY <1>7 DEF Start, Goto, ThreadInv, Types
  <2>2. stopped # 1 /\ stopped <= 1 /\ stopped \in NotYet .. MaxStarts
    BY <2>1 DEF StopKept, Leaving, ThreadInv, Types
  <2>3. /\ stopped' <= 1 /\ (stopped' # NotYet => stopped # NotYet)
    BY <2>1, <2>2, TimerAssumption DEF Since, OneMore, NotYet
  <2> QED
    BY <2>1, <2>3 DEF StopKept, Leaving
<1>8. CASE Again
  <2>1. /\ UNCHANGED <<running_, stopped>> /\ \A c \in Client : pc'[c] = pc[c]
        /\ pc'[Worker] \in {"check", "test"}
    BY <1>8, AgainMoves DEF histories, ThreadInv, Types
  <2> QED
    BY <2>1, StopStill DEF Leaving
<1>9. CASE Tick \/ UNCHANGED vars
  <2>1. UNCHANGED <<running_, stopped, pc>>
    BY <1>9 DEF Tick, histories, vars
  <2> QED
    BY <2>1, StopStill
<1> QED
  BY <1>1, <1>2, <1>3, <1>4, <1>5, <1>6, <1>7, <1>8, <1>9
  DEF Next, Ended, ClientStep, WorkerStep, Add, Asks

\* After Stop one task at most is started; after CancelRepeatedTask, unless changes of the
\* map have overlapped, its task is started once more at most; and a task that was to be
\* repeated n times is started n times at most.
THEOREM StopsAndCancels == Spec => []OnceMoreAtMost
<1> DEFINE Inv == ThreadInv /\ WakeInv /\ TokenInv /\ CancelInv /\ StopKept
<1>1. Init => Inv
  <2> SUFFICES ASSUME Init PROVE Inv
    OBVIOUS
  <2>1. /\ \A c \in Client : pc[c] = "idle"
        /\ \A k \in Task : cancelled[k] = NotYet
        /\ stopped = NotYet
    BY Threads DEF Init
  <2>2. CancelInv
    BY <2>1 DEF CancelInv, CancelledOut, CancelledOnce, Erasing, NotYet
  <2>3. StopKept
    BY <2>1 DEF StopKept, NotYet
  <2> QED
    BY <2>2, <2>3, InitThreadInv, InitTokenInv, Threads DEF Init, WakeInv, LookedUp, WakesInTime
<1>2. Inv /\ [Next]_vars => Inv'
  BY StepThreadInv, StepWakeInv, StepTokenInv, StepCancelInv, StepStopKept DEF WakeInv
<1>3. Inv => OnceMoreAtMost
  BY DEF StopKept, CancelInv, CancelledOnce, TokenInv, RepeatsLeft, OnceMoreAtMost
<1> QED
  BY <1>1, <1>2, <1>3, PTL DEF Spec

=============================================================================
