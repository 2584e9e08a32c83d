# Verification of coding-notes

TLA+ models of the programs of this repository, checked with TLC and, for all
programs with threads and six of the others, proved with TLAPS. The repository is a collection
of self-contained C++ programs; what is hard in it is in `concurrent/` and
`utils/Timer.cpp`, so that is where the models start. The data structures follow,
each as a small sequential machine under any sequence of calls.

## The system

| component | state | operations | hard part |
|---|---|---|---|
| `concurrent/mutual-exclusion/Dijkstra.cpp` | arrays `selected`, `control`, turn `k`, `counter` (plain ints) | `doit(i)`: entry protocol, count, exit; `judge` calls it `NLOOP` times; `main` creates and joins `N` threads | interleaving of single loads and stores, fairness, store buffers |
| `.../Knuth.cpp` | `control`, `k`, `counter` | the same | the same |
| `.../Lamport.cpp` | `choosing`, `number`, `counter` | the same | the same; torn maximum, ties, growth of tickets |
| `concurrent/SpinLock.h` | `flag_` | `Lock`, `Unlock` | acquire and release order |
| `concurrent/memOrder/*` | a few atomics, one plain int | three litmus programs | the C++ memory orders |
| `concurrent/LockFreeQueue.cpp` | ring `data`, cursors `front_`, `back_`, `write_` | `Push`, `Pop`, `Empty`, `Size` | relaxed and stale cursors compared modulo `capacity`, ABA, slots that are plain memory |
| `concurrent/LockFreeStack.cpp` | `head`, heap nodes | `Push`, `Pop`, `Top`, `Empty` | nodes deleted while another thread reads them, ABA |
| `concurrent/SafeQueue.cpp` | `m_queue` under `m_mutex` | `enqueue`, `dequeue`, `empty`, `size` | test, copy and removal as one step, the lock freed on every return |
| `concurrent/ThreadPool.cpp` | `tasks`, `stop`, workers, `m_mutex`, `m_cv` | constructor, `enqueue`, `enqueueWithFuture`, destructor | wakeups, stop against enqueue, lifetime of a task |
| `utils/Timer.cpp` | queue by time, `running_`, map of repeated tasks | `Run`, `Stop`, `AddTask...`, `AddRepeatedTask`, `CancelRepeatedTask` | detached worker, unlocked flag and map, lifetime of a repeated task |
| `memory/allocator.cpp` | list of blocks from `sbrk` | `Allocate`, `free` | merging of blocks |
| `structure/*` | LRU list and map, heap array, skip list | set/get, push/pop, insert/search/delete | agreement of two structures, boundaries |
| `tree/*` | AVL tree, red-black tree, trie | put, get, delete | rebalancing |
| `algorithm/*` | none | quicksort, digit counting, square root | boundaries |
| `utils/Logger.h`, `stdlib/*` | none | output, library demonstrations | none |

The programs do not call each other; the threads of one program interact through
its shared variables (first seven rows and the timer), through a mutex and a
condition variable (thread pool, timer; the mutex queue has the mutex alone), or not at all. There are no tests but
the assertions in the `main` functions.

What makes each component correct: the mutual exclusion algorithms exclude, lose
no update of `counter` and let every thread finish; the spin lock and litmus
programs have no data race and print what their comments lead one to expect; the
queue is a FIFO queue however its steps interleave; the pool runs every accepted
task once, accepts none after the stop and can be destroyed; the stack never
touches a deleted node and is a LIFO stack; the timer runs tasks not before their time and stops when
told; the containers and trees agree with a map, a bag or a set and keep their
own shape; the algorithms compute what their names say.

## Modules

Shared foundations (what the code runs on, modelled from how the code uses it):

- `SharedMemory`: locations holding ints, with a store buffer of `BufferSize`
  entries per thread. `BufferSize = 0` is sequential consistency, which the papers
  behind the three algorithms assume; `BufferSize > 0` is x86-TSO, which the plain
  ints of the code get from a compiler that keeps the order of the accesses.
- `CppMemory`: the C++11 memory model for relaxed, acquire, release and seq_cst
  accesses, as histories of stores and views of threads, with detection of data
  races on plain variables. It leaves out consume, fences, relaxed loads that read
  values not yet written, and programs that mix seq_cst with other orders.

Abstract specifications:

- `AtomicCounter`: each thread adds one, atomically, a fixed number of times.
- `FifoQueue`: a bounded queue; a push appends, a pop takes the oldest value.
- `LifoStack`: a push puts a value on top, a pop takes the one on top.
- `TaskPool`: tasks are accepted until the pool closes and started in order, once.
- `AlarmClock`: tasks are given with the time they are due in and fired once each, in
  the order of these times and less than a millisecond early at most (the code
  truncates what is left to whole milliseconds).

Detailed specifications:

- `Dijkstra`, `Knuth`, `Lamport`: one action per access to a shared variable that
  another thread writes; `pc[t]` is the statement thread `t` is about to execute,
  the other variables are the locals of `doit` and the loop counter of `judge`
  (`rounds`). A loop that spins on a failed test is a step that keeps `pc`, or a
  step that is not enabled when the loop's body reads nothing else
  (`WaitChoosing`). `N` and `NLOOP` are 5 and 5000 in the code and constants here.
  The `printf` between the load and the store of `counter` locks `stdout`, which
  drains a store buffer: `CsWrite` waits for that.
- `Atomics`: `SpinLock.h` with a client of the model's own, and the three programs
  of `memOrder/`; the initial state chooses the program that runs.
- `LockFreeQueue`: one action per atomic access or access to a slot. Threads are
  the loops of `main`, which retry a call that returns false; a set of quotas says
  how many values each thread pushes or pops, so that the code is also looked at
  with more producers and consumers than `main` has. The histories `seenAt`,
  `fooled` and `lapped` say when a compare-exchange succeeded on a cursor whose
  meaning had changed since it was read.
- `LockFreeStack`: one action per access to `head` or to a node, with the same threads
  and quotas. All accesses to `head` are seq_cst and a node is written before it is
  published, so interleaving is all there is until a node is used after its `delete`;
  `CppMemory` is not needed. `new` may return any address that is free, that of the
  head loaded a moment before included. `broken` is set, and the model stops, when a
  freed node is read or the head is replaced by a successor it no longer had; reading
  a node that has been handed out again is let pass, since the memory is there. The
  destructor runs after the joins.
- `SafeQueue`: the calls between lock and unlock step by step, so that it is the mutex
  and nothing in the model that makes them one; the callers are the model's.
- `Concurrent` composes `Atomics`, `LockFreeQueue`, `LockFreeStack` and `SafeQueue`:
  they share nothing, and a behaviour runs the one it has picked. Fairness is stated
  for each thread of each program.
- `ThreadPool`: one action per stretch of code between two operations on the mutex
  or condition variable. The repository has no user of the pool: clients enqueue the
  tasks of a script, a task may enqueue another, and the owner destroys the pool when
  the clients are done.

- `Timer`: one action per stretch of code that nothing can interrupt: sections under
  `mutex_` are one action, except the worker's, which keeps the mutex from its look at
  the queue (`Look`) to its sleep or its `pop` (label `due`) while `now()` is read and
  time goes on. Times are relative: `Tick` makes every time that is left shorter, so
  the clock has no end and needs no bound; lateness and the counts of starts saturate
  (`MaxLate`, `MaxStarts`). A change of the unlocked `std::map` takes two actions, and
  whoever reads or writes it in between has undefined behaviour: a lookup answers
  anything, and the process may die (`crashed`). The same holds for the callable of a
  repeated task that is called through a dangling reference, if it has state
  (`Capturing`); one without state reads nothing through it.
- `MinHeap`, `LRUCache`, `SkipList`, `TrieTree`, `AvlTree`, `RBTree`, `Allocator`: one
  action per call, or per iteration of the loops in which the structure is out of
  order (the heap's repairs, the skip list's search, the fix-ups of the red-black
  tree). Pointers are names of nodes; a deleted node is `Freed` and may be allocated
  again. Each module keeps what the structure promises beside it (`content`,
  `recent`, `dict`, `words`, `keys`) and compares every answer with it (`wrong`). The
  recursive functions of the AVL tree are recursive operators on trees as values.
- `Quicksort`: the calls of `quit_sort` that are still to come as a stack of ranges,
  and one action per turn of the loop of `quit_sort2`. `CountDigits`: one action per
  digit; all ten counts are kept, though `countDigitOne` returns one of them.
- `Containers` instantiates these with the exception of `AvlTree`, which has recursive
  operators, and names what is checked of them: theorems can be stated about it.
- `Structures` adds the AVL tree and composes all nine: they share nothing, and a
  behaviour exercises the one it has picked, so that one run covers them all.

`MC...` modules give values to constants that a `.cfg` cannot write down.

The definitions called "Seeded bug" in a comment are not part of a specification:
each is a wrong version of the definition that follows, used to see that a
property notices it.

## Runs

| run | instance | states | shows |
|---|---|---|---|
| `dijkstra` | 3 threads, 2 rounds, no buffer | 80,000 | `TypeOK`, `MutualExclusion`, `ImplementsAtomicCounter`, `LastThreadFinishes` |
| `dijkstra_livelock` | 3 threads, 1 round | violation | `Termination` fails |
| `dijkstra_tso` | 2 threads, buffer of 1 | violation | `MutualExclusion` fails |
| `knuth` | 3 threads, 2 rounds, no buffer | 26,000 | as `dijkstra` |
| `knuth_livelock` | 3 threads, 1 round | violation | `Termination` fails |
| `lamport` | 3 threads, 2 + 1 + 1 rounds | 171,000 | exclusion, `FirstComeFirstServed`, `TicketBound`, `ImplementsAtomicCounter`, `Termination` |
| `concurrent` | 2 additions per thread; a ring of 2 slots with quotas 4 to 4, (2, 1) to 3, 2 to (1, 1); 3 nodes with quotas 4 to 3, (2, 1) to 2, 3 to (1, 2); 2 + 2 callers with 2 calls each | 54,000 | `DataRaceFree`, `NoLostAddition`, `Published`, `LoneSidesNeverLapped`, `NodesHaveOneHolder`, `ImplementsFifoQueue` (both queues), `ImplementsLifoStack`, `Termination` |
| `thread_pool` | 2 workers, 2 clients, 4 tasks, 1 spurious wakeup | 26,000 | `ImplementsTaskPool`, `NoWakeupLost`, `EveryTaskRunsOnce`, `Termination` |
| `timer` | 2 clients, 3 scripts with one-time and repeated tasks, 2 ticks to a millisecond | 99,000 | `ImplementsAlarmClock`, `WakesInTime`, `OnceMoreAtMost`, `Progress` |
| `structures` | 3 to 6 keys, see below | 903,000 | `HeapIsPriorityQueue`, `CacheKeepsRecency`, `SkipListKeepsMap`, `TrieInventsNothing`, `SearchTreesKeepKeys`, `BlocksApart`, `AlgorithmsCompute` |
| `rbtree_successor` | 4 keys | violation | `SuccessorReturns` fails |
| `thread_pool_future` | the same as `thread_pool` | violation | `FutureGivesResult` fails |

Why the bounds are enough:

- Three threads are the fewest with which a thread is overtaken by one while it
  waits for another, and a second round is what brings back a thread whose old
  traces (`k`, `control`, a ticket) are still being read. With two rounds for each of
  three threads the bakery has 1.3 million states and the same properties; it is not
  a run because of its length.
- The queue with two slots holds one value, so it is full or empty at every moment
  and its cursors wrap after two moves: the smallest ring has the most boundary
  cases. Four values go round it twice. Rings of three slots with the same threads
  were checked for the safety properties (up to 2.9 million states).
- The stack with three nodes and four pushes has to use an address again; a pusher that
  finds none free waits (the bound: `new` does not fail). Four nodes give the same
  results. A second popper with one pop, beside one with two, is the least that meets
  ABA: two nodes popped and a third pushed at the address of the first. One push more
  than pops leaves a node to the destructor.
- The mutex queue has two callers on either side, so that a caller meets one of its own
  kind and one of the other, and finds the queue empty.
- Two workers are enough for a notification to reach the wrong one; the scripts hold
  more tasks than workers, a task that enqueues another while the destructor runs,
  and a task with a future.

- The timer's scripts hold the cases in which two threads meet: an earlier task pushed
  while the worker sleeps for a later one; a task that is already late; a stop beside
  an addition; a cancellation while the task runs, beside another client's change of
  the map; a repetition without end (`repeat_num` 0). A task needs two ticks to be a
  millisecond away, so that what the code cuts off is there to be seen.
- Heap: 6 places for 3 keys, so that a node has no child, a left one, or both, on three
  levels, with equal keys. Cache: 4 keys in capacities 0 to 3. Skip list: 3 nodes with
  all heights on 4 levels. Trie: words that are prefixes of each other, the empty one
  included. AVL tree: 5 nodes, enough for the rotations that the code gets wrong. Red-
  black tree: 6 keys, enough for a sibling with two children, without which every fix-up
  of a deletion ends in a null access. Allocator: 10 units of 8 bytes, room for four
  blocks. Quicksort: all arrays of up to 5 elements with 3 values, so that parts are
  empty and elements equal. Digits: 0 to 120, 995 to 1003, 9999 and 10000, on both
  sides of powers of ten.
- The runs of the structures may stop: the algorithms when they are done, the trie without a root, the allocator after
  `sbrk` has failed, and the red-black tree after an access through a null pointer have
  no further step. `Structures` has no liveness property.

Fairness. `WF(Step(t))` for every thread: the kernel runs every runnable thread, and
the programs have no other way to go on. Strong fairness is assumed
at one place: a caller of `SafeQueue` gets the mutex if it is free again and again, since
a consumer that polls an empty queue takes it any number of times in between. For
`LockFreeQueue` a pending store becomes visible in the end (`BecomeVisible`), as the
standard asks of implementations. For `LockFreeStack` the destructor's loop
goes on too. For `ThreadPool` a thread that waits for a free
mutex gets it in the end; threads lock it a bounded number of times in a run, so no
stronger fairness is hidden there. For `Timer` clients, the worker and the clock go on; nothing
else wakes a sleeping worker for sure, and no lock is wanted for ever since the worker
gives it up between two tasks. The detached order in which worker threads are
created plays no part: a worker that has not been created yet is one that has not
taken a step.

## What the runs found

- `Dijkstra.cpp` excludes and counts correctly on a sequentially consistent memory,
  and its exit leaves nothing that would hold up a last thread. With two threads it
  also terminates. With three it need not: `k = i` is followed at once by
  `control[i] = 1`, where the published algorithm tests `k` again, so that several
  contenders raise `control`, meet in the scan and fall back, for ever
  (`dijkstra_livelock`). With the test of `k` restored the run passes.
- On x86 the same program lets two threads in, since nothing orders the store to
  `control[i]` before the scan (`dijkstra_tso`). The same holds for the other two
  algorithms, which rest on the same order of a store and a load.
- `Knuth.cpp` restarts its search with `j = k` and decrements `j` at once, so the
  thread that `k` names is never asked. Exclusion is not affected, termination is
  (`knuth_livelock`), even with two threads.
- `Lamport.cpp` has all its properties, although the maximum is read torn
  (`number[j]` once to compare and once to keep).
- `LockFreeQueue.cpp` is a FIFO queue for one producer and one consumer. With two
  producers or two consumers a thread may be lapped, that is, move a cursor on the
  word of values that mean something else by now; until then it is a FIFO queue too.
  With two consumers the read of the slot races with the producer that refills it.
- `LockFreeStack.cpp` is a LIFO stack that deletes every node once, with any number of
  pushers, as long as one thread pops (as in `main`); that a new node may lie where the
  old head was does no harm. With two poppers one may read `next` of a node that the
  other has deleted, or swing the head to a node that is gone (ABA).
- `SafeQueue.cpp` is a FIFO queue. Its move constructor makes an empty one.
- `ThreadPool.cpp` loses no wakeup by notifying after the unlock, runs every accepted
  task once and stops. A task that enqueues after the stop throws in its worker and
  ends the process. The future of `enqueueWithFuture` may break: the queued lambda
  refers to a local of a call that has returned (`thread_pool_future`).
- `Timer.cpp` does not oversleep, drop a task or run one twice; a task may run up to a
  millisecond early. After a stop, and after a cancellation, one more run may follow.
  A stop that finds the queue empty leaves the worker asleep for good, which
  `Progress` therefore excludes; `AddRepeatedTask(0, ...)` repeats for ever. Two
  changes of the map of repeated tasks, or one beside the worker's lookup, are a data
  race: a cancellation may be lost (`OnceMoreAtMost` leaves that out).
- The heap, the LRU cache (with a positive capacity; with 0 it grows without end) and
  the skip list are what they should be.
- The trie forgets words: `Del` removes every node on the way to a word that leads
  nowhere else, whether it ends a word or not, and after the last deletion there is no
  root and every call goes through a null pointer. It never finds a word that is not
  there.
- The AVL tree loses no key, but a wrong height of a new root and the missing double
  rotation leave it unbalanced; a second `Put` of a key adds a second node.
- The red-black tree is correct under insertions. A deletion may follow a null pointer
  (a black sibling whose children are null is the common case), rotates the wrong way
  in the right half, or never returns from `successor`, whose loop `while (p->left)
  p->left;` does not move (`rbtree_successor`; `predecessor` has the same loop). Up to then the tree keeps its
  keys and colours.
- `Quicksort.cpp` and `countDigitOne.cpp` compute what they should; the latter's result
  does not fit its `int` for numbers near 2^31 (not reached by the run), and a negative
  number would index `count` with a negative digit.
- The allocator never uses a block again: nothing links the blocks to `head`. `free`
  merges blocks across memory that others took from `sbrk` in between, so a merged block
  covers what belongs to them; it is harmless only because no block is used again.

## Proofs

A run looks at one small instance; the theorems hold for every value of the
constants that the assumptions allow. Every safety property and every refinement
that the runs check of the programs with threads is proved, and of the data structures
and algorithms what the heap, the cache, the skip list, the trie, the allocator and
quicksort promise.

| module | theorems | of |
|---|---|---|
| `SharedMemoryProofs` | lemmas on loads and stores without a buffer | |
| `DijkstraProofs`, `KnuthProofs` | `TypeOK`, `MutualExclusion`, `ImplementsAtomicCounter` | any number of threads and rounds, `BufferSize = 0` |
| `LamportProofs` | these, `FirstComeFirstServed` and `TicketBound` | the same |
| `ThreadPoolProofs` | `TypeOK`, `NoWakeupLost`, `EveryTaskRunsOnce`, `ImplementsTaskPool` | any clients, workers, tasks, scripts, spurious wakeups |
| `TimerProofs` | `TypeOK`, `WakesInTime`, `OnceMoreAtMost`, `ImplementsAlarmClock` | any clients, tasks, scripts, ticks to a millisecond |
| `ConcurrentProofs` | `TypeOK`, `DataRaceFree`, `NoLostAddition`, `Published`, `LoneSidesNeverLapped`, `NodesHaveOneHolder`, `ImplementsFifoQueue`, `ImplementsLifoStack` | any rounds, rings, addresses, quotas and calls |
| `ContainersProofs` | `HeapIsPriorityQueue`, `CacheKeepsRecency`, `SkipListKeepsMap`, `TrieInventsNothing`, `BlocksApart`, quicksort's `Sorts` | any sequence of calls, with any integers as keys, any capacities, levels, words, sizes and lengths |

### Assumptions

They stand in the modules that declare the constants, and TLC evaluates them on the
instances of the runs.

- `N`, `NLOOP`, `Rounds`, `Calls` and the number of workers are positive, as the
  constants of the code are; the threads are `0..N-1`, and those of `Concurrent` are
  four, as many as `SequentialConsistency.cpp` starts, of which the queue and the stack
  use any. A ring has two slots or more: with one it is full and empty at once.
- `PoolAssumption`: the scripts of the pool are finite sequences of calls, and threads and
  workers are finitely many. `TaskAssumption`: a task stands for one call of `enqueue`, so
  no two calls offer the same one. In the code it is the object that the call makes.
- `TimerAssumption`: the scripts are finite sequences of calls. `ScriptAssumption`: a task
  of the timer stands for one call too, since the ids of repeated tasks come from an
  atomic increment; and a client cancels only an id that its own `AddRepeatedTask` has
  returned to it.
- `ConcurrentAssumption`: there are finitely many addresses, `Null` is none of them, and
  the mark `Freed` is not a node.
- `ContainersAssumption`: keys, values and elements are integers, a heap has room for
  finitely many, the marks `head`, `header`, `NULL` and `Freed` are different from the
  nodes of the cache and the skip list and from each other (`Freed` from their contents),
  `NULL` is no address, `max_level` and the sizes of blocks are natural numbers, and a word
  is a sequence of its letters. Nothing is said of the number of nodes: the cache and the
  skip list take what memory there is.

### Dijkstra and Knuth

`MutualExclusion` is not inductive: it says nothing of a thread that is half way
through its scan. `IInv` adds

- `ControlRaised` (`ControlClaimed`): from its scan to its exit a thread shows in
  `control` that it is there;
- `NeverBothPast`: `Past(t, u)` says that `t` has shown itself and has since found
  `control[u]` down; no two threads have got past each other. A scan step makes one
  more thread passed, and it could only make both passed if the other one, being
  past already, had shown itself, which the step has just refuted;
- `IndexReset` (Dijkstra): a scan starts at 0, so that raising `control` gets a thread
  past nobody;
- `CounterKept`: between a thread's load and its store of `counter` nobody else
  stores, which is exclusion again;
- `RoundsLeft`, `TypeOK` and `BuffersEmpty` (no store is pending).

Each action has a lemma that it keeps `IInv`, with a step for each conjunct.
`CounterRefined` maps `count` to the counter in memory and `left[t]` to the additions
`t` has still to make: `CsWrite` is `Increment`, everything else stutters.

### The bakery

Of two threads at most one `Precedes` the other, because the other is `Behind`
(`QueueOrder`): `u` precedes `t` when it is in the critical section, has passed `t`, has
seen `t` outside of its doorway, or held its ticket when `t` began to choose; `t` is
behind `u` when it has not read `number[u]` yet, or holds a ticket above it or will.
What needs an argument is the torn maximum: a comparison finds `number[j]` larger, and
`Keep` reads it again, perhaps 0 by now. At `keep` the invariant asks that the ticket to be
read is above those of all `u` passed so far; if it has changed since the
comparison, its holder has been in the critical section ahead of `u`, which `u` preceding
`t` rules out. `FirstComeFirstServed` follows from the same invariant, since the threads
`ahead` precede. For `TicketBound` the tickets drawn are counted (`TicketInv`): no ticket
and no maximum is more than the calls that have drawn, and these are among those that
have begun.

### Thread pool

The mutex is held by whoever is at a label inside it, and by nobody else (`TypeOK`).
`NoWakeupLost` is inductive given that: a task comes with a caller that has still to
notify, and a notification turns one of these into a worker that is awake; a worker takes
a task before it stops to be one, or has found the queue empty. `EveryTaskRunsOnce` rests
on `TaskInv`: a task has not been offered, or it is in one place (a caller's hands, the
queue, a worker's), or it has been run; and on `LeftDrained`, that workers leave a pool
only when it is closed and drained. In the refinement of `TaskPool` the task that
`Emplace` puts in the queue is accepted there, and `Take` starts the first one.

### Timer

What the worker has seen of the queue (`LookedUp`) stays true while it holds `mutex_`;
so it sleeps until the first task is due, or a notification is on its way. A task is in
one place at a time, and comes there with the repetitions it has left (`TokenInv`), which
is what makes `queue_` an `AlarmClock`. `OnceMoreAtMost` needs where the worker is after
a stop (`StopKept`: the one start that follows is that of the task it had in its hands)
and after a cancellation (`CancelInv`: the id is out of the map for good, unless changes of
the map have overlapped, and the task once started again is nowhere but in the hands of
the worker that is about to look for its id). Most steps move no task, or drop one; a
lemma for each of these kinds (`CalmTokenInv`, `OnwardCancelInv`) spares a proof per
action.

### Memory orders

Views are what the proofs are about. Spin lock: the value of `flag_` carries a view, and
while nobody holds the lock this view knows the newest `counter` and all the reads of it,
so the next holder races with none and adds to the newest value. Relaxed additions are
read-modify-writes, which read the newest value whatever the view. The flag of
`AcquireReleaseConsistency.cpp` carries the data; in `SequentialConsistency.cpp` `y` is
written after `x`, so that a reader that has seen `y` alone cannot have missed `x`.

### Lock-free queue

The invariant is built in layers, each proved on top of the earlier ones:

1. `QBase`: the memory and the locals have their types; the `n`-th store of a cursor is
   `n - 1` modulo the capacity, so a cursor is known by its number of moves.
2. `QAloneInv`: a lone producer (consumer) knows its own cursor, and a lower bound for
   that of the other side, whatever store it reads: this gives `LoneSidesNeverLapped`,
   with no regard to the rest.
3. `QWindow`, until a thread is lapped: `front <= back <= write < front + capacity`, and
   the places from `back` to `write` are claimed by different threads. Places less than a
   turn apart share a slot only if they are the same.
4. `QSlots`: whoever has read a value of `back_` knows all slots that were filled before
   it was stored, so `readSlot` reads what was pushed.
5. `QRaces`, with one consumer: whoever has read a value of `front_` knows all reads of
   the slots before it, so a slot is filled again only by a thread that has heard of the
   read of its last value.

The refinement maps `queue` to the places from `front` to `back - 1` (`QHolds`). The
compare-exchange of `back_` appends to them, that of `front_` takes the first, and no
other step changes them: a slot that is filled lies outside.

### Mutex queue and stack

`SafeQueue`: a thread inside is the one in `m_mutex`, what it has tested and copied stays
true until it leaves, and the queue is no longer than what has been sent.

`LockFreeStack`: a node is owned by the pusher that has not published it or by the popper
that has taken it out, and nobody else (`SOwners`); the nodes that are not freed and have
no owner are those of the chain, each once (`SChain`); a lone popper that has read the
head looks at a node of the chain, and `next` is still its successor when it swings the
head (`Sure`), for only itself could take the node out, and the nodes under it
do not change. With two poppers `Sure` fails, and that is the ABA. `Chain` is defined by
a choice; `OneChain` shows that there is no other list that `Chain` could be. It goes by
the least place at which two lists differ (`LeastNumber`, from the well-foundedness of the
natural numbers), which is how induction is done here.

### Containers

- Heap. During a repair one element is on its way; `OrderedBut` excuses it: on its way up
  it may be less than its parent, on its way down more than its children, and in both
  cases the parent of the element is not more than the element's children, which is what
  keeps the order when it moves on. When it stops, nothing is excused, and the root is the
  least element, since the least place with a smaller one would have a parent with one
  (`RootIsLeast`). A key is in the array as often as it was pushed and not popped: an
  exchange of two elements is a bijection of the places (`SwapKeepsCounts`).
- Cache. `ListFits` numbers the nodes of the list from the front: these, and no others,
  are not freed, no node has two numbers, each has the pointers to its neighbours, and the
  key and the value of the entry with its number in `recent`. `erase` cuts a number out
  (`EraseFits`), `erase_end` is `erase` at the last one, `insert_front` puts one in front
  (`InsertFits`), and the map keeps up with both (`MapFits`). That what one meets from
  `head` on is this list (`WalkIs`) goes by `LeastNumber`. A cache that is full has `cap`
  entries; that of capacity 0 is full when it is empty, never again, and so grows.
- Skip list. `SkipFits` says for every level that a node's pointer leads to the node with
  the next greater key on it, or to none (`Follows`). This needs no number of a node, so it
  can be said of all levels at once. A search leaves in `update`, for each level it has come
  down, the last node with a smaller key (`Boundary`), and what follows that is the key
  itself, if the level has it (`SearchFinds`). A new node comes behind these (`SkipInsertFits`;
  on a new level behind `header`, where nothing was), and a deleted one is unlinked on
  exactly the levels it is on, which are those from 0 to its height (`SkipLevels`). The
  levels given up at the top are empty, for `header` points to nothing there
  (`SkipUnlinkFits`), and there is a level at which this stops (`SkipShrinks`, by
  `LeastNumber`).
- Allocator. In `BlocksFit` every block ends before the next one of the list begins, or
  before the break, and right there as long as nobody else has moved it. `Allocate` finds
  no block to reuse, since `head->next` is never set (`NothingFits`), and puts a block at
  the break. `free` takes the free blocks that follow out of the list; `RunFits` says that
  these are all those up to the one it stops at, and that their sizes and headers fit in
  between. Both search the list with a recursive function on the headers: that one exists
  (`ListFunction`) and what it computes (`RunsFit`) goes by `LeastNumber` on the distance
  from the break, since every pointer leads upwards. `tail` stays, unless the free blocks
  reach to the end.
- Trie. `TrieInventsNothing` is inductive with the types alone. What it takes is the
  order of prefixes (`PrefixOrder`): two prefixes of a word are prefixes of each other, so
  a node that a deletion leaves on its way has a branch that goes elsewhere, and that
  branch leads to a word that stays.
- Quicksort. The ranges that are still to be sorted (`calls`) lie apart, and any two
  places that are in none of them together are in order already. `Partitioned` says what
  the turns of the loop have found so far: the places before `i` hold less than the pivot,
  those from `i` to before `j` do not. The exchange that puts the pivot between them
  splits the range in two.

### Only model-checked

Liveness under fairness, and `ENABLED` with it (outside what the prover does):
`Termination`, `Progress`, `LastThreadFinishes`. Of `Structures` the search trees and the
count of digits, and so `SearchTreesKeepKeys` and one half of `AlgorithmsCompute`: `AvlTree`
is written with recursive operators, which no module with a theorem may reach; the
red-black tree's fix-ups would need its black heights, a recursive function that each
rotation changes; the count of digits needs nonlinear arithmetic under an induction on the
numbers up to `n`. The memory model itself is a foundation: the theorems say what follows
from it.

## Not modelled

Undefined behaviour that comes from the compiler alone (hoisting the loads of a busy
wait on plain ints), the exceptions of allocation and thread creation, `Empty` and
`Size` of the queue (they change nothing; `Size` is off once the ring has wrapped),
the assertion in the queue's `main` that it is empty while both threads run, and the
calling convention of `pthread_create` with an `int`; destructors of the data
structures, `MinHeap::Top` on an empty heap, the answer of the AVL tree's `Del` (whether
anything is left, not whether something was deleted), the red-black tree's unused
`predecessor`, and the end of a `Timer` whose detached worker still runs. `Empty` and `Top` of
the stack, `empty` and `size` of the mutex queue, and its move constructor, which nothing
calls. `sqrt.cpp` bisects in floating point: whether its loop ends depends on the
rounding of doubles. The logger and the library demonstrations keep no state; the parallel
sum of `stdlib/std_thread.cpp` has no caller, and its file does not compile.

## Plan

1. Foundations, the mutual exclusion algorithms and their proofs; atomics; the
   lock-free queue; the thread pool. (Done.)
2. `Timer` against `AlarmClock`; the data structures, each against its reference.
   (Done.)
3. The lock-free stack against `LifoStack`, the mutex queue against `FifoQueue`, and the
   composition of the concurrent programs; quicksort and digit counting. (Done.)
4. Proofs for the programs with threads. (Done.)
5. Proofs for the heap, the cache, the trie and quicksort. (Done.)
6. Proofs for the skip list and the allocator. (Done.) What is left are the search trees:
   the AVL tree with its recursion as functions, and the red-black tree with the black
   height of every node as a part of the invariant.
