------------------------------ MODULE CppMemory -----------------------------
(***************************************************************************)
(* The memory model of C++11 as far as the programs of concurrent/ use it: *)
(* relaxed, acquire, release and seq_cst accesses to atomics, and plain    *)
(* accesses to variables that must not race.                               *)
(*                                                                         *)
(* A location keeps the history of the values stored to it, each with the  *)
(* view of its writer.  A thread may read any value that is not older than *)
(* one it knows of, so a relaxed load may return a stale value; an acquire *)
(* load that reads from a release store learns what the writer knew.  The  *)
(* stores of one location are ordered as they are made.                    *)
(*                                                                         *)
(* A plain access races when another thread's access to the same location, *)
(* one of the two a write, is not ordered before it; `race` remembers it.  *)
(***************************************************************************)
EXTENDS Integers, Sequences, FiniteSetsExt

CONSTANTS Thread,     \* the threads that share the memory
          Location,   \* the variables, atomic and plain
          Plain       \* the plain ones

VARIABLES hist,   \* hist[a] is the sequence of values stored to a, oldest first
          view,   \* view[t] is what t knows of
          race    \* a data race has happened

memVars == <<hist, view, race>>

\* A view: for each location the newest value known, and the plain reads known:
\* <<u, a>> says that the last read of a by u happened before.
View == [seen : [Location -> Nat], reads : SUBSET (Thread \X Plain)]

Nothing == [seen |-> [a \in Location |-> 0], reads |-> {}]

Joined(v, w) ==
  [seen  |-> [a \in Location |-> Max({v.seen[a], w.seen[a]})],
   reads |-> v.reads \cup w.reads]

Knowing(v, a, n) == [v EXCEPT !.seen[a] = Max({@, n})]

Newest(a) == Len(hist[a])

\* The values of a that t may read.
Readable(t, a) == view[t].seen[a]..Newest(a)

\* What t knows after reading value n of a.
Learned(t, a, n, order) ==
  Knowing(IF order \in {"acquire", "seq_cst"} THEN Joined(view[t], hist[a][n].view)
                                             ELSE view[t], a, n)

\* What a store by a thread that knows v tells its readers.
Told(v, order) == IF order \in {"release", "seq_cst"} THEN v ELSE Nothing

-----------------------------------------------------------------------------

\* a.load(order), returning value n.  The programs that use seq_cst use nothing
\* else, so their loads see the newest value.
Load(t, a, order, n) ==
  /\ n \in Readable(t, a)
  /\ order = "seq_cst" => n = Newest(a)
  /\ view' = [view EXCEPT ![t] = Learned(t, a, n, order)]
  /\ UNCHANGED <<hist, race>>

\* a.store(x, order)
Store(t, a, x, order) ==
  LET knows == Knowing(view[t], a, Newest(a) + 1)
  IN  /\ hist' = [hist EXCEPT ![a] = Append(@, [val |-> x, view |-> Told(knows, order)])]
      /\ view' = [view EXCEPT ![t] = knows]
      /\ race' = race

\* A read-modify-write of a that stores x: it reads the newest value, and its own
\* value still tells what that one told (the release sequence goes on).
Exchange(t, a, x, order) ==
  LET n     == Newest(a)
      knows == Knowing(Learned(t, a, n, order), a, n + 1)
      tells == Joined(hist[a][n].view, Told(knows, order))
  IN  /\ hist' = [hist EXCEPT ![a] = Append(@, [val |-> x, view |-> tells])]
      /\ view' = [view EXCEPT ![t] = knows]
      /\ race' = race

\* The value a read-modify-write finds.
Current(a) == hist[a][Newest(a)].val

\* v without the read of a by t, which is about to be repeated.
Forgetting(v, t, a) == [v EXCEPT !.reads = @ \ {<<t, a>>}]

\* A plain read of a, returning value n.
Read(t, a, n) ==
  /\ n \in Readable(t, a)
  /\ race' = (race \/ view[t].seen[a] # Newest(a))
  /\ hist' = [b \in Location |->
                [i \in DOMAIN hist[b] |-> [hist[b][i] EXCEPT !.view = Forgetting(@, t, a)]]]
  /\ view' = [u \in Thread |-> IF u = t THEN [view[t] EXCEPT !.reads = @ \cup {<<t, a>>}]
                                       ELSE Forgetting(view[u], t, a)]

\* A plain write of x to a.
Write(t, a, x) ==
  /\ race' = (race \/ view[t].seen[a] # Newest(a)
                   \/ \E u \in Thread \ {t} : <<u, a>> \notin view[t].reads)
  /\ hist' = [hist EXCEPT ![a] = Append(@, [val |-> x, view |-> Nothing])]
  /\ view' = [view EXCEPT ![t] = Knowing(@, a, Newest(a) + 1)]

\* A store to the atomic a reaches t: no later load of t is older.
Propagate(t, a) ==
  /\ a \notin Plain
  /\ view[t].seen[a] < Newest(a)
  /\ view' = [view EXCEPT ![t] = Knowing(@, a, Newest(a))]
  /\ UNCHANGED <<hist, race>>

-----------------------------------------------------------------------------

\* Every thread knows the initial values.
MemInit(Initial) ==
  /\ hist = [a \in Location |-> <<[val |-> Initial[a], view |-> Nothing]>>]
  /\ view = [t \in Thread |-> [seen  |-> [a \in Location |-> 1], reads |-> Thread \X Plain]]
  /\ race = FALSE

MemTypeOK(Values) ==
  /\ \A a \in Location : hist[a] # <<>> /\ \A i \in DOMAIN hist[a] :
       hist[a][i].val \in Values[a] /\ hist[a][i].view \in View
  /\ view \in [Thread -> View]
  /\ \A t \in Thread, a \in Location : view[t].seen[a] \in 1..Newest(a)
  /\ race \in BOOLEAN

=============================================================================
