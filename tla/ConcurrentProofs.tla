-------------------------- MODULE ConcurrentProofs --------------------------
(***************************************************************************)
(* The programs of concurrent/ for any number of rounds, any set of pushes *)
(* and pops, and a ring of any size: the spin lock and the flags order the *)
(* plain accesses (AdditionsKept, DataPublished), the lock-free queue      *)
(* misleads no lone side, races with no lone consumer and implements       *)
(* FifoQueue until a thread is lapped, and so does the queue behind a      *)
(* mutex (LoneSidesKeepUp, AccessesOrdered, QueuesImplementFifo); the      *)
(* nodes of the stack have one holder each, and it implements LifoStack    *)
(* until it is broken (OneHolder, StackImplementsLifo).                    *)
(***************************************************************************)
EXTENDS Concurrent, FiniteSetTheorems, WellFoundedInduction, TLAPS

\* The maximum of two numbers.
LEMMA MaxOfTwo ==
  ASSUME NEW m \in Nat, NEW n \in Nat
  PROVE  At!Max({m, n}) = IF m >= n THEN m ELSE n
<1> DEFINE Largest(x) == x \in {m, n} /\ \A y \in {m, n} : x >= y
<1>1. Largest(IF m >= n THEN m ELSE n)
  OBVIOUS
<1>2. \A x : Largest(x) => x = IF m >= n THEN m ELSE n
  OBVIOUS
<1> QED
  BY <1>1, <1>2 DEF At!Max

\* What the proofs use of ConcurrentAssumption.
LEMMA AtomicConstants ==
  /\ Thread = 1 .. 4 /\ Thread \subseteq Nat
  /\ Rounds \in Nat /\ Rounds > 0
BY ConcurrentAssumption

-----------------------------------------------------------------------------
(* The memory of the programs of Atomics *)

\* A stored value with the view that it carries.
AtEntry == [val : 0 .. (3 * Rounds), view : At!View]

\* Histories grow from an initial value, and nobody knows of what is not there.
AtMem ==
  /\ atHist \in [AtomicLocation -> Seq(AtEntry)]
  /\ atView \in [Thread -> At!View]
  /\ \A a \in AtomicLocation :
       /\ At!Newest(a) > 0
       /\ \A i \in 1 .. At!Newest(a), b \in AtomicLocation :
            atHist[a][i].view.seen[b] <= At!Newest(b)
       /\ \A t \in Thread : atView[t].seen[a] \in 1 .. At!Newest(a)

\* The view v knows all that w knows.
Knows(v, w) ==
  /\ w.reads \subseteq v.reads
  /\ \A b \in AtomicLocation : w.seen[b] <= v.seen[b]

\* What two views know together.
LEMMA AtJoined ==
  ASSUME NEW v \in At!View, NEW w \in At!View
  PROVE  /\ At!Joined(v, w) \in At!View
         /\ At!Joined(v, w).reads = v.reads \cup w.reads
         /\ \A a \in AtomicLocation :
              At!Joined(v, w).seen[a] = IF v.seen[a] >= w.seen[a] THEN v.seen[a] ELSE w.seen[a]
<1>1. \A a \in AtomicLocation :
        At!Max({v.seen[a], w.seen[a]}) = IF v.seen[a] >= w.seen[a] THEN v.seen[a] ELSE w.seen[a]
  BY MaxOfTwo DEF At!View
<1> QED
  BY <1>1 DEF At!View, At!Joined

\* What a view knows with one value more.
LEMMA AtKnowing ==
  ASSUME NEW v \in At!View, NEW a \in AtomicLocation, NEW n \in Nat
  PROVE  /\ At!Knowing(v, a, n) \in At!View
         /\ Knows(At!Knowing(v, a, n), v)
         /\ At!Knowing(v, a, n).seen[a] >= n
         /\ \A b \in AtomicLocation : \/ At!Knowing(v, a, n).seen[b] = v.seen[b]
                                      \/ b = a /\ At!Knowing(v, a, n).seen[b] = n
<1>1. At!Max({v.seen[a], n}) = IF v.seen[a] >= n THEN v.seen[a] ELSE n
  BY MaxOfTwo DEF At!View
<1>2. At!Knowing(v, a, n) = [v EXCEPT !.seen = [v.seen EXCEPT ![a] = At!Max({v.seen[a], n})]]
  BY DEF At!Knowing
<1>3. /\ At!Knowing(v, a, n) \in At!View /\ At!Knowing(v, a, n).reads = v.reads
      /\ At!Knowing(v, a, n).seen[a] = At!Max({v.seen[a], n})
      /\ \A b \in AtomicLocation : b # a => At!Knowing(v, a, n).seen[b] = v.seen[b]
  BY <1>1, <1>2 DEF At!View
<1>4. \A b \in AtomicLocation : v.seen[b] \in Nat
  BY DEF At!View
<1> QED
  BY <1>1, <1>3, <1>4 DEF Knows

\* What a view knows without a read.
LEMMA AtForgetting ==
  ASSUME NEW v \in At!View, NEW t, NEW a
  PROVE  /\ At!Forgetting(v, t, a) \in At!View
         /\ At!Forgetting(v, t, a).reads = v.reads \ {<<t, a>>}
         /\ At!Forgetting(v, t, a).seen = v.seen
BY DEF At!View, At!Forgetting

\* The view that knows nothing.
LEMMA AtNothing ==
  /\ At!Nothing \in At!View
  /\ \A a \in AtomicLocation : At!Nothing.seen[a] = 0
BY DEF At!View, At!Nothing

\* The parts of AtMem, one location at a time.
LEMMA AtMemFacts ==
  ASSUME AtMem, NEW a \in AtomicLocation
  PROVE  /\ atHist[a] \in Seq(AtEntry) /\ At!Newest(a) \in Nat /\ At!Newest(a) > 0
         /\ At!Newest(a) = Len(atHist[a])
         /\ \A i \in 1 .. At!Newest(a) :
              /\ atHist[a][i] \in AtEntry
              /\ atHist[a][i].view \in At!View
              /\ atHist[a][i].val \in 0 .. (3 * Rounds)
         /\ At!Current(a) \in 0 .. (3 * Rounds)
<1>1. /\ atHist[a] \in Seq(AtEntry) /\ At!Newest(a) > 0 /\ At!Newest(a) = Len(atHist[a])
      /\ At!Newest(a) \in Nat
  BY DEF AtMem, At!Newest
<1>2. \A i \in 1 .. At!Newest(a) : atHist[a][i] \in AtEntry
  BY <1>1
<1>3. \A i \in 1 .. At!Newest(a) :
        atHist[a][i].view \in At!View /\ atHist[a][i].val \in 0 .. (3 * Rounds)
  BY <1>2 DEF AtEntry
<1> QED
  BY <1>1, <1>2, <1>3 DEF At!Current

\* A view of t that knows at least what t knew, and nothing that is not there.
AtGrows(t) ==
  /\ atView' \in [Thread -> At!View]
  /\ Knows(atView'[t], atView[t])
  /\ \A u \in Thread : u # t => atView'[u] = atView[u]
  /\ \A b \in AtomicLocation : atView'[t].seen[b] <= At!Newest(b)'

\* x is stored to a, with view w.
AtAppends(a, x, w) == atHist' = [atHist EXCEPT ![a] = Append(@, [val |-> x, view |-> w])]

\* What an append does to the histories.
LEMMA AtAppended ==
  ASSUME AtMem, NEW a \in AtomicLocation, NEW x \in 0 .. (3 * Rounds), NEW w \in At!View,
         AtAppends(a, x, w)
  PROVE  /\ atHist' \in [AtomicLocation -> Seq(AtEntry)]
         /\ At!Newest(a)' = At!Newest(a) + 1
         /\ At!Current(a)' = x
         /\ atHist'[a][At!Newest(a) + 1] = [val |-> x, view |-> w]
         /\ \A i \in 1 .. At!Newest(a) : atHist'[a][i] = atHist[a][i]
         /\ \A b \in AtomicLocation : b # a =>
              /\ atHist'[b] = atHist[b] /\ At!Newest(b)' = At!Newest(b)
              /\ At!Current(b)' = At!Current(b)
<1>1. atHist[a] \in Seq(AtEntry) /\ [val |-> x, view |-> w] \in AtEntry
  BY AtMemFacts DEF AtEntry
<1>2. atHist'[a] = Append(atHist[a], [val |-> x, view |-> w])
  BY DEF AtMem, AtAppends
<1>3. Len(atHist'[a]) = Len(atHist[a]) + 1
  BY <1>1, <1>2
<1>4. /\ atHist'[a][Len(atHist[a]) + 1] = [val |-> x, view |-> w]
      /\ \A i \in 1 .. Len(atHist[a]) : atHist'[a][i] = atHist[a][i]
  BY <1>1, <1>2
<1>5. atHist' \in [AtomicLocation -> Seq(AtEntry)]
  BY <1>1 DEF AtMem, AtAppends
<1>6. \A b \in AtomicLocation : b # a => atHist'[b] = atHist[b]
  BY DEF AtMem, AtAppends
<1> QED
  BY <1>3, <1>4, <1>5, <1>6 DEF At!Newest, At!Current

\* The same, whatever view is appended.
LEMMA AtAppendedSome ==
  ASSUME AtMem, NEW a \in AtomicLocation, NEW x \in 0 .. (3 * Rounds),
         \E w \in At!View : AtAppends(a, x, w)
  PROVE  /\ At!Newest(a)' = At!Newest(a) + 1
         /\ At!Current(a)' = x
         /\ \A i \in 1 .. At!Newest(a) : atHist'[a][i] = atHist[a][i]
         /\ \A b \in AtomicLocation : b # a =>
              /\ atHist'[b] = atHist[b] /\ At!Newest(b)' = At!Newest(b)
              /\ At!Current(b)' = At!Current(b)
<1>1. PICK w \in At!View : AtAppends(a, x, w)
  OBVIOUS
<1> QED
  BY <1>1, AtAppended

\* Appending a view that is of the memory, by a thread whose view grows, keeps AtMem.
LEMMA AtAppendMem ==
  ASSUME AtMem, NEW t \in Thread, NEW a \in AtomicLocation, NEW x \in 0 .. (3 * Rounds),
         NEW w \in At!View, AtAppends(a, x, w), AtGrows(t),
         \A b \in AtomicLocation : w.seen[b] <= At!Newest(b)'
  PROVE  AtMem'
<1>0. /\ atHist' \in [AtomicLocation -> Seq(AtEntry)]
      /\ At!Newest(a)' = At!Newest(a) + 1
      /\ atHist'[a][At!Newest(a) + 1] = [val |-> x, view |-> w]
      /\ \A i \in 1 .. At!Newest(a) : atHist'[a][i] = atHist[a][i]
      /\ \A b \in AtomicLocation : b # a =>
           atHist'[b] = atHist[b] /\ At!Newest(b)' = At!Newest(b)
  BY AtAppended
<1>1. \A b \in AtomicLocation : /\ At!Newest(b) \in Nat /\ At!Newest(b) > 0
                                /\ At!Newest(b)' = At!Newest(b) + (IF b = a THEN 1 ELSE 0)
  BY <1>0, AtMemFacts
<1>2. ASSUME NEW b \in AtomicLocation, NEW i \in 1 .. At!Newest(b)', NEW c \in AtomicLocation
      PROVE  atHist'[b][i].view.seen[c] <= At!Newest(c)'
  <2>1. CASE b = a /\ i = At!Newest(a) + 1
    BY <1>0, <2>1
  <2>2. CASE ~(b = a /\ i = At!Newest(a) + 1)
    <3>1. i \in 1 .. At!Newest(b) /\ atHist'[b][i] = atHist[b][i]
      <4>1. CASE b = a
        BY <1>0, <1>1, <2>2, <4>1
      <4>2. CASE b # a
        BY <1>0, <4>2
      <4> QED
        BY <4>1, <4>2
    <3>2. atHist[b][i].view.seen[c] <= At!Newest(c) /\ atHist[b][i].view \in At!View
      BY <3>1, AtMemFacts DEF AtMem
    <3> QED
      BY <1>1, <3>1, <3>2 DEF At!View
  <2> QED
    BY <2>1, <2>2
<1>3. ASSUME NEW b \in AtomicLocation, NEW u \in Thread
      PROVE  atView'[u].seen[b] \in 1 .. At!Newest(b)'
  <2>1. atView[u].seen[b] \in 1 .. At!Newest(b)
    BY DEF AtMem
  <2>2. atView'[u].seen[b] \in Nat
    BY DEF AtGrows, At!View
  <2>3. atView'[u].seen[b] >= 1 /\ atView'[u].seen[b] <= At!Newest(b)'
    BY <1>1, <2>1, <2>2 DEF AtGrows, Knows
  <2> QED
    BY <1>1, <2>2, <2>3
<1> QED
  BY <1>0, <1>1, <1>2, <1>3 DEF AtMem, AtGrows

\* A load: the view grows, by what the value read tells when the load acquires.
LEMMA AtLoadMem ==
  ASSUME AtMem, NEW t \in Thread, NEW a \in AtomicLocation, NEW order, NEW n,
         At!Load(t, a, order, n)
  PROVE  /\ AtMem' /\ atHist' = atHist /\ atRace' = atRace
         /\ n \in 1 .. At!Newest(a)
         /\ AtGrows(t)
         /\ order \in {"acquire", "seq_cst"} => Knows(atView'[t], atHist[a][n].view)
<1> DEFINE v == IF order \in {"acquire", "seq_cst"}
                  THEN At!Joined(atView[t], atHist[a][n].view) ELSE atView[t]
<1>1. /\ atView[t] \in At!View /\ n \in 1 .. At!Newest(a) /\ n \in Nat
      /\ atHist[a][n].view \in At!View
      /\ \A b \in AtomicLocation : /\ atView[t].seen[b] \in 1 .. At!Newest(b)
                                   /\ atHist[a][n].view.seen[b] <= At!Newest(b)
                                   /\ At!Newest(b) \in Nat
  <2>1. n \in 1 .. At!Newest(a)
    BY AtMemFacts DEF AtMem, At!Load, At!Readable
  <2> QED
    BY <2>1, AtMemFacts DEF AtMem
<1>2. /\ v \in At!View /\ Knows(v, atView[t])
      /\ order \in {"acquire", "seq_cst"} => Knows(v, atHist[a][n].view)
      /\ \A b \in AtomicLocation : v.seen[b] <= At!Newest(b)
  BY <1>1, AtJoined DEF Knows, At!View
<1>3. atView' = [atView EXCEPT ![t] = At!Knowing(v, a, n)] /\ atHist' = atHist /\ atRace' = atRace
  BY DEF At!Load, At!Learned
<1>4. At!Knowing(v, a, n) = atView'[t] /\ \A u \in Thread : u # t => atView'[u] = atView[u]
  BY <1>3 DEF AtMem
<1>5. /\ At!Knowing(v, a, n) \in At!View /\ Knows(At!Knowing(v, a, n), v)
      /\ \A b \in AtomicLocation : At!Knowing(v, a, n).seen[b] <= At!Newest(b)
  <2> HIDE DEF v
  <2>1. /\ At!Knowing(v, a, n) \in At!View /\ Knows(At!Knowing(v, a, n), v)
        /\ \A b \in AtomicLocation : \/ At!Knowing(v, a, n).seen[b] = v.seen[b]
                                     \/ b = a /\ At!Knowing(v, a, n).seen[b] = n
    BY <1>1, <1>2, AtKnowing
  <2> QED
    BY <1>1, <1>2, <2>1
<1>6. \A b \in AtomicLocation : At!Newest(b)' = At!Newest(b)
  BY <1>3 DEF At!Newest
<1>7. atView' \in [Thread -> At!View]
  BY <1>3, <1>5 DEF AtMem
<1>8. /\ Knows(At!Knowing(v, a, n), atView[t])
      /\ order \in {"acquire", "seq_cst"} => Knows(At!Knowing(v, a, n), atHist[a][n].view)
  BY <1>1, <1>2, <1>5 DEF Knows, At!View
<1>9. AtGrows(t)
  BY <1>4, <1>5, <1>6, <1>7, <1>8 DEF AtGrows
<1>10. ASSUME NEW b \in AtomicLocation, NEW u \in Thread
       PROVE  atView'[u].seen[b] \in 1 .. At!Newest(b)
  <2>1. atView[u].seen[b] \in 1 .. At!Newest(b) /\ atView'[u].seen[b] \in Nat
    BY <1>7 DEF AtMem, At!View
  <2> QED
    BY <1>1, <1>4, <1>5, <1>8, <2>1 DEF Knows
<1>11. AtMem'
  BY <1>3, <1>6, <1>7, <1>10 DEF AtMem
<1> QED
  BY <1>1, <1>3, <1>4, <1>8, <1>9, <1>11

\* A store: the view grows, and its readers are told all of it when the store releases.
LEMMA AtStoreMem ==
  ASSUME AtMem, NEW t \in Thread, NEW a \in AtomicLocation, NEW order,
         NEW x \in 0 .. (3 * Rounds), At!Store(t, a, x, order)
  PROVE  /\ AtMem' /\ atRace' = atRace
         /\ AtGrows(t)
         /\ \E w \in At!View : /\ AtAppends(a, x, w)
                               /\ order \in {"release", "seq_cst"} => Knows(w, atView[t])
<1> DEFINE n == At!Newest(a) + 1
           knows == At!Knowing(atView[t], a, n)
           w == At!Told(knows, order)
<1>1. /\ atView[t] \in At!View /\ n \in Nat /\ n > 0
      /\ \A b \in AtomicLocation : /\ atView[t].seen[b] \in 1 .. At!Newest(b)
                                   /\ At!Newest(b) \in Nat
  BY AtMemFacts DEF AtMem
<1>2. /\ knows \in At!View /\ Knows(knows, atView[t]) /\ knows.seen[a] <= n
      /\ \A b \in AtomicLocation : b # a => knows.seen[b] <= At!Newest(b)
  <2>1. /\ knows \in At!View /\ Knows(knows, atView[t])
        /\ \A b \in AtomicLocation : \/ knows.seen[b] = atView[t].seen[b]
                                     \/ b = a /\ knows.seen[b] = n
    BY <1>1, AtKnowing
  <2> QED
    BY <1>1, <2>1
<1>3. /\ w \in At!View /\ w.seen[a] <= n
      /\ \A b \in AtomicLocation : b # a => w.seen[b] <= At!Newest(b)
      /\ order \in {"release", "seq_cst"} => Knows(w, atView[t])
  BY <1>1, <1>2, AtNothing DEF At!Told
<1>4. /\ AtAppends(a, x, w) /\ atRace' = atRace
      /\ atView' = [atView EXCEPT ![t] = knows]
  BY DEF At!Store, AtAppends
<1>5. /\ At!Newest(a)' = n /\ \A b \in AtomicLocation : b # a => At!Newest(b)' = At!Newest(b)
  BY <1>3, <1>4, AtAppended
<1>6. AtGrows(t)
  BY <1>1, <1>2, <1>4, <1>5 DEF AtGrows, AtMem
<1>7. AtMem'
  BY <1>3, <1>4, <1>5, <1>6, AtAppendMem
<1> QED
  BY <1>3, <1>4, <1>6, <1>7

\* A read-modify-write does both.
LEMMA AtExchangeMem ==
  ASSUME AtMem, NEW t \in Thread, NEW a \in AtomicLocation, NEW order,
         NEW x \in 0 .. (3 * Rounds), At!Exchange(t, a, x, order)
  PROVE  /\ AtMem' /\ atRace' = atRace
         /\ AtGrows(t)
         /\ \E w \in At!View : AtAppends(a, x, w)
         /\ order \in {"acquire", "seq_cst"} =>
              Knows(atView'[t], atHist[a][At!Newest(a)].view)
<1> DEFINE n == At!Newest(a)
           old == atHist[a][n].view
           v == IF order \in {"acquire", "seq_cst"} THEN At!Joined(atView[t], old) ELSE atView[t]
           learned == At!Knowing(v, a, n)
           knows == At!Knowing(learned, a, n + 1)
           w == At!Joined(old, At!Told(knows, order))
<1>1. /\ atView[t] \in At!View /\ n \in Nat /\ n > 0 /\ old \in At!View
      /\ \A b \in AtomicLocation : /\ atView[t].seen[b] \in 1 .. At!Newest(b)
                                   /\ old.seen[b] <= At!Newest(b)
                                   /\ At!Newest(b) \in Nat
  BY AtMemFacts DEF AtMem
<1>2. /\ v \in At!View /\ Knows(v, atView[t])
      /\ order \in {"acquire", "seq_cst"} => Knows(v, old)
      /\ \A b \in AtomicLocation : v.seen[b] <= At!Newest(b)
  BY <1>1, AtJoined DEF Knows, At!View
<1>3. /\ learned \in At!View /\ Knows(learned, v)
      /\ \A b \in AtomicLocation : learned.seen[b] <= At!Newest(b)
  <2> HIDE DEF v
  <2>1. /\ At!Knowing(v, a, n) \in At!View /\ Knows(At!Knowing(v, a, n), v)
        /\ \A b \in AtomicLocation : \/ At!Knowing(v, a, n).seen[b] = v.seen[b]
                                     \/ b = a /\ At!Knowing(v, a, n).seen[b] = n
    BY <1>1, <1>2, AtKnowing
  <2> QED
    BY <1>1, <1>2, <2>1
<1>4. /\ knows \in At!View /\ Knows(knows, learned) /\ knows.seen[a] <= n + 1
      /\ \A b \in AtomicLocation : b # a => knows.seen[b] <= At!Newest(b)
  <2> HIDE DEF learned
  <2>1. n + 1 \in Nat /\ n <= n + 1 /\ learned \in At!View
    BY <1>1, <1>3
  <2>2. /\ knows \in At!View /\ Knows(knows, learned)
        /\ \A b \in AtomicLocation : \/ knows.seen[b] = learned.seen[b]
                                     \/ b = a /\ knows.seen[b] = n + 1
    BY <2>1, AtKnowing
  <2> HIDE DEF knows
  <2>3. \A b \in AtomicLocation : learned.seen[b] <= At!Newest(b) /\ learned.seen[b] \in Nat
    BY <1>3 DEF At!View
  <2> QED
    BY <1>1, <2>1, <2>2, <2>3
<1>5. /\ Knows(knows, atView[t])
      /\ order \in {"acquire", "seq_cst"} => Knows(knows, old)
  <2> HIDE DEF knows, learned, v, old
  <2> QED
    BY <1>1, <1>2, <1>3, <1>4 DEF Knows, At!View
<1>6. /\ w \in At!View /\ w.seen[a] <= n + 1
      /\ \A b \in AtomicLocation : b # a => w.seen[b] <= At!Newest(b)
  <2> HIDE DEF knows, old
  <2>1. /\ At!Told(knows, order) \in At!View /\ At!Told(knows, order).seen[a] <= n + 1
        /\ \A b \in AtomicLocation : b # a => At!Told(knows, order).seen[b] <= At!Newest(b)
    BY <1>1, <1>4, AtNothing DEF At!Told
  <2> QED
    BY <1>1, <2>1, AtJoined DEF At!View
<1>7. /\ AtAppends(a, x, w) /\ atRace' = atRace
      /\ atView' = [atView EXCEPT ![t] = knows]
  BY DEF At!Exchange, AtAppends, At!Learned
<1> HIDE DEF w, knows, old
<1>8. /\ At!Newest(a)' = n + 1
      /\ \A b \in AtomicLocation : b # a => At!Newest(b)' = At!Newest(b)
  BY <1>6, <1>7, AtAppended
<1>9. AtGrows(t) /\ atView'[t] = knows
  BY <1>1, <1>4, <1>5, <1>7, <1>8 DEF AtGrows, AtMem
<1>10. AtMem'
  BY <1>6, <1>7, <1>8, <1>9, AtAppendMem
<1> QED
  BY <1>5, <1>6, <1>7, <1>9, <1>10 DEF old

\* t has read the plain a, and nobody else knows of it.
AtHasRead(t, a) ==
  /\ \A b \in AtomicLocation :
       /\ At!Newest(b)' = At!Newest(b) /\ At!Current(b)' = At!Current(b)
       /\ \A i \in 1 .. At!Newest(b) :
            /\ atHist'[b][i].val = atHist[b][i].val
            /\ atHist'[b][i].view.seen = atHist[b][i].view.seen
            /\ atHist'[b][i].view.reads = atHist[b][i].view.reads \ {<<t, a>>}
  /\ \A u \in Thread :
       /\ atView'[u].seen = atView[u].seen
       /\ u # t => atView'[u].reads = atView[u].reads \ {<<t, a>>}
  /\ atView'[t].reads = atView[t].reads \cup {<<t, a>>}

\* A plain read.
LEMMA AtReadMem ==
  ASSUME AtMem, NEW t \in Thread, NEW a \in AtomicPlain, NEW n, At!Read(t, a, n)
  PROVE  /\ AtMem' /\ AtHasRead(t, a)
         /\ n \in atView[t].seen[a] .. At!Newest(a)
         /\ atRace = FALSE /\ atView[t].seen[a] = At!Newest(a) => atRace' = FALSE
<1>1. a \in AtomicLocation
  BY DEF AtomicLocation
<1>2. ASSUME NEW b \in AtomicLocation
      PROVE  /\ atHist'[b] \in Seq(AtEntry) /\ At!Newest(b)' = At!Newest(b)
             /\ At!Newest(b) > 0 /\ At!Newest(b) \in Nat
             /\ \A i \in 1 .. At!Newest(b) :
                  /\ atHist'[b][i].val = atHist[b][i].val
                  /\ atHist'[b][i].view.seen = atHist[b][i].view.seen
                  /\ atHist'[b][i].view.reads = atHist[b][i].view.reads \ {<<t, a>>}
  <2>1. /\ atHist[b] \in Seq(AtEntry) /\ At!Newest(b) = Len(atHist[b])
        /\ At!Newest(b) > 0 /\ At!Newest(b) \in Nat
        /\ \A i \in 1 .. At!Newest(b) :
              atHist[b][i] \in AtEntry /\ atHist[b][i].view \in At!View
    BY AtMemFacts
  <2>2. atHist'[b] = [i \in DOMAIN atHist[b] |->
                        [atHist[b][i] EXCEPT !.view = At!Forgetting(@, t, a)]]
    BY DEF At!Read
  <2>3. DOMAIN atHist[b] = 1 .. At!Newest(b)
    BY <2>1
  <2>4. ASSUME NEW i \in 1 .. At!Newest(b)
        PROVE  /\ atHist'[b][i] \in AtEntry
               /\ atHist'[b][i].val = atHist[b][i].val
               /\ atHist'[b][i].view.seen = atHist[b][i].view.seen
               /\ atHist'[b][i].view.reads = atHist[b][i].view.reads \ {<<t, a>>}
    <3>1. atHist'[b][i] = [atHist[b][i] EXCEPT !.view = At!Forgetting(atHist[b][i].view, t, a)]
      BY <2>2, <2>3
    <3>2. /\ At!Forgetting(atHist[b][i].view, t, a) \in At!View
          /\ At!Forgetting(atHist[b][i].view, t, a).seen = atHist[b][i].view.seen
          /\ At!Forgetting(atHist[b][i].view, t, a).reads
               = atHist[b][i].view.reads \ {<<t, a>>}
      BY <2>1, AtForgetting
    <3> QED
      BY <2>1, <3>1, <3>2 DEF AtEntry
  <2>5. atHist'[b] \in [1 .. At!Newest(b) -> AtEntry]
    BY <2>2, <2>3, <2>4
  <2>6. atHist'[b] \in Seq(AtEntry) /\ Len(atHist'[b]) = At!Newest(b)
    BY <2>1, <2>5
  <2> QED
    BY <2>1, <2>4, <2>6 DEF At!Newest
<1>3. ASSUME NEW u \in Thread
      PROVE  /\ atView'[u] \in At!View /\ atView'[u].seen = atView[u].seen
             /\ atView'[u].reads = IF u = t THEN atView[u].reads \cup {<<t, a>>}
                                            ELSE atView[u].reads \ {<<t, a>>}
  <2>1. atView[u] \in At!View /\ <<t, a>> \in Thread \X AtomicPlain
    BY DEF AtMem
  <2>2. atView'[u] = IF u = t THEN [atView[u] EXCEPT !.reads = @ \cup {<<t, a>>}]
                              ELSE At!Forgetting(atView[u], t, a)
    BY DEF At!Read
  <2>3. CASE u = t
    BY <2>1, <2>2, <2>3 DEF At!View
  <2>4. CASE u # t
    BY <2>1, <2>2, <2>4, AtForgetting
  <2> QED
    BY <2>3, <2>4
<1>4. atHist' \in [AtomicLocation -> Seq(AtEntry)] /\ atView' \in [Thread -> At!View]
  <2>1. DOMAIN atHist' = AtomicLocation /\ DOMAIN atView' = Thread
    BY DEF At!Read
  <2>2. atHist' = [b \in AtomicLocation |-> atHist'[b]] /\ atView' = [u \in Thread |-> atView'[u]]
    BY <2>1 DEF At!Read
  <2> QED
    BY <1>2, <1>3, <2>2
<1>5. AtHasRead(t, a)
  <2>1. \A b \in AtomicLocation : At!Current(b)' = At!Current(b)
    <3> SUFFICES ASSUME NEW b \in AtomicLocation
                 PROVE  atHist'[b][At!Newest(b)'].val = atHist[b][At!Newest(b)].val
      BY DEF At!Current
    <3>1. At!Newest(b) \in 1 .. At!Newest(b) /\ At!Newest(b)' = At!Newest(b)
      BY <1>2
    <3> QED
      BY <1>2, <3>1
  <2> QED
    BY <1>2, <1>3, <2>1 DEF AtHasRead
<1>6. AtMem'
  <2>1. ASSUME NEW b \in AtomicLocation, NEW c \in AtomicLocation, NEW i \in 1 .. At!Newest(b)'
        PROVE  atHist'[b][i].view.seen[c] <= At!Newest(c)'
    <3>1. i \in 1 .. At!Newest(b) /\ At!Newest(c)' = At!Newest(c)
      BY <1>2
    <3>2. atHist'[b][i].view.seen = atHist[b][i].view.seen
      BY <1>2, <3>1
    <3> QED
      BY <3>1, <3>2 DEF AtMem
  <2>2. ASSUME NEW b \in AtomicLocation, NEW u \in Thread
        PROVE  atView'[u].seen[b] \in 1 .. At!Newest(b)'
    BY <1>2, <1>3 DEF AtMem
  <2> QED
    BY <1>2, <1>4, <2>1, <2>2 DEF AtMem
<1>7. n \in atView[t].seen[a] .. At!Newest(a)
  BY DEF At!Read, At!Readable
<1>8. atRace = FALSE /\ atView[t].seen[a] = At!Newest(a) => atRace' = FALSE
  <2>1. atRace' = (atRace \/ atView[t].seen[a] # At!Newest(a))
    BY DEF At!Read
  <2> QED
    BY <2>1
<1> QED
  BY <1>5, <1>6, <1>7, <1>8

\* A plain write, which races unless t knows the newest value and every read of it.
LEMMA AtWriteMem ==
  ASSUME AtMem, NEW t \in Thread, NEW a \in AtomicPlain, NEW x \in 0 .. (3 * Rounds),
         At!Write(t, a, x)
  PROVE  /\ AtMem' /\ AtGrows(t) /\ AtAppends(a, x, At!Nothing)
         /\ atView'[t].seen[a] = At!Newest(a) + 1
         /\ (/\ atRace = FALSE /\ atView[t].seen[a] = At!Newest(a)
             /\ \A u \in Thread \ {t} : <<u, a>> \in atView[t].reads)
            => atRace' = FALSE
<1> DEFINE n == At!Newest(a) + 1
           knows == At!Knowing(atView[t], a, n)
<1>1. /\ a \in AtomicLocation /\ atView[t] \in At!View /\ n \in Nat
      /\ \A b \in AtomicLocation : /\ atView[t].seen[b] \in 1 .. At!Newest(b)
                                   /\ At!Newest(b) \in Nat
  <2>1. a \in AtomicLocation
    BY DEF AtomicLocation
  <2>2. \A b \in AtomicLocation : At!Newest(b) \in Nat
    BY AtMemFacts
  <2> QED
    BY <2>1, <2>2 DEF AtMem
<1>2. /\ knows \in At!View /\ Knows(knows, atView[t]) /\ knows.seen[a] >= n
      /\ \A b \in AtomicLocation : \/ knows.seen[b] = atView[t].seen[b]
                                   \/ b = a /\ knows.seen[b] = n
  BY <1>1, AtKnowing
<1>3. AtAppends(a, x, At!Nothing) /\ atView' = [atView EXCEPT ![t] = knows]
  BY DEF At!Write, AtAppends
<1>4. At!Newest(a)' = n /\ \A b \in AtomicLocation : b # a => At!Newest(b)' = At!Newest(b)
  BY <1>1, <1>3, AtAppended, AtNothing
<1>5. knows.seen[a] = n
  BY <1>1, <1>2
<1>6. AtGrows(t) /\ atView'[t].seen[a] = n
  <2>1. /\ atView' \in [Thread -> At!View] /\ atView'[t] = knows
        /\ \A u \in Thread : u # t => atView'[u] = atView[u]
    BY <1>2, <1>3 DEF AtMem
  <2>2. \A b \in AtomicLocation : knows.seen[b] <= At!Newest(b)'
    BY <1>1, <1>2, <1>4, <1>5
  <2> QED
    BY <1>2, <1>5, <2>1, <2>2 DEF AtGrows
<1>7. AtMem'
  <2>1. \A b \in AtomicLocation : At!Nothing.seen[b] <= At!Newest(b)'
    BY <1>1, <1>4, AtNothing
  <2>2. At!Nothing \in At!View
    BY AtNothing
  <2> QED
    BY <1>1, <1>3, <1>6, <2>1, <2>2, AtAppendMem
<1>8. (/\ atRace = FALSE /\ atView[t].seen[a] = At!Newest(a)
       /\ \A u \in Thread \ {t} : <<u, a>> \in atView[t].reads)
      => atRace' = FALSE
  <2>1. atRace' = (\/ atRace \/ atView[t].seen[a] # At!Newest(a)
                   \/ \E u \in Thread \ {t} : <<u, a>> \notin atView[t].reads)
    BY DEF At!Write
  <2> QED
    BY <2>1
<1> QED
  BY <1>3, <1>6, <1>7, <1>8

-----------------------------------------------------------------------------
(* The invariant of the programs of Atomics *)

SpinLabel == {"lock", "csRead", "csWrite", "unlock", "done"}

\* Where the threads of a program may be.
AtLabels ==
  [SpinLock       |-> <<SpinLabel, SpinLabel, SpinLabel, {"idle"}>>,
   Relax          |-> <<{"increase", "done"}, {"increase", "done"}, {"idle"}, {"idle"}>>,
   AcquireRelease |-> <<{"produce", "publish", "done"}, {"await", "consume", "done"},
                        {"idle"}, {"idle"}>>,
   Sequential     |-> <<{"writeX", "setGo", "done"}, {"awaitY", "writeY", "done"},
                        {"awaitXY", "readX", "thenY", "z1", "done"},
                        {"awaitYX", "readY", "thenX", "z2", "done"}>>]

AtLocals ==
  /\ program \in At!Program
  /\ DOMAIN atPc = Thread
  /\ reg \in [Thread -> 0 .. (3 * Rounds)]
  /\ left \in [Thread -> 0 .. Rounds]
  /\ \A t \in Thread :
       /\ atPc[t] \in AtLabels[program][t]
       /\ atPc[t] \in {"lock", "csRead", "csWrite", "increase"} => left[t] > 0
  /\ program # "SpinLock" => left[3] = 0

\* t holds the spin lock.
Holds(t) == atPc[t] \in {"csRead", "csWrite", "unlock"}

\* v knows the newest counter, and the read of it by u.
KnowsCounter(v) == v.seen["counter"] = At!Newest("counter")
KnowsRead(v, u) == <<u, "counter">> \in v.reads

\* What the newest value of the flag tells.
FlagView == atHist["flag_"][At!Newest("flag_")].view

\* One thread holds the lock, and all that was done to the counter happened before;
\* while nobody does, the flag tells what the next holder does not know.
SpinInv ==
  program = "SpinLock" =>
    /\ At!Current("flag_") \in {0, 1}
    /\ \A t \in Thread : Holds(t) =>
         /\ At!Current("flag_") = 1
         /\ \A u \in Thread : Holds(u) => u = t
         /\ KnowsCounter(atView[t])
         /\ \A u \in Thread \ {t} : KnowsRead(atView[t], u)
         /\ atPc[t] # "csRead" => KnowsRead(atView[t], t)
         /\ atPc[t] = "csWrite" => reg[t] = At!Current("counter")
    /\ At!Current("flag_") = 0 => \A t \in Thread :
         /\ KnowsCounter(atView[t]) \/ KnowsCounter(FlagView)
         /\ \A u \in Thread \ {t} : KnowsRead(atView[t], u) \/ KnowsRead(FlagView, u)

\* Nobody reads the data before it is written, and the flag tells of the write.
PublishInv ==
  program = "AcquireRelease" =>
    /\ atPc[1] = "produce" =>
         /\ At!Newest("data") = 1
         /\ \A u \in Thread \ {1} : <<u, "data">> \in atView[1].reads
    /\ atPc[1] # "produce" =>
         atView[1].seen["data"] = At!Newest("data") /\ At!Current("data") = 1
    /\ atPc[1] # "done" => atPc[2] = "await"
    /\ \A i \in 1 .. At!Newest("flag") : atHist["flag"][i].val = 1 =>
         atPc[1] = "done" /\ atHist["flag"][i].view.seen["data"] = At!Newest("data")
    /\ atPc[2] = "consume" => atView[2].seen["data"] = At!Newest("data")
    /\ atPc[2] = "done" => reg[2] = 1

\* y is written after x, and so a reader that has seen y finds x.
SequentialInv ==
  program = "Sequential" =>
    /\ At!Current("go") = 1 => atPc[1] = "done"
    /\ atPc[1] # "writeX" => At!Current("x") = 1
    /\ atPc[2] # "awaitY" => atPc[1] = "done"
    /\ At!Current("y") = 1 => atPc[2] = "done"
    /\ atPc[4] = "thenX" /\ reg[4] = 1 => atPc[2] = "done"
    /\ atPc[4] # "z2"
    /\ At!Current("z") # 2

AtInv ==
  /\ AtMem
  /\ AtLocals
  /\ atRace = FALSE
  /\ At!NoLostAddition
  /\ SpinInv
  /\ PublishInv
  /\ SequentialInv

\* A label tells the program, and most of them the thread.
LEMMA AtWho ==
  ASSUME AtLocals, NEW t \in Thread
  PROVE  /\ Holds(t) \/ atPc[t] = "lock" => program = "SpinLock" /\ t \in {1, 2, 3}
         /\ atPc[t] = "increase" => program = "Relax" /\ t \in {1, 2}
         /\ atPc[t] \in {"produce", "publish"} => program = "AcquireRelease" /\ t = 1
         /\ atPc[t] \in {"await", "consume"} => program = "AcquireRelease" /\ t = 2
         /\ atPc[t] \in {"writeX", "setGo"} => program = "Sequential" /\ t = 1
         /\ atPc[t] \in {"awaitY", "writeY"} => program = "Sequential" /\ t = 2
         /\ atPc[t] \in {"awaitXY", "readX", "thenY", "z1"} => program = "Sequential" /\ t = 3
         /\ atPc[t] \in {"awaitYX", "readY", "thenX", "z2"} => program = "Sequential" /\ t = 4
<1>1. t \in {1, 2, 3, 4} /\ program \in {"SpinLock", "Relax", "AcquireRelease", "Sequential"}
  BY AtomicConstants DEF AtLocals, At!Program
<1>2. atPc[t] \in AtLabels[program][t]
  BY DEF AtLocals
<1>3. CASE program = "SpinLock"
  BY <1>1, <1>2, <1>3 DEF AtLabels, Holds, SpinLabel
<1>4. CASE program = "Relax"
  BY <1>1, <1>2, <1>4 DEF AtLabels, Holds, SpinLabel
<1>5. CASE program = "AcquireRelease"
  BY <1>1, <1>2, <1>5 DEF AtLabels, Holds, SpinLabel
<1>6. CASE program = "Sequential"
  BY <1>1, <1>2, <1>6 DEF AtLabels, Holds, SpinLabel
<1> QED
  BY <1>1, <1>3, <1>4, <1>5, <1>6

\* t goes to a label of its own.
LEMMA AtGoto ==
  ASSUME AtLocals, NEW t \in Thread, NEW from, NEW to, At!Goto(t, from, to), program' = program,
         to \in AtLabels[program][t]
  PROVE  /\ atPc[t] = from /\ atPc'[t] = to
         /\ \A u \in Thread : u # t => atPc'[u] = atPc[u]
         /\ DOMAIN atPc' = Thread
         /\ \A u \in Thread : atPc'[u] \in AtLabels[program'][u]
BY DEF AtLocals, At!Goto

\* What everyone relies on.
LEMMA InitAtInv == ASSUME At!Init PROVE AtInv
<1>1. PICK set \in {0, 1} :
        /\ program # "SpinLock" => set = 0
        /\ At!MemInit([a \in AtomicLocation |-> IF a = "flag_" THEN set ELSE 0])
  BY DEF At!Init
<1>2. ASSUME NEW a \in AtomicLocation
      PROVE  /\ atHist[a] = <<[val |-> IF a = "flag_" THEN set ELSE 0, view |-> At!Nothing]>>
             /\ At!Newest(a) = 1 /\ At!Current(a) = IF a = "flag_" THEN set ELSE 0
             /\ atHist[a][1].view = At!Nothing
  BY <1>1 DEF At!MemInit, At!Newest, At!Current
<1>3. /\ atView = [t \in Thread |-> [seen |-> [a \in AtomicLocation |-> 1],
                                     reads |-> Thread \X AtomicPlain]]
      /\ atRace = FALSE
  BY <1>1 DEF At!MemInit
<1>4. AtMem
  <2>1. ASSUME NEW a \in AtomicLocation
        PROVE  atHist[a] \in Seq(AtEntry)
    <3> DEFINE e == [val |-> IF a = "flag_" THEN set ELSE 0, view |-> At!Nothing]
    <3>1. (IF a = "flag_" THEN set ELSE 0) \in 0 .. (3 * Rounds)
      BY AtomicConstants
    <3>2. e \in AtEntry
      BY <3>1, AtNothing DEF AtEntry
    <3>3. atHist[a] = <<e>>
      BY <1>2
    <3> HIDE DEF e
    <3> QED
      BY <3>2, <3>3
  <2>2. atHist \in [AtomicLocation -> Seq(AtEntry)]
    BY <1>1, <2>1 DEF At!MemInit
  <2>3. atView \in [Thread -> At!View]
    BY <1>3 DEF At!View
  <2>4. \A a \in AtomicLocation, t \in Thread : atView[t].seen[a] = 1
    BY <1>3
  <2> QED
    BY <1>2, <2>2, <2>3, <2>4, AtNothing DEF AtMem
<1>5. /\ program \in At!Program /\ atPc = At!Start[program]
      /\ left = [t \in Thread |-> IF atPc[t] \in {"lock", "increase"} THEN Rounds ELSE 0]
      /\ reg = [t \in Thread |-> 0]
  BY DEF At!Init
<1>6. AtLocals
  <2>1. \A t \in Thread : t \in {1, 2, 3, 4}
    BY AtomicConstants
  <2>2. program \in {"SpinLock", "Relax", "AcquireRelease", "Sequential"}
    BY <1>5 DEF At!Program
  <2>3. /\ DOMAIN atPc = 1 .. 4
        /\ \A t \in {1, 2, 3, 4} : /\ atPc[t] \notin {"csRead", "csWrite"}
                                   /\ atPc[t] \in AtLabels[program][t]
    <3>1. CASE program = "SpinLock"
      <4>1. atPc = <<"lock", "lock", "lock", "idle">>
        BY <1>5, <3>1 DEF At!Start
      <4>2. AtLabels[program] =
              <<SpinLabel, SpinLabel, SpinLabel, {"idle"}>>
        BY <3>1 DEF AtLabels
      <4> QED
        BY <4>1, <4>2 DEF SpinLabel
    <3>2. CASE program = "Relax"
      <4>1. atPc = <<"increase", "increase", "idle", "idle">>
        BY <1>5, <3>2 DEF At!Start
      <4>2. AtLabels[program] =
              <<{"increase", "done"}, {"increase", "done"}, {"idle"}, {"idle"}>>
        BY <3>2 DEF AtLabels
      <4> QED
        BY <4>1, <4>2
    <3>3. CASE program = "AcquireRelease"
      <4>1. atPc = <<"produce", "await", "idle", "idle">>
        BY <1>5, <3>3 DEF At!Start
      <4>2. AtLabels[program] =
              <<{"produce", "publish", "done"}, {"await", "consume", "done"},
              {"idle"}, {"idle"}>>
        BY <3>3 DEF AtLabels
      <4> QED
        BY <4>1, <4>2
    <3>4. CASE program = "Sequential"
      <4>1. atPc = <<"writeX", "awaitY", "awaitXY", "awaitYX">>
        BY <1>5, <3>4 DEF At!Start
      <4>2. AtLabels[program] =
              <<{"writeX", "setGo", "done"}, {"awaitY", "writeY", "done"},
              {"awaitXY", "readX", "thenY", "z1", "done"},
              {"awaitYX", "readY", "thenX", "z2", "done"}>>
        BY <3>4 DEF AtLabels
      <4> QED
        BY <4>1, <4>2
    <3> QED
      BY <2>2, <3>1, <3>2, <3>3, <3>4
  <2>6. /\ DOMAIN atPc = Thread
        /\ \A t \in Thread : atPc[t] \in AtLabels[program][t] /\ atPc[t] \notin {"csRead", "csWrite"}
    BY <2>1, <2>3, AtomicConstants
  <2>4. program # "SpinLock" => atPc[3] \notin {"lock", "increase"}
    BY <1>5 DEF At!Program, At!Start
  <2>5. 0 \in 0 .. (3 * Rounds) /\ 0 \in 0 .. Rounds /\ Rounds \in 0 .. Rounds /\ Rounds > 0
    BY AtomicConstants
  <2> QED
    BY <1>5, <2>4, <2>5, <2>6, AtomicConstants DEF AtLocals
<1>7. /\ At!Newest("counter") = 1 /\ At!Newest("data") = 1 /\ At!Newest("flag") = 1
      /\ At!Current("counter") = 0 /\ At!Current("x") = 0 /\ At!Current("y") = 0
      /\ At!Current("z") = 0 /\ At!Current("go") = 0 /\ At!Current("flag_") \in {0, 1}
      /\ atHist["flag"][1].val = 0 /\ "counter" \in AtomicLocation
  BY <1>2 DEF AtomicLocation, AtomicPlain
<1>8. At!NoLostAddition
  <2>1. program = "SpinLock" => left[1] = Rounds /\ left[2] = Rounds /\ left[3] = Rounds
    BY <1>5, AtomicConstants DEF At!Start
  <2>2. program = "Relax" => left[1] = Rounds /\ left[2] = Rounds /\ left[3] = 0
    BY <1>5, AtomicConstants DEF At!Start
  <2> QED
    BY <1>7, <2>1, <2>2, AtomicConstants DEF At!NoLostAddition, At!Remaining
<1>9. SpinInv
  <2>1. program = "SpinLock" => \A t \in Thread : ~Holds(t)
    BY <1>5, AtomicConstants DEF At!Start, Holds
  <2>2. \A t \in Thread : /\ KnowsCounter(atView[t])
                          /\ \A u \in Thread : KnowsRead(atView[t], u)
    BY <1>2, <1>3, <1>7 DEF KnowsCounter, KnowsRead, AtomicPlain
  <2> QED
    BY <1>2, <1>7, <2>1, <2>2 DEF SpinInv
<1>10. PublishInv
  <2>1. program = "AcquireRelease" => atPc[1] = "produce" /\ atPc[2] = "await"
    BY <1>5, AtomicConstants DEF At!Start
  <2>2. \A u \in Thread : <<u, "data">> \in atView[1].reads
    BY <1>3, AtomicConstants DEF AtomicPlain
  <2>3. \A i \in 1 .. At!Newest("flag") : atHist["flag"][i].val # 1
    BY <1>7
  <2> QED
    BY <1>2, <1>7, <2>1, <2>2, <2>3 DEF PublishInv
<1>11. SequentialInv
  <2>1. program = "Sequential" => atPc[1] = "writeX" /\ atPc[2] = "awaitY" /\ atPc[4] = "awaitYX"
    BY <1>5, AtomicConstants DEF At!Start
  <2> QED
    BY <1>2, <1>7, <2>1 DEF SequentialInv
<1> QED
  BY <1>3, <1>4, <1>6, <1>8, <1>9, <1>10, <1>11 DEF AtInv

-----------------------------------------------------------------------------
(* Each step of Atomics keeps the invariant *)

\* Who finds the flag clear takes the lock with all that the flag tells.
LEMMA LockInv ==
  ASSUME AtInv, NEW t \in Thread, At!Lock(t)
  PROVE  AtInv'
<1>1. /\ program = "SpinLock" /\ t \in {1, 2, 3} /\ program' = program
      /\ reg' = reg /\ left' = left /\ atPc[t] = "lock" /\ left[t] > 0
      /\ {"flag_", "counter"} \subseteq AtomicLocation
      /\ "csRead" \in AtLabels[program][t] /\ "lock" \in AtLabels[program][t]
  <2>1. /\ program' = program /\ reg' = reg /\ left' = left /\ atPc[t] = "lock"
        /\ {"flag_", "counter"} \subseteq AtomicLocation
    BY DEF At!Lock, At!Goto, AtomicLocation, AtomicPlain
  <2>2. program = "SpinLock" /\ t \in {1, 2, 3} /\ left[t] > 0
    BY <2>1, AtWho DEF AtInv, AtLocals
  <2> QED
    BY <2>1, <2>2 DEF AtLabels, SpinLabel
<1>2. PublishInv' /\ SequentialInv'
  BY <1>1 DEF PublishInv, SequentialInv
<1>3. CASE /\ At!Current("flag_") = 0
           /\ At!Goto(t, "lock", "csRead")
           /\ At!Exchange(t, "flag_", 1, "acquire")
  <2>1. 1 \in 0 .. (3 * Rounds)
    BY AtomicConstants
  <2>2. /\ AtMem' /\ atRace' = FALSE /\ AtGrows(t) /\ Knows(atView'[t], FlagView)
    BY <1>1, <1>3, <2>1, AtExchangeMem DEF AtInv, FlagView
  <2>3. \E w \in At!View : AtAppends("flag_", 1, w)
    BY <1>1, <1>3, <2>1, AtExchangeMem DEF AtInv
  <2>4. /\ At!Current("flag_")' = 1 /\ At!Current("counter")' = At!Current("counter")
        /\ At!Newest("counter")' = At!Newest("counter")
    BY <1>1, <2>1, <2>3, AtAppendedSome DEF AtInv
  <2>5. /\ atPc'[t] = "csRead" /\ \A u \in Thread : u # t => atPc'[u] = atPc[u]
        /\ DOMAIN atPc' = Thread /\ \A u \in Thread : atPc'[u] \in AtLabels[program'][u]
    <3>1. AtLocals
      BY DEF AtInv
    <3>2. /\ At!Goto(t, "lock", "csRead") /\ program' = program
          /\ "csRead" \in AtLabels[program][t]
      BY <1>1, <1>3
    <3> QED
      BY <3>1, <3>2, AtGoto
  <2>6. AtLocals'
    BY <1>1, <2>5 DEF AtInv, AtLocals
  <2>7. At!NoLostAddition'
    BY <1>1, <2>4 DEF AtInv, At!NoLostAddition, At!Remaining
  <2>8. \A u \in Thread : Holds(u)' => u = t
    BY <1>1, <1>3, <2>5 DEF AtInv, SpinInv, Holds
  <2>9. KnowsCounter(atView[t]) \/ KnowsCounter(FlagView)
    BY <1>1, <1>3 DEF AtInv, SpinInv
  <2>10. atView'[t].seen["counter"] >= At!Newest("counter")
    <3>1. /\ atView[t].seen["counter"] <= atView'[t].seen["counter"]
          /\ FlagView.seen["counter"] <= atView'[t].seen["counter"]
      BY <1>1, <2>2 DEF AtGrows, Knows
    <3>2. At!Newest("counter") \in Nat /\ atView'[t].seen["counter"] \in Nat
      BY <1>1, <2>2, AtMemFacts DEF AtInv, AtGrows, At!View
    <3> QED
      BY <2>9, <3>1, <3>2 DEF KnowsCounter
  <2>11. atView'[t].seen["counter"] = At!Newest("counter")
    <3>1. atView'[t].seen["counter"] \in 1 .. At!Newest("counter")' /\ At!Newest("counter") \in Nat
      BY <1>1, <2>2, AtMemFacts DEF AtMem, AtInv
    <3> QED
      BY <2>4, <2>10, <3>1
  <2>12. \A u \in Thread \ {t} : KnowsRead(atView'[t], u)
    BY <1>1, <1>3, <2>2 DEF AtInv, SpinInv, KnowsRead, AtGrows, Knows
  <2>13. SpinInv'
    <3> SUFFICES ASSUME NEW u \in Thread, Holds(u)'
                 PROVE  /\ \A v \in Thread : Holds(v)' => v = u
                        /\ KnowsCounter(atView[u])'
                        /\ \A v \in Thread \ {u} : KnowsRead(atView[u], v)'
                        /\ atPc'[u] # "csRead" => KnowsRead(atView[u], u)'
                        /\ atPc'[u] = "csWrite" => reg'[u] = At!Current("counter")'
      BY <1>1, <2>4 DEF SpinInv
    <3> QED
      BY <2>4, <2>5, <2>8, <2>11, <2>12 DEF KnowsCounter, KnowsRead
  <2> QED
    BY <1>2, <2>2, <2>6, <2>7, <2>13 DEF AtInv
<1>4. CASE /\ At!Current("flag_") = 1
           /\ At!Goto(t, "lock", "lock")
           /\ At!Load(t, "flag_", "acquire", At!Newest("flag_"))
  <2>1. AtMem' /\ atHist' = atHist /\ atRace' = FALSE /\ AtGrows(t)
    BY <1>1, <1>4, AtLoadMem DEF AtInv
  <2>2. /\ atPc'[t] = "lock" /\ \A u \in Thread : u # t => atPc'[u] = atPc[u]
        /\ DOMAIN atPc' = Thread /\ \A u \in Thread : atPc'[u] \in AtLabels[program'][u]
    BY <1>1, <1>4, AtGoto DEF AtInv
  <2>3. \A u \in Thread : atPc'[u] = atPc[u]
    BY <1>1, <2>2
  <2>4. AtLocals'
    BY <1>1, <2>2, <2>3 DEF AtInv, AtLocals
  <2>5. /\ At!Newest("counter")' = At!Newest("counter") /\ At!Current("flag_")' = 1
        /\ At!Current("counter")' = At!Current("counter")
    BY <1>4, <2>1 DEF At!Newest, At!Current
  <2>6. At!NoLostAddition'
    BY <1>1, <2>5 DEF AtInv, At!NoLostAddition, At!Remaining
  <2>7. \A u \in Thread : Holds(u)' <=> Holds(u)
    BY <2>3 DEF Holds
  <2>8. \A u \in Thread : Holds(u) => u # t /\ atView'[u] = atView[u]
    BY <1>1, <2>1 DEF Holds, AtGrows
  <2>9. SpinInv'
    <3> SUFFICES ASSUME NEW u \in Thread, Holds(u)
                 PROVE  /\ \A v \in Thread : Holds(v) => v = u
                        /\ KnowsCounter(atView[u])'
                        /\ \A v \in Thread \ {u} : KnowsRead(atView[u], v)'
                        /\ atPc[u] # "csRead" => KnowsRead(atView[u], u)'
                        /\ atPc[u] = "csWrite" => reg[u] = At!Current("counter")
      BY <1>1, <2>3, <2>5, <2>7 DEF SpinInv
    <3> QED
      BY <1>1, <2>5, <2>8 DEF AtInv, SpinInv, KnowsCounter, KnowsRead
  <2> QED
    BY <1>2, <2>1, <2>4, <2>6, <2>9 DEF AtInv
<1> QED
  BY <1>3, <1>4 DEF At!Lock

\* The parts of the invariant, for the steps of the spin lock.
LEMMA SpinFacts ==
  ASSUME AtInv, NEW t \in Thread, Holds(t)
  PROVE  /\ AtMem /\ AtLocals /\ atRace = FALSE
         /\ program = "SpinLock" /\ t \in {1, 2, 3}
         /\ At!Current("flag_") = 1
         /\ \A u \in Thread : Holds(u) => u = t
         /\ KnowsCounter(atView[t]) /\ \A u \in Thread \ {t} : KnowsRead(atView[t], u)
         /\ atPc[t] # "csRead" => KnowsRead(atView[t], t)
         /\ atPc[t] = "csWrite" => reg[t] = At!Current("counter")
         /\ At!Current("counter") + left[1] + left[2] + left[3] = 3 * Rounds
<1>1. AtLocals /\ SpinInv
  BY DEF AtInv
<1>2. program = "SpinLock" /\ t \in {1, 2, 3}
  BY <1>1, AtWho
<1>3. {"flag_", "counter"} \subseteq AtomicLocation /\ "counter" \in AtomicPlain
  BY DEF AtomicLocation, AtomicPlain
<1>4. AtMem /\ atRace = FALSE /\ At!Current("counter") \in Int
  BY <1>3, AtMemFacts DEF AtInv
<1>5. left[1] \in Int /\ left[2] \in Int /\ left[3] \in Int
  BY <1>1, AtomicConstants DEF AtLocals
<1>6. At!Current("counter") + left[1] + left[2] + left[3] = 3 * Rounds
  BY <1>2, <1>4, <1>5 DEF AtInv, At!NoLostAddition, At!Remaining
<1> QED
  BY <1>1, <1>2, <1>4, <1>6 DEF SpinInv

\* A holder that steps to a label of the lock stays the only one.
LEMMA HolderMoves ==
  ASSUME AtInv, NEW t \in Thread, Holds(t), NEW from, NEW to \in SpinLabel, At!Goto(t, from, to),
         program' = program
  PROVE  /\ atPc[t] = from /\ atPc'[t] = to
         /\ \A u \in Thread : u # t => atPc'[u] = atPc[u] /\ ~Holds(u) /\ ~Holds(u)'
         /\ DOMAIN atPc' = Thread /\ \A u \in Thread : atPc'[u] \in AtLabels[program'][u]
<1>1. to \in AtLabels[program][t]
  <2>1. program = "SpinLock" /\ t \in {1, 2, 3}
    BY SpinFacts
  <2>2. AtLabels[program] = <<SpinLabel, SpinLabel, SpinLabel, {"idle"}>>
    BY <2>1 DEF AtLabels
  <2> QED
    BY <2>1, <2>2
<1>2. /\ atPc[t] = from /\ atPc'[t] = to
      /\ \A u \in Thread : u # t => atPc'[u] = atPc[u]
      /\ DOMAIN atPc' = Thread /\ \A u \in Thread : atPc'[u] \in AtLabels[program'][u]
  BY <1>1, SpinFacts, AtGoto
<1> QED
  BY <1>2, SpinFacts DEF Holds

\* The holder reads the newest value, and knows of its read.
LEMMA CsReadInv ==
  ASSUME AtInv, NEW t \in Thread, At!CsRead(t)
  PROVE  AtInv'
<1>1. /\ atPc[t] = "csRead" /\ Holds(t) /\ program' = program /\ left' = left
      /\ At!Goto(t, "csRead", "csWrite")
  BY DEF At!CsRead, At!Goto, Holds
<1>2. /\ AtMem /\ AtLocals /\ atRace = FALSE /\ program = "SpinLock"
      /\ At!Current("flag_") = 1 /\ At!NoLostAddition
      /\ KnowsCounter(atView[t]) /\ \A u \in Thread \ {t} : KnowsRead(atView[t], u)
  BY <1>1, SpinFacts DEF AtInv
<1>3. /\ "counter" \in AtomicPlain /\ "counter" \in AtomicLocation /\ "flag_" \in AtomicLocation
  BY DEF AtomicLocation, AtomicPlain
<1>4. PICK n : /\ At!Read(t, "counter", n)
               /\ reg' = [reg EXCEPT ![t] = At!Value("counter", n)]
  BY DEF At!CsRead
<1>5. /\ AtMem' /\ AtHasRead(t, "counter") /\ atRace' = FALSE
      /\ n \in atView[t].seen["counter"] .. At!Newest("counter")
  BY <1>2, <1>3, <1>4, AtReadMem DEF KnowsCounter
<1>6. n = At!Newest("counter")
  BY <1>2, <1>3, <1>5, AtMemFacts DEF KnowsCounter
<1>7. reg' = [reg EXCEPT ![t] = At!Current("counter")] /\ At!Current("counter") \in 0 .. (3 * Rounds)
  BY <1>2, <1>3, <1>4, <1>6, AtMemFacts DEF At!Value, At!Current
<1>8. /\ At!Current("flag_")' = 1 /\ At!Current("counter")' = At!Current("counter")
      /\ At!Newest("counter")' = At!Newest("counter")
      /\ atView'[t].seen = atView[t].seen
      /\ atView'[t].reads = atView[t].reads \cup {<<t, "counter">>}
  BY <1>2, <1>3, <1>5 DEF AtHasRead
<1>9. /\ atPc'[t] = "csWrite"
      /\ \A u \in Thread : u # t => atPc'[u] = atPc[u] /\ ~Holds(u) /\ ~Holds(u)'
      /\ DOMAIN atPc' = Thread /\ \A u \in Thread : atPc'[u] \in AtLabels[program'][u]
  BY <1>1, HolderMoves DEF SpinLabel
<1>10. AtLocals'
  <2>1. reg' \in [Thread -> 0 .. (3 * Rounds)]
    BY <1>2, <1>7 DEF AtLocals
  <2>2. left[t] > 0
    BY <1>1, <1>2 DEF AtLocals
  <2> QED
    BY <1>1, <1>2, <1>9, <2>1, <2>2 DEF AtLocals
<1>11. At!NoLostAddition'
  BY <1>1, <1>2, <1>8 DEF At!NoLostAddition, At!Remaining
<1>12. SpinInv'
  <2>1. reg'[t] = At!Current("counter")'
    BY <1>2, <1>7, <1>8 DEF AtLocals
  <2>2. KnowsCounter(atView[t])' /\ \A u \in Thread : KnowsRead(atView[t], u)'
    BY <1>2, <1>8 DEF KnowsCounter, KnowsRead
  <2> QED
    BY <1>8, <1>9, <2>1, <2>2 DEF SpinInv
<1> QED
  BY <1>1, <1>2, <1>5, <1>10, <1>11, <1>12 DEF AtInv, PublishInv, SequentialInv

\* The holder writes one more than the newest value.
LEMMA CsWriteInv ==
  ASSUME AtInv, NEW t \in Thread, At!CsWrite(t)
  PROVE  AtInv'
<1>1. /\ atPc[t] = "csWrite" /\ Holds(t) /\ program' = program
      /\ At!Goto(t, "csWrite", "unlock") /\ At!Write(t, "counter", reg[t] + 1)
      /\ reg' = [reg EXCEPT ![t] = 0] /\ left' = [left EXCEPT ![t] = left[t] - 1]
  BY DEF At!CsWrite, At!Goto, Holds
<1>2. /\ AtMem /\ AtLocals /\ atRace = FALSE /\ program = "SpinLock" /\ t \in {1, 2, 3}
      /\ At!Current("flag_") = 1 /\ reg[t] = At!Current("counter")
      /\ KnowsCounter(atView[t]) /\ \A u \in Thread : KnowsRead(atView[t], u)
      /\ At!Current("counter") + left[1] + left[2] + left[3] = 3 * Rounds
  BY <1>1, SpinFacts
<1>3. /\ "counter" \in AtomicPlain /\ "counter" \in AtomicLocation /\ "flag_" \in AtomicLocation
  BY DEF AtomicLocation, AtomicPlain
<1>4. /\ left[1] \in Nat /\ left[2] \in Nat /\ left[3] \in Nat /\ Rounds \in Nat
      /\ left[t] \in 1 .. Rounds /\ At!Current("counter") \in Nat
      /\ \A u \in Thread : left[u] \in 0 .. Rounds
  <2>1. \A u \in Thread : left[u] \in 0 .. Rounds
    BY <1>2 DEF AtLocals
  <2>2. left[t] > 0 /\ At!Current("counter") \in 0 .. (3 * Rounds)
    BY <1>1, <1>2, <1>3, AtMemFacts DEF AtLocals
  <2> QED
    BY <2>1, <2>2, AtomicConstants
<1>5. reg[t] + 1 \in 0 .. (3 * Rounds)
  BY <1>2, <1>4
<1>6. /\ AtMem' /\ AtGrows(t) /\ AtAppends("counter", reg[t] + 1, At!Nothing) /\ atRace' = FALSE
      /\ atView'[t].seen["counter"] = At!Newest("counter") + 1
  BY <1>1, <1>2, <1>3, <1>5, AtWriteMem DEF KnowsCounter, KnowsRead
<1>7. /\ At!Newest("counter")' = At!Newest("counter") + 1
      /\ At!Current("counter")' = At!Current("counter") + 1 /\ At!Current("flag_")' = 1
  <2>1. \E w \in At!View : AtAppends("counter", reg[t] + 1, w)
    BY <1>6, AtNothing
  <2> QED
    BY <1>2, <1>3, <1>5, <2>1, AtAppendedSome
<1>8. /\ atPc'[t] = "unlock"
      /\ \A u \in Thread : u # t => atPc'[u] = atPc[u] /\ ~Holds(u) /\ ~Holds(u)'
      /\ DOMAIN atPc' = Thread /\ \A u \in Thread : atPc'[u] \in AtLabels[program'][u]
  BY <1>1, HolderMoves DEF SpinLabel
<1>9. AtLocals'
  <2>1. reg' \in [Thread -> 0 .. (3 * Rounds)] /\ left' \in [Thread -> 0 .. Rounds]
    <3>1. 0 \in 0 .. (3 * Rounds) /\ left[t] - 1 \in 0 .. Rounds
      BY <1>4
    <3> QED
      BY <1>1, <1>2, <3>1 DEF AtLocals
  <2>2. \A u \in Thread : u # t => left'[u] = left[u]
    BY <1>1, <1>2 DEF AtLocals
  <2>3. \A u \in Thread : atPc'[u] \in {"lock", "csRead", "csWrite", "increase"} => left'[u] > 0
    BY <1>2, <1>8, <2>2 DEF AtLocals
  <2> QED
    BY <1>1, <1>2, <1>8, <2>1, <2>3 DEF AtLocals
<1>10. At!NoLostAddition'
  <2>1. left'[1] + left'[2] + left'[3] = left[1] + left[2] + left[3] - 1
    <3>1. DOMAIN left = {1, 2, 3, 4}
      BY <1>2, AtomicConstants DEF AtLocals
    <3>2. CASE t = 1
      BY <1>1, <1>4, <3>1, <3>2
    <3>3. CASE t = 2
      BY <1>1, <1>4, <3>1, <3>3
    <3>4. CASE t = 3
      BY <1>1, <1>4, <3>1, <3>4
    <3> QED
      BY <1>2, <3>2, <3>3, <3>4
  <2>2. At!Current("counter")' + left'[1] + left'[2] + left'[3] = 3 * Rounds
    <3>1. left'[1] \in Int /\ left'[2] \in Int /\ left'[3] \in Int
      BY <1>9, AtomicConstants DEF AtLocals
    <3> QED
      BY <1>2, <1>4, <1>7, <2>1, <3>1
  <2>3. left'[1] \in Int /\ left'[2] \in Int /\ left'[3] \in Int
    BY <1>9, AtomicConstants DEF AtLocals
  <2> QED
    BY <1>1, <1>2, <1>4, <1>7, <2>2, <2>3 DEF At!NoLostAddition, At!Remaining
<1>11. SpinInv'
  <2>1. KnowsCounter(atView[t])' /\ \A u \in Thread : KnowsRead(atView[t], u)'
    BY <1>2, <1>6, <1>7 DEF KnowsCounter, KnowsRead, AtGrows, Knows
  <2> QED
    BY <1>7, <1>8, <2>1 DEF SpinInv
<1> QED
  BY <1>1, <1>2, <1>6, <1>9, <1>10, <1>11 DEF AtInv, PublishInv, SequentialInv

\* The flag tells the next holder all that the last one knew.
LEMMA UnlockInv ==
  ASSUME AtInv, NEW t \in Thread, At!Unlock(t)
  PROVE  AtInv'
<1> DEFINE to == IF left[t] = 0 THEN "done" ELSE "lock"
<1>1. /\ atPc[t] = "unlock" /\ Holds(t) /\ program' = program
      /\ At!Goto(t, "unlock", to) /\ At!Store(t, "flag_", 0, "release")
      /\ reg' = reg /\ left' = left
  BY DEF At!Unlock, At!Goto, Holds
<1>2. /\ AtMem /\ AtLocals /\ atRace = FALSE /\ program = "SpinLock" /\ t \in {1, 2, 3}
      /\ KnowsCounter(atView[t]) /\ \A u \in Thread : KnowsRead(atView[t], u)
      /\ At!NoLostAddition
  BY <1>1, SpinFacts DEF AtInv
<1>3. /\ "counter" \in AtomicLocation /\ "flag_" \in AtomicLocation /\ 0 \in 0 .. (3 * Rounds)
  BY AtomicConstants DEF AtomicLocation, AtomicPlain
<1>4. /\ AtMem' /\ atRace' = FALSE
      /\ \E w \in At!View : AtAppends("flag_", 0, w) /\ Knows(w, atView[t])
  BY <1>1, <1>2, <1>3, AtStoreMem
<1>5. PICK w \in At!View : AtAppends("flag_", 0, w) /\ Knows(w, atView[t])
  BY <1>4
<1>6. /\ At!Newest("flag_")' = At!Newest("flag_") + 1 /\ At!Current("flag_")' = 0
      /\ At!Newest("counter")' = At!Newest("counter")
      /\ At!Current("counter")' = At!Current("counter")
      /\ atHist'["flag_"][At!Newest("flag_") + 1] = [val |-> 0, view |-> w]
  BY <1>2, <1>3, <1>5, AtAppended
<1>7. /\ atPc'[t] = to
      /\ \A u \in Thread : u # t => atPc'[u] = atPc[u] /\ ~Holds(u) /\ ~Holds(u)'
      /\ DOMAIN atPc' = Thread /\ \A u \in Thread : atPc'[u] \in AtLabels[program'][u]
  BY <1>1, HolderMoves DEF SpinLabel
<1>8. AtLocals'
  <2>1. left[t] \in Nat
    BY <1>2, AtomicConstants DEF AtLocals
  <2> QED
    BY <1>1, <1>2, <1>7, <2>1 DEF AtLocals
<1>9. At!NoLostAddition'
  BY <1>1, <1>2, <1>6 DEF At!NoLostAddition, At!Remaining
<1>10. SpinInv'
  <2>1. \A u \in Thread : ~Holds(u)'
    BY <1>7 DEF Holds
  <2>2. FlagView' = w
    BY <1>6 DEF FlagView
  <2>3. \A u \in Thread : KnowsRead(w, u)
    BY <1>2, <1>5 DEF KnowsRead, Knows
  <2>4. w.seen["counter"] = At!Newest("counter")'
    <3>1. atView[t].seen["counter"] <= w.seen["counter"] /\ w.seen["counter"] \in Nat
      BY <1>3, <1>5 DEF Knows, At!View
    <3>2. w.seen["counter"] <= At!Newest("counter")'
      <4>1. At!Newest("flag_")' \in 1 .. At!Newest("flag_")'
        BY <1>3, <1>4, <1>6, AtMemFacts, <1>2
      <4> QED
        BY <1>3, <1>4, <2>2, <4>1 DEF AtMem, FlagView
    <3>3. At!Newest("counter") \in Nat
      BY <1>2, <1>3, AtMemFacts
    <3> QED
      BY <1>2, <1>6, <3>1, <3>2, <3>3 DEF KnowsCounter
  <2> QED
    BY <1>6, <2>1, <2>2, <2>3, <2>4 DEF SpinInv, KnowsCounter, KnowsRead
<1> QED
  BY <1>1, <1>2, <1>4, <1>8, <1>9, <1>10 DEF AtInv, PublishInv, SequentialInv

\* An atomic increment adds to the newest value.
LEMMA IncreaseInv ==
  ASSUME AtInv, NEW t \in Thread, At!Increase(t)
  PROVE  AtInv'
<1> DEFINE to == IF left[t] = 1 THEN "done" ELSE "increase"
<1>1. /\ atPc[t] = "increase" /\ program' = program /\ reg' = reg
      /\ At!Goto(t, "increase", to)
      /\ At!Exchange(t, "x", At!Current("x") + 1, "relaxed")
      /\ left' = [left EXCEPT ![t] = left[t] - 1]
  BY DEF At!Increase, At!Goto
<1>2. AtMem /\ AtLocals /\ atRace = FALSE /\ "x" \in AtomicLocation
  BY DEF AtInv, AtomicLocation
<1>3. program = "Relax" /\ t \in {1, 2} /\ 1 \in Thread /\ 2 \in Thread /\ 3 \in Thread
  BY <1>1, <1>2, AtWho, AtomicConstants
<1>4. /\ left[1] \in Nat /\ left[2] \in Nat /\ left[3] = 0 /\ Rounds \in Nat
      /\ left[t] \in 1 .. Rounds /\ At!Current("x") \in Nat
  <2>1. \A u \in Thread : left[u] \in 0 .. Rounds
    BY <1>2 DEF AtLocals
  <2>2. left[t] > 0 /\ left[3] = 0 /\ At!Current("x") \in 0 .. (3 * Rounds)
    BY <1>1, <1>2, <1>3, AtMemFacts DEF AtLocals
  <2> QED
    BY <1>3, <2>1, <2>2, AtomicConstants
<1>5. At!Current("x") + left[1] + left[2] = 2 * Rounds
  BY <1>3, <1>4 DEF AtInv, At!NoLostAddition, At!Remaining
<1>6. At!Current("x") + 1 \in 0 .. (3 * Rounds)
  BY <1>3, <1>4, <1>5
<1>7. AtMem' /\ atRace' = FALSE /\ At!Current("x")' = At!Current("x") + 1
  BY <1>1, <1>2, <1>6, AtExchangeMem, AtAppendedSome
<1>8. /\ atPc'[t] = to /\ \A u \in Thread : u # t => atPc'[u] = atPc[u]
      /\ DOMAIN atPc' = Thread /\ \A u \in Thread : atPc'[u] \in AtLabels[program'][u]
  <2>1. to \in AtLabels[program][t]
    BY <1>3 DEF AtLabels
  <2> QED
    BY <1>1, <1>2, <2>1, AtGoto
<1>9. /\ left' \in [Thread -> 0 .. Rounds] /\ left'[t] = left[t] - 1
      /\ \A u \in Thread : u # t => left'[u] = left[u]
  <2>1. left[t] - 1 \in 0 .. Rounds
    BY <1>4
  <2> QED
    BY <1>1, <1>2, <2>1 DEF AtLocals
<1>10. AtLocals'
  <2>1. left'[3] = 0
    BY <1>3, <1>4, <1>9
  <2>2. to = "increase" => left[t] - 1 > 0
    BY <1>4
  <2>3. \A u \in Thread : atPc'[u] \in {"lock", "csRead", "csWrite", "increase"} => left'[u] > 0
    BY <1>2, <1>8, <1>9, <2>2 DEF AtLocals
  <2> QED
    BY <1>1, <1>2, <1>8, <1>9, <2>1, <2>3 DEF AtLocals
<1>11. At!NoLostAddition'
  <2>1. left'[1] + left'[2] + left'[3] = left[1] + left[2] - 1
    <3>1. CASE t = 1
      BY <1>3, <1>4, <1>9, <3>1
    <3>2. CASE t = 2
      BY <1>3, <1>4, <1>9, <3>2
    <3> QED
      BY <1>3, <3>1, <3>2
  <2> QED
    BY <1>1, <1>3, <1>4, <1>5, <1>7, <2>1 DEF At!NoLostAddition, At!Remaining
<1> QED
  BY <1>1, <1>3, <1>7, <1>10, <1>11 DEF AtInv, SpinInv, PublishInv, SequentialInv

\* A step of the other two programs, which count nothing.
LEMMA AtLocalsNext ==
  ASSUME AtInv, NEW t \in Thread, NEW from, NEW to, At!Goto(t, from, to),
         to \in AtLabels[program][t], to \notin {"lock", "csRead", "csWrite", "increase"},
         program \in {"AcquireRelease", "Sequential"}, program' = program, left' = left,
         reg' \in [Thread -> 0 .. (3 * Rounds)]
  PROVE  /\ AtLocals' /\ At!NoLostAddition' /\ SpinInv'
         /\ program = "AcquireRelease" => SequentialInv'
         /\ program = "Sequential" => PublishInv'
         /\ atPc'[t] = to /\ \A u \in Thread : u # t => atPc'[u] = atPc[u]
<1>1. AtLocals
  BY DEF AtInv
<1>2. /\ atPc[t] = from /\ atPc'[t] = to
      /\ \A u \in Thread : u # t => atPc'[u] = atPc[u]
      /\ DOMAIN atPc' = Thread
      /\ \A u \in Thread : atPc'[u] \in AtLabels[program'][u]
  BY <1>1, AtGoto
<1>3. AtLocals'
  BY <1>1, <1>2 DEF AtLocals
<1> QED
  BY <1>2, <1>3 DEF At!NoLostAddition, SpinInv, SequentialInv, PublishInv

\* Nobody has read the data when it is written.
LEMMA ProduceInv ==
  ASSUME AtInv, NEW t \in Thread, At!Produce(t)
  PROVE  AtInv'
<1>1. /\ atPc[t] = "produce" /\ At!Goto(t, "produce", "publish") /\ At!Write(t, "data", 1)
      /\ program' = program /\ reg' = reg /\ left' = left
  BY DEF At!Produce, At!Goto
<1>2. AtMem /\ AtLocals /\ atRace = FALSE /\ PublishInv
  BY DEF AtInv
<1>3. program = "AcquireRelease" /\ t = 1 /\ 1 \in Thread /\ 2 \in Thread
  BY <1>1, <1>2, AtWho, AtomicConstants
<1>4. /\ "data" \in AtomicPlain /\ {"data", "flag"} \subseteq AtomicLocation
      /\ 1 \in 0 .. (3 * Rounds)
  BY AtomicConstants DEF AtomicPlain, AtomicLocation
<1>5. /\ At!Newest("data") = 1 /\ \A u \in Thread \ {1} : <<u, "data">> \in atView[1].reads
      /\ atPc[2] = "await" /\ \A i \in 1 .. At!Newest("flag") : atHist["flag"][i].val # 1
  BY <1>1, <1>2, <1>3 DEF PublishInv
<1>6. atView[1].seen["data"] = At!Newest("data")
  BY <1>2, <1>3, <1>4, <1>5 DEF AtMem
<1>7. /\ AtMem' /\ AtGrows(1) /\ AtAppends("data", 1, At!Nothing)
      /\ atView'[1].seen["data"] = At!Newest("data") + 1 /\ atRace' = FALSE
  BY <1>1, <1>2, <1>3, <1>4, <1>5, <1>6, AtWriteMem
<1>8. /\ At!Newest("data")' = At!Newest("data") + 1 /\ At!Current("data")' = 1
      /\ atHist'["flag"] = atHist["flag"] /\ At!Newest("flag")' = At!Newest("flag")
  BY <1>2, <1>4, <1>7, AtNothing, AtAppendedSome
<1>9. /\ AtLocals' /\ At!NoLostAddition' /\ SpinInv' /\ SequentialInv'
      /\ atPc'[1] = "publish" /\ atPc'[2] = atPc[2]
  <2>1. "publish" \in AtLabels[program][t]
    BY <1>3 DEF AtLabels
  <2> QED
    BY <1>1, <1>2, <1>3, <2>1, AtLocalsNext DEF AtLocals
<1>10. PublishInv'
  BY <1>5, <1>7, <1>8, <1>9 DEF PublishInv
<1> QED
  BY <1>7, <1>9, <1>10 DEF AtInv

\* The flag that is set tells of the data.
LEMMA PublishStepInv ==
  ASSUME AtInv, NEW t \in Thread, At!Publish(t)
  PROVE  AtInv'
<1>1. /\ atPc[t] = "publish" /\ At!Goto(t, "publish", "done")
      /\ At!Store(t, "flag", 1, "release")
      /\ program' = program /\ reg' = reg /\ left' = left
  BY DEF At!Publish, At!Goto
<1>2. AtMem /\ AtLocals /\ atRace = FALSE /\ PublishInv
  BY DEF AtInv
<1>3. program = "AcquireRelease" /\ t = 1 /\ 1 \in Thread /\ 2 \in Thread
  BY <1>1, <1>2, AtWho, AtomicConstants
<1>4. {"data", "flag"} \subseteq AtomicLocation /\ 1 \in 0 .. (3 * Rounds)
  BY AtomicConstants DEF AtomicPlain, AtomicLocation
<1>5. /\ atView[1].seen["data"] = At!Newest("data") /\ At!Current("data") = 1
      /\ atPc[2] = "await" /\ \A i \in 1 .. At!Newest("flag") : atHist["flag"][i].val # 1
  BY <1>1, <1>2, <1>3 DEF PublishInv
<1>6. /\ AtMem' /\ AtGrows(1) /\ atRace' = FALSE
      /\ \E w \in At!View : AtAppends("flag", 1, w) /\ Knows(w, atView[1])
  BY <1>1, <1>2, <1>3, <1>4, AtStoreMem
<1>7. PICK w \in At!View : AtAppends("flag", 1, w) /\ Knows(w, atView[1])
  BY <1>6
<1>8. /\ At!Newest("data")' = At!Newest("data") /\ At!Current("data")' = At!Current("data")
      /\ At!Newest("flag")' = At!Newest("flag") + 1
      /\ atHist'["flag"][At!Newest("flag") + 1] = [val |-> 1, view |-> w]
      /\ \A i \in 1 .. At!Newest("flag") : atHist'["flag"][i] = atHist["flag"][i]
  BY <1>2, <1>4, <1>7, AtAppended
<1>9. /\ AtLocals' /\ At!NoLostAddition' /\ SpinInv' /\ SequentialInv'
      /\ atPc'[1] = "done" /\ atPc'[2] = atPc[2]
  <2>1. "done" \in AtLabels[program][t]
    BY <1>3 DEF AtLabels
  <2> QED
    BY <1>1, <1>2, <1>3, <2>1, AtLocalsNext DEF AtLocals
<1>10. At!Newest("data") \in Nat /\ At!Newest("flag") \in Nat
  BY <1>2, <1>4, AtMemFacts
<1>11. atView'[1].seen["data"] = At!Newest("data")
  <2>1. /\ atView'[1].seen["data"] \in 1 .. At!Newest("data")'
        /\ atView[1].seen["data"] <= atView'[1].seen["data"]
    BY <1>3, <1>4, <1>6 DEF AtMem, AtGrows, Knows
  <2> QED
    BY <1>5, <1>8, <1>10, <2>1
<1>12. w.seen["data"] = At!Newest("data")
  <2>1. At!Newest("flag")' \in 1 .. At!Newest("flag")' /\ w.seen["data"] \in Nat
    BY <1>4, <1>8, <1>10 DEF At!View
  <2>2. w.seen["data"] <= At!Newest("data")' /\ atView[1].seen["data"] <= w.seen["data"]
    BY <1>4, <1>6, <1>7, <1>8, <2>1 DEF AtMem, Knows
  <2> QED
    BY <1>5, <1>8, <1>10, <2>1, <2>2
<1>13. PublishInv'
  <2>1. ASSUME NEW i \in 1 .. At!Newest("flag")', atHist'["flag"][i].val = 1
        PROVE  atHist'["flag"][i].view.seen["data"] = At!Newest("data")'
    <3>1. i = At!Newest("flag") + 1
      BY <1>5, <1>8, <1>10, <2>1
    <3> QED
      BY <1>8, <1>12, <3>1
  <2> QED
    BY <1>5, <1>8, <1>9, <1>11, <2>1 DEF PublishInv
<1> QED
  BY <1>6, <1>9, <1>13 DEF AtInv

\* Who finds the flag set has the data.
LEMMA AwaitInv ==
  ASSUME AtInv, NEW t \in Thread, At!Await(t)
  PROVE  AtInv'
<1>1. PICK n : /\ At!Goto(t, "await", IF At!Value("flag", n) = 1 THEN "consume" ELSE "await")
               /\ At!Load(t, "flag", "acquire", n)
               /\ program' = program /\ reg' = reg /\ left' = left
  BY DEF At!Await
<1> DEFINE to == IF At!Value("flag", n) = 1 THEN "consume" ELSE "await"
<1>2. AtMem /\ AtLocals /\ atRace = FALSE /\ PublishInv
  BY DEF AtInv
<1>3. program = "AcquireRelease" /\ t = 2 /\ 1 \in Thread /\ 2 \in Thread /\ atPc[2] = "await"
  BY <1>1, <1>2, AtWho, AtomicConstants DEF At!Goto
<1>4. {"data", "flag"} \subseteq AtomicLocation
  BY DEF AtomicPlain, AtomicLocation
<1>5. /\ AtMem' /\ atHist' = atHist /\ atRace' = FALSE /\ AtGrows(2)
      /\ n \in 1 .. At!Newest("flag") /\ Knows(atView'[2], atHist["flag"][n].view)
  BY <1>1, <1>2, <1>3, <1>4, AtLoadMem
<1>6. /\ AtLocals' /\ At!NoLostAddition' /\ SpinInv' /\ SequentialInv'
      /\ atPc'[2] = to /\ atPc'[1] = atPc[1]
  <2>1. to \in AtLabels[program][t]
    BY <1>3 DEF AtLabels
  <2> QED
    BY <1>1, <1>2, <1>3, <2>1, AtLocalsNext DEF AtLocals
<1>7. /\ At!Newest("data")' = At!Newest("data") /\ At!Current("data")' = At!Current("data")
      /\ At!Newest("flag")' = At!Newest("flag") /\ atView'[1] = atView[1]
  BY <1>3, <1>5 DEF At!Newest, At!Current, AtGrows
<1>8. ASSUME to = "consume"
      PROVE  atPc[1] = "done" /\ atView'[2].seen["data"] = At!Newest("data")
  <2>1. atPc[1] = "done" /\ atHist["flag"][n].view.seen["data"] = At!Newest("data")
    BY <1>2, <1>3, <1>5, <1>8 DEF PublishInv, At!Value
  <2>2. /\ atView'[2].seen["data"] \in 1 .. At!Newest("data")'
        /\ At!Newest("data") <= atView'[2].seen["data"] /\ At!Newest("data") \in Nat
    BY <1>2, <1>3, <1>4, <1>5, <2>1, AtMemFacts DEF AtMem, Knows
  <2> QED
    BY <1>7, <2>1, <2>2
<1>9. PublishInv'
  BY <1>1, <1>2, <1>3, <1>5, <1>6, <1>7, <1>8 DEF PublishInv
<1> QED
  BY <1>5, <1>6, <1>9 DEF AtInv

\* The consumer reads the newest data.
LEMMA ConsumeInv ==
  ASSUME AtInv, NEW t \in Thread, At!Consume(t)
  PROVE  AtInv'
<1>1. PICK n : /\ At!Goto(t, "consume", "done") /\ At!Read(t, "data", n)
               /\ reg' = [reg EXCEPT ![t] = At!Value("data", n)]
               /\ program' = program /\ left' = left
  BY DEF At!Consume
<1>2. AtMem /\ AtLocals /\ atRace = FALSE /\ PublishInv
  BY DEF AtInv
<1>3. program = "AcquireRelease" /\ t = 2 /\ 1 \in Thread /\ 2 \in Thread /\ atPc[2] = "consume"
  BY <1>1, <1>2, AtWho, AtomicConstants DEF At!Goto
<1>4. /\ "data" \in AtomicPlain /\ {"data", "flag"} \subseteq AtomicLocation
      /\ 1 \in 0 .. (3 * Rounds)
  BY AtomicConstants DEF AtomicPlain, AtomicLocation
<1>5. /\ atPc[1] = "done" /\ atView[2].seen["data"] = At!Newest("data")
      /\ At!Current("data") = 1 /\ atView[1].seen["data"] = At!Newest("data")
  BY <1>2, <1>3 DEF PublishInv
<1>6. /\ AtMem' /\ AtHasRead(2, "data") /\ atRace' = FALSE
      /\ n \in At!Newest("data") .. At!Newest("data")
  BY <1>1, <1>2, <1>3, <1>4, <1>5, AtReadMem
<1>7. n = At!Newest("data") /\ At!Value("data", n) = 1
  BY <1>2, <1>4, <1>5, <1>6, AtMemFacts DEF At!Value, At!Current
<1>8. /\ AtLocals' /\ At!NoLostAddition' /\ SpinInv' /\ SequentialInv'
      /\ atPc'[2] = "done" /\ atPc'[1] = atPc[1]
  <2>1. "done" \in AtLabels[program][t]
    BY <1>3 DEF AtLabels
  <2>2. reg' \in [Thread -> 0 .. (3 * Rounds)]
    BY <1>1, <1>2, <1>4, <1>7 DEF AtLocals
  <2> QED
    BY <1>1, <1>2, <1>3, <2>1, <2>2, AtLocalsNext
<1>9. reg'[2] = 1
  BY <1>1, <1>2, <1>3, <1>7 DEF AtLocals
<1>10. /\ At!Newest("data")' = At!Newest("data") /\ At!Current("data")' = At!Current("data")
       /\ At!Newest("flag")' = At!Newest("flag")
       /\ atView'[1].seen = atView[1].seen /\ atView'[2].seen = atView[2].seen
       /\ \A i \in 1 .. At!Newest("flag") :
            /\ atHist'["flag"][i].val = atHist["flag"][i].val
            /\ atHist'["flag"][i].view.seen = atHist["flag"][i].view.seen
  BY <1>3, <1>4, <1>6 DEF AtHasRead
<1>11. PublishInv'
  BY <1>2, <1>3, <1>5, <1>8, <1>9, <1>10 DEF PublishInv
<1> QED
  BY <1>6, <1>8, <1>11 DEF AtInv

SequentialLocation == {"x", "y", "z", "go"}

\* A store of the program of memOrder/SequentialConsistency.cpp.
LEMMA SequentialStore ==
  ASSUME AtInv, NEW t \in Thread, NEW from, NEW to, NEW a \in SequentialLocation,
         At!StoreSC(t, from, to, a, 1), reg' = reg,
         program = "Sequential", to \in AtLabels[program][t],
         to \notin {"lock", "csRead", "csWrite", "increase"}
  PROVE  /\ AtMem' /\ atRace' = FALSE /\ AtLocals' /\ At!NoLostAddition' /\ SpinInv'
         /\ PublishInv' /\ program' = program
         /\ atPc[t] = from /\ atPc'[t] = to /\ \A u \in Thread : u # t => atPc'[u] = atPc[u]
<1>1. /\ At!Goto(t, from, to) /\ At!Store(t, a, 1, "seq_cst") /\ program' = program
      /\ left' = left
  BY DEF At!StoreSC
<1>2. AtMem /\ AtLocals /\ atRace = FALSE
  BY DEF AtInv
<1>3. SequentialLocation \subseteq AtomicLocation /\ 1 \in 0 .. (3 * Rounds)
  BY AtomicConstants DEF SequentialLocation, AtomicLocation
<1>4. AtMem' /\ atRace' = FALSE /\ \E w \in At!View : AtAppends(a, 1, w)
  BY <1>1, <1>2, <1>3, AtStoreMem
<1>5. /\ AtLocals' /\ At!NoLostAddition' /\ SpinInv' /\ PublishInv'
      /\ atPc'[t] = to /\ \A u \in Thread : u # t => atPc'[u] = atPc[u]
  BY <1>1, <1>2, AtLocalsNext DEF AtLocals
<1>6. atPc[t] = from
  BY <1>1 DEF At!Goto
<1> QED
  BY <1>1, <1>4, <1>5, <1>6

\* What it stores.
LEMMA SequentialStored ==
  ASSUME AtInv, NEW t \in Thread, NEW from, NEW to, NEW a \in SequentialLocation,
         At!StoreSC(t, from, to, a, 1)
  PROVE  /\ At!Current(a)' = 1
         /\ \A b \in SequentialLocation : b # a => At!Current(b)' = At!Current(b)
<1>1. At!Store(t, a, 1, "seq_cst")
  BY DEF At!StoreSC
<1>2. AtMem /\ SequentialLocation \subseteq AtomicLocation /\ 1 \in 0 .. (3 * Rounds)
  BY AtomicConstants DEF AtInv, SequentialLocation, AtomicLocation
<1>3. \E w \in At!View : AtAppends(a, 1, w)
  BY <1>1, <1>2, AtStoreMem
<1> QED
  BY <1>2, <1>3, AtAppendedSome

\* A load of the newest value.
LEMMA SequentialLoad ==
  ASSUME AtInv, NEW t \in Thread, NEW from, NEW to, NEW a \in SequentialLocation,
         At!Goto(t, from, to), At!Load(t, a, "seq_cst", At!Newest(a)),
         program' = program, left' = left, reg' \in [Thread -> 0 .. (3 * Rounds)],
         program = "Sequential", to \in AtLabels[program][t],
         to \notin {"lock", "csRead", "csWrite", "increase"}
  PROVE  /\ AtMem' /\ atRace' = FALSE /\ AtLocals' /\ At!NoLostAddition' /\ SpinInv'
         /\ PublishInv'
         /\ atPc[t] = from /\ atPc'[t] = to /\ \A u \in Thread : u # t => atPc'[u] = atPc[u]
<1>1. AtMem /\ AtLocals /\ atRace = FALSE
  BY DEF AtInv
<1>2. a \in AtomicLocation
  BY DEF SequentialLocation, AtomicLocation
<1>3. AtMem' /\ atRace' = FALSE
  BY <1>1, <1>2, AtLoadMem
<1>4. /\ AtLocals' /\ At!NoLostAddition' /\ SpinInv' /\ PublishInv'
      /\ atPc'[t] = to /\ \A u \in Thread : u # t => atPc'[u] = atPc[u]
  BY AtLocalsNext
<1>5. atPc[t] = from
  BY DEF At!Goto
<1> QED
  BY <1>3, <1>4, <1>5

\* It changes no value.
LEMMA SequentialLoaded ==
  ASSUME NEW t, NEW a, At!Load(t, a, "seq_cst", At!Newest(a))
  PROVE  \A b \in SequentialLocation : At!Current(b)' = At!Current(b)
BY DEF At!Load, At!Current, At!Newest

\* The value read is in range.
LEMMA SequentialRead ==
  ASSUME AtInv, NEW t \in Thread, NEW a \in SequentialLocation
  PROVE  /\ [reg EXCEPT ![t] = At!Current(a)] \in [Thread -> 0 .. (3 * Rounds)]
         /\ [reg EXCEPT ![t] = 0] \in [Thread -> 0 .. (3 * Rounds)]
         /\ reg \in [Thread -> 0 .. (3 * Rounds)]
<1>1. a \in AtomicLocation /\ AtMem /\ reg \in [Thread -> 0 .. (3 * Rounds)]
  BY DEF SequentialLocation, AtomicLocation, AtInv, AtLocals
<1>2. At!Current(a) \in 0 .. (3 * Rounds) /\ 0 \in 0 .. (3 * Rounds)
  BY <1>1, AtMemFacts, AtomicConstants
<1> QED
  BY <1>1, <1>2

\* The labels of the program.
LEMMA SequentialLabels ==
  ASSUME program = "Sequential"
  PROVE  /\ AtLabels[program][1] = {"writeX", "setGo", "done"}
         /\ AtLabels[program][2] = {"awaitY", "writeY", "done"}
         /\ AtLabels[program][3] = {"awaitXY", "readX", "thenY", "z1", "done"}
         /\ AtLabels[program][4] = {"awaitYX", "readY", "thenX", "z2", "done"}
BY DEF AtLabels

\* write_x and write_y: y is written after go, which is written after x.
LEMMA WritersInv ==
  ASSUME AtInv, NEW t \in Thread, At!WriteX(t) \/ At!WriteY(t)
  PROVE  AtInv'
<1>1. /\ AtLocals /\ SequentialInv /\ 1 \in Thread /\ 2 \in Thread /\ 3 \in Thread
      /\ 4 \in Thread
      /\ "x" \in SequentialLocation /\ "y" \in SequentialLocation
      /\ "z" \in SequentialLocation /\ "go" \in SequentialLocation
  BY AtomicConstants DEF AtInv, SequentialLocation
<1>2. CASE At!StoreSC(t, "writeX", "setGo", "x", 1) /\ reg' = reg
  <2>1. program = "Sequential" /\ t = 1
    BY <1>1, <1>2, AtWho DEF At!StoreSC, At!Goto
  <2>2. /\ AtMem' /\ atRace' = FALSE /\ AtLocals' /\ At!NoLostAddition' /\ SpinInv'
        /\ PublishInv' /\ program' = program /\ atPc[t] = "writeX"
        /\ atPc'[t] = "setGo" /\ \A u \in Thread : u # t => atPc'[u] = atPc[u]
        /\ At!Current("x")' = 1
        /\ \A b \in SequentialLocation : b # "x" => At!Current(b)' = At!Current(b)
    <3>1. "setGo" \in AtLabels[program][t]
      BY <2>1, SequentialLabels
    <3>2. /\ "setGo" \notin {"lock", "csRead", "csWrite", "increase"}
          /\ "x" \in SequentialLocation /\ program = "Sequential" /\ reg' = reg
          /\ At!StoreSC(t, "writeX", "setGo", "x", 1)
      BY <1>1, <1>2, <2>1
    <3>3. /\ AtMem' /\ atRace' = FALSE /\ AtLocals' /\ At!NoLostAddition' /\ SpinInv'
          /\ PublishInv' /\ program' = program /\ atPc[t] = "writeX"
          /\ atPc'[t] = "setGo" /\ \A u \in Thread : u # t => atPc'[u] = atPc[u]
      BY <3>1, <3>2, SequentialStore
    <3>4. /\ At!Current("x")' = 1
          /\ \A b \in SequentialLocation : b # "x" => At!Current(b)' = At!Current(b)
      BY <1>1, <1>2, SequentialStored
    <3> QED
      BY <3>3, <3>4
  <2> QED
    BY <1>1, <1>2, <2>1, <2>2 DEF AtInv, SequentialInv
<1>3. CASE At!StoreSC(t, "setGo", "done", "go", 1) /\ reg' = reg
  <2>1. program = "Sequential" /\ t = 1
    BY <1>1, <1>3, AtWho DEF At!StoreSC, At!Goto
  <2>2. /\ AtMem' /\ atRace' = FALSE /\ AtLocals' /\ At!NoLostAddition' /\ SpinInv'
        /\ PublishInv' /\ program' = program /\ atPc[t] = "setGo"
        /\ atPc'[t] = "done" /\ \A u \in Thread : u # t => atPc'[u] = atPc[u]
        /\ At!Current("go")' = 1
        /\ \A b \in SequentialLocation : b # "go" => At!Current(b)' = At!Current(b)
    <3>1. "done" \in AtLabels[program][t]
      BY <2>1, SequentialLabels
    <3>2. /\ "done" \notin {"lock", "csRead", "csWrite", "increase"}
          /\ "go" \in SequentialLocation /\ program = "Sequential" /\ reg' = reg
          /\ At!StoreSC(t, "setGo", "done", "go", 1)
      BY <1>1, <1>3, <2>1
    <3>3. /\ AtMem' /\ atRace' = FALSE /\ AtLocals' /\ At!NoLostAddition' /\ SpinInv'
          /\ PublishInv' /\ program' = program /\ atPc[t] = "setGo"
          /\ atPc'[t] = "done" /\ \A u \in Thread : u # t => atPc'[u] = atPc[u]
      BY <3>1, <3>2, SequentialStore
    <3>4. /\ At!Current("go")' = 1
          /\ \A b \in SequentialLocation : b # "go" => At!Current(b)' = At!Current(b)
      BY <1>1, <1>3, SequentialStored
    <3> QED
      BY <3>3, <3>4
  <2> QED
    BY <1>1, <1>3, <2>1, <2>2 DEF AtInv, SequentialInv
<1>4. CASE At!AwaitGo(t, "awaitY", "writeY")
  <2> DEFINE to == IF At!Current("go") = 1 THEN "writeY" ELSE "awaitY"
  <2>1. /\ At!Goto(t, "awaitY", to) /\ At!Load(t, "go", "seq_cst", At!Newest("go"))
        /\ program' = program /\ left' = left /\ reg' = reg
    BY <1>4 DEF At!AwaitGo
  <2>2. program = "Sequential" /\ t = 2
    BY <1>1, <2>1, AtWho DEF At!Goto
  <2>3. to \in AtLabels[program][t] /\ to \in {"writeY", "awaitY"}
    BY <2>2, SequentialLabels
  <2>4. /\ AtMem' /\ atRace' = FALSE /\ AtLocals' /\ At!NoLostAddition' /\ SpinInv'
        /\ PublishInv' /\ atPc[t] = "awaitY"
        /\ atPc'[2] = to /\ \A u \in Thread : u # 2 => atPc'[u] = atPc[u]
        /\ \A b \in SequentialLocation : At!Current(b)' = At!Current(b)
    <3>1. reg' \in [Thread -> 0 .. (3 * Rounds)]
      BY <1>1, <2>1, SequentialRead
    <3>2. to \notin {"lock", "csRead", "csWrite", "increase"}
      BY <2>3
    <3>3. \A b \in SequentialLocation : At!Current(b)' = At!Current(b)
      BY <2>1, SequentialLoaded
    <3> HIDE DEF to
    <3>4. /\ AtMem' /\ atRace' = FALSE /\ AtLocals' /\ At!NoLostAddition' /\ SpinInv'
          /\ PublishInv' /\ atPc[t] = "awaitY"
          /\ atPc'[t] = to /\ \A u \in Thread : u # t => atPc'[u] = atPc[u]
      BY <1>1, <2>1, <2>2, <2>3, <3>1, <3>2, SequentialLoad
    <3> QED
      BY <2>2, <3>3, <3>4
  <2> QED
    BY <1>1, <2>1, <2>2, <2>4 DEF AtInv, SequentialInv
<1>5. CASE At!StoreSC(t, "writeY", "done", "y", 1) /\ reg' = reg
  <2>1. program = "Sequential" /\ t = 2
    BY <1>1, <1>5, AtWho DEF At!StoreSC, At!Goto
  <2>2. /\ AtMem' /\ atRace' = FALSE /\ AtLocals' /\ At!NoLostAddition' /\ SpinInv'
        /\ PublishInv' /\ program' = program /\ atPc[t] = "writeY"
        /\ atPc'[t] = "done" /\ \A u \in Thread : u # t => atPc'[u] = atPc[u]
        /\ At!Current("y")' = 1
        /\ \A b \in SequentialLocation : b # "y" => At!Current(b)' = At!Current(b)
    <3>1. "done" \in AtLabels[program][t]
      BY <2>1, SequentialLabels
    <3>2. /\ "done" \notin {"lock", "csRead", "csWrite", "increase"}
          /\ "y" \in SequentialLocation /\ program = "Sequential" /\ reg' = reg
          /\ At!StoreSC(t, "writeY", "done", "y", 1)
      BY <1>1, <1>5, <2>1
    <3>3. /\ AtMem' /\ atRace' = FALSE /\ AtLocals' /\ At!NoLostAddition' /\ SpinInv'
          /\ PublishInv' /\ program' = program /\ atPc[t] = "writeY"
          /\ atPc'[t] = "done" /\ \A u \in Thread : u # t => atPc'[u] = atPc[u]
      BY <3>1, <3>2, SequentialStore
    <3>4. /\ At!Current("y")' = 1
          /\ \A b \in SequentialLocation : b # "y" => At!Current(b)' = At!Current(b)
      BY <1>1, <1>5, SequentialStored
    <3> QED
      BY <3>3, <3>4
  <2> QED
    BY <1>1, <1>5, <2>1, <2>2 DEF AtInv, SequentialInv
<1> QED
  BY <1>2, <1>3, <1>4, <1>5 DEF At!WriteX, At!WriteY

\* The readers, and their stores to z: who has seen y = 1 finds x = 1.
LEMMA ReadersInv ==
  ASSUME AtInv, NEW t \in Thread, At!ReadXThenY(t) \/ At!ReadYThenX(t) \/ At!WriteZ(t)
  PROVE  AtInv'
<1>1. /\ AtLocals /\ SequentialInv /\ 1 \in Thread /\ 2 \in Thread /\ 3 \in Thread
      /\ 4 \in Thread
      /\ "x" \in SequentialLocation /\ "y" \in SequentialLocation
      /\ "z" \in SequentialLocation /\ "go" \in SequentialLocation
  BY AtomicConstants DEF AtInv, SequentialLocation
<1>2. ASSUME NEW from \in {"awaitXY", "awaitYX"}, NEW to \in {"readX", "readY"},
             from = "awaitXY" <=> to = "readX", At!AwaitGo(t, from, to)
      PROVE  AtInv'
  <2> DEFINE end == IF At!Current("go") = 1 THEN to ELSE from
  <2>1. /\ At!Goto(t, from, end) /\ At!Load(t, "go", "seq_cst", At!Newest("go"))
        /\ program' = program /\ left' = left /\ reg' = reg
    BY <1>2 DEF At!AwaitGo
  <2>2. program = "Sequential" /\ t = IF from = "awaitXY" THEN 3 ELSE 4
    BY <1>1, <1>2, <2>1, AtWho DEF At!Goto
  <2>3. end \in AtLabels[program][t] /\ end \in {"awaitXY", "awaitYX", "readX", "readY"}
    BY <1>2, <2>2, SequentialLabels
  <2>4. reg' \in [Thread -> 0 .. (3 * Rounds)]
    BY <1>1, <2>1, SequentialRead
  <2>5. \A b \in SequentialLocation : At!Current(b)' = At!Current(b)
    BY <2>1, SequentialLoaded
  <2>6. end \notin {"lock", "csRead", "csWrite", "increase"}
    BY <2>3
  <2> HIDE DEF end
  <2>7. /\ AtMem' /\ atRace' = FALSE /\ AtLocals' /\ At!NoLostAddition' /\ SpinInv'
        /\ PublishInv' /\ atPc[t] = from
        /\ atPc'[t] = end /\ \A u \in Thread : u # t => atPc'[u] = atPc[u]
    BY <1>1, <2>1, <2>2, <2>3, <2>4, <2>6, SequentialLoad
  <2> QED
    BY <1>1, <2>1, <2>2, <2>3, <2>5, <2>7 DEF AtInv, SequentialInv
<1>3. ASSUME NEW a \in {"x", "y"},
             At!LoadR1(t, IF a = "x" THEN "readX" ELSE "readY",
                       IF a = "x" THEN "thenY" ELSE "thenX", a)
      PROVE  AtInv'
  <2> DEFINE from == IF a = "x" THEN "readX" ELSE "readY"
             to == IF a = "x" THEN "thenY" ELSE "thenX"
  <2>1. /\ At!Goto(t, from, to) /\ At!Load(t, a, "seq_cst", At!Newest(a))
        /\ program' = program /\ left' = left /\ reg' = [reg EXCEPT ![t] = At!Current(a)]
    BY <1>3 DEF At!LoadR1
  <2>2. program = "Sequential" /\ t = IF a = "x" THEN 3 ELSE 4
    BY <1>1, <1>3, <2>1, AtWho DEF At!Goto
  <2>3. to \in AtLabels[program][t] /\ to \in {"thenY", "thenX"}
    BY <1>3, <2>2, SequentialLabels
  <2>4. reg' \in [Thread -> 0 .. (3 * Rounds)]
    BY <1>1, <2>1, SequentialRead
  <2>5. /\ AtMem' /\ atRace' = FALSE /\ AtLocals' /\ At!NoLostAddition' /\ SpinInv'
        /\ PublishInv'
        /\ atPc'[t] = to /\ \A u \in Thread : u # t => atPc'[u] = atPc[u]
        /\ \A b \in SequentialLocation : At!Current(b)' = At!Current(b)
    <3>1. \A b \in SequentialLocation : At!Current(b)' = At!Current(b)
      BY <2>1, SequentialLoaded
    <3>2. a \in SequentialLocation /\ to \notin {"lock", "csRead", "csWrite", "increase"}
      BY <1>1, <2>3
    <3>3. /\ At!Goto(t, from, to) /\ At!Load(t, a, "seq_cst", At!Newest(a))
          /\ program' = program /\ left' = left
      BY <2>1
    <3>4. program = "Sequential" /\ to \in AtLabels[program][t]
      BY <2>2, <2>3
    <3> HIDE DEF to, from
    <3>5. /\ AtMem' /\ atRace' = FALSE /\ AtLocals' /\ At!NoLostAddition' /\ SpinInv'
          /\ PublishInv'
          /\ atPc'[t] = to /\ \A u \in Thread : u # t => atPc'[u] = atPc[u]
      BY <2>4, <3>2, <3>3, <3>4, SequentialLoad
    <3> QED
      BY <3>1, <3>5
  <2>6. reg'[t] = At!Current(a) /\ \A u \in Thread : u # t => reg'[u] = reg[u]
    BY <1>1, <2>1 DEF AtLocals
  <2> QED
    BY <1>1, <2>1, <2>2, <2>5, <2>6 DEF AtInv, SequentialInv
<1>4. ASSUME NEW b \in {"x", "y"},
             At!LoadR2(t, IF b = "y" THEN "thenY" ELSE "thenX",
                       IF b = "y" THEN "z1" ELSE "z2", b, IF b = "y" THEN 1 ELSE 0)
      PROVE  AtInv'
  <2> DEFINE from == IF b = "y" THEN "thenY" ELSE "thenX"
             z == IF b = "y" THEN "z1" ELSE "z2"
             want == IF b = "y" THEN 1 ELSE 0
             to == IF reg[t] = 1 /\ At!Current(b) = want THEN z ELSE "done"
  <2>1. /\ At!Goto(t, from, to) /\ At!Load(t, b, "seq_cst", At!Newest(b))
        /\ program' = program /\ left' = left /\ reg' = [reg EXCEPT ![t] = 0]
    BY <1>4 DEF At!LoadR2
  <2>2. program = "Sequential" /\ t = IF b = "y" THEN 3 ELSE 4
    BY <1>1, <1>4, <2>1, AtWho DEF At!Goto
  <2>3. to \in AtLabels[program][t] /\ to \in {"z1", "z2", "done"}
    BY <1>4, <2>2, SequentialLabels
  <2>4. reg' \in [Thread -> 0 .. (3 * Rounds)]
    BY <1>1, <2>1, SequentialRead
  <2>5. b = "x" => to = "done"
    BY <1>1, <2>1, <2>2 DEF SequentialInv, At!Goto
  <2>6. /\ AtMem' /\ atRace' = FALSE /\ AtLocals' /\ At!NoLostAddition' /\ SpinInv'
        /\ PublishInv'
        /\ atPc'[t] = to /\ \A u \in Thread : u # t => atPc'[u] = atPc[u]
        /\ \A c \in SequentialLocation : At!Current(c)' = At!Current(c)
    <3>1. \A c \in SequentialLocation : At!Current(c)' = At!Current(c)
      BY <2>1, SequentialLoaded
    <3>2. b \in SequentialLocation /\ to \notin {"lock", "csRead", "csWrite", "increase"}
      BY <1>1, <2>3
    <3>3. /\ At!Goto(t, from, to) /\ At!Load(t, b, "seq_cst", At!Newest(b))
          /\ program' = program /\ left' = left
      BY <2>1
    <3>4. program = "Sequential" /\ to \in AtLabels[program][t]
      BY <2>2, <2>3
    <3> HIDE DEF to, from
    <3>5. /\ AtMem' /\ atRace' = FALSE /\ AtLocals' /\ At!NoLostAddition' /\ SpinInv'
          /\ PublishInv'
          /\ atPc'[t] = to /\ \A u \in Thread : u # t => atPc'[u] = atPc[u]
      BY <2>4, <3>2, <3>3, <3>4, SequentialLoad
    <3> QED
      BY <3>1, <3>5
  <2>7. reg'[t] = 0 /\ \A u \in Thread : u # t => reg'[u] = reg[u]
    BY <1>1, <2>1 DEF AtLocals
  <2> QED
    BY <1>1, <2>1, <2>2, <2>5, <2>6, <2>7 DEF AtInv, SequentialInv
<1>5. CASE At!StoreSC(t, "z1", "done", "z", 1) /\ reg' = reg
  <2>1. program = "Sequential" /\ t = 3
    BY <1>1, <1>5, AtWho DEF At!StoreSC, At!Goto
  <2>2. /\ AtMem' /\ atRace' = FALSE /\ AtLocals' /\ At!NoLostAddition' /\ SpinInv'
        /\ PublishInv' /\ program' = program
        /\ atPc'[t] = "done" /\ \A u \in Thread : u # t => atPc'[u] = atPc[u]
        /\ At!Current("z")' = 1
        /\ \A b \in SequentialLocation : b # "z" => At!Current(b)' = At!Current(b)
    <3>1. "done" \in AtLabels[program][t]
      BY <2>1, SequentialLabels
    <3>2. /\ "done" \notin {"lock", "csRead", "csWrite", "increase"}
          /\ "z" \in SequentialLocation /\ program = "Sequential" /\ reg' = reg
          /\ At!StoreSC(t, "z1", "done", "z", 1)
      BY <1>1, <1>5, <2>1
    <3>3. /\ AtMem' /\ atRace' = FALSE /\ AtLocals' /\ At!NoLostAddition' /\ SpinInv'
          /\ PublishInv' /\ program' = program /\ atPc[t] = "z1"
          /\ atPc'[t] = "done" /\ \A u \in Thread : u # t => atPc'[u] = atPc[u]
      BY <3>1, <3>2, SequentialStore
    <3>4. /\ At!Current("z")' = 1
          /\ \A b \in SequentialLocation : b # "z" => At!Current(b)' = At!Current(b)
      BY <1>1, <1>5, SequentialStored
    <3> QED
      BY <3>3, <3>4
  <2> QED
    BY <1>1, <1>5, <2>1, <2>2 DEF AtInv, SequentialInv
<1>6. ~At!StoreSC(t, "z2", "done", "z", 2)
  BY <1>1, AtWho DEF SequentialInv, At!StoreSC, At!Goto
<1>7. CASE At!ReadXThenY(t)
  BY <1>2, <1>3, <1>4, <1>7 DEF At!ReadXThenY
<1>8. CASE At!ReadYThenX(t)
  BY <1>2, <1>3, <1>4, <1>8 DEF At!ReadYThenX
<1>9. CASE At!WriteZ(t)
  BY <1>5, <1>6, <1>9 DEF At!WriteZ
<1> QED
  BY <1>7, <1>8, <1>9

\* A step that leaves the variables alone.
LEMMA AtStutter == ASSUME AtInv, UNCHANGED atomicVars PROVE AtInv'
BY DEF atomicVars, AtInv, AtMem, AtLocals, SpinInv, PublishInv, SequentialInv, Holds, FlagView,
       KnowsCounter, KnowsRead, At!Newest, At!Current, At!NoLostAddition, At!Remaining

\* The invariant of Atomics is inductive.
LEMMA AtStepInv == ASSUME AtInv, At!Next PROVE AtInv'
<1>1. ASSUME NEW t \in Thread, At!Step(t)
      PROVE  AtInv'
  BY <1>1, LockInv, CsReadInv, CsWriteInv, UnlockInv, IncreaseInv, ProduceInv, PublishStepInv,
     AwaitInv, ConsumeInv, WritersInv, ReadersInv
  DEF At!Step
<1>2. CASE At!Exit
  BY <1>2, AtStutter DEF At!Exit, At!vars, atomicVars
<1> QED
  BY <1>1, <1>2 DEF At!Next

-----------------------------------------------------------------------------

\* The programs of Atomics in any behaviour of Concurrent.
LEMMA AtInvariance == Spec => []AtInv
<1>1. Init => AtInv
  BY InitAtInv DEF Init
<1>2. AtInv /\ [Next]_vars => AtInv'
  BY AtStepInv, AtStutter DEF Next, AtomicsStep, QueueStep, StackStep, MutexStep, vars
<1> QED
  BY <1>1, <1>2, PTL DEF Spec

\* No addition is lost.
THEOREM AdditionsKept == Spec => []NoLostAddition
<1>1. AtInv => NoLostAddition
  BY DEF AtInv, NoLostAddition
<1> QED
  BY <1>1, AtInvariance, PTL

\* The data is published, and z is never 2.
THEOREM DataPublished == Spec => []Published
<1>1. AtInv => Published
  <2> SUFFICES ASSUME AtInv
               PROVE  At!Published
    BY DEF Published
  <2>1. program = "AcquireRelease" /\ atPc[2] = "done" => reg[2] = 1
    BY DEF AtInv, PublishInv
  <2>2. program = "Sequential" => At!Current("z") # 2
    BY DEF AtInv, SequentialInv
  <2> QED
    BY <2>1, <2>2 DEF At!Published
<1> QED
  BY <1>1, AtInvariance, PTL

-----------------------------------------------------------------------------
(* The ring of LockFreeQueue *)

\* The maximum of two numbers.
LEMMA QueueMaxOfTwo ==
  ASSUME NEW m \in Nat, NEW n \in Nat
  PROVE  Q!Max({m, n}) = IF m >= n THEN m ELSE n
<1> DEFINE Largest(x) == x \in {m, n} /\ \A y \in {m, n} : x >= y
<1>1. Largest(IF m >= n THEN m ELSE n)
  OBVIOUS
<1>2. \A x : Largest(x) => x = IF m >= n THEN m ELSE n
  OBVIOUS
<1> QED
  BY <1>1, <1>2 DEF Q!Max

\* Division with remainder.
LEMMA DivisionWithRemainder ==
  ASSUME NEW d \in Nat \ {0}, NEW m \in Int
  PROVE  m = d * (m \div d) + (m % d) /\ m \div d \in Int /\ m % d \in 0 .. (d - 1)
BY Z3

\* The quotients of two multiples that are close.
LEMMA CloseQuotients ==
  ASSUME NEW d \in Nat \ {0}, NEW p \in Int, NEW q \in Int, d * q < d * p + d
  PROVE  q < p + 1
<1> SUFFICES ASSUME q >= p + 1
             PROVE  FALSE
  OBVIOUS
<1>1. PICK e \in Nat : q = p + 1 + e
  <2>1. q - p - 1 \in Nat /\ q = p + 1 + (q - p - 1)
    OBVIOUS
  <2> QED
    BY <2>1
<1>2. d * q = d * p + d + d * e
  BY <1>1, Z3
<1>3. d * e >= 0
  BY Z3
<1> QED
  BY <1>2, <1>3, Z3

\* The remainder is unique.
LEMMA UniqueRemainder ==
  ASSUME NEW d \in Nat \ {0}, NEW m \in Int, NEW q \in Int, NEW r \in 0 .. (d - 1),
         m = d * q + r
  PROVE  m % d = r
<1> DEFINE p == m \div d
           s == m % d
<1>1. m = d * p + s /\ p \in Int /\ s \in 0 .. (d - 1)
  BY DivisionWithRemainder
<1> HIDE DEF p, s
<1>2. d * q \in Int /\ d * p \in Int
  BY <1>1
<1>3. d * q < d * p + d /\ d * p < d * q + d
  BY <1>1, <1>2
<1>4. q = p
  BY <1>1, <1>3, CloseQuotients
<1> QED
  BY <1>1, <1>4 DEF s

\* Places less than a turn of the ring apart are the same slot only if they are the same.
LEMMA SameTurn ==
  ASSUME NEW d \in Nat \ {0}, NEW m \in Nat, NEW n \in Nat, m % d = n % d,
         m < n + d, n < m + d
  PROVE  m = n
<1> DEFINE p == m \div d
           q == n \div d
           r == m % d
<1>1. m = d * p + r /\ p \in Int /\ n = d * q + r /\ q \in Int /\ r \in 0 .. (d - 1)
  BY DivisionWithRemainder
<1> HIDE DEF p, q, r
<1>2. d * p \in Int /\ d * q \in Int
  BY <1>1
<1>3. d * p < d * q + d /\ d * q < d * p + d
  BY <1>1, <1>2
<1>4. p = q
  BY <1>1, <1>3, CloseQuotients
<1> QED
  BY <1>1, <1>4

\* A step along the ring, and a turn of it.
LEMMA RingSteps ==
  ASSUME NEW d \in Nat \ {0}, NEW m \in Nat
  PROVE  /\ (m % d) \in 0 .. (d - 1)
         /\ ((m % d) + 1) % d = (m + 1) % d
         /\ (m + d) % d = m % d
         /\ m < d => m % d = m
<1> DEFINE p == m \div d
           r == m % d
           q == (m + 1) \div d
           s == (m + 1) % d
<1>1. /\ m = d * p + r /\ p \in Int /\ r \in 0 .. (d - 1)
      /\ m + 1 = d * q + s /\ q \in Int /\ s \in 0 .. (d - 1)
  BY DivisionWithRemainder
<1>2. m < d => m % d = m
  BY Z3
<1> HIDE DEF p, q, r, s
<1>3. /\ d * q \in Int /\ d * p \in Int /\ d * (q - p) = d * q - d * p
      /\ d * (p + 1) = d * p + d
  BY <1>1, Z3
<1>4. r + 1 = d * (q - p) + s /\ q - p \in Int /\ m + d = d * (p + 1) + r
  BY <1>1, <1>3
<1>5. (r + 1) % d = s
  BY <1>1, <1>4, UniqueRemainder
<1>6. (m + d) % d = r
  BY <1>1, <1>4, UniqueRemainder
<1> QED
  BY <1>1, <1>2, <1>5, <1>6 DEF r, s

-----------------------------------------------------------------------------
(* The memory of LockFreeQueue *)

QValue == (0 .. (capacity - 1)) \cup ((QueueThread \cup {0}) \X Nat)

QueueCursor == {Q!front_, Q!back_, Q!write_}

\* What the proofs use of ConcurrentAssumption.
LEMMA QueueConstants ==
  /\ capacity \in Nat \ {0} /\ capacity > 1 /\ QueueThread \subseteq Thread
  /\ QueueThread \subseteq Nat /\ IsFiniteSet(QueueThread)
  /\ QueueSetup \subseteq [push : [QueueThread -> Nat], pop : [QueueThread -> Nat]]
<1>1. IsFiniteSet(1 .. 4)
  <2>1. 1 \in Int /\ 4 \in Int
    OBVIOUS
  <2> QED
    BY <2>1, FS_Interval
<1>2. QueueThread \subseteq 1 .. 4
  BY ConcurrentAssumption
<1> QED
  BY <1>1, <1>2, FS_Subset, ConcurrentAssumption DEF Quotas

\* The cursors and the slots are places of their own.
LEMMA QueuePlaces ==
  /\ QueueCursor \subseteq QueueLocation
  /\ Q!front_ # Q!back_ /\ Q!front_ # Q!write_ /\ Q!back_ # Q!write_
  /\ \A i : Q!Slot(i) \notin QueueCursor
  /\ \A i \in 0 .. (capacity - 1) : Q!Slot(i) \in QueuePlain
  /\ \A i, j : Q!Slot(i) = Q!Slot(j) => i = j
  /\ QueuePlain \subseteq QueueLocation
  /\ \A a \in QueueCursor : a \notin QueuePlain
BY DEF QueueCursor, QueueLocation, QueuePlain, Q!front_, Q!back_, Q!write_, Q!Slot

\* Sets counted by the module are counted by the theorems.
LEMMA QueueCardinality == \A T : Q!Cardinality(T) = Cardinality(T)
BY DEF Q!Cardinality, Cardinality

\* A set of at most one thread.
LEMMA AtMostOne ==
  ASSUME NEW T \in SUBSET QueueThread, ~(Q!Cardinality(T) > 1)
  PROVE  \A t, u \in T : t = u
<1> SUFFICES ASSUME NEW t \in T, NEW u \in T, t # u
             PROVE  FALSE
  OBVIOUS
<1>1. IsFiniteSet(T)
  BY QueueConstants, FS_Subset
<1>2. Cardinality({t, u}) = 2
  <2>1. Cardinality({t}) = 1 /\ IsFiniteSet({t}) /\ {t, u} = {t} \cup {u}
    BY FS_Singleton
  <2> QED
    BY <2>1, FS_AddElement
<1>3. Cardinality({t, u}) <= Cardinality(T)
  BY <1>1, FS_Subset
<1>4. Cardinality(T) \in Nat
  BY <1>1, FS_CardinalityType
<1> QED
  BY <1>2, <1>3, <1>4, QueueCardinality

\* A stored value with the view that it carries.
QEntry == [val : QValue, view : Q!View]

\* Histories grow from an initial value, and nobody knows of what is not there.
QMem ==
  /\ qHist \in [QueueLocation -> Seq(QEntry)]
  /\ qView \in [QueueThread -> Q!View]
  /\ \A a \in QueueLocation :
       /\ Q!Newest(a) > 0
       /\ \A i \in 1 .. Q!Newest(a), b \in QueueLocation :
            qHist[a][i].view.seen[b] <= Q!Newest(b)
       /\ \A t \in QueueThread : qView[t].seen[a] \in 1 .. Q!Newest(a)

\* The view v knows all that w knows.
QKnows(v, w) ==
  /\ w.reads \subseteq v.reads
  /\ \A b \in QueueLocation : w.seen[b] <= v.seen[b]

\* What two views know together.
LEMMA QJoined ==
  ASSUME NEW v \in Q!View, NEW w \in Q!View
  PROVE  /\ Q!Joined(v, w) \in Q!View
         /\ Q!Joined(v, w).reads = v.reads \cup w.reads
         /\ \A a \in QueueLocation :
              Q!Joined(v, w).seen[a] = IF v.seen[a] >= w.seen[a] THEN v.seen[a] ELSE w.seen[a]
<1>1. \A a \in QueueLocation :
        Q!Max({v.seen[a], w.seen[a]}) = IF v.seen[a] >= w.seen[a] THEN v.seen[a] ELSE w.seen[a]
  BY QueueMaxOfTwo DEF Q!View
<1> QED
  BY <1>1 DEF Q!View, Q!Joined

\* What a view knows with one value more.
LEMMA QKnowing ==
  ASSUME NEW v \in Q!View, NEW a \in QueueLocation, NEW n \in Nat
  PROVE  /\ Q!Knowing(v, a, n) \in Q!View
         /\ QKnows(Q!Knowing(v, a, n), v)
         /\ Q!Knowing(v, a, n).seen[a] >= n
         /\ \A b \in QueueLocation : \/ Q!Knowing(v, a, n).seen[b] = v.seen[b]
                                     \/ b = a /\ Q!Knowing(v, a, n).seen[b] = n
<1>1. Q!Max({v.seen[a], n}) = IF v.seen[a] >= n THEN v.seen[a] ELSE n
  BY QueueMaxOfTwo DEF Q!View
<1>2. Q!Knowing(v, a, n) = [v EXCEPT !.seen = [v.seen EXCEPT ![a] = Q!Max({v.seen[a], n})]]
  BY DEF Q!Knowing
<1>3. /\ Q!Knowing(v, a, n) \in Q!View /\ Q!Knowing(v, a, n).reads = v.reads
      /\ Q!Knowing(v, a, n).seen[a] = Q!Max({v.seen[a], n})
      /\ \A b \in QueueLocation : b # a => Q!Knowing(v, a, n).seen[b] = v.seen[b]
  BY <1>1, <1>2 DEF Q!View
<1>4. \A b \in QueueLocation : v.seen[b] \in Nat
  BY DEF Q!View
<1> QED
  BY <1>1, <1>3, <1>4 DEF QKnows

\* What a view knows without a read.
LEMMA QForgetting ==
  ASSUME NEW v \in Q!View, NEW t, NEW a
  PROVE  /\ Q!Forgetting(v, t, a) \in Q!View
         /\ Q!Forgetting(v, t, a).reads = v.reads \ {<<t, a>>}
         /\ Q!Forgetting(v, t, a).seen = v.seen
BY DEF Q!View, Q!Forgetting

\* The view that knows nothing.
LEMMA QNothing ==
  /\ Q!Nothing \in Q!View
  /\ \A a \in QueueLocation : Q!Nothing.seen[a] = 0
BY DEF Q!View, Q!Nothing

\* The parts of QMem, one location at a time.
LEMMA QMemFacts ==
  ASSUME QMem, NEW a \in QueueLocation
  PROVE  /\ qHist[a] \in Seq(QEntry) /\ Q!Newest(a) \in Nat /\ Q!Newest(a) > 0
         /\ Q!Newest(a) = Len(qHist[a])
         /\ \A i \in 1 .. Q!Newest(a) :
              /\ qHist[a][i] \in QEntry
              /\ qHist[a][i].view \in Q!View
              /\ qHist[a][i].val \in QValue
         /\ Q!Current(a) \in QValue
<1>1. /\ qHist[a] \in Seq(QEntry) /\ Q!Newest(a) > 0 /\ Q!Newest(a) = Len(qHist[a])
      /\ Q!Newest(a) \in Nat
  BY DEF QMem, Q!Newest
<1>2. \A i \in 1 .. Q!Newest(a) : qHist[a][i] \in QEntry
  BY <1>1
<1>3. \A i \in 1 .. Q!Newest(a) :
        qHist[a][i].view \in Q!View /\ qHist[a][i].val \in QValue
  BY <1>2 DEF QEntry
<1> QED
  BY <1>1, <1>2, <1>3 DEF Q!Current

\* A view of t that knows at least what t knew, and nothing that is not there.
QGrows(t) ==
  /\ qView' \in [QueueThread -> Q!View]
  /\ QKnows(qView'[t], qView[t])
  /\ \A u \in QueueThread : u # t => qView'[u] = qView[u]
  /\ \A b \in QueueLocation : qView'[t].seen[b] <= Q!Newest(b)'

\* x is stored to a, with view w.
QAppends(a, x, w) == qHist' = [qHist EXCEPT ![a] = Append(@, [val |-> x, view |-> w])]

\* What an append does to the histories.
LEMMA QAppended ==
  ASSUME QMem, NEW a \in QueueLocation, NEW x \in QValue, NEW w \in Q!View,
         QAppends(a, x, w)
  PROVE  /\ qHist' \in [QueueLocation -> Seq(QEntry)]
         /\ Q!Newest(a)' = Q!Newest(a) + 1
         /\ Q!Current(a)' = x
         /\ qHist'[a][Q!Newest(a) + 1] = [val |-> x, view |-> w]
         /\ \A i \in 1 .. Q!Newest(a) : qHist'[a][i] = qHist[a][i]
         /\ \A b \in QueueLocation : b # a =>
              /\ qHist'[b] = qHist[b] /\ Q!Newest(b)' = Q!Newest(b)
              /\ Q!Current(b)' = Q!Current(b)
<1>1. qHist[a] \in Seq(QEntry) /\ [val |-> x, view |-> w] \in QEntry
  BY QMemFacts DEF QEntry
<1>2. qHist'[a] = Append(qHist[a], [val |-> x, view |-> w])
  BY DEF QMem, QAppends
<1>3. Len(qHist'[a]) = Len(qHist[a]) + 1
  BY <1>1, <1>2
<1>4. /\ qHist'[a][Len(qHist[a]) + 1] = [val |-> x, view |-> w]
      /\ \A i \in 1 .. Len(qHist[a]) : qHist'[a][i] = qHist[a][i]
  BY <1>1, <1>2
<1>5. qHist' \in [QueueLocation -> Seq(QEntry)]
  BY <1>1 DEF QMem, QAppends
<1>6. \A b \in QueueLocation : b # a => qHist'[b] = qHist[b]
  BY DEF QMem, QAppends
<1> QED
  BY <1>3, <1>4, <1>5, <1>6 DEF Q!Newest, Q!Current

\* Appending a view that is of the memory, by a thread whose view grows, keeps QMem.
LEMMA QAppendMem ==
  ASSUME QMem, NEW t \in QueueThread, NEW a \in QueueLocation, NEW x \in QValue,
         NEW w \in Q!View, QAppends(a, x, w), QGrows(t),
         \A b \in QueueLocation : w.seen[b] <= Q!Newest(b)'
  PROVE  QMem'
<1>0. /\ qHist' \in [QueueLocation -> Seq(QEntry)]
      /\ Q!Newest(a)' = Q!Newest(a) + 1
      /\ qHist'[a][Q!Newest(a) + 1] = [val |-> x, view |-> w]
      /\ \A i \in 1 .. Q!Newest(a) : qHist'[a][i] = qHist[a][i]
      /\ \A b \in QueueLocation : b # a =>
           qHist'[b] = qHist[b] /\ Q!Newest(b)' = Q!Newest(b)
  BY QAppended
<1>1. \A b \in QueueLocation : /\ Q!Newest(b) \in Nat /\ Q!Newest(b) > 0
                               /\ Q!Newest(b)' = Q!Newest(b) + (IF b = a THEN 1 ELSE 0)
  BY <1>0, QMemFacts
<1>2. ASSUME NEW b \in QueueLocation, NEW i \in 1 .. Q!Newest(b)', NEW c \in QueueLocation
      PROVE  qHist'[b][i].view.seen[c] <= Q!Newest(c)'
  <2>1. CASE b = a /\ i = Q!Newest(a) + 1
    BY <1>0, <2>1
  <2>2. CASE ~(b = a /\ i = Q!Newest(a) + 1)
    <3>1. i \in 1 .. Q!Newest(b) /\ qHist'[b][i] = qHist[b][i]
      <4>1. CASE b = a
        BY <1>0, <1>1, <2>2, <4>1
      <4>2. CASE b # a
        BY <1>0, <4>2
      <4> QED
        BY <4>1, <4>2
    <3>2. qHist[b][i].view.seen[c] <= Q!Newest(c) /\ qHist[b][i].view \in Q!View
      BY <3>1, QMemFacts DEF QMem
    <3> QED
      BY <1>1, <3>1, <3>2 DEF Q!View
  <2> QED
    BY <2>1, <2>2
<1>3. ASSUME NEW b \in QueueLocation, NEW u \in QueueThread
      PROVE  qView'[u].seen[b] \in 1 .. Q!Newest(b)'
  <2>1. qView[u].seen[b] \in 1 .. Q!Newest(b)
    BY DEF QMem
  <2>2. qView'[u].seen[b] \in Nat
    BY DEF QGrows, Q!View
  <2>3. qView'[u].seen[b] >= 1 /\ qView'[u].seen[b] <= Q!Newest(b)'
    BY <1>1, <2>1, <2>2 DEF QGrows, QKnows
  <2> QED
    BY <1>1, <2>2, <2>3
<1>4. /\ qHist' \in [QueueLocation -> Seq(QEntry)] /\ qView' \in [QueueThread -> Q!View]
      /\ \A b \in QueueLocation : Q!Newest(b)' > 0
  BY <1>0, <1>1 DEF QGrows
<1> QED
  BY <1>2, <1>3, <1>4 DEF QMem

\* A load: the view grows, by what the value read tells when the load acquires.
LEMMA QLoadMem ==
  ASSUME QMem, NEW t \in QueueThread, NEW a \in QueueLocation, NEW order, NEW n,
         Q!Load(t, a, order, n)
  PROVE  /\ QMem' /\ qHist' = qHist /\ qRace' = qRace
         /\ n \in 1 .. Q!Newest(a)
         /\ QGrows(t) /\ qView'[t].seen[a] >= n
         /\ order \in {"acquire", "seq_cst"} => QKnows(qView'[t], qHist[a][n].view)
<1> DEFINE v == IF order \in {"acquire", "seq_cst"}
                  THEN Q!Joined(qView[t], qHist[a][n].view) ELSE qView[t]
<1>1. /\ qView[t] \in Q!View /\ n \in 1 .. Q!Newest(a) /\ n \in Nat
      /\ qHist[a][n].view \in Q!View
      /\ \A b \in QueueLocation : /\ qView[t].seen[b] \in 1 .. Q!Newest(b)
                                  /\ qHist[a][n].view.seen[b] <= Q!Newest(b)
                                  /\ Q!Newest(b) \in Nat
  <2>1. n \in 1 .. Q!Newest(a)
    BY QMemFacts DEF QMem, Q!Load, Q!Readable
  <2> QED
    BY <2>1, QMemFacts DEF QMem
<1>2. /\ v \in Q!View /\ QKnows(v, qView[t])
      /\ order \in {"acquire", "seq_cst"} => QKnows(v, qHist[a][n].view)
      /\ \A b \in QueueLocation : v.seen[b] <= Q!Newest(b)
  BY <1>1, QJoined DEF QKnows, Q!View
<1>3. qView' = [qView EXCEPT ![t] = Q!Knowing(v, a, n)] /\ qHist' = qHist /\ qRace' = qRace
  BY DEF Q!Load, Q!Learned
<1>4. Q!Knowing(v, a, n) = qView'[t] /\ \A u \in QueueThread : u # t => qView'[u] = qView[u]
  BY <1>3 DEF QMem
<1>5. /\ Q!Knowing(v, a, n) \in Q!View /\ QKnows(Q!Knowing(v, a, n), v)
      /\ \A b \in QueueLocation : Q!Knowing(v, a, n).seen[b] <= Q!Newest(b)
      /\ Q!Knowing(v, a, n).seen[a] >= n
  <2> HIDE DEF v
  <2>1. /\ Q!Knowing(v, a, n) \in Q!View /\ QKnows(Q!Knowing(v, a, n), v)
        /\ Q!Knowing(v, a, n).seen[a] >= n
        /\ \A b \in QueueLocation : \/ Q!Knowing(v, a, n).seen[b] = v.seen[b]
                                    \/ b = a /\ Q!Knowing(v, a, n).seen[b] = n
    BY <1>1, <1>2, QKnowing
  <2> QED
    BY <1>1, <1>2, <2>1
<1>6. \A b \in QueueLocation : Q!Newest(b)' = Q!Newest(b)
  BY <1>3 DEF Q!Newest
<1>7. qView' \in [QueueThread -> Q!View]
  BY <1>3, <1>5 DEF QMem
<1>8. /\ QKnows(Q!Knowing(v, a, n), qView[t])
      /\ order \in {"acquire", "seq_cst"} => QKnows(Q!Knowing(v, a, n), qHist[a][n].view)
  BY <1>1, <1>2, <1>5 DEF QKnows, Q!View
<1>9. QGrows(t)
  BY <1>4, <1>5, <1>6, <1>7, <1>8 DEF QGrows
<1>10. ASSUME NEW b \in QueueLocation, NEW u \in QueueThread
       PROVE  qView'[u].seen[b] \in 1 .. Q!Newest(b)
  <2>1. qView[u].seen[b] \in 1 .. Q!Newest(b) /\ qView'[u].seen[b] \in Nat
    BY <1>7 DEF QMem, Q!View
  <2> QED
    BY <1>1, <1>4, <1>5, <1>8, <2>1 DEF QKnows
<1>11. QMem'
  BY <1>3, <1>6, <1>7, <1>10 DEF QMem
<1> QED
  BY <1>1, <1>3, <1>4, <1>5, <1>8, <1>9, <1>11

\* A read-modify-write does both.
LEMMA QExchangeMem ==
  ASSUME QMem, NEW t \in QueueThread, NEW a \in QueueLocation, NEW order,
         NEW x \in QValue, Q!Exchange(t, a, x, order)
  PROVE  /\ QMem' /\ qRace' = qRace
         /\ QGrows(t) /\ qView'[t].seen[a] = Q!Newest(a) + 1
         /\ \E w \in Q!View : /\ QAppends(a, x, w)
                              /\ QKnows(w, qHist[a][Q!Newest(a)].view)
                              /\ order = "release" => QKnows(w, qView[t])
         /\ order \in {"acquire", "seq_cst"} =>
              QKnows(qView'[t], qHist[a][Q!Newest(a)].view)
<1> DEFINE n == Q!Newest(a)
           old == qHist[a][n].view
           v == IF order \in {"acquire", "seq_cst"} THEN Q!Joined(qView[t], old) ELSE qView[t]
           learned == Q!Knowing(v, a, n)
           knows == Q!Knowing(learned, a, n + 1)
           w == Q!Joined(old, Q!Told(knows, order))
<1>1. /\ qView[t] \in Q!View /\ n \in Nat /\ n > 0 /\ old \in Q!View
      /\ \A b \in QueueLocation : /\ qView[t].seen[b] \in 1 .. Q!Newest(b)
                                  /\ old.seen[b] <= Q!Newest(b)
                                  /\ Q!Newest(b) \in Nat
  BY QMemFacts DEF QMem
<1>2. /\ v \in Q!View /\ QKnows(v, qView[t])
      /\ order \in {"acquire", "seq_cst"} => QKnows(v, old)
      /\ \A b \in QueueLocation : v.seen[b] <= Q!Newest(b)
  BY <1>1, QJoined DEF QKnows, Q!View
<1>3. /\ learned \in Q!View /\ QKnows(learned, v)
      /\ \A b \in QueueLocation : learned.seen[b] <= Q!Newest(b)
  <2> HIDE DEF v
  <2>1. /\ Q!Knowing(v, a, n) \in Q!View /\ QKnows(Q!Knowing(v, a, n), v)
        /\ \A b \in QueueLocation : \/ Q!Knowing(v, a, n).seen[b] = v.seen[b]
                                    \/ b = a /\ Q!Knowing(v, a, n).seen[b] = n
    BY <1>1, <1>2, QKnowing
  <2> QED
    BY <1>1, <1>2, <2>1
<1>4. /\ knows \in Q!View /\ QKnows(knows, learned) /\ knows.seen[a] = n + 1
      /\ \A b \in QueueLocation : b # a => knows.seen[b] <= Q!Newest(b)
  <2> HIDE DEF learned
  <2>1. n + 1 \in Nat /\ n <= n + 1 /\ learned \in Q!View
    BY <1>1, <1>3
  <2>2. /\ knows \in Q!View /\ QKnows(knows, learned) /\ knows.seen[a] >= n + 1
        /\ \A b \in QueueLocation : \/ knows.seen[b] = learned.seen[b]
                                    \/ b = a /\ knows.seen[b] = n + 1
    BY <2>1, QKnowing
  <2> HIDE DEF knows
  <2>3. \A b \in QueueLocation : learned.seen[b] <= Q!Newest(b) /\ learned.seen[b] \in Nat
    BY <1>3 DEF Q!View
  <2> QED
    BY <1>1, <2>1, <2>2, <2>3
<1>5. /\ QKnows(knows, qView[t])
      /\ order \in {"acquire", "seq_cst"} => QKnows(knows, old)
  <2> HIDE DEF knows, learned, v, old
  <2> QED
    BY <1>1, <1>2, <1>3, <1>4 DEF QKnows, Q!View
<1>6. /\ w \in Q!View /\ w.seen[a] <= n + 1 /\ QKnows(w, old)
      /\ order = "release" => QKnows(w, knows)
      /\ \A b \in QueueLocation : b # a => w.seen[b] <= Q!Newest(b)
  <2> HIDE DEF knows, old
  <2>1. /\ Q!Told(knows, order) \in Q!View /\ Q!Told(knows, order).seen[a] <= n + 1
        /\ \A b \in QueueLocation : b # a => Q!Told(knows, order).seen[b] <= Q!Newest(b)
        /\ order = "release" => Q!Told(knows, order) = knows
    BY <1>1, <1>4, QNothing DEF Q!Told
  <2> QED
    BY <1>1, <1>4, <2>1, QJoined DEF Q!View, QKnows
<1>7. /\ QAppends(a, x, w) /\ qRace' = qRace
      /\ qView' = [qView EXCEPT ![t] = knows]
  BY DEF Q!Exchange, QAppends, Q!Learned
<1> HIDE DEF w, knows, old
<1>8. /\ Q!Newest(a)' = n + 1
      /\ \A b \in QueueLocation : b # a => Q!Newest(b)' = Q!Newest(b)
  BY <1>6, <1>7, QAppended
<1>9. QGrows(t) /\ qView'[t] = knows
  BY <1>1, <1>4, <1>5, <1>7, <1>8 DEF QGrows, QMem
<1>10. QMem'
  BY <1>6, <1>7, <1>8, <1>9, QAppendMem
<1>11. order = "release" => QKnows(w, qView[t])
  BY <1>1, <1>4, <1>5, <1>6 DEF QKnows, Q!View
<1> QED
  BY <1>4, <1>5, <1>6, <1>7, <1>9, <1>10, <1>11 DEF old

\* t has read the plain a, and nobody else knows of it.
QHasRead(t, a) ==
  /\ \A b \in QueueLocation :
       /\ Q!Newest(b)' = Q!Newest(b) /\ Q!Current(b)' = Q!Current(b)
       /\ \A i \in 1 .. Q!Newest(b) :
            /\ qHist'[b][i].val = qHist[b][i].val
            /\ qHist'[b][i].view.seen = qHist[b][i].view.seen
            /\ qHist'[b][i].view.reads = qHist[b][i].view.reads \ {<<t, a>>}
  /\ \A u \in QueueThread :
       /\ qView'[u].seen = qView[u].seen
       /\ u # t => qView'[u].reads = qView[u].reads \ {<<t, a>>}
  /\ qView'[t].reads = qView[t].reads \cup {<<t, a>>}

\* A plain read.
LEMMA QReadMem ==
  ASSUME QMem, NEW t \in QueueThread, NEW a \in QueuePlain, NEW n, Q!Read(t, a, n)
  PROVE  /\ QMem' /\ QHasRead(t, a)
         /\ n \in qView[t].seen[a] .. Q!Newest(a)
         /\ qRace = FALSE /\ qView[t].seen[a] = Q!Newest(a) => qRace' = FALSE
<1>1. a \in QueueLocation
  BY DEF QueueLocation
<1>2. ASSUME NEW b \in QueueLocation
      PROVE  /\ qHist'[b] \in Seq(QEntry) /\ Q!Newest(b)' = Q!Newest(b)
             /\ Q!Newest(b) > 0 /\ Q!Newest(b) \in Nat
             /\ \A i \in 1 .. Q!Newest(b) :
                  /\ qHist'[b][i].val = qHist[b][i].val
                  /\ qHist'[b][i].view.seen = qHist[b][i].view.seen
                  /\ qHist'[b][i].view.reads = qHist[b][i].view.reads \ {<<t, a>>}
  <2>1. /\ qHist[b] \in Seq(QEntry) /\ Q!Newest(b) = Len(qHist[b])
        /\ Q!Newest(b) > 0 /\ Q!Newest(b) \in Nat
        /\ \A i \in 1 .. Q!Newest(b) :
              qHist[b][i] \in QEntry /\ qHist[b][i].view \in Q!View
    BY QMemFacts
  <2>2. qHist'[b] = [i \in DOMAIN qHist[b] |->
                        [qHist[b][i] EXCEPT !.view = Q!Forgetting(@, t, a)]]
    BY DEF Q!Read
  <2>3. DOMAIN qHist[b] = 1 .. Q!Newest(b)
    BY <2>1
  <2>4. ASSUME NEW i \in 1 .. Q!Newest(b)
        PROVE  /\ qHist'[b][i] \in QEntry
               /\ qHist'[b][i].val = qHist[b][i].val
               /\ qHist'[b][i].view.seen = qHist[b][i].view.seen
               /\ qHist'[b][i].view.reads = qHist[b][i].view.reads \ {<<t, a>>}
    <3>1. qHist'[b][i] = [qHist[b][i] EXCEPT !.view = Q!Forgetting(qHist[b][i].view, t, a)]
      BY <2>2, <2>3
    <3>2. /\ Q!Forgetting(qHist[b][i].view, t, a) \in Q!View
          /\ Q!Forgetting(qHist[b][i].view, t, a).seen = qHist[b][i].view.seen
          /\ Q!Forgetting(qHist[b][i].view, t, a).reads
               = qHist[b][i].view.reads \ {<<t, a>>}
      BY <2>1, QForgetting
    <3> QED
      BY <2>1, <3>1, <3>2 DEF QEntry
  <2>5. qHist'[b] \in [1 .. Q!Newest(b) -> QEntry]
    BY <2>2, <2>3, <2>4
  <2>6. qHist'[b] \in Seq(QEntry) /\ Len(qHist'[b]) = Q!Newest(b)
    BY <2>1, <2>5
  <2> QED
    BY <2>1, <2>4, <2>6 DEF Q!Newest
<1>3. ASSUME NEW u \in QueueThread
      PROVE  /\ qView'[u] \in Q!View /\ qView'[u].seen = qView[u].seen
             /\ qView'[u].reads = IF u = t THEN qView[u].reads \cup {<<t, a>>}
                                            ELSE qView[u].reads \ {<<t, a>>}
  <2>1. qView[u] \in Q!View /\ <<t, a>> \in QueueThread \X QueuePlain
    BY DEF QMem
  <2>2. qView'[u] = IF u = t THEN [qView[u] EXCEPT !.reads = @ \cup {<<t, a>>}]
                              ELSE Q!Forgetting(qView[u], t, a)
    BY DEF Q!Read
  <2>3. CASE u = t
    BY <2>1, <2>2, <2>3 DEF Q!View
  <2>4. CASE u # t
    BY <2>1, <2>2, <2>4, QForgetting
  <2> QED
    BY <2>3, <2>4
<1>4. qHist' \in [QueueLocation -> Seq(QEntry)] /\ qView' \in [QueueThread -> Q!View]
  <2>1. DOMAIN qHist' = QueueLocation /\ DOMAIN qView' = QueueThread
    BY DEF Q!Read
  <2>2. qHist' = [b \in QueueLocation |-> qHist'[b]] /\ qView' = [u \in QueueThread |-> qView'[u]]
    BY <2>1 DEF Q!Read
  <2> QED
    BY <1>2, <1>3, <2>2
<1>5. QHasRead(t, a)
  <2>1. \A b \in QueueLocation : Q!Current(b)' = Q!Current(b)
    <3> SUFFICES ASSUME NEW b \in QueueLocation
                 PROVE  qHist'[b][Q!Newest(b)'].val = qHist[b][Q!Newest(b)].val
      BY DEF Q!Current
    <3>1. Q!Newest(b) \in 1 .. Q!Newest(b) /\ Q!Newest(b)' = Q!Newest(b)
      BY <1>2
    <3> QED
      BY <1>2, <3>1
  <2> QED
    BY <1>2, <1>3, <2>1 DEF QHasRead
<1>6. QMem'
  <2>1. ASSUME NEW b \in QueueLocation, NEW c \in QueueLocation, NEW i \in 1 .. Q!Newest(b)'
        PROVE  qHist'[b][i].view.seen[c] <= Q!Newest(c)'
    <3>1. i \in 1 .. Q!Newest(b) /\ Q!Newest(c)' = Q!Newest(c)
      BY <1>2
    <3>2. qHist'[b][i].view.seen = qHist[b][i].view.seen
      BY <1>2, <3>1
    <3> QED
      BY <3>1, <3>2 DEF QMem
  <2>2. ASSUME NEW b \in QueueLocation, NEW u \in QueueThread
        PROVE  qView'[u].seen[b] \in 1 .. Q!Newest(b)'
    BY <1>2, <1>3 DEF QMem
  <2> QED
    BY <1>2, <1>4, <2>1, <2>2 DEF QMem
<1>7. n \in qView[t].seen[a] .. Q!Newest(a)
  BY DEF Q!Read, Q!Readable
<1>8. qRace = FALSE /\ qView[t].seen[a] = Q!Newest(a) => qRace' = FALSE
  <2>1. qRace' = (qRace \/ qView[t].seen[a] # Q!Newest(a))
    BY DEF Q!Read
  <2> QED
    BY <2>1
<1> QED
  BY <1>5, <1>6, <1>7, <1>8

\* A plain write, which races unless t knows the newest value and every read of it.
LEMMA QWriteMem ==
  ASSUME QMem, NEW t \in QueueThread, NEW a \in QueuePlain, NEW x \in QValue,
         Q!Write(t, a, x)
  PROVE  /\ QMem' /\ QGrows(t) /\ QAppends(a, x, Q!Nothing)
         /\ qView'[t].seen[a] = Q!Newest(a) + 1
         /\ (/\ qRace = FALSE /\ qView[t].seen[a] = Q!Newest(a)
             /\ \A u \in QueueThread \ {t} : <<u, a>> \in qView[t].reads)
            => qRace' = FALSE
<1> DEFINE n == Q!Newest(a) + 1
           knows == Q!Knowing(qView[t], a, n)
<1>1. /\ a \in QueueLocation /\ qView[t] \in Q!View /\ n \in Nat
      /\ \A b \in QueueLocation : /\ qView[t].seen[b] \in 1 .. Q!Newest(b)
                                  /\ Q!Newest(b) \in Nat
  <2>1. a \in QueueLocation
    BY DEF QueueLocation
  <2>2. \A b \in QueueLocation : Q!Newest(b) \in Nat
    BY QMemFacts
  <2> QED
    BY <2>1, <2>2 DEF QMem
<1>2. /\ knows \in Q!View /\ QKnows(knows, qView[t]) /\ knows.seen[a] >= n
      /\ \A b \in QueueLocation : \/ knows.seen[b] = qView[t].seen[b]
                                  \/ b = a /\ knows.seen[b] = n
  BY <1>1, QKnowing
<1>3. QAppends(a, x, Q!Nothing) /\ qView' = [qView EXCEPT ![t] = knows]
  BY DEF Q!Write, QAppends
<1>4. Q!Newest(a)' = n /\ \A b \in QueueLocation : b # a => Q!Newest(b)' = Q!Newest(b)
  BY <1>1, <1>3, QAppended, QNothing
<1>5. knows.seen[a] = n
  BY <1>1, <1>2
<1>6. QGrows(t) /\ qView'[t].seen[a] = n
  <2>1. /\ qView' \in [QueueThread -> Q!View] /\ qView'[t] = knows
        /\ \A u \in QueueThread : u # t => qView'[u] = qView[u]
    BY <1>2, <1>3 DEF QMem
  <2>2. \A b \in QueueLocation : knows.seen[b] <= Q!Newest(b)'
    BY <1>1, <1>2, <1>4, <1>5
  <2> QED
    BY <1>2, <1>5, <2>1, <2>2 DEF QGrows
<1>7. QMem'
  <2>1. \A b \in QueueLocation : Q!Nothing.seen[b] <= Q!Newest(b)'
    BY <1>1, <1>4, QNothing
  <2>2. Q!Nothing \in Q!View
    BY QNothing
  <2> QED
    BY <1>1, <1>3, <1>6, <2>1, <2>2, QAppendMem
<1>8. (/\ qRace = FALSE /\ qView[t].seen[a] = Q!Newest(a)
       /\ \A u \in QueueThread \ {t} : <<u, a>> \in qView[t].reads)
      => qRace' = FALSE
  <2>1. qRace' = (\/ qRace \/ qView[t].seen[a] # Q!Newest(a)
                   \/ \E u \in QueueThread \ {t} : <<u, a>> \notin qView[t].reads)
    BY DEF Q!Write
  <2> QED
    BY <2>1
<1> QED
  BY <1>3, <1>6, <1>7, <1>8

-----------------------------------------------------------------------------
(* What always holds of LockFreeQueue: its memory and its locals *)

Pushing == {"loadWrite", "loadFullFront", "casWrite", "fill", "casBack"}
Popping == {"loadFront", "loadBack", "readSlot", "casFront"}

\* How often the cursors have moved: places up to QWritten are claimed, those up to QBack
\* published, and those up to QFront popped.
QWritten == Q!Moves(Q!write_)
QBack    == Q!Moves(Q!back_)
QFront   == Q!Moves(Q!front_)

QItem == (QueueThread \cup {0}) \X Nat

QLocals ==
  /\ qQuota \in QueueSetup
  /\ qPc \in [QueueThread -> Q!Label]
  /\ at \in [QueueThread -> 0 .. (capacity - 1)]
  /\ seenAt \in [QueueThread -> Nat]
  /\ fooled \in [QueueThread -> BOOLEAN]
  /\ result \in [QueueThread -> QItem]
  /\ qSent \in [QueueThread -> Nat]
  /\ qRace \in BOOLEAN /\ lapped \in BOOLEAN
  /\ \A t \in QueueThread :
       /\ qSent[t] <= qQuota.push[t]
       /\ qPc[t] \in Pushing => qSent[t] < qQuota.push[t]
       /\ qPc[t] \in Popping => t \in Q!Consumer
       /\ at[t] = seenAt[t] % capacity
       /\ qPc[t] \in {"loadFullFront", "casWrite"} => seenAt[t] <= QWritten

\* A cursor counts its moves modulo the capacity, and a slot holds items.
QValues ==
  /\ \A a \in QueueCursor : \A n \in 1 .. Q!Newest(a) : qHist[a][n].val = (n - 1) % capacity
  /\ \A a \in QueuePlain : \A n \in 1 .. Q!Newest(a) : qHist[a][n].val \in QItem

\* The locals of the others stay.
QOthers(t) ==
  \A u \in QueueThread : u # t =>
    /\ qPc'[u] = qPc[u] /\ at'[u] = at[u] /\ seenAt'[u] = seenAt[u]
    /\ fooled'[u] = fooled[u] /\ result'[u] = result[u] /\ qSent'[u] = qSent[u]

\* A step of t that stores nothing.
QQuiet(t) ==
  /\ QMem' /\ QGrows(t) /\ qHist' = qHist /\ qRace' = qRace
  /\ qQuota' = qQuota /\ qSent' = qSent /\ lapped' = lapped /\ QOthers(t)

\* What such a step leaves alone.
LEMMA QuietHist ==
  ASSUME qHist' = qHist
  PROVE  /\ \A a : Q!Newest(a)' = Q!Newest(a) /\ Q!Current(a)' = Q!Current(a)
         /\ QWritten' = QWritten /\ QBack' = QBack /\ QFront' = QFront
BY DEF Q!Newest, Q!Current, QWritten, QBack, QFront, Q!Moves

\* The cursors are natural numbers.
LEMMA QCursors ==
  ASSUME QMem
  PROVE  /\ QWritten \in Nat /\ QBack \in Nat /\ QFront \in Nat
         /\ Q!Newest(Q!write_) = QWritten + 1 /\ Q!Newest(Q!back_) = QBack + 1
         /\ Q!Newest(Q!front_) = QFront + 1
<1>1. \A a \in QueueCursor : Q!Newest(a) \in Nat /\ Q!Newest(a) > 0
  BY QMemFacts, QueuePlaces
<1> QED
  BY <1>1 DEF QueueCursor, QWritten, QBack, QFront, Q!Moves

\* t goes to a label of its own.
LEMMA QGoto ==
  ASSUME QLocals, NEW t \in QueueThread, NEW from, NEW to, Q!Goto(t, from, to), to \in Q!Label
  PROVE  /\ qPc[t] = from /\ qPc'[t] = to /\ qPc' \in [QueueThread -> Q!Label]
         /\ \A u \in QueueThread : u # t => qPc'[u] = qPc[u]
BY DEF QLocals, Q!Goto

\* The load of a cursor.
LEMMA QLoadCursorStep ==
  ASSUME QMem, QLocals, QValues, NEW t \in QueueThread, NEW a \in QueueCursor,
         Q!LoadCursor(t, a)
  PROVE  /\ QMem' /\ QGrows(t) /\ qHist' = qHist /\ qRace' = qRace
         /\ at' \in [QueueThread -> 0 .. (capacity - 1)] /\ seenAt' \in [QueueThread -> Nat]
         /\ at'[t] = seenAt'[t] % capacity
         /\ qView[t].seen[a] - 1 <= seenAt'[t] /\ seenAt'[t] <= Q!Newest(a) - 1
         /\ \A u \in QueueThread : u # t => at'[u] = at[u] /\ seenAt'[u] = seenAt[u]
<1>1. PICK n \in Q!Readable(t, a) : /\ Q!Load(t, a, "relaxed", n)
                                    /\ at' = [at EXCEPT ![t] = Q!Value(a, n)]
                                    /\ seenAt' = [seenAt EXCEPT ![t] = n - 1]
  BY DEF Q!LoadCursor
<1>2. /\ QMem' /\ QGrows(t) /\ qHist' = qHist /\ qRace' = qRace
      /\ n \in 1 .. Q!Newest(a)
  BY <1>1, QLoadMem, QueuePlaces
<1>3. Q!Newest(a) \in Nat /\ n - 1 \in Nat /\ n - 1 <= Q!Newest(a) - 1
  BY <1>2, QMemFacts, QueuePlaces
<1>4. qView[t].seen[a] <= n /\ qView[t].seen[a] \in Nat
  BY <1>1, <1>3, QueuePlaces DEF Q!Readable, QMem, Q!View
<1>5. Q!Value(a, n) = (n - 1) % capacity
  BY <1>2 DEF QValues, Q!Value
<1>6. (n - 1) % capacity \in 0 .. (capacity - 1)
  BY <1>3, RingSteps, QueueConstants
<1>7. /\ at' \in [QueueThread -> 0 .. (capacity - 1)] /\ seenAt' \in [QueueThread -> Nat]
      /\ at'[t] = (n - 1) % capacity /\ seenAt'[t] = n - 1
      /\ \A u \in QueueThread : u # t => at'[u] = at[u] /\ seenAt'[u] = seenAt[u]
  BY <1>1, <1>3, <1>5, <1>6 DEF QLocals
<1> QED
  BY <1>2, <1>3, <1>4, <1>7

\* write_ is loaded.
LEMMA QLoadWrite ==
  ASSUME QMem, QLocals, QValues, NEW t \in QueueThread, Q!LoadWrite(t)
  PROVE  /\ QQuiet(t) /\ QLocals' /\ qPc[t] = "loadWrite" /\ qPc'[t] = "loadFullFront"
         /\ qView[t].seen[Q!write_] - 1 <= seenAt'[t] /\ seenAt'[t] <= QWritten
         /\ fooled' = fooled
<1>1. /\ Q!Goto(t, "loadWrite", "loadFullFront") /\ Q!LoadCursor(t, Q!write_)
      /\ UNCHANGED <<qQuota, fooled, result, qSent, qGot, lapped>>
  BY DEF Q!LoadWrite
<1>2. /\ qPc[t] = "loadWrite" /\ qPc'[t] = "loadFullFront"
      /\ qPc' \in [QueueThread -> Q!Label]
      /\ \A u \in QueueThread : u # t => qPc'[u] = qPc[u]
  BY <1>1, QGoto DEF Q!Label
<1>3. Q!write_ \in QueueCursor
  BY DEF QueueCursor
<1>4. /\ QMem' /\ QGrows(t) /\ qHist' = qHist /\ qRace' = qRace
      /\ at' \in [QueueThread -> 0 .. (capacity - 1)] /\ seenAt' \in [QueueThread -> Nat]
      /\ at'[t] = seenAt'[t] % capacity
      /\ qView[t].seen[Q!write_] - 1 <= seenAt'[t] /\ seenAt'[t] <= Q!Newest(Q!write_) - 1
      /\ \A u \in QueueThread : u # t => at'[u] = at[u] /\ seenAt'[u] = seenAt[u]
  BY <1>1, <1>3, QLoadCursorStep
<1>5. QWritten' = QWritten /\ seenAt'[t] <= QWritten
  BY <1>4, QuietHist DEF QWritten, Q!Moves
<1>6. QQuiet(t)
  BY <1>1, <1>2, <1>4 DEF QQuiet, QOthers
<1>7. QLocals'
  <2>1. \A u \in QueueThread :
          /\ qSent'[u] <= qQuota'.push[u]
          /\ qPc'[u] \in Pushing => qSent'[u] < qQuota'.push[u]
          /\ qPc'[u] \in Popping => u \in Q!Consumer'
          /\ at'[u] = seenAt'[u] % capacity
          /\ qPc'[u] \in {"loadFullFront", "casWrite"} => seenAt'[u] <= QWritten'
    BY <1>1, <1>2, <1>4, <1>5 DEF QLocals, Pushing, Popping, Q!Consumer
  <2> QED
    BY <1>1, <1>2, <1>4, <2>1 DEF QLocals
<1> QED
  BY <1>1, <1>2, <1>4, <1>5, <1>6, <1>7

\* The test of front_: who goes on has found room, unless it is fooled by the ring.
LEMMA QLoadFullFront ==
  ASSUME QMem, QLocals, QValues, NEW t \in QueueThread, Q!LoadFullFront(t)
  PROVE  /\ QQuiet(t) /\ QLocals' /\ qPc[t] = "loadFullFront"
         /\ seenAt' = seenAt /\ result' = result
         /\ \E n \in 1 .. Q!Newest(Q!front_) :
              /\ qView[t].seen[Q!front_] <= n /\ n <= qView'[t].seen[Q!front_]
              /\ QKnows(qView'[t], qHist[Q!front_][n].view)
              /\ \/ qPc'[t] = "loadWrite"
                 \/ /\ qPc'[t] = "casWrite" /\ (n - 1) % capacity # (seenAt[t] + 1) % capacity
                    /\ fooled'[t] = (seenAt[t] >= n + capacity - 2)
<1> DEFINE full(n) == Q!Value(Q!front_, n) \in {Q!After(at[t])}
           to(n) == IF full(n) THEN "loadWrite" ELSE "casWrite"
<1>1. PICK n \in Q!Readable(t, Q!front_) :
        /\ Q!Goto(t, "loadFullFront", to(n)) /\ Q!Load(t, Q!front_, "acquire", n)
        /\ fooled' = [fooled EXCEPT ![t] = ~full(n) /\ seenAt[t] - (n - 1) >= capacity - 1]
        /\ UNCHANGED <<qQuota, at, seenAt, result, qSent, qGot, lapped>>
  BY DEF Q!LoadFullFront, Q!TestFull
<1>2. Q!front_ \in QueueCursor /\ Q!front_ \in QueueLocation
  BY QueuePlaces DEF QueueCursor
<1>3. /\ qPc[t] = "loadFullFront" /\ qPc'[t] = to(n)
      /\ qPc' \in [QueueThread -> Q!Label]
      /\ \A u \in QueueThread : u # t => qPc'[u] = qPc[u]
  <2>1. to(n) \in Q!Label
    BY DEF Q!Label
  <2> QED
    BY <1>1, <2>1, QGoto
<1>4. /\ QMem' /\ QGrows(t) /\ qHist' = qHist /\ qRace' = qRace
      /\ n \in 1 .. Q!Newest(Q!front_) /\ n <= qView'[t].seen[Q!front_]
      /\ QKnows(qView'[t], qHist[Q!front_][n].view)
  BY <1>1, <1>2, QLoadMem
<1>5. qView[t].seen[Q!front_] <= n
  BY <1>1, <1>2, <1>4 DEF Q!Readable, QMem, Q!View
<1>6. full(n) <=> (n - 1) % capacity = (seenAt[t] + 1) % capacity
  <2>1. Q!Value(Q!front_, n) = (n - 1) % capacity
    BY <1>2, <1>4 DEF QValues, Q!Value
  <2>2. Q!After(at[t]) = (seenAt[t] + 1) % capacity
    BY RingSteps, QueueConstants DEF QLocals, Q!After
  <2> QED
    BY <2>1, <2>2
<1>7. /\ fooled' \in [QueueThread -> BOOLEAN]
      /\ fooled'[t] = (~full(n) /\ seenAt[t] >= n + capacity - 2)
      /\ \A u \in QueueThread : u # t => fooled'[u] = fooled[u]
  <2>1. (seenAt[t] - (n - 1) >= capacity - 1) <=> (seenAt[t] >= n + capacity - 2)
    BY <1>4, QueueConstants DEF QLocals
  <2>2. (~full(n) /\ seenAt[t] - (n - 1) >= capacity - 1) \in BOOLEAN
    OBVIOUS
  <2> HIDE DEF full
  <2> QED
    BY <1>1, <2>1, <2>2 DEF QLocals
<1> HIDE DEF full
<1>8. QQuiet(t)
  BY <1>1, <1>3, <1>4, <1>7 DEF QQuiet, QOthers
<1>9. QLocals'
  <2>1. QWritten' = QWritten
    BY <1>4, QuietHist
  <2>2. \A u \in QueueThread :
          /\ qSent'[u] <= qQuota'.push[u]
          /\ qPc'[u] \in Pushing => qSent'[u] < qQuota'.push[u]
          /\ qPc'[u] \in Popping => u \in Q!Consumer'
          /\ at'[u] = seenAt'[u] % capacity
          /\ qPc'[u] \in {"loadFullFront", "casWrite"} => seenAt'[u] <= QWritten'
    BY <1>1, <1>3, <2>1 DEF QLocals, Pushing, Popping, Q!Consumer
  <2> QED
    BY <1>1, <1>3, <1>4, <1>7, <2>2 DEF QLocals
<1>10. \/ qPc'[t] = "loadWrite"
       \/ /\ qPc'[t] = "casWrite" /\ (n - 1) % capacity # (seenAt[t] + 1) % capacity
          /\ fooled'[t] = (seenAt[t] >= n + capacity - 2)
  BY <1>3, <1>6, <1>7
<1> QED
  BY <1>1, <1>3, <1>4, <1>5, <1>8, <1>9, <1>10

\* front_ is loaded.
LEMMA QLoadFront ==
  ASSUME QMem, QLocals, QValues, NEW t \in QueueThread, Q!LoadFront(t)
  PROVE  /\ QQuiet(t) /\ QLocals' /\ qPc[t] = "loadFront" /\ qPc'[t] = "loadBack"
         /\ qView[t].seen[Q!front_] - 1 <= seenAt'[t] /\ seenAt'[t] <= QFront
<1>1. /\ Q!Goto(t, "loadFront", "loadBack") /\ Q!LoadCursor(t, Q!front_)
      /\ UNCHANGED <<qQuota, fooled, result, qSent, qGot, lapped>>
  BY DEF Q!LoadFront
<1>2. /\ qPc[t] = "loadFront" /\ qPc'[t] = "loadBack"
      /\ qPc' \in [QueueThread -> Q!Label]
      /\ \A u \in QueueThread : u # t => qPc'[u] = qPc[u]
  BY <1>1, QGoto DEF Q!Label
<1>3. Q!front_ \in QueueCursor
  BY DEF QueueCursor
<1>4. /\ QMem' /\ QGrows(t) /\ qHist' = qHist /\ qRace' = qRace
      /\ at' \in [QueueThread -> 0 .. (capacity - 1)] /\ seenAt' \in [QueueThread -> Nat]
      /\ at'[t] = seenAt'[t] % capacity
      /\ qView[t].seen[Q!front_] - 1 <= seenAt'[t] /\ seenAt'[t] <= Q!Newest(Q!front_) - 1
      /\ \A u \in QueueThread : u # t => at'[u] = at[u] /\ seenAt'[u] = seenAt[u]
  BY <1>1, <1>3, QLoadCursorStep
<1>5. QWritten' = QWritten /\ seenAt'[t] <= QFront
  BY <1>4, QuietHist DEF QFront, Q!Moves
<1>6. QQuiet(t)
  BY <1>1, <1>2, <1>4 DEF QQuiet, QOthers
<1>7. QLocals'
  <2>1. \A u \in QueueThread :
          /\ qSent'[u] <= qQuota'.push[u]
          /\ qPc'[u] \in Pushing => qSent'[u] < qQuota'.push[u]
          /\ qPc'[u] \in Popping => u \in Q!Consumer'
          /\ at'[u] = seenAt'[u] % capacity
          /\ qPc'[u] \in {"loadFullFront", "casWrite"} => seenAt'[u] <= QWritten'
    BY <1>1, <1>2, <1>4, <1>5 DEF QLocals, Pushing, Popping, Q!Consumer
  <2> QED
    BY <1>1, <1>2, <1>4, <2>1 DEF QLocals
<1> QED
  BY <1>1, <1>2, <1>4, <1>5, <1>6, <1>7

\* The test of back_: who goes on has found a value, unless it is fooled by the ring.
LEMMA QLoadBack ==
  ASSUME QMem, QLocals, QValues, NEW t \in QueueThread, Q!LoadBack(t)
  PROVE  /\ QQuiet(t) /\ QLocals' /\ qPc[t] = "loadBack"
         /\ seenAt' = seenAt /\ result' = result
         /\ \E n \in 1 .. Q!Newest(Q!back_) :
              /\ qView[t].seen[Q!back_] <= n /\ n <= qView'[t].seen[Q!back_]
              /\ QKnows(qView'[t], qHist[Q!back_][n].view)
              /\ \/ qPc'[t] = "loadFront"
                 \/ /\ qPc'[t] = "readSlot" /\ (n - 1) % capacity # seenAt[t] % capacity
                    /\ fooled'[t] = (seenAt[t] >= n - 1)
<1> DEFINE empty(n) == at[t] = Q!Value(Q!back_, n)
           to(n) == IF empty(n) THEN "loadFront" ELSE "readSlot"
<1>1. PICK n \in Q!Readable(t, Q!back_) :
        /\ Q!Goto(t, "loadBack", to(n)) /\ Q!Load(t, Q!back_, "acquire", n)
        /\ fooled' = [fooled EXCEPT ![t] = ~empty(n) /\ seenAt[t] >= n - 1]
        /\ UNCHANGED <<qQuota, at, seenAt, result, qSent, qGot, lapped>>
  BY DEF Q!LoadBack
<1>2. Q!back_ \in QueueCursor /\ Q!back_ \in QueueLocation
  BY QueuePlaces DEF QueueCursor
<1>3. /\ qPc[t] = "loadBack" /\ qPc'[t] = to(n)
      /\ qPc' \in [QueueThread -> Q!Label]
      /\ \A u \in QueueThread : u # t => qPc'[u] = qPc[u]
  <2>1. to(n) \in Q!Label
    BY DEF Q!Label
  <2> QED
    BY <1>1, <2>1, QGoto
<1>4. /\ QMem' /\ QGrows(t) /\ qHist' = qHist /\ qRace' = qRace
      /\ n \in 1 .. Q!Newest(Q!back_) /\ n <= qView'[t].seen[Q!back_]
      /\ QKnows(qView'[t], qHist[Q!back_][n].view)
  BY <1>1, <1>2, QLoadMem
<1>5. qView[t].seen[Q!back_] <= n
  BY <1>1, <1>2, <1>4 DEF Q!Readable, QMem, Q!View
<1>6. empty(n) <=> (n - 1) % capacity = seenAt[t] % capacity
  <2>1. Q!Value(Q!back_, n) = (n - 1) % capacity
    BY <1>2, <1>4 DEF QValues, Q!Value
  <2> QED
    BY <2>1 DEF QLocals
<1>7. /\ fooled' \in [QueueThread -> BOOLEAN]
      /\ fooled'[t] = (~empty(n) /\ seenAt[t] >= n - 1)
      /\ \A u \in QueueThread : u # t => fooled'[u] = fooled[u]
  <2>1. (~empty(n) /\ seenAt[t] >= n - 1) \in BOOLEAN
    OBVIOUS
  <2> HIDE DEF empty
  <2> QED
    BY <1>1, <2>1 DEF QLocals
<1> HIDE DEF empty
<1>8. QQuiet(t)
  BY <1>1, <1>3, <1>4, <1>7 DEF QQuiet, QOthers
<1>9. QLocals'
  <2>1. QWritten' = QWritten
    BY <1>4, QuietHist
  <2>2. \A u \in QueueThread :
          /\ qSent'[u] <= qQuota'.push[u]
          /\ qPc'[u] \in Pushing => qSent'[u] < qQuota'.push[u]
          /\ qPc'[u] \in Popping => u \in Q!Consumer'
          /\ at'[u] = seenAt'[u] % capacity
          /\ qPc'[u] \in {"loadFullFront", "casWrite"} => seenAt'[u] <= QWritten'
    BY <1>1, <1>3, <2>1 DEF QLocals, Pushing, Popping, Q!Consumer
  <2> QED
    BY <1>1, <1>3, <1>4, <1>7, <2>2 DEF QLocals
<1>10. \/ qPc'[t] = "loadFront"
       \/ /\ qPc'[t] = "readSlot" /\ (n - 1) % capacity # seenAt[t] % capacity
          /\ fooled'[t] = (seenAt[t] >= n - 1)
  BY <1>3, <1>6, <1>7
<1> QED
  BY <1>1, <1>3, <1>4, <1>5, <1>8, <1>9, <1>10

\* A compare-exchange that fails.
LEMMA QFailsStep ==
  ASSUME QMem, QLocals, QValues, NEW t \in QueueThread, NEW a \in QueueCursor,
         NEW from, NEW to, Q!Goto(t, from, to), Q!Fails(t, a),
         \/ from \in Pushing /\ to \in {"loadWrite", "casBack"}
         \/ from \in Popping /\ to = "loadFront",
         UNCHANGED <<qQuota, at, seenAt, fooled, result, qSent, qGot, lapped>>
  PROVE  /\ QQuiet(t) /\ QLocals' /\ qPc[t] = from /\ qPc'[t] = to
         /\ seenAt' = seenAt /\ fooled' = fooled /\ result' = result
<1>1. PICK n \in Q!Readable(t, a) : Q!Load(t, a, "relaxed", n)
  BY DEF Q!Fails
<1>2. QMem' /\ QGrows(t) /\ qHist' = qHist /\ qRace' = qRace
  BY <1>1, QLoadMem, QueuePlaces
<1>3. /\ qPc[t] = from /\ qPc'[t] = to /\ qPc' \in [QueueThread -> Q!Label]
      /\ \A u \in QueueThread : u # t => qPc'[u] = qPc[u]
  <2>1. to \in Q!Label
    BY DEF Q!Label
  <2> QED
    BY <2>1, QGoto
<1>4. QQuiet(t)
  BY <1>2, <1>3 DEF QQuiet, QOthers
<1>5. QLocals'
  <2>1. QWritten' = QWritten
    BY <1>2, QuietHist
  <2>2. \A u \in QueueThread :
          /\ qSent'[u] <= qQuota'.push[u]
          /\ qPc'[u] \in Pushing => qSent'[u] < qQuota'.push[u]
          /\ qPc'[u] \in Popping => u \in Q!Consumer'
          /\ at'[u] = seenAt'[u] % capacity
          /\ qPc'[u] \in {"loadFullFront", "casWrite"} => seenAt'[u] <= QWritten'
    BY <1>3, <2>1 DEF QLocals, Pushing, Popping, Q!Consumer
  <2> QED
    BY <1>2, <1>3, <2>2 DEF QLocals
<1> QED
  BY <1>3, <1>4, <1>5

\* A store that becomes visible.
LEMMA QBecomeVisible ==
  ASSUME QMem, QLocals, QValues, NEW t \in QueueThread, Q!BecomeVisible(t)
  PROVE  /\ QQuiet(t) /\ QLocals'
         /\ qPc' = qPc /\ seenAt' = seenAt /\ fooled' = fooled /\ result' = result
<1>1. PICK a \in QueueCursor : Q!Propagate(t, a)
  BY DEF Q!BecomeVisible, QueueCursor
<1>2. /\ UNCHANGED <<qQuota, qPc, at, seenAt, fooled, result, qSent, qGot, lapped>>
      /\ qHist' = qHist /\ qRace' = qRace
      /\ qView' = [qView EXCEPT ![t] = Q!Knowing(qView[t], a, Q!Newest(a))]
  BY <1>1 DEF Q!BecomeVisible, Q!Propagate
<1> DEFINE v == Q!Knowing(qView[t], a, Q!Newest(a))
<1>3. /\ a \in QueueLocation /\ qView[t] \in Q!View /\ Q!Newest(a) \in Nat
      /\ \A b \in QueueLocation : /\ qView[t].seen[b] \in 1 .. Q!Newest(b)
                                  /\ Q!Newest(b) \in Nat
  <2>1. a \in QueueLocation
    BY QueuePlaces
  <2>2. \A b \in QueueLocation : Q!Newest(b) \in Nat
    BY QMemFacts
  <2> QED
    BY <2>1, <2>2 DEF QMem
<1>4. /\ v \in Q!View /\ QKnows(v, qView[t])
      /\ \A b \in QueueLocation : v.seen[b] <= Q!Newest(b)
  <2>1. /\ v \in Q!View /\ QKnows(v, qView[t])
        /\ \A b \in QueueLocation : \/ v.seen[b] = qView[t].seen[b]
                                    \/ b = a /\ v.seen[b] = Q!Newest(a)
    BY <1>3, QKnowing
  <2> QED
    BY <1>3, <2>1
<1> HIDE DEF v
<1>5. /\ qView' \in [QueueThread -> Q!View] /\ qView'[t] = v
      /\ \A u \in QueueThread : u # t => qView'[u] = qView[u]
  BY <1>2, <1>4 DEF QMem, v
<1>6. \A b : Q!Newest(b)' = Q!Newest(b)
  BY <1>2, QuietHist
<1>7. QGrows(t)
  BY <1>4, <1>5, <1>6 DEF QGrows
<1>8. QMem'
  <2>1. ASSUME NEW b \in QueueLocation, NEW u \in QueueThread
        PROVE  qView'[u].seen[b] \in 1 .. Q!Newest(b)
    <3>1. qView[u].seen[b] \in 1 .. Q!Newest(b) /\ qView'[u].seen[b] \in Nat
      BY <1>5 DEF QMem, Q!View
    <3> QED
      BY <1>3, <1>4, <1>5, <3>1 DEF QKnows
  <2> QED
    BY <1>2, <1>5, <1>6, <2>1 DEF QMem
<1>9. QQuiet(t)
  BY <1>2, <1>7, <1>8 DEF QQuiet, QOthers
<1>10. QLocals'
  <2>1. QWritten' = QWritten
    BY <1>2, QuietHist
  <2> QED
    BY <1>2, <2>1 DEF QLocals, Q!Consumer
<1> QED
  BY <1>2, <1>9, <1>10

\* A cursor is moved by t from where t has seen it.
QMoves(t, a) ==
  /\ QMem' /\ QGrows(t) /\ qRace' = qRace /\ qView'[t].seen[a] = Q!Newest(a) + 1
  /\ Q!Newest(a)' = Q!Newest(a) + 1
  /\ \A n \in 1 .. Q!Newest(a) : qHist'[a][n] = qHist[a][n]
  /\ \A b \in QueueLocation : b # a => qHist'[b] = qHist[b]
  /\ QKnows(qHist'[a][Q!Newest(a) + 1].view, qHist[a][Q!Newest(a)].view)
  /\ (Q!Newest(a) - 1) % capacity = seenAt[t] % capacity
  /\ QValues'

\* A compare-exchange that succeeds.
LEMMA QAdvanceStep ==
  ASSUME QMem, QLocals, QValues, NEW t \in QueueThread, NEW a \in QueueCursor, NEW order,
         Q!Advance(t, a, order)
  PROVE  /\ QMoves(t, a)
         /\ order = "release" => QKnows(qHist'[a][Q!Newest(a) + 1].view, qView[t])
<1> DEFINE n == Q!Newest(a)
           x == Q!After(at[t])
<1>1. Q!Current(a) = at[t] /\ Q!Exchange(t, a, x, order)
  BY DEF Q!Advance
<1>2. a \in QueueLocation /\ a \notin QueuePlain
  BY QueuePlaces
<1>3. n \in Nat /\ n > 0 /\ Q!Current(a) = (n - 1) % capacity
  <2>1. n \in Nat /\ n > 0
    BY <1>2, QMemFacts
  <2> QED
    BY <2>1 DEF QValues, Q!Current
<1>4. (n - 1) % capacity = seenAt[t] % capacity
  BY <1>1, <1>3 DEF QLocals
<1>5. x = n % capacity /\ x \in QValue
  <2>0. n - 1 \in Nat /\ (n - 1) + 1 = n
    BY <1>3
  <2>1. (((n - 1) % capacity) + 1) % capacity = ((n - 1) + 1) % capacity
    BY <2>0, RingSteps, QueueConstants
  <2>2. n % capacity \in 0 .. (capacity - 1)
    BY <1>3, RingSteps, QueueConstants
  <2> QED
    BY <1>1, <1>3, <2>0, <2>1, <2>2 DEF Q!After, QValue
<1> HIDE DEF x
<1>6. /\ QMem' /\ qRace' = qRace /\ QGrows(t) /\ qView'[t].seen[a] = n + 1
      /\ \E w \in Q!View : /\ QAppends(a, x, w) /\ QKnows(w, qHist[a][n].view)
                           /\ order = "release" => QKnows(w, qView[t])
  BY <1>1, <1>2, <1>5, QExchangeMem
<1>7. PICK w \in Q!View : /\ QAppends(a, x, w) /\ QKnows(w, qHist[a][n].view)
                          /\ order = "release" => QKnows(w, qView[t])
  BY <1>6
<1>8. /\ Q!Newest(a)' = n + 1
      /\ qHist'[a][n + 1] = [val |-> x, view |-> w]
      /\ \A i \in 1 .. n : qHist'[a][i] = qHist[a][i]
      /\ \A b \in QueueLocation : b # a =>
           qHist'[b] = qHist[b] /\ Q!Newest(b)' = Q!Newest(b)
  BY <1>2, <1>5, <1>7, QAppended
<1>9. QValues'
  <2>1. ASSUME NEW b \in QueueCursor, NEW i \in 1 .. Q!Newest(b)'
        PROVE  qHist'[b][i].val = (i - 1) % capacity
    <3>1. CASE b = a /\ i = n + 1
      <4>1. i - 1 = n
        BY <1>3, <3>1
      <4> QED
        BY <1>5, <1>8, <3>1, <4>1
    <3>2. CASE ~(b = a /\ i = n + 1)
      <4>1. i \in 1 .. Q!Newest(b) /\ qHist'[b][i] = qHist[b][i]
        <5>1. CASE b = a
          BY <1>3, <1>8, <3>2, <5>1
        <5>2. CASE b # a
          BY <1>8, <5>2, QueuePlaces
        <5> QED
          BY <5>1, <5>2
      <4> QED
        BY <4>1 DEF QValues
    <3> QED
      BY <3>1, <3>2
  <2>2. ASSUME NEW b \in QueuePlain
        PROVE  qHist'[b] = qHist[b] /\ Q!Newest(b)' = Q!Newest(b)
    BY <1>2, <1>8, QueuePlaces
  <2> QED
    BY <2>1, <2>2 DEF QValues
<1> QED
  BY <1>4, <1>6, <1>7, <1>8, <1>9 DEF QMoves

\* write_ is moved, or found moved.
LEMMA QCasWrite ==
  ASSUME QMem, QLocals, QValues, NEW t \in QueueThread, Q!CasWrite(t)
  PROVE  /\ qPc[t] = "casWrite" /\ qSent' = qSent /\ qQuota' = qQuota /\ QOthers(t)
         /\ seenAt' = seenAt /\ fooled' = fooled /\ result' = result /\ QLocals'
         /\ \/ QQuiet(t) /\ qPc'[t] = "loadWrite"
            \/ /\ QMoves(t, Q!write_) /\ qPc'[t] = "fill"
               /\ lapped' = (lapped \/ fooled[t] \/ seenAt[t] # QWritten)
<1>1. Q!write_ \in QueueCursor
  BY DEF QueueCursor
<1>2. CASE /\ Q!Goto(t, "casWrite", "fill") /\ Q!Advance(t, Q!write_, "relaxed")
           /\ lapped' = (lapped \/ fooled[t] \/ seenAt[t] # Q!Moves(Q!write_))
           /\ UNCHANGED <<qQuota, at, seenAt, fooled, result, qSent, qGot>>
  <2>1. QMoves(t, Q!write_)
    BY <1>1, <1>2, QAdvanceStep
  <2>2. /\ qPc[t] = "casWrite" /\ qPc'[t] = "fill" /\ qPc' \in [QueueThread -> Q!Label]
        /\ \A u \in QueueThread : u # t => qPc'[u] = qPc[u]
    BY <1>2, QGoto DEF Q!Label
  <2>3. QWritten' = QWritten + 1 /\ QWritten \in Nat
    BY <2>1, QCursors DEF QMoves, QWritten, Q!Moves
  <2>4. lapped' \in BOOLEAN
    BY <1>2 DEF QLocals
  <2>5. QLocals'
    <3>1. \A u \in QueueThread :
            /\ qSent'[u] <= qQuota'.push[u]
            /\ qPc'[u] \in Pushing => qSent'[u] < qQuota'.push[u]
            /\ qPc'[u] \in Popping => u \in Q!Consumer'
            /\ at'[u] = seenAt'[u] % capacity
            /\ qPc'[u] \in {"loadFullFront", "casWrite"} => seenAt'[u] <= QWritten'
      BY <1>2, <2>2, <2>3 DEF QLocals, Pushing, Popping, Q!Consumer
    <3> QED
      BY <1>2, <2>1, <2>2, <2>4, <3>1 DEF QLocals, QMoves
  <2> QED
    BY <1>2, <2>1, <2>2, <2>5 DEF QOthers, QWritten
<1>3. CASE /\ Q!Goto(t, "casWrite", "loadWrite") /\ Q!Fails(t, Q!write_)
           /\ UNCHANGED <<qQuota, at, seenAt, fooled, result, qSent, qGot, lapped>>
  <2>1. /\ QQuiet(t) /\ QLocals' /\ qPc[t] = "casWrite" /\ qPc'[t] = "loadWrite"
        /\ seenAt' = seenAt /\ fooled' = fooled /\ result' = result
    BY <1>1, <1>3, QFailsStep DEF Pushing
  <2> QED
    BY <2>1 DEF QQuiet
<1> QED
  BY <1>2, <1>3 DEF Q!CasWrite

\* back_ is moved, or found elsewhere.
LEMMA QCasBack ==
  ASSUME QMem, QLocals, QValues, NEW t \in QueueThread, Q!CasBack(t)
  PROVE  /\ qPc[t] = "casBack" /\ qQuota' = qQuota /\ lapped' = lapped
         /\ seenAt' = seenAt /\ fooled' = fooled /\ result' = result /\ QLocals'
         /\ \/ QQuiet(t) /\ qPc'[t] = "casBack"
            \/ /\ QMoves(t, Q!back_) /\ qPc'[t] \in {"loadWrite", "done"} /\ QOthers(t)
               /\ qSent' = [qSent EXCEPT ![t] = @ + 1]
               /\ QKnows(qHist'[Q!back_][Q!Newest(Q!back_) + 1].view, qView[t])
<1>1. Q!back_ \in QueueCursor
  BY DEF QueueCursor
<1> DEFINE to == IF qSent[t] + 1 = qQuota.push[t] THEN "done" ELSE "loadWrite"
<1>2. CASE /\ Q!Goto(t, "casBack", to) /\ Q!Advance(t, Q!back_, "release")
           /\ qSent' = [qSent EXCEPT ![t] = @ + 1]
           /\ UNCHANGED <<qQuota, at, seenAt, fooled, result, qGot, lapped>>
  <2>1. QMoves(t, Q!back_) /\ QKnows(qHist'[Q!back_][Q!Newest(Q!back_) + 1].view, qView[t])
    BY <1>1, <1>2, QAdvanceStep
  <2>2. /\ qPc[t] = "casBack" /\ qPc'[t] = to /\ qPc' \in [QueueThread -> Q!Label]
        /\ \A u \in QueueThread : u # t => qPc'[u] = qPc[u]
    <3>1. to \in Q!Label
      BY DEF Q!Label
    <3> QED
      BY <1>2, <3>1, QGoto
  <2>3. QWritten' = QWritten
    BY <1>1, <2>1, QueuePlaces DEF QMoves, QWritten, Q!Moves, Q!Newest, QueueCursor
  <2>4. /\ qSent' \in [QueueThread -> Nat] /\ qSent'[t] = qSent[t] + 1
        /\ \A u \in QueueThread : u # t => qSent'[u] = qSent[u]
    BY <1>2 DEF QLocals
  <2>5. qQuota.push[t] \in Nat /\ qSent[t] < qQuota.push[t] /\ qSent[t] \in Nat
    BY <2>2, QueueConstants DEF QLocals, Pushing
  <2>6. QLocals'
    <3>1. \A u \in QueueThread :
            /\ qSent'[u] <= qQuota'.push[u]
            /\ qPc'[u] \in Pushing => qSent'[u] < qQuota'.push[u]
            /\ qPc'[u] \in Popping => u \in Q!Consumer'
            /\ at'[u] = seenAt'[u] % capacity
            /\ qPc'[u] \in {"loadFullFront", "casWrite"} => seenAt'[u] <= QWritten'
      BY <1>2, <2>2, <2>3, <2>4, <2>5 DEF QLocals, Pushing, Popping, Q!Consumer
    <3> QED
      BY <1>2, <2>1, <2>2, <2>4, <3>1 DEF QLocals, QMoves
  <2> QED
    BY <1>2, <2>1, <2>2, <2>4, <2>6 DEF QOthers
<1>3. CASE /\ Q!Goto(t, "casBack", "casBack") /\ Q!Fails(t, Q!back_)
           /\ UNCHANGED <<qQuota, at, seenAt, fooled, result, qSent, qGot, lapped>>
  <2>1. /\ QQuiet(t) /\ QLocals' /\ qPc[t] = "casBack" /\ qPc'[t] = "casBack"
        /\ seenAt' = seenAt /\ fooled' = fooled /\ result' = result
    BY <1>1, <1>3, QFailsStep DEF Pushing
  <2> QED
    BY <2>1 DEF QQuiet
<1> QED
  BY <1>2, <1>3 DEF Q!CasBack, Q!MoveBack

\* front_ is moved, or found moved.
LEMMA QCasFront ==
  ASSUME QMem, QLocals, QValues, NEW t \in QueueThread, Q!CasFront(t)
  PROVE  /\ qPc[t] = "casFront" /\ qSent' = qSent /\ qQuota' = qQuota /\ QOthers(t)
         /\ seenAt' = seenAt /\ fooled' = fooled /\ result' = result /\ QLocals'
         /\ \/ QQuiet(t) /\ qPc'[t] = "loadFront" /\ qGot' = qGot
            \/ /\ QMoves(t, Q!front_) /\ qPc'[t] \in {"loadFront", "done"}
               /\ lapped' = (lapped \/ fooled[t] \/ seenAt[t] # QFront)
               /\ qGot' = [qGot EXCEPT ![t] = Append(@, result[t])]
               /\ QKnows(qHist'[Q!front_][Q!Newest(Q!front_) + 1].view, qView[t])
<1>1. Q!front_ \in QueueCursor
  BY DEF QueueCursor
<1> DEFINE to == IF Len(qGot[t]) + 1 = qQuota.pop[t] THEN "done" ELSE "loadFront"
<1>2. CASE /\ Q!Goto(t, "casFront", to) /\ Q!Advance(t, Q!front_, "release")
           /\ lapped' = (lapped \/ fooled[t] \/ seenAt[t] # Q!Moves(Q!front_))
           /\ qGot' = [qGot EXCEPT ![t] = Append(@, result[t])]
           /\ UNCHANGED <<qQuota, at, seenAt, fooled, result, qSent>>
  <2>1. QMoves(t, Q!front_) /\ QKnows(qHist'[Q!front_][Q!Newest(Q!front_) + 1].view, qView[t])
    BY <1>1, <1>2, QAdvanceStep
  <2>2. /\ qPc[t] = "casFront" /\ qPc'[t] = to /\ qPc' \in [QueueThread -> Q!Label]
        /\ \A u \in QueueThread : u # t => qPc'[u] = qPc[u]
    <3>1. to \in Q!Label
      BY DEF Q!Label
    <3> QED
      BY <1>2, <3>1, QGoto
  <2>3. QWritten' = QWritten
    BY <1>1, <2>1, QueuePlaces DEF QMoves, QWritten, Q!Moves, Q!Newest, QueueCursor
  <2>4. lapped' \in BOOLEAN
    BY <1>2 DEF QLocals
  <2>5. QLocals'
    <3>1. \A u \in QueueThread :
            /\ qSent'[u] <= qQuota'.push[u]
            /\ qPc'[u] \in Pushing => qSent'[u] < qQuota'.push[u]
            /\ qPc'[u] \in Popping => u \in Q!Consumer'
            /\ at'[u] = seenAt'[u] % capacity
            /\ qPc'[u] \in {"loadFullFront", "casWrite"} => seenAt'[u] <= QWritten'
      BY <1>2, <2>2, <2>3 DEF QLocals, Pushing, Popping, Q!Consumer
    <3> QED
      BY <1>2, <2>1, <2>2, <2>4, <3>1 DEF QLocals, QMoves
  <2> QED
    BY <1>2, <2>1, <2>2, <2>5 DEF QOthers, QFront
<1>3. CASE /\ Q!Goto(t, "casFront", "loadFront") /\ Q!Fails(t, Q!front_)
           /\ UNCHANGED <<qQuota, at, seenAt, fooled, result, qSent, qGot, lapped>>
  <2>1. /\ QQuiet(t) /\ QLocals' /\ qPc[t] = "casFront" /\ qPc'[t] = "loadFront"
        /\ seenAt' = seenAt /\ fooled' = fooled /\ result' = result
    BY <1>1, <1>3, QFailsStep DEF Popping
  <2> QED
    BY <1>3, <2>1 DEF QQuiet
<1> QED
  BY <1>2, <1>3 DEF Q!CasFront

\* The slot of a place.
SlotAt(k) == Q!Slot(k % capacity)

LEMMA SlotPlaces ==
  /\ \A k \in Nat : SlotAt(k) \in QueuePlain /\ SlotAt(k) \in QueueLocation
  /\ \A k \in Nat : SlotAt(k) # Q!front_ /\ SlotAt(k) # Q!back_ /\ SlotAt(k) # Q!write_
  /\ \A j, k \in Nat : SlotAt(j) = SlotAt(k) /\ j < k + capacity /\ k < j + capacity => j = k
<1>1. \A k \in Nat : k % capacity \in 0 .. (capacity - 1)
  BY RingSteps, QueueConstants
<1>2. \A k \in Nat : SlotAt(k) \in QueuePlain
  BY <1>1, QueuePlaces DEF SlotAt
<1>3. ASSUME NEW j \in Nat, NEW k \in Nat, SlotAt(j) = SlotAt(k), j < k + capacity,
             k < j + capacity
      PROVE  j = k
  <2>1. j % capacity = k % capacity
    BY <1>3, QueuePlaces DEF SlotAt
  <2> QED
    BY <1>3, <2>1, SameTurn, QueueConstants
<1> QED
  BY <1>2, <1>3, QueuePlaces DEF QueueCursor

\* Nothing else than a is stored to.
QElsewhere(a) == \A b \in QueueLocation : b # a => qHist'[b] = qHist[b]

\* A slot is filled.
LEMMA QFill ==
  ASSUME QMem, QLocals, QValues, NEW t \in QueueThread, Q!Fill(t),
         NEW a, a = SlotAt(seenAt[t])
  PROVE  /\ qPc[t] = "fill" /\ qPc'[t] = "casBack" /\ qSent' = qSent /\ qQuota' = qQuota
         /\ seenAt' = seenAt /\ fooled' = fooled /\ result' = result /\ lapped' = lapped
         /\ QOthers(t) /\ QLocals' /\ QValues' /\ QMem' /\ QGrows(t)
         /\ qView'[t].seen[a] = Q!Newest(a) + 1 /\ Q!Newest(a)' = Q!Newest(a) + 1
         /\ Q!Current(a)' = <<t, qSent[t]>>
         /\ QElsewhere(a)
         /\ (/\ qRace = FALSE /\ qView[t].seen[a] = Q!Newest(a)
             /\ \A u \in QueueThread \ {t} : <<u, a>> \in qView[t].reads)
            => qRace' = FALSE
<1> DEFINE x == <<t, qSent[t]>>
<1>1. /\ Q!Goto(t, "fill", "casBack") /\ Q!Write(t, a, x)
      /\ UNCHANGED <<qQuota, at, seenAt, fooled, result, qSent, qGot, lapped>>
  BY DEF Q!Fill, SlotAt, QLocals
<1>2. x \in QItem /\ x \in QValue
  BY DEF QLocals, QItem, QValue
<1>3. a \in QueuePlain /\ a \in QueueLocation /\ a \notin QueueCursor
  BY SlotPlaces DEF QLocals, QueueCursor
<1> HIDE DEF x
<1>4. /\ QMem' /\ QGrows(t) /\ QAppends(a, x, Q!Nothing)
      /\ qView'[t].seen[a] = Q!Newest(a) + 1
      /\ (/\ qRace = FALSE /\ qView[t].seen[a] = Q!Newest(a)
          /\ \A u \in QueueThread \ {t} : <<u, a>> \in qView[t].reads)
         => qRace' = FALSE
  BY <1>1, <1>2, <1>3, QWriteMem
<1>5. /\ Q!Newest(a)' = Q!Newest(a) + 1 /\ Q!Current(a)' = x
      /\ qHist'[a][Q!Newest(a) + 1] = [val |-> x, view |-> Q!Nothing]
      /\ \A i \in 1 .. Q!Newest(a) : qHist'[a][i] = qHist[a][i]
      /\ \A b \in QueueLocation : b # a =>
           /\ qHist'[b] = qHist[b] /\ Q!Newest(b)' = Q!Newest(b)
           /\ Q!Current(b)' = Q!Current(b)
  BY <1>2, <1>3, <1>4, QNothing, QAppended
<1>6. /\ qPc[t] = "fill" /\ qPc'[t] = "casBack" /\ qPc' \in [QueueThread -> Q!Label]
      /\ \A u \in QueueThread : u # t => qPc'[u] = qPc[u]
  BY <1>1, QGoto DEF Q!Label
<1>7. qRace' \in BOOLEAN
  <2>1. qRace' = (\/ qRace \/ qView[t].seen[a] # Q!Newest(a)
                  \/ \E u \in QueueThread \ {t} : <<u, a>> \notin qView[t].reads)
    BY <1>1 DEF Q!Write
  <2> QED
    BY <2>1
<1>8. QLocals'
  <2>1. QWritten' = QWritten
    BY <1>3, <1>5, QueuePlaces DEF QWritten, Q!Moves, QueueCursor
  <2>2. \A u \in QueueThread :
          /\ qSent'[u] <= qQuota'.push[u]
          /\ qPc'[u] \in Pushing => qSent'[u] < qQuota'.push[u]
          /\ qPc'[u] \in Popping => u \in Q!Consumer'
          /\ at'[u] = seenAt'[u] % capacity
          /\ qPc'[u] \in {"loadFullFront", "casWrite"} => seenAt'[u] <= QWritten'
    BY <1>1, <1>6, <2>1 DEF QLocals, Pushing, Popping, Q!Consumer
  <2> QED
    BY <1>1, <1>6, <1>7, <2>2 DEF QLocals
<1>9. QValues'
  <2>1. ASSUME NEW b \in QueuePlain, NEW i \in 1 .. Q!Newest(b)'
        PROVE  qHist'[b][i].val \in QItem
    <3>1. CASE b = a /\ i = Q!Newest(a) + 1
      BY <1>2, <1>5, <3>1
    <3>2. CASE ~(b = a /\ i = Q!Newest(a) + 1)
      <4>1. i \in 1 .. Q!Newest(b) /\ qHist'[b][i] = qHist[b][i]
        <5>1. CASE b = a
          <6>1. Q!Newest(a) \in Nat
            BY <1>3, QMemFacts
          <6> QED
            BY <1>5, <3>2, <5>1, <6>1
        <5>2. CASE b # a
          BY <1>5, <5>2, QueuePlaces
        <5> QED
          BY <5>1, <5>2
      <4> QED
        BY <4>1 DEF QValues
    <3> QED
      BY <3>1, <3>2
  <2>2. ASSUME NEW b \in QueueCursor
        PROVE  qHist'[b] = qHist[b] /\ Q!Newest(b)' = Q!Newest(b)
    BY <1>3, <1>5, QueuePlaces
  <2> QED
    BY <2>1, <2>2 DEF QValues
<1> QED
  BY <1>1, <1>4, <1>5, <1>6, <1>8, <1>9 DEF QOthers, QElsewhere, x

\* A slot is read.
LEMMA QReadSlot ==
  ASSUME QMem, QLocals, QValues, NEW t \in QueueThread, Q!ReadSlot(t),
         NEW a, a = SlotAt(seenAt[t])
  PROVE  /\ qPc[t] = "readSlot" /\ qPc'[t] = "casFront" /\ qSent' = qSent /\ qQuota' = qQuota
         /\ seenAt' = seenAt /\ fooled' = fooled /\ lapped' = lapped
         /\ QOthers(t) /\ QLocals' /\ QValues' /\ QMem' /\ QHasRead(t, a)
         /\ \E n \in 1 .. Q!Newest(a) :
              qView[t].seen[a] <= n /\ result'[t] = qHist[a][n].val
         /\ qRace = FALSE /\ qView[t].seen[a] = Q!Newest(a) => qRace' = FALSE
<1>1. a = Q!Slot(at[t])
  BY DEF SlotAt, QLocals
<1>2. PICK n \in Q!Readable(t, a) :
        /\ Q!Goto(t, "readSlot", "casFront") /\ Q!Read(t, a, n)
        /\ result' = [result EXCEPT ![t] = Q!Value(a, n)]
        /\ UNCHANGED <<qQuota, at, seenAt, fooled, qSent, qGot, lapped>>
  BY <1>1 DEF Q!ReadSlot
<1>3. a \in QueuePlain /\ a \in QueueLocation /\ a \notin QueueCursor
  BY SlotPlaces DEF QLocals, QueueCursor
<1>4. /\ QMem' /\ QHasRead(t, a) /\ n \in qView[t].seen[a] .. Q!Newest(a)
      /\ qRace = FALSE /\ qView[t].seen[a] = Q!Newest(a) => qRace' = FALSE
  BY <1>2, <1>3, QReadMem
<1>5. n \in 1 .. Q!Newest(a) /\ qView[t].seen[a] <= n
  <2>1. qView[t].seen[a] \in 1 .. Q!Newest(a) /\ Q!Newest(a) \in Nat
    BY <1>3, QMemFacts DEF QMem
  <2> QED
    BY <1>4, <2>1
<1>6. qHist[a][n].val \in QItem
  BY <1>3, <1>5 DEF QValues
<1>7. /\ qPc[t] = "readSlot" /\ qPc'[t] = "casFront" /\ qPc' \in [QueueThread -> Q!Label]
      /\ \A u \in QueueThread : u # t => qPc'[u] = qPc[u]
  BY <1>2, QGoto DEF Q!Label
<1>8. /\ result' \in [QueueThread -> QItem] /\ result'[t] = qHist[a][n].val
      /\ \A u \in QueueThread : u # t => result'[u] = result[u]
  BY <1>2, <1>6 DEF QLocals, Q!Value
<1>9. qRace' \in BOOLEAN
  <2>1. qRace' = (qRace \/ qView[t].seen[a] # Q!Newest(a))
    BY <1>2 DEF Q!Read
  <2> QED
    BY <2>1
<1>10. QLocals'
  <2>1. QWritten' = QWritten
    BY <1>4, QueuePlaces DEF QHasRead, QWritten, Q!Moves, QueueCursor
  <2>2. \A u \in QueueThread :
          /\ qSent'[u] <= qQuota'.push[u]
          /\ qPc'[u] \in Pushing => qSent'[u] < qQuota'.push[u]
          /\ qPc'[u] \in Popping => u \in Q!Consumer'
          /\ at'[u] = seenAt'[u] % capacity
          /\ qPc'[u] \in {"loadFullFront", "casWrite"} => seenAt'[u] <= QWritten'
    BY <1>2, <1>7, <2>1 DEF QLocals, Pushing, Popping, Q!Consumer
  <2> QED
    BY <1>2, <1>7, <1>8, <1>9, <2>2 DEF QLocals
<1>11. QValues'
  <2>1. ASSUME NEW b \in QueueLocation
        PROVE  /\ Q!Newest(b)' = Q!Newest(b)
               /\ \A i \in 1 .. Q!Newest(b) : qHist'[b][i].val = qHist[b][i].val
    BY <1>4 DEF QHasRead
  <2> QED
    BY <2>1, QueuePlaces DEF QValues
<1> QED
  BY <1>2, <1>4, <1>5, <1>7, <1>8, <1>10, <1>11 DEF QOthers

-----------------------------------------------------------------------------
(* What a lone producer and a lone consumer know of each other *)

\* What always holds of LockFreeQueue's memory and locals.
QBase == QMem /\ QLocals /\ QValues

QAlone(T) == \A t, u \in T : t = u

\* A lone producer knows where write_ is, and knows of enough pops to be in the ring.
ProducerAlone(p) ==
  QAlone(Q!Producer) /\ p \in Q!Producer =>
    /\ qView[p].seen[Q!write_] = Q!Newest(Q!write_)
    /\ QWritten <= qView[p].seen[Q!front_] + capacity - 2
    /\ qPc[p] \in {"loadFullFront", "casWrite"} => seenAt[p] = QWritten
    /\ qPc[p] = "casWrite" =>
         fooled[p] = FALSE /\ QWritten < qView[p].seen[Q!front_] + capacity - 2

\* A lone consumer knows where front_ is, and knows of enough pushes to be there.
ConsumerAlone(c) ==
  QAlone(Q!Consumer) /\ c \in Q!Consumer =>
    /\ qView[c].seen[Q!front_] = Q!Newest(Q!front_)
    /\ QFront < qView[c].seen[Q!back_]
    /\ qPc[c] \in {"loadBack", "readSlot", "casFront"} => seenAt[c] = QFront
    /\ qPc[c] \in {"readSlot", "casFront"} =>
         fooled[c] = FALSE /\ QFront + 1 < qView[c].seen[Q!back_]

QAloneInv ==
  /\ \A t \in QueueThread : ProducerAlone(t) /\ ConsumerAlone(t)
  /\ QAlone(Q!Producer) /\ QAlone(Q!Consumer) => lapped = FALSE

\* Who is at a label of Push produces, and who is at one of Pop consumes.
LEMMA QSides ==
  ASSUME QLocals, NEW t \in QueueThread
  PROVE  /\ qPc[t] \in Pushing => t \in Q!Producer
         /\ qPc[t] \in Popping => t \in Q!Consumer
BY QueueConstants DEF QLocals, Q!Producer

\* What views are about.
LEMMA QSeen ==
  ASSUME QMem, NEW t \in QueueThread
  PROVE  /\ qView[t].seen[Q!write_] \in 1 .. (QWritten + 1)
         /\ qView[t].seen[Q!back_] \in 1 .. (QBack + 1)
         /\ qView[t].seen[Q!front_] \in 1 .. (QFront + 1)
BY QCursors, QueuePlaces DEF QMem, QueueCursor

\* A view that grows.
LEMMA QSeenGrows ==
  ASSUME QMem, NEW t \in QueueThread, QGrows(t)
  PROVE  /\ qView[t].seen[Q!write_] <= qView'[t].seen[Q!write_]
         /\ qView[t].seen[Q!back_] <= qView'[t].seen[Q!back_]
         /\ qView[t].seen[Q!front_] <= qView'[t].seen[Q!front_]
         /\ \A u \in QueueThread : u # t => qView'[u] = qView[u]
BY QueuePlaces DEF QGrows, QKnows, QueueCursor

\* What the steps of t mean to u.
LEMMA AloneFrame ==
  ASSUME QBase, NEW t \in QueueThread, NEW u \in QueueThread, u # t, QOthers(t),
         qQuota' = qQuota, qView'[u].seen = qView[u].seen
  PROVE  /\ Q!Newest(Q!write_)' = Q!Newest(Q!write_) /\ ProducerAlone(u) => ProducerAlone(u)'
         /\ Q!Newest(Q!front_)' = Q!Newest(Q!front_) /\ ConsumerAlone(u) => ConsumerAlone(u)'
<1>1. Q!Producer' = Q!Producer /\ Q!Consumer' = Q!Consumer
  BY DEF Q!Producer, Q!Consumer
<1>2. qPc'[u] = qPc[u] /\ seenAt'[u] = seenAt[u] /\ fooled'[u] = fooled[u]
  BY DEF QOthers
<1>3. ASSUME Q!Newest(Q!write_)' = Q!Newest(Q!write_), ProducerAlone(u)
      PROVE  ProducerAlone(u)'
  BY <1>1, <1>2, <1>3 DEF ProducerAlone, QAlone, QWritten, Q!Moves
<1>4. ASSUME Q!Newest(Q!front_)' = Q!Newest(Q!front_), ConsumerAlone(u)
      PROVE  ConsumerAlone(u)'
  BY <1>1, <1>2, <1>4 DEF ConsumerAlone, QAlone, QFront, Q!Moves
<1> QED
  BY <1>3, <1>4

\* A step of t that moves no cursor of its own side, seen from the others.
LEMMA AloneOthers ==
  ASSUME QBase, QAloneInv, NEW t \in QueueThread, QOthers(t), qQuota' = qQuota,
         lapped' = lapped, \A u \in QueueThread : u # t => qView'[u].seen = qView[u].seen,
         Q!Newest(Q!write_)' = Q!Newest(Q!write_), Q!Newest(Q!front_)' = Q!Newest(Q!front_),
         ProducerAlone(t)', ConsumerAlone(t)'
  PROVE  QAloneInv'
<1>1. ASSUME NEW u \in QueueThread
      PROVE  ProducerAlone(u)' /\ ConsumerAlone(u)'
  BY AloneFrame DEF QAloneInv
<1>2. Q!Producer' = Q!Producer /\ Q!Consumer' = Q!Consumer
  BY DEF Q!Producer, Q!Consumer
<1> QED
  BY <1>1, <1>2 DEF QAloneInv, QAlone

\* A step of t that moves neither write_ nor front_.
LEMMA AloneKept ==
  ASSUME QBase, QAloneInv, NEW t \in QueueThread, QMem', seenAt'[t] \in Nat, QOthers(t),
         qQuota' = qQuota, lapped' = lapped,
         \A u \in QueueThread : u # t => qView'[u].seen = qView[u].seen,
         \A a \in QueueCursor : qView[t].seen[a] <= qView'[t].seen[a],
         Q!Newest(Q!write_)' = Q!Newest(Q!write_), Q!Newest(Q!front_)' = Q!Newest(Q!front_),
         \/ /\ qPc'[t] = qPc[t] \/ (qPc[t] = "readSlot" /\ qPc'[t] = "casFront")
            /\ seenAt'[t] = seenAt[t] /\ fooled'[t] = fooled[t]
         \/ qPc'[t] \in {"loadWrite", "loadFront", "fill", "casBack", "done"}
         \/ /\ qPc'[t] = "loadFullFront" /\ qView[t].seen[Q!write_] - 1 <= seenAt'[t]
            /\ seenAt'[t] <= QWritten
         \/ /\ qPc'[t] = "loadBack" /\ qView[t].seen[Q!front_] - 1 <= seenAt'[t]
            /\ seenAt'[t] <= QFront
         \/ qPc'[t] = "casWrite" /\ ProducerAlone(t)'
         \/ qPc'[t] = "readSlot" /\ ConsumerAlone(t)'
  PROVE  QAloneInv'
<1>1. QMem /\ QLocals
  BY DEF QBase
<1>2. QWritten' = QWritten /\ QFront' = QFront
  BY DEF QWritten, QFront, Q!Moves
<1>3. /\ qView[t].seen[Q!write_] \in 1 .. (QWritten + 1)
      /\ qView[t].seen[Q!front_] \in 1 .. (QFront + 1)
      /\ qView[t].seen[Q!back_] \in Nat /\ qView'[t].seen[Q!back_] \in Nat
      /\ qView'[t].seen[Q!write_] \in 1 .. (QWritten + 1)
      /\ qView'[t].seen[Q!front_] \in 1 .. (QFront + 1)
      /\ Q!Newest(Q!write_) = QWritten + 1 /\ Q!Newest(Q!front_) = QFront + 1
      /\ QWritten \in Nat /\ QFront \in Nat /\ QBack \in Nat
  <2>1. \A a \in QueueCursor : /\ qView'[t].seen[a] \in 1 .. Q!Newest(a)'
                               /\ qView'[t].seen[a] \in Nat
    BY QueuePlaces DEF QMem, Q!View
  <2> QED
    BY <1>1, <2>1, QSeen, QCursors DEF QueueCursor
<1>4. /\ qView[t].seen[Q!write_] <= qView'[t].seen[Q!write_]
      /\ qView[t].seen[Q!back_] <= qView'[t].seen[Q!back_]
      /\ qView[t].seen[Q!front_] <= qView'[t].seen[Q!front_]
  BY DEF QueueCursor
<1>5. Q!Producer' = Q!Producer /\ Q!Consumer' = Q!Consumer
  BY DEF Q!Producer, Q!Consumer
<1>6. capacity \in Nat /\ ProducerAlone(t) /\ ConsumerAlone(t) /\ seenAt[t] \in Nat
  BY <1>1, QueueConstants DEF QAloneInv, QLocals
<1>7. ProducerAlone(t)'
  <2> SUFFICES ASSUME QAlone(Q!Producer), t \in Q!Producer, ~ProducerAlone(t)'
               PROVE  ProducerAlone(t)'
    BY <1>5 DEF ProducerAlone, QAlone
  <2>1. /\ qView[t].seen[Q!write_] = QWritten + 1
        /\ QWritten <= qView[t].seen[Q!front_] + capacity - 2
        /\ qPc[t] \in {"loadFullFront", "casWrite"} => seenAt[t] = QWritten
        /\ qPc[t] = "casWrite" =>
             fooled[t] = FALSE /\ QWritten < qView[t].seen[Q!front_] + capacity - 2
    BY <1>3, <1>6 DEF ProducerAlone
  <2>2. /\ qView'[t].seen[Q!write_] = QWritten + 1
        /\ QWritten <= qView'[t].seen[Q!front_] + capacity - 2
    BY <1>3, <1>4, <1>6, <2>1
  <2>3. /\ qPc'[t] \in {"loadFullFront", "casWrite"} => seenAt'[t] = QWritten
        /\ qPc'[t] = "casWrite" =>
             fooled'[t] = FALSE /\ QWritten < qView'[t].seen[Q!front_] + capacity - 2
    BY <1>3, <1>4, <1>6, <2>1
  <2>4. Q!Newest(Q!write_)' = QWritten + 1
    BY <1>2, <1>3
  <2> QED
    BY <1>2, <2>2, <2>3, <2>4 DEF ProducerAlone
<1>8. ConsumerAlone(t)'
  <2> SUFFICES ASSUME QAlone(Q!Consumer), t \in Q!Consumer, ~ConsumerAlone(t)'
               PROVE  ConsumerAlone(t)'
    BY <1>5 DEF ConsumerAlone, QAlone
  <2>1. /\ qView[t].seen[Q!front_] = QFront + 1
        /\ QFront < qView[t].seen[Q!back_]
        /\ qPc[t] \in {"loadBack", "readSlot", "casFront"} => seenAt[t] = QFront
        /\ qPc[t] \in {"readSlot", "casFront"} =>
             fooled[t] = FALSE /\ QFront + 1 < qView[t].seen[Q!back_]
    BY <1>3, <1>6 DEF ConsumerAlone
  <2>2. qView'[t].seen[Q!front_] = QFront + 1 /\ QFront < qView'[t].seen[Q!back_]
    BY <1>3, <1>4, <2>1
  <2>3. /\ qPc'[t] \in {"loadBack", "readSlot", "casFront"} => seenAt'[t] = QFront
        /\ qPc'[t] \in {"readSlot", "casFront"} =>
             fooled'[t] = FALSE /\ QFront + 1 < qView'[t].seen[Q!back_]
    BY <1>3, <1>4, <1>6, <2>1
  <2>4. Q!Newest(Q!front_)' = QFront + 1
    BY <1>2, <1>3
  <2> QED
    BY <1>2, <2>2, <2>3, <2>4 DEF ConsumerAlone
<1> QED
  BY <1>7, <1>8, AloneOthers

\* The same, when it stores nothing at all.
LEMMA AloneQuiet ==
  ASSUME QBase, QAloneInv, NEW t \in QueueThread, QQuiet(t), seenAt'[t] \in Nat
  PROVE  /\ QMem' /\ QOthers(t) /\ qQuota' = qQuota /\ lapped' = lapped
         /\ \A u \in QueueThread : u # t => qView'[u].seen = qView[u].seen
         /\ \A a \in QueueCursor : qView[t].seen[a] <= qView'[t].seen[a]
         /\ Q!Newest(Q!write_)' = Q!Newest(Q!write_)
         /\ Q!Newest(Q!front_)' = Q!Newest(Q!front_)
BY QuietHist, QueuePlaces DEF QQuiet, QGrows, QKnows

\* Cursors that t does not move.
LEMMA MovesOther ==
  ASSUME NEW t, NEW a \in QueueCursor, QMoves(t, a)
  PROVE  \A b \in QueueCursor : b # a => Q!Newest(b)' = Q!Newest(b)
BY QueuePlaces DEF QMoves, Q!Newest

\* Alone, the sides keep what they know.
LEMMA AloneStep ==
  ASSUME QBase, QAloneInv, NEW t \in QueueThread, Q!Step(t) \/ Q!BecomeVisible(t)
  PROVE  QAloneInv'
<1>1. QMem /\ QLocals /\ QValues
  BY DEF QBase
<1>2. /\ QWritten \in Nat /\ QFront \in Nat /\ capacity \in Nat /\ capacity > 1
      /\ Q!Newest(Q!write_) = QWritten + 1 /\ Q!Newest(Q!front_) = QFront + 1
      /\ Q!Newest(Q!back_) = QBack + 1 /\ QBack \in Nat /\ seenAt[t] \in Nat
      /\ {Q!write_, Q!front_, Q!back_} \subseteq QueueCursor
  BY <1>1, QCursors, QueueConstants DEF QLocals, QueueCursor
<1>3. ASSUME QQuiet(t), seenAt'[t] \in Nat,
             \/ qPc'[t] = qPc[t] /\ seenAt'[t] = seenAt[t] /\ fooled'[t] = fooled[t]
             \/ qPc'[t] \in {"loadWrite", "loadFront"}
      PROVE  QAloneInv'
  BY <1>3, AloneQuiet, AloneKept
<1>4. CASE Q!LoadWrite(t)
  <2>1. /\ QQuiet(t) /\ QLocals' /\ qPc'[t] = "loadFullFront"
        /\ qView[t].seen[Q!write_] - 1 <= seenAt'[t] /\ seenAt'[t] <= QWritten
    BY <1>1, <1>4, QLoadWrite
  <2>2. seenAt'[t] \in Nat
    BY <2>1 DEF QLocals
  <2> QED
    BY <2>1, <2>2, AloneQuiet, AloneKept
<1>5. CASE Q!LoadFront(t)
  <2>1. /\ QQuiet(t) /\ QLocals' /\ qPc'[t] = "loadBack"
        /\ qView[t].seen[Q!front_] - 1 <= seenAt'[t] /\ seenAt'[t] <= QFront
    BY <1>1, <1>5, QLoadFront
  <2>2. seenAt'[t] \in Nat
    BY <2>1 DEF QLocals
  <2> QED
    BY <2>1, <2>2, AloneQuiet, AloneKept
<1>6. CASE Q!LoadFullFront(t)
  <2>1. /\ QQuiet(t) /\ qPc[t] = "loadFullFront" /\ seenAt' = seenAt
        /\ \E n \in 1 .. Q!Newest(Q!front_) :
              /\ qView[t].seen[Q!front_] <= n /\ n <= qView'[t].seen[Q!front_]
              /\ \/ qPc'[t] = "loadWrite"
                 \/ /\ qPc'[t] = "casWrite" /\ (n - 1) % capacity # (seenAt[t] + 1) % capacity
                    /\ fooled'[t] = (seenAt[t] >= n + capacity - 2)
    BY <1>1, <1>6, QLoadFullFront
  <2>2. CASE qPc'[t] = "loadWrite"
    BY <1>2, <1>3, <2>1, <2>2
  <2>3. CASE qPc'[t] # "loadWrite"
    <3>1. PICK n \in 1 .. Q!Newest(Q!front_) :
            /\ qView[t].seen[Q!front_] <= n /\ n <= qView'[t].seen[Q!front_]
            /\ qPc'[t] = "casWrite" /\ (n - 1) % capacity # (seenAt[t] + 1) % capacity
            /\ fooled'[t] = (seenAt[t] >= n + capacity - 2)
      BY <2>1, <2>3
    <3>2. ASSUME QAlone(Q!Producer), t \in Q!Producer
          PROVE  /\ qView'[t].seen[Q!write_] = QWritten + 1 /\ seenAt'[t] = QWritten
                 /\ fooled'[t] = FALSE /\ QWritten < qView'[t].seen[Q!front_] + capacity - 2
      <4>1. /\ qView[t].seen[Q!write_] = QWritten + 1 /\ seenAt[t] = QWritten
            /\ QWritten <= qView[t].seen[Q!front_] + capacity - 2
        BY <1>2, <2>1, <3>2 DEF QAloneInv, ProducerAlone
      <4>2. /\ qView'[t].seen[Q!write_] = QWritten + 1
            /\ qView[t].seen[Q!front_] \in Nat /\ qView'[t].seen[Q!front_] \in Nat
        <5>1. /\ qView[t].seen[Q!write_] <= qView'[t].seen[Q!write_]
              /\ QMem' /\ Q!Newest(Q!write_)' = QWritten + 1
          BY <1>2, <2>1, AloneQuiet
        <5>2. \A a \in QueueCursor : /\ qView'[t].seen[a] \in 1 .. Q!Newest(a)'
                                     /\ qView'[t].seen[a] \in Nat /\ qView[t].seen[a] \in Nat
          BY <1>1, <5>1, QueuePlaces DEF QMem, Q!View
        <5> QED
          BY <1>2, <4>1, <5>1, <5>2
      <4>3. seenAt[t] < n + capacity - 2
        <5> SUFFICES ASSUME seenAt[t] >= n + capacity - 2
                     PROVE  FALSE
          BY <1>2
        <5>0. n \in Nat /\ n >= 1 /\ qView[t].seen[Q!front_] <= n
          BY <1>2, <3>1
        <5>1. n - 1 \in Nat /\ seenAt[t] + 1 = (n - 1) + capacity
          BY <1>2, <5>0, <4>1, <4>2
        <5>2. ((n - 1) + capacity) % capacity = (n - 1) % capacity
          BY <5>1, RingSteps, QueueConstants
        <5> QED
          BY <3>1, <5>1, <5>2
      <4>4. fooled'[t] = FALSE
        <5>1. (seenAt[t] >= n + capacity - 2) = FALSE
          BY <1>2, <3>1, <4>3
        <5> QED
          BY <3>1, <5>1
      <4>5. n \in Nat /\ n <= qView'[t].seen[Q!front_] /\ seenAt'[t] = seenAt[t]
        BY <1>2, <2>1, <3>1
      <4> QED
        BY <1>2, <4>1, <4>2, <4>3, <4>4, <4>5
    <3>3. ProducerAlone(t)'
      <4>1. Q!Newest(Q!write_)' = QWritten + 1 /\ QWritten' = QWritten
        BY <1>2, <2>1, QuietHist DEF QQuiet
      <4>2. Q!Producer' = Q!Producer
        BY <2>1 DEF QQuiet, Q!Producer
      <4>3. qPc'[t] = "casWrite"
        BY <3>1
      <4>4. QAlone(Q!Producer)' = QAlone(Q!Producer)
        BY <4>2 DEF QAlone
      <4>5. CASE QAlone(Q!Producer) /\ t \in Q!Producer
        <5>1. /\ qView'[t].seen[Q!write_] = QWritten + 1 /\ seenAt'[t] = QWritten
              /\ fooled'[t] = FALSE /\ QWritten < qView'[t].seen[Q!front_] + capacity - 2
          BY <3>2, <4>5
        <5>2. QWritten <= qView'[t].seen[Q!front_] + capacity - 2
          <6>1. qView'[t].seen[Q!front_] \in Nat
            BY <2>1, QueuePlaces DEF QQuiet, QMem, Q!View, QueueCursor
          <6> QED
            BY <1>2, <5>1, <6>1
        <5> QED
          BY <4>1, <5>1, <5>2 DEF ProducerAlone
      <4> QED
        BY <4>2, <4>4, <4>5 DEF ProducerAlone
    <3> QED
      BY <1>2, <2>1, <3>1, <3>3, AloneQuiet, AloneKept
  <2> QED
    BY <2>2, <2>3
<1>7. CASE Q!LoadBack(t)
  <2>1. /\ QQuiet(t) /\ qPc[t] = "loadBack" /\ seenAt' = seenAt
        /\ \E n \in 1 .. Q!Newest(Q!back_) :
              /\ qView[t].seen[Q!back_] <= n /\ n <= qView'[t].seen[Q!back_]
              /\ \/ qPc'[t] = "loadFront"
                 \/ /\ qPc'[t] = "readSlot" /\ (n - 1) % capacity # seenAt[t] % capacity
                    /\ fooled'[t] = (seenAt[t] >= n - 1)
    BY <1>1, <1>7, QLoadBack
  <2>2. CASE qPc'[t] = "loadFront"
    BY <1>2, <1>3, <2>1, <2>2
  <2>3. CASE qPc'[t] # "loadFront"
    <3>1. PICK n \in 1 .. Q!Newest(Q!back_) :
            /\ qView[t].seen[Q!back_] <= n /\ n <= qView'[t].seen[Q!back_]
            /\ qPc'[t] = "readSlot" /\ (n - 1) % capacity # seenAt[t] % capacity
            /\ fooled'[t] = (seenAt[t] >= n - 1)
      BY <2>1, <2>3
    <3>2. ASSUME QAlone(Q!Consumer), t \in Q!Consumer
          PROVE  /\ qView'[t].seen[Q!front_] = QFront + 1 /\ seenAt'[t] = QFront
                 /\ fooled'[t] = FALSE /\ QFront + 1 < qView'[t].seen[Q!back_]
      <4>1. /\ qView[t].seen[Q!front_] = QFront + 1 /\ seenAt[t] = QFront
            /\ QFront < qView[t].seen[Q!back_]
        BY <1>2, <2>1, <3>2 DEF QAloneInv, ConsumerAlone
      <4>2. /\ qView'[t].seen[Q!front_] = QFront + 1
            /\ qView[t].seen[Q!back_] \in Nat /\ qView'[t].seen[Q!back_] \in Nat
        <5>1. /\ qView[t].seen[Q!front_] <= qView'[t].seen[Q!front_]
              /\ QMem' /\ Q!Newest(Q!front_)' = QFront + 1
          BY <1>2, <2>1, AloneQuiet
        <5>2. \A a \in QueueCursor : /\ qView'[t].seen[a] \in 1 .. Q!Newest(a)'
                                     /\ qView'[t].seen[a] \in Nat /\ qView[t].seen[a] \in Nat
          BY <1>1, <5>1, QueuePlaces DEF QMem, Q!View
        <5> QED
          BY <1>2, <4>1, <5>1, <5>2
      <4>3. seenAt[t] < n - 1
        <5>1. n \in Nat /\ seenAt[t] <= n - 1 /\ n - 1 # seenAt[t]
          BY <1>2, <3>1, <4>1, <4>2
        <5> QED
          BY <1>2, <5>1
      <4>4. fooled'[t] = FALSE
        <5>1. (seenAt[t] >= n - 1) = FALSE
          BY <1>2, <3>1, <4>3
        <5> QED
          BY <3>1, <5>1
      <4>5. n \in Nat /\ n <= qView'[t].seen[Q!back_] /\ seenAt'[t] = seenAt[t]
        BY <1>2, <2>1, <3>1
      <4> QED
        BY <1>2, <4>1, <4>2, <4>3, <4>4, <4>5
    <3>3. ConsumerAlone(t)'
      <4>1. Q!Newest(Q!front_)' = QFront + 1 /\ QFront' = QFront
        BY <1>2, <2>1, QuietHist DEF QQuiet
      <4>2. Q!Consumer' = Q!Consumer
        BY <2>1 DEF QQuiet, Q!Consumer
      <4>4. QAlone(Q!Consumer)' = QAlone(Q!Consumer)
        BY <4>2 DEF QAlone
      <4>5. CASE QAlone(Q!Consumer) /\ t \in Q!Consumer
        <5>1. /\ qView'[t].seen[Q!front_] = QFront + 1 /\ seenAt'[t] = QFront
              /\ fooled'[t] = FALSE /\ QFront + 1 < qView'[t].seen[Q!back_]
          BY <3>2, <4>5
        <5>2. QFront < qView'[t].seen[Q!back_]
          <6>1. qView'[t].seen[Q!back_] \in Nat
            BY <2>1, QueuePlaces DEF QQuiet, QMem, Q!View, QueueCursor
          <6> QED
            BY <1>2, <5>1, <6>1
        <5> QED
          BY <4>1, <5>1, <5>2 DEF ConsumerAlone
      <4> QED
        BY <4>2, <4>4, <4>5 DEF ConsumerAlone
    <3> QED
      BY <1>2, <2>1, <3>1, <3>3, AloneQuiet, AloneKept
  <2> QED
    BY <2>2, <2>3
<1>8. CASE Q!BecomeVisible(t)
  <2>1. QQuiet(t) /\ qPc' = qPc /\ seenAt' = seenAt /\ fooled' = fooled
    BY <1>1, <1>8, QBecomeVisible
  <2> QED
    BY <1>2, <1>3, <2>1
<1>9. CASE Q!Fill(t)
  <2>0. PICK a : a = SlotAt(seenAt[t])
    OBVIOUS
  <2>1. /\ qPc'[t] = "casBack" /\ seenAt' = seenAt /\ lapped' = lapped /\ qQuota' = qQuota
        /\ QOthers(t) /\ QMem' /\ QGrows(t)
        /\ \A b \in QueueLocation : b # a => qHist'[b] = qHist[b]
    <3>1. Q!Fill(t)
      BY <1>9
    <3>2. QMem' /\ QGrows(t)
      BY <1>1, <2>0, <3>1, QFill
    <3>3. qPc'[t] = "casBack" /\ seenAt' = seenAt /\ lapped' = lapped /\ qQuota' = qQuota
      BY <1>1, <2>0, <3>1, QFill
    <3>4. QOthers(t)
      BY <1>1, <2>0, <3>1, QFill
    <3>5. QElsewhere(a)
      BY <1>1, <2>0, <3>1, QFill
    <3> QED
      BY <3>2, <3>3, <3>4, <3>5 DEF QElsewhere
  <2>2. \A b \in QueueCursor : qHist'[b] = qHist[b]
    BY <1>2, <2>0, <2>1, SlotPlaces, QueuePlaces DEF QueueCursor
  <2> QED
    BY <1>2, <2>1, <2>2, QueuePlaces, AloneKept DEF QGrows, QKnows, Q!Newest
<1>10. CASE Q!ReadSlot(t)
  <2>1. /\ qPc[t] = "readSlot" /\ qPc'[t] = "casFront" /\ seenAt' = seenAt /\ fooled' = fooled
        /\ lapped' = lapped /\ qQuota' = qQuota
        /\ QOthers(t) /\ QMem' /\ QHasRead(t, SlotAt(seenAt[t]))
    <3>1. PICK a : a = SlotAt(seenAt[t])
      OBVIOUS
    <3> QED
      BY <1>1, <1>10, <3>1, QReadSlot
  <2>2. /\ \A u \in QueueThread : qView'[u].seen = qView[u].seen
        /\ \A b \in QueueCursor : Q!Newest(b)' = Q!Newest(b)
    BY <2>1, QueuePlaces DEF QHasRead
  <2>3. \A a \in QueueCursor : qView[t].seen[a] <= qView'[t].seen[a]
    BY <1>1, <2>2, QueuePlaces DEF QMem, Q!View
  <2> QED
    BY <1>2, <2>1, <2>2, <2>3, AloneKept
<1>11. CASE Q!CasBack(t)
  <2>1. /\ qPc[t] = "casBack" /\ qQuota' = qQuota /\ lapped' = lapped
        /\ seenAt' = seenAt /\ fooled' = fooled
        /\ \/ QQuiet(t) /\ qPc'[t] = "casBack"
           \/ QMoves(t, Q!back_) /\ qPc'[t] \in {"loadWrite", "done"} /\ QOthers(t)
    BY <1>1, <1>11, QCasBack
  <2>2. CASE QQuiet(t) /\ qPc'[t] = "casBack"
    BY <1>2, <1>3, <2>1, <2>2
  <2>3. CASE QMoves(t, Q!back_) /\ qPc'[t] \in {"loadWrite", "done"} /\ QOthers(t)
    <3>1. QMem' /\ QGrows(t)
      BY <2>3 DEF QMoves
    <3>2. /\ Q!Newest(Q!write_)' = Q!Newest(Q!write_)
          /\ Q!Newest(Q!front_)' = Q!Newest(Q!front_)
      BY <1>2, <2>3, MovesOther, QueuePlaces
    <3> QED
      BY <1>2, <2>1, <2>3, <3>1, <3>2, QueuePlaces, AloneKept DEF QGrows, QKnows
  <2> QED
    BY <2>1, <2>2, <2>3
<1>12. CASE Q!CasWrite(t)
  <2>1. /\ qPc[t] = "casWrite" /\ qQuota' = qQuota /\ QOthers(t)
        /\ seenAt' = seenAt /\ fooled' = fooled
        /\ \/ QQuiet(t) /\ qPc'[t] = "loadWrite"
           \/ /\ QMoves(t, Q!write_) /\ qPc'[t] = "fill"
              /\ lapped' = (lapped \/ fooled[t] \/ seenAt[t] # QWritten)
    BY <1>1, <1>12, QCasWrite
  <2>2. CASE QQuiet(t) /\ qPc'[t] = "loadWrite"
    BY <1>2, <1>3, <2>1, <2>2
  <2>3. CASE QMoves(t, Q!write_) /\ qPc'[t] = "fill"
             /\ lapped' = (lapped \/ fooled[t] \/ seenAt[t] # QWritten)
    <3>1. /\ QMem' /\ QGrows(t) /\ Q!Newest(Q!write_)' = QWritten + 2 /\ QWritten' = QWritten + 1
          /\ Q!Newest(Q!front_)' = QFront + 1 /\ QFront' = QFront
          /\ qView'[t].seen[Q!write_] = QWritten + 2
      <4>1. Q!Newest(Q!front_)' = Q!Newest(Q!front_)
        BY <1>2, <2>3, MovesOther, QueuePlaces
      <4> QED
        BY <1>2, <2>3, <4>1 DEF QMoves, QWritten, QFront, Q!Moves
    <3>2. /\ \A u \in QueueThread : u # t => qView'[u] = qView[u]
          /\ qView[t].seen[Q!front_] <= qView'[t].seen[Q!front_]
          /\ qView[t].seen[Q!back_] <= qView'[t].seen[Q!back_]
          /\ qView'[t].seen[Q!front_] \in Nat /\ qView'[t].seen[Q!back_] \in Nat
          /\ qView[t].seen[Q!front_] \in Nat /\ qView[t].seen[Q!back_] \in Nat
          /\ qView'[t].seen[Q!front_] <= QFront + 1
      <4>1. \A b \in QueueCursor : /\ qView'[t].seen[b] \in 1 .. Q!Newest(b)'
                                   /\ qView'[t].seen[b] \in Nat /\ qView[t].seen[b] \in Nat
        BY <1>1, <3>1, QueuePlaces DEF QMem, Q!View
      <4> QED
        BY <1>1, <1>2, <3>1, <4>1, QSeenGrows
    <3>3. /\ t \in Q!Producer /\ Q!Producer' = Q!Producer /\ Q!Consumer' = Q!Consumer
          /\ QAlone(Q!Producer)' = QAlone(Q!Producer)
          /\ QAlone(Q!Consumer)' = QAlone(Q!Consumer)
      <4>1. Q!Producer' = Q!Producer /\ Q!Consumer' = Q!Consumer
        BY <2>1 DEF Q!Producer, Q!Consumer
      <4> QED
        BY <1>1, <2>1, <4>1, QSides DEF Pushing, QAlone
    <3>4. QAlone(Q!Producer) =>
            /\ fooled[t] = FALSE /\ seenAt[t] = QWritten
            /\ QWritten < qView[t].seen[Q!front_] + capacity - 2
      BY <2>1, <3>3 DEF QAloneInv, ProducerAlone
    <3>5. ProducerAlone(t)'
      <4>1. QAlone(Q!Producer) => QWritten + 1 <= qView'[t].seen[Q!front_] + capacity - 2
        BY <1>2, <3>2, <3>4
      <4>2. /\ QAlone(Q!Producer)' => QWritten' <= qView'[t].seen[Q!front_] + capacity - 2
            /\ qView'[t].seen[Q!write_] = Q!Newest(Q!write_)'
            /\ qPc'[t] \notin {"loadFullFront", "casWrite"}
        BY <2>3, <3>1, <3>3, <4>1
      <4> QED
        BY <4>2 DEF ProducerAlone
    <3>6. ConsumerAlone(t)'
      <4>1. QAlone(Q!Consumer) /\ t \in Q!Consumer =>
              /\ qView[t].seen[Q!front_] = QFront + 1
              /\ QFront < qView[t].seen[Q!back_]
        BY <1>2 DEF QAloneInv, ConsumerAlone
      <4>2. QAlone(Q!Consumer) /\ t \in Q!Consumer =>
              /\ qView'[t].seen[Q!front_] = QFront + 1
              /\ QFront < qView'[t].seen[Q!back_]
        BY <1>2, <3>2, <4>1
      <4>3. qPc'[t] \notin {"loadBack", "readSlot", "casFront"}
        BY <2>3
      <4> QED
        BY <3>1, <3>3, <4>2, <4>3 DEF ConsumerAlone
    <3>7. ASSUME NEW u \in QueueThread, u # t
          PROVE  ProducerAlone(u)' /\ ConsumerAlone(u)'
      <4>1. ProducerAlone(u)'
        BY <3>3, <3>7 DEF ProducerAlone, QAlone
      <4>2. qView'[u].seen = qView[u].seen /\ Q!Newest(Q!front_)' = Q!Newest(Q!front_)
        BY <1>2, <3>1, <3>2, <3>7
      <4>3. ConsumerAlone(u)
        BY DEF QAloneInv
      <4>4. ConsumerAlone(u)'
        BY <2>1, <3>7, <4>2, <4>3, AloneFrame
      <4> QED
        BY <4>1, <4>4
    <3>8. QAlone(Q!Producer) /\ QAlone(Q!Consumer) => lapped' = FALSE
      BY <2>3, <3>4 DEF QAloneInv
    <3> QED
      BY <3>3, <3>5, <3>6, <3>7, <3>8 DEF QAloneInv
  <2> QED
    BY <2>1, <2>2, <2>3
<1>13. CASE Q!CasFront(t)
  <2>1. /\ qPc[t] = "casFront" /\ qQuota' = qQuota /\ QOthers(t)
        /\ seenAt' = seenAt /\ fooled' = fooled
        /\ \/ QQuiet(t) /\ qPc'[t] = "loadFront"
           \/ /\ QMoves(t, Q!front_) /\ qPc'[t] \in {"loadFront", "done"}
              /\ lapped' = (lapped \/ fooled[t] \/ seenAt[t] # QFront)
    BY <1>1, <1>13, QCasFront
  <2>2. CASE QQuiet(t) /\ qPc'[t] = "loadFront"
    BY <1>2, <1>3, <2>1, <2>2
  <2>3. CASE QMoves(t, Q!front_) /\ qPc'[t] \in {"loadFront", "done"}
             /\ lapped' = (lapped \/ fooled[t] \/ seenAt[t] # QFront)
    <3>1. /\ QMem' /\ QGrows(t) /\ Q!Newest(Q!front_)' = QFront + 2 /\ QFront' = QFront + 1
          /\ Q!Newest(Q!write_)' = QWritten + 1 /\ QWritten' = QWritten
          /\ qView'[t].seen[Q!front_] = QFront + 2
      <4>1. Q!Newest(Q!write_)' = Q!Newest(Q!write_)
        BY <1>2, <2>3, MovesOther, QueuePlaces
      <4> QED
        BY <1>2, <2>3, <4>1 DEF QMoves, QWritten, QFront, Q!Moves
    <3>2. /\ \A u \in QueueThread : u # t => qView'[u] = qView[u]
          /\ qView[t].seen[Q!front_] <= qView'[t].seen[Q!front_]
          /\ qView[t].seen[Q!write_] <= qView'[t].seen[Q!write_]
          /\ qView[t].seen[Q!back_] <= qView'[t].seen[Q!back_]
          /\ qView'[t].seen[Q!front_] \in Nat /\ qView'[t].seen[Q!back_] \in Nat
          /\ qView[t].seen[Q!front_] \in Nat /\ qView[t].seen[Q!back_] \in Nat
          /\ qView[t].seen[Q!write_] \in Nat /\ qView'[t].seen[Q!write_] \in Nat
          /\ qView'[t].seen[Q!write_] <= QWritten + 1
      <4>1. \A b \in QueueCursor : /\ qView'[t].seen[b] \in 1 .. Q!Newest(b)'
                                   /\ qView'[t].seen[b] \in Nat /\ qView[t].seen[b] \in Nat
        BY <1>1, <3>1, QueuePlaces DEF QMem, Q!View
      <4> QED
        BY <1>1, <1>2, <3>1, <4>1, QSeenGrows
    <3>3. /\ t \in Q!Consumer /\ Q!Producer' = Q!Producer /\ Q!Consumer' = Q!Consumer
          /\ QAlone(Q!Producer)' = QAlone(Q!Producer)
          /\ QAlone(Q!Consumer)' = QAlone(Q!Consumer)
      <4>1. Q!Producer' = Q!Producer /\ Q!Consumer' = Q!Consumer
        BY <2>1 DEF Q!Producer, Q!Consumer
      <4> QED
        BY <1>1, <2>1, <4>1, QSides DEF Popping, QAlone
    <3>4. QAlone(Q!Consumer) =>
            /\ fooled[t] = FALSE /\ seenAt[t] = QFront
            /\ QFront + 1 < qView[t].seen[Q!back_]
      BY <2>1, <3>3 DEF QAloneInv, ConsumerAlone
    <3>5. ConsumerAlone(t)'
      <4>1. QAlone(Q!Consumer) => QFront + 1 < qView'[t].seen[Q!back_]
        BY <1>2, <3>2, <3>4
      <4>2. /\ QAlone(Q!Consumer)' => QFront' < qView'[t].seen[Q!back_]
            /\ qView'[t].seen[Q!front_] = Q!Newest(Q!front_)'
            /\ qPc'[t] \notin {"loadBack", "readSlot", "casFront"}
        BY <2>3, <3>1, <3>3, <4>1
      <4> QED
        BY <4>2 DEF ConsumerAlone
    <3>6. ProducerAlone(t)'
      <4>1. QAlone(Q!Producer) /\ t \in Q!Producer =>
              /\ qView[t].seen[Q!write_] = QWritten + 1
              /\ QWritten <= qView[t].seen[Q!front_] + capacity - 2
        BY <1>2 DEF QAloneInv, ProducerAlone
      <4>2. QAlone(Q!Producer) /\ t \in Q!Producer =>
              /\ qView'[t].seen[Q!write_] = QWritten + 1
              /\ QWritten <= qView'[t].seen[Q!front_] + capacity - 2
        BY <1>2, <3>2, <4>1
      <4>3. qPc'[t] \notin {"loadFullFront", "casWrite"}
        BY <2>3
      <4> QED
        BY <3>1, <3>3, <4>2, <4>3 DEF ProducerAlone
    <3>7. ASSUME NEW u \in QueueThread, u # t
          PROVE  ProducerAlone(u)' /\ ConsumerAlone(u)'
      <4>1. ConsumerAlone(u)'
        BY <3>3, <3>7 DEF ConsumerAlone, QAlone
      <4>2. qView'[u].seen = qView[u].seen /\ Q!Newest(Q!write_)' = Q!Newest(Q!write_)
        BY <1>2, <3>1, <3>2, <3>7
      <4>3. ProducerAlone(u)
        BY DEF QAloneInv
      <4>4. ProducerAlone(u)'
        BY <2>1, <3>7, <4>2, <4>3, AloneFrame
      <4> QED
        BY <4>1, <4>4
    <3>8. QAlone(Q!Producer) /\ QAlone(Q!Consumer) => lapped' = FALSE
      BY <2>3, <3>4 DEF QAloneInv
    <3> QED
      BY <3>3, <3>5, <3>6, <3>7, <3>8 DEF QAloneInv
  <2> QED
    BY <2>1, <2>2, <2>3
<1> QED
  BY <1>4, <1>5, <1>6, <1>7, <1>8, <1>9, <1>10, <1>11, <1>12, <1>13
     DEF Q!Step, Q!Push, Q!Pop

\* The initial memory: one entry per location, which every thread has seen.
LEMMA QStarts ==
  ASSUME Q!Init
  PROVE  /\ QBase /\ QAloneInv /\ qRace = FALSE /\ lapped = FALSE
         /\ \A a \in QueueLocation : Q!Newest(a) = 1
         /\ \A a \in QueueLocation, t \in QueueThread : qView[t].seen[a] = 1
         /\ \A t \in QueueThread : qView[t].reads = QueueThread \X QueuePlain
         /\ QWritten = 0 /\ QBack = 0 /\ QFront = 0
         /\ \A t \in QueueThread : qPc[t] \in {"loadWrite", "loadFront", "done"}
<1>1. ASSUME NEW a \in QueueLocation
      PROVE  /\ qHist[a] = <<[val |-> IF a \in QueuePlain THEN Q!NoItem ELSE 0,
                              view |-> Q!Nothing]>>
             /\ a \in QueuePlain => qHist[a][1].val = Q!NoItem
             /\ a \notin QueuePlain => qHist[a][1].val = 0
             /\ Q!Newest(a) = 1 /\ qHist[a][1].view = Q!Nothing
             /\ qHist[a][1].val = IF a \in QueuePlain THEN Q!NoItem ELSE 0
  BY DEF Q!Init, Q!MemInit, Q!Newest
<1>2. /\ qView = [t \in QueueThread |-> [seen |-> [a \in QueueLocation |-> 1],
                                         reads |-> QueueThread \X QueuePlain]]
      /\ qRace = FALSE /\ DOMAIN qHist = QueueLocation
      /\ qHist = [a \in QueueLocation |-> qHist[a]]
  BY DEF Q!Init, Q!MemInit
<1>3. /\ qQuota \in QueueSetup /\ lapped = FALSE
      /\ qPc = [t \in QueueThread |-> CASE t \in Q!Producer -> "loadWrite"
                                       [] t \in Q!Consumer -> "loadFront"
                                       [] OTHER -> "done"]
      /\ at = [t \in QueueThread |-> 0] /\ seenAt = [t \in QueueThread |-> 0]
      /\ fooled = [t \in QueueThread |-> FALSE]
      /\ result = [t \in QueueThread |-> Q!NoItem] /\ qSent = [t \in QueueThread |-> 0]
  BY DEF Q!Init
<1>4. Q!NoItem \in QItem /\ 0 \in 0 .. (capacity - 1) /\ 0 % capacity = 0
  BY QueueConstants, RingSteps DEF QItem, Q!NoItem
<1>5. QMem
  <2>1. ASSUME NEW a \in QueueLocation
        PROVE  qHist[a] \in Seq(QEntry)
    <3> DEFINE x == IF a \in QueuePlain THEN Q!NoItem ELSE 0
               e == [val |-> x, view |-> Q!Nothing]
    <3>1. x \in QValue
      BY <1>4 DEF QValue, QItem
    <3>2. e \in QEntry
      BY <3>1, QNothing DEF QEntry
    <3>3. qHist[a] = <<e>>
      BY <1>1
    <3> HIDE DEF e
    <3> QED
      BY <3>2, <3>3
  <2>2. qHist \in [QueueLocation -> Seq(QEntry)]
    BY <1>2, <2>1
  <2>3. qView \in [QueueThread -> Q!View]
    BY <1>2 DEF Q!View
  <2>4. \A a \in QueueLocation, t \in QueueThread : qView[t].seen[a] = 1
    BY <1>2
  <2> QED
    BY <1>1, <2>2, <2>3, <2>4, QNothing DEF QMem
<1>6. \A a \in QueueLocation : Q!Newest(a) = 1
  BY <1>1
<1>7. QWritten = 0 /\ QBack = 0 /\ QFront = 0
  BY <1>6, QueuePlaces DEF QWritten, QBack, QFront, Q!Moves, QueueCursor
<1>8. \A t \in QueueThread : /\ qPc[t] \in {"loadWrite", "loadFront", "done"}
                             /\ qPc[t] = "loadWrite" => t \in Q!Producer
                             /\ qPc[t] = "loadFront" => t \in Q!Consumer
  BY <1>3
<1>9. QLocals
  <2>1. qQuota.push \in [QueueThread -> Nat]
    BY <1>3, QueueConstants
  <2>2. qPc \in [QueueThread -> Q!Label]
    BY <1>3, <1>8 DEF Q!Label
  <2>3. \A t \in QueueThread :
          /\ qSent[t] <= qQuota.push[t]
          /\ qPc[t] \in Pushing => qSent[t] < qQuota.push[t]
          /\ qPc[t] \in Popping => t \in Q!Consumer
          /\ at[t] = seenAt[t] % capacity
          /\ qPc[t] \in {"loadFullFront", "casWrite"} => seenAt[t] <= QWritten
    BY <1>3, <1>4, <1>8, <2>1 DEF Pushing, Popping, Q!Producer
  <2> QED
    BY <1>2, <1>3, <1>4, <2>2, <2>3 DEF QLocals
<1>10. QValues
  <2>1. \A a \in QueueCursor : a \notin QueuePlain /\ a \in QueueLocation
    BY QueuePlaces
  <2>2. \A a \in QueueCursor : Q!Newest(a) = 1 /\ qHist[a][1].val = 0
    BY <1>1, <2>1
  <2>3. \A a \in QueuePlain : Q!Newest(a) = 1 /\ qHist[a][1].val = Q!NoItem
    BY <1>1, QueuePlaces
  <2>4. \A n \in 1 .. 1 : n = 1 /\ n - 1 = 0
    OBVIOUS
  <2> QED
    BY <1>4, <2>2, <2>3, <2>4 DEF QValues
<1>11. QAloneInv
  <2>1. \A a \in QueueCursor, t \in QueueThread : qView[t].seen[a] = 1 /\ Q!Newest(a) = 1
    BY <1>2, <1>6, QueuePlaces
  <2>2. ASSUME NEW t \in QueueThread
        PROVE  ProducerAlone(t) /\ ConsumerAlone(t)
    BY <1>7, <1>8, <2>1, QueueConstants DEF ProducerAlone, ConsumerAlone, QueueCursor
  <2> QED
    BY <1>3, <2>2 DEF QAloneInv
<1> QED
  BY <1>2, <1>3, <1>5, <1>6, <1>7, <1>8, <1>9, <1>10, <1>11 DEF QBase

\* What a step does is in its lemma.
LEMMA QBaseStep ==
  ASSUME QBase, NEW t \in QueueThread, Q!Step(t) \/ Q!BecomeVisible(t)
  PROVE  QBase'
<1>1. QMem /\ QLocals /\ QValues
  BY DEF QBase
<1>2. ASSUME QQuiet(t)
      PROVE  QMem' /\ QValues'
  <2>1. \A a : Q!Newest(a)' = Q!Newest(a)
    BY <1>2, QuietHist DEF QQuiet
  <2> QED
    BY <1>1, <1>2, <2>1 DEF QQuiet, QValues
<1>3. CASE Q!LoadWrite(t)
  BY <1>1, <1>2, <1>3, QLoadWrite DEF QBase
<1>4. CASE Q!LoadFullFront(t)
  BY <1>1, <1>2, <1>4, QLoadFullFront DEF QBase
<1>5. CASE Q!LoadFront(t)
  BY <1>1, <1>2, <1>5, QLoadFront DEF QBase
<1>6. CASE Q!LoadBack(t)
  BY <1>1, <1>2, <1>6, QLoadBack DEF QBase
<1>7. CASE Q!BecomeVisible(t)
  BY <1>1, <1>2, <1>7, QBecomeVisible DEF QBase
<1>8. ASSUME NEW a, QMoves(t, a)
      PROVE  QMem' /\ QValues'
  BY <1>8 DEF QMoves
<1>9. CASE Q!CasWrite(t)
  BY <1>1, <1>2, <1>8, <1>9, QCasWrite DEF QBase
<1>10. CASE Q!CasBack(t)
  BY <1>1, <1>2, <1>8, <1>10, QCasBack DEF QBase
<1>11. CASE Q!CasFront(t)
  BY <1>1, <1>2, <1>8, <1>11, QCasFront DEF QBase
<1>12. PICK a : a = SlotAt(seenAt[t])
  OBVIOUS
<1>13. CASE Q!Fill(t)
  BY <1>1, <1>12, <1>13, QFill DEF QBase
<1>14. CASE Q!ReadSlot(t)
  BY <1>1, <1>12, <1>14, QReadSlot DEF QBase
<1> QED
  BY <1>3, <1>4, <1>5, <1>6, <1>7, <1>9, <1>10, <1>11, <1>13, <1>14
     DEF Q!Step, Q!Push, Q!Pop

-----------------------------------------------------------------------------
(* The window between the cursors *)

\* A producer that has moved write_ and is yet to move back_ owns a slot.
Claims(t) == qPc[t] \in {"fill", "casBack"}

Within(t) ==
  /\ Claims(t) => QBack <= seenAt[t] /\ seenAt[t] < QWritten
  /\ qPc[t] = "casWrite" /\ ~fooled[t] => seenAt[t] + 2 <= QFront + capacity
  /\ qPc[t] \in {"readSlot", "casFront"} /\ ~fooled[t] => seenAt[t] < QBack
  /\ qPc[t] \in {"loadBack", "readSlot", "casFront"} => seenAt[t] <= QFront

\* The window between the cursors, had the ring no end: front_ <= back_ <= write_, less
\* than a turn wide, with one owner at most for each slot from back_ to write_.
QWindow ==
  /\ QFront <= QBack /\ QBack <= QWritten /\ QWritten < QFront + capacity
  /\ \A t \in QueueThread : Within(t)
  /\ \A t, u \in QueueThread : Claims(t) /\ Claims(u) /\ seenAt[t] = seenAt[u] => t = u

\* A step of t that moves no cursor.
LEMMA WindowKept ==
  ASSUME QWindow, NEW t \in QueueThread, QOthers(t),
         QWritten' = QWritten, QBack' = QBack, QFront' = QFront,
         \/ /\ seenAt'[t] = seenAt[t] /\ fooled'[t] = fooled[t]
            /\ \/ qPc'[t] = qPc[t]
               \/ qPc[t] = "readSlot" /\ qPc'[t] = "casFront"
               \/ qPc[t] = "fill" /\ qPc'[t] = "casBack"
         \/ qPc'[t] \in {"loadWrite", "loadFullFront", "loadFront", "done"}
         \/ /\ qPc'[t] = "casWrite"
            /\ ~fooled'[t] => seenAt'[t] + 2 <= QFront + capacity
         \/ qPc'[t] = "loadBack" /\ seenAt'[t] <= QFront
         \/ /\ qPc[t] = "loadBack" /\ qPc'[t] = "readSlot" /\ seenAt'[t] = seenAt[t]
            /\ ~fooled'[t] => seenAt'[t] < QBack
  PROVE  QWindow'
<1>1. ASSUME NEW u \in QueueThread, u # t
      PROVE  /\ Within(u)' /\ Claims(u)' = Claims(u) /\ seenAt'[u] = seenAt[u]
  <2>1. qPc'[u] = qPc[u] /\ seenAt'[u] = seenAt[u] /\ fooled'[u] = fooled[u]
    BY <1>1 DEF QOthers
  <2> QED
    BY <2>1 DEF QWindow, Within, Claims
<1>2. Within(t)' /\ (Claims(t)' => Claims(t) /\ seenAt'[t] = seenAt[t])
  BY DEF QWindow, Within, Claims
<1>3. \A u, w \in QueueThread : Claims(u)' /\ Claims(w)' /\ seenAt'[u] = seenAt'[w] => u = w
  BY <1>1, <1>2 DEF QWindow
<1> QED
  BY <1>1, <1>2, <1>3 DEF QWindow

\* The window lasts until a thread is lapped.
LEMMA WindowStep ==
  ASSUME QBase, QWindow, NEW t \in QueueThread, Q!Step(t) \/ Q!BecomeVisible(t), ~lapped'
  PROVE  QWindow'
<1>1. QMem /\ QLocals /\ QValues
  BY DEF QBase
<1>2. /\ QWritten \in Nat /\ QFront \in Nat /\ QBack \in Nat /\ capacity \in Nat \ {0}
      /\ Q!Newest(Q!write_) = QWritten + 1 /\ Q!Newest(Q!front_) = QFront + 1
      /\ Q!Newest(Q!back_) = QBack + 1 /\ seenAt[t] \in Nat
      /\ {Q!write_, Q!front_, Q!back_} \subseteq QueueCursor
  BY <1>1, QCursors, QueueConstants DEF QLocals, QueueCursor
<1>3. ASSUME QQuiet(t)
      PROVE  QOthers(t) /\ QWritten' = QWritten /\ QBack' = QBack /\ QFront' = QFront
  BY <1>3, QuietHist DEF QQuiet
<1>4. CASE Q!LoadWrite(t)
  <2>1. QQuiet(t) /\ qPc'[t] = "loadFullFront"
    BY <1>1, <1>4, QLoadWrite
  <2> QED
    BY <1>3, <2>1, WindowKept
<1>5. CASE Q!LoadFront(t)
  <2>1. QQuiet(t) /\ qPc'[t] = "loadBack" /\ seenAt'[t] <= QFront
    BY <1>1, <1>5, QLoadFront
  <2> QED
    BY <1>3, <2>1, WindowKept
<1>6. CASE Q!LoadFullFront(t)
  <2>1. /\ QQuiet(t) /\ seenAt' = seenAt
        /\ \E n \in 1 .. Q!Newest(Q!front_) :
              \/ qPc'[t] = "loadWrite"
              \/ qPc'[t] = "casWrite" /\ fooled'[t] = (seenAt[t] >= n + capacity - 2)
    BY <1>1, <1>6, QLoadFullFront
  <2>2. PICK n \in 1 .. Q!Newest(Q!front_) :
              \/ qPc'[t] = "loadWrite"
              \/ qPc'[t] = "casWrite" /\ fooled'[t] = (seenAt[t] >= n + capacity - 2)
    BY <2>1
  <2>3. n \in Nat /\ n <= QFront + 1
    BY <1>2
  <2>4. qPc'[t] = "casWrite" /\ ~fooled'[t] => seenAt'[t] + 2 <= QFront + capacity
    <3> SUFFICES ASSUME qPc'[t] = "casWrite", ~fooled'[t]
                 PROVE  seenAt[t] + 2 <= QFront + capacity
      BY <2>1
    <3>1. ~(seenAt[t] >= n + capacity - 2)
      BY <2>2
    <3> QED
      BY <1>2, <2>3, <3>1
  <2> QED
    BY <1>3, <2>1, <2>2, <2>4, WindowKept
<1>7. CASE Q!LoadBack(t)
  <2>1. /\ QQuiet(t) /\ seenAt' = seenAt /\ qPc[t] = "loadBack"
        /\ \E n \in 1 .. Q!Newest(Q!back_) :
              \/ qPc'[t] = "loadFront"
              \/ qPc'[t] = "readSlot" /\ fooled'[t] = (seenAt[t] >= n - 1)
    BY <1>1, <1>7, QLoadBack
  <2>2. PICK n \in 1 .. Q!Newest(Q!back_) :
              \/ qPc'[t] = "loadFront"
              \/ qPc'[t] = "readSlot" /\ fooled'[t] = (seenAt[t] >= n - 1)
    BY <2>1
  <2>3. n \in Nat /\ n <= QBack + 1
    BY <1>2
  <2>4. qPc'[t] = "readSlot" /\ ~fooled'[t] => seenAt'[t] < QBack
    <3> SUFFICES ASSUME qPc'[t] = "readSlot", ~fooled'[t]
                 PROVE  seenAt[t] < QBack
      BY <2>1
    <3>1. ~(seenAt[t] >= n - 1)
      BY <2>2
    <3> QED
      BY <1>2, <2>3, <3>1
  <2> QED
    BY <1>3, <2>1, <2>2, <2>4, WindowKept
<1>8. CASE Q!BecomeVisible(t)
  <2>1. QQuiet(t) /\ qPc' = qPc /\ seenAt' = seenAt /\ fooled' = fooled
    BY <1>1, <1>8, QBecomeVisible
  <2> QED
    BY <1>3, <2>1, WindowKept
<1>9. PICK a : a = SlotAt(seenAt[t])
  OBVIOUS
<1>10. CASE Q!Fill(t)
  <2>1. /\ qPc[t] = "fill" /\ qPc'[t] = "casBack" /\ seenAt' = seenAt /\ fooled' = fooled
        /\ QOthers(t) /\ QElsewhere(a)
    BY <1>1, <1>9, <1>10, QFill
  <2>2. QWritten' = QWritten /\ QBack' = QBack /\ QFront' = QFront
    BY <1>2, <1>9, <2>1, SlotPlaces, QueuePlaces
       DEF QElsewhere, QWritten, QBack, QFront, Q!Moves, Q!Newest
  <2> QED
    BY <2>1, <2>2, WindowKept
<1>11. CASE Q!ReadSlot(t)
  <2>1. /\ qPc[t] = "readSlot" /\ qPc'[t] = "casFront" /\ seenAt' = seenAt /\ fooled' = fooled
        /\ QOthers(t) /\ QHasRead(t, a)
    BY <1>1, <1>9, <1>11, QReadSlot
  <2>2. QWritten' = QWritten /\ QBack' = QBack /\ QFront' = QFront
    BY <1>2, <2>1, QueuePlaces DEF QHasRead, QWritten, QBack, QFront, Q!Moves
  <2> QED
    BY <2>1, <2>2, WindowKept
<1>12. CASE Q!CasWrite(t)
  <2>1. /\ qPc[t] = "casWrite" /\ QOthers(t) /\ seenAt' = seenAt /\ fooled' = fooled
        /\ \/ QQuiet(t) /\ qPc'[t] = "loadWrite"
           \/ /\ QMoves(t, Q!write_) /\ qPc'[t] = "fill"
              /\ lapped' = (lapped \/ fooled[t] \/ seenAt[t] # QWritten)
    BY <1>1, <1>12, QCasWrite
  <2>2. CASE QQuiet(t) /\ qPc'[t] = "loadWrite"
    BY <1>3, <2>2, WindowKept
  <2>3. CASE QMoves(t, Q!write_) /\ qPc'[t] = "fill"
             /\ lapped' = (lapped \/ fooled[t] \/ seenAt[t] # QWritten)
    <3>1. QWritten' = QWritten + 1 /\ QBack' = QBack /\ QFront' = QFront
      BY <1>2, <2>3, MovesOther, QueuePlaces
         DEF QMoves, QWritten, QBack, QFront, Q!Moves
    <3>2. ~fooled[t] /\ seenAt[t] = QWritten
      BY <2>3
    <3>3. QWritten + 2 <= QFront + capacity
      BY <2>1, <3>2 DEF QWindow, Within
    <3>4. ASSUME NEW u \in QueueThread
          PROVE  /\ Within(u)' /\ seenAt'[u] = seenAt[u]
                 /\ Claims(u)' => (u = t \/ (Claims(u) /\ seenAt[u] < QWritten))
      <4>1. CASE u = t
        <5>1. QBack <= QWritten
          BY DEF QWindow
        <5>2. qPc'[t] = "fill" /\ seenAt'[t] = QWritten /\ seenAt'[t] = seenAt[t]
          BY <2>1, <2>3, <3>2
        <5>3. QBack' <= seenAt'[t] /\ seenAt'[t] < QWritten'
          BY <1>2, <3>1, <5>1, <5>2
        <5>4. Within(t)'
          <6>1. qPc'[t] # "casWrite" /\ qPc'[t] \notin {"loadBack", "readSlot", "casFront"}
            BY <5>2
          <6> QED
            BY <5>3, <6>1 DEF Within
        <5>5. Within(u)'
          BY <4>1, <5>4
        <5>6. seenAt'[u] = seenAt[u]
          BY <4>1, <5>2
        <5> QED
          BY <4>1, <5>5, <5>6
      <4>2. CASE u # t
        <5>1. qPc'[u] = qPc[u] /\ seenAt'[u] = seenAt[u] /\ fooled'[u] = fooled[u]
          BY <2>1, <4>2 DEF QOthers
        <5>2. seenAt[u] \in Nat
          BY <1>1 DEF QLocals
        <5> QED
          BY <1>2, <3>1, <5>1, <5>2 DEF QWindow, Within, Claims
      <4> QED
        BY <4>1, <4>2
    <3>5. \A u, w \in QueueThread : Claims(u)' /\ Claims(w)' /\ seenAt'[u] = seenAt'[w] => u = w
      BY <1>2, <3>2, <3>4 DEF QWindow
    <3>6. QFront' <= QBack' /\ QBack' <= QWritten' /\ QWritten' < QFront' + capacity
      BY <1>2, <3>1, <3>3 DEF QWindow
    <3> QED
      BY <3>4, <3>5, <3>6 DEF QWindow
  <2> QED
    BY <2>1, <2>2, <2>3
<1>13. CASE Q!CasBack(t)
  <2>1. /\ qPc[t] = "casBack" /\ seenAt' = seenAt /\ fooled' = fooled
        /\ \/ QQuiet(t) /\ qPc'[t] = "casBack"
           \/ /\ QMoves(t, Q!back_) /\ qPc'[t] \in {"loadWrite", "done"} /\ QOthers(t)
    BY <1>1, <1>13, QCasBack
  <2>2. CASE QQuiet(t) /\ qPc'[t] = "casBack"
    BY <1>3, <2>1, <2>2, WindowKept
  <2>3. CASE QMoves(t, Q!back_) /\ qPc'[t] \in {"loadWrite", "done"} /\ QOthers(t)
    <3>1. QWritten' = QWritten /\ QBack' = QBack + 1 /\ QFront' = QFront
      BY <1>2, <2>3, MovesOther, QueuePlaces
         DEF QMoves, QWritten, QBack, QFront, Q!Moves
    <3>2. QBack <= seenAt[t] /\ seenAt[t] < QWritten
      BY <2>1 DEF QWindow, Within, Claims
    <3>3. seenAt[t] = QBack
      <4>1. QBack % capacity = seenAt[t] % capacity
        BY <1>2, <2>3 DEF QMoves
      <4>2. seenAt[t] < QBack + capacity /\ QBack < seenAt[t] + capacity
        BY <1>2, <3>2 DEF QWindow
      <4> QED
        BY <1>2, <4>1, <4>2, SameTurn
    <3>4. ASSUME NEW u \in QueueThread
          PROVE  /\ Within(u)' /\ seenAt'[u] = seenAt[u]
                 /\ Claims(u)' => Claims(u)
      <4>1. CASE u = t
        BY <2>1, <2>3, <4>1 DEF Within, Claims
      <4>2. CASE u # t
        <5>1. qPc'[u] = qPc[u] /\ seenAt'[u] = seenAt[u] /\ fooled'[u] = fooled[u]
          BY <2>3, <4>2 DEF QOthers
        <5>2. seenAt[u] \in Nat /\ (Claims(u) => seenAt[u] # QBack)
          BY <1>1, <2>1, <3>3, <4>2 DEF QLocals, QWindow, Claims
        <5> QED
          BY <1>2, <3>1, <5>1, <5>2 DEF QWindow, Within, Claims
      <4> QED
        BY <4>1, <4>2
    <3>5. \A u, w \in QueueThread : Claims(u)' /\ Claims(w)' /\ seenAt'[u] = seenAt'[w] => u = w
      BY <3>4 DEF QWindow
    <3>6. QFront' <= QBack' /\ QBack' <= QWritten' /\ QWritten' < QFront' + capacity
      BY <1>2, <3>1, <3>2, <3>3 DEF QWindow
    <3> QED
      BY <3>4, <3>5, <3>6 DEF QWindow
  <2> QED
    BY <2>1, <2>2, <2>3
<1>14. CASE Q!CasFront(t)
  <2>1. /\ qPc[t] = "casFront" /\ QOthers(t) /\ seenAt' = seenAt /\ fooled' = fooled
        /\ \/ QQuiet(t) /\ qPc'[t] = "loadFront"
           \/ /\ QMoves(t, Q!front_) /\ qPc'[t] \in {"loadFront", "done"}
              /\ lapped' = (lapped \/ fooled[t] \/ seenAt[t] # QFront)
    BY <1>1, <1>14, QCasFront
  <2>2. CASE QQuiet(t) /\ qPc'[t] = "loadFront"
    BY <1>3, <2>2, WindowKept
  <2>3. CASE QMoves(t, Q!front_) /\ qPc'[t] \in {"loadFront", "done"}
             /\ lapped' = (lapped \/ fooled[t] \/ seenAt[t] # QFront)
    <3>1. QWritten' = QWritten /\ QBack' = QBack /\ QFront' = QFront + 1
      BY <1>2, <2>3, MovesOther, QueuePlaces
         DEF QMoves, QWritten, QBack, QFront, Q!Moves
    <3>2. ~fooled[t] /\ seenAt[t] = QFront
      BY <2>3
    <3>3. QFront < QBack
      BY <2>1, <3>2 DEF QWindow, Within
    <3>4. ASSUME NEW u \in QueueThread
          PROVE  /\ Within(u)' /\ seenAt'[u] = seenAt[u]
                 /\ Claims(u)' => Claims(u)
      <4>1. CASE u = t
        BY <2>1, <2>3, <4>1 DEF Within, Claims
      <4>2. CASE u # t
        <5>1. qPc'[u] = qPc[u] /\ seenAt'[u] = seenAt[u] /\ fooled'[u] = fooled[u]
          BY <2>1, <4>2 DEF QOthers
        <5>2. seenAt[u] \in Nat
          BY <1>1 DEF QLocals
        <5> QED
          BY <1>2, <3>1, <5>1, <5>2 DEF QWindow, Within, Claims
      <4> QED
        BY <4>1, <4>2
    <3>5. \A u, w \in QueueThread : Claims(u)' /\ Claims(w)' /\ seenAt'[u] = seenAt'[w] => u = w
      BY <3>4 DEF QWindow
    <3>6. QFront' <= QBack' /\ QBack' <= QWritten' /\ QWritten' < QFront' + capacity
      BY <1>2, <3>1, <3>3 DEF QWindow
    <3> QED
      BY <3>4, <3>5, <3>6 DEF QWindow
  <2> QED
    BY <2>1, <2>2, <2>3
<1> QED
  BY <1>4, <1>5, <1>6, <1>7, <1>8, <1>10, <1>11, <1>12, <1>13, <1>14
     DEF Q!Step, Q!Push, Q!Pop

-----------------------------------------------------------------------------
(* What the values of back_ tell of the slots *)

\* v knows the newest value of the slot of place k.
Sees(v, k) == v.seen[SlotAt(k)] >= Q!Newest(SlotAt(k))

\* A producer knows what it has filled a slot with,
Filled(t) ==
  qPc[t] = "casBack" =>
    Sees(qView[t], seenAt[t]) /\ Q!Current(SlotAt(seenAt[t])) = <<t, qSent[t]>>

\* each value of back_ tells of the values before it,
SlotsTold ==
  \A n \in 2 .. Q!Newest(Q!back_) : \A k \in QFront .. (n - 2) :
    Sees(qHist[Q!back_][n].view, k)

\* and a consumer that may succeed has read the value at front_.
Taken(t) ==
  qPc[t] \in {"readSlot", "casFront"} /\ ~fooled[t] /\ seenAt[t] = QFront =>
    /\ Sees(qView[t], QFront)
    /\ qPc[t] = "casFront" => result[t] = Q!Current(SlotAt(QFront))

QSlots == SlotsTold /\ \A t \in QueueThread : Filled(t) /\ Taken(t)

\* Places less than a turn apart have slots of their own.
LEMMA Apart ==
  ASSUME NEW j \in Nat, NEW k \in Nat, j # k, j < k + capacity, k < j + capacity
  PROVE  SlotAt(j) # SlotAt(k)
BY SlotPlaces

\* What is known stays known while the slot keeps its value.
LEMMA SeesKept ==
  ASSUME NEW v \in Q!View, NEW w \in Q!View, NEW k \in Nat, QKnows(w, v), Sees(v, k),
         Q!Newest(SlotAt(k))' = Q!Newest(SlotAt(k)), QMem
  PROVE  Sees(w, k)'
<1>1. SlotAt(k) \in QueueLocation
  BY SlotPlaces
<1>2. Q!Newest(SlotAt(k)) \in Nat
  BY <1>1, QMemFacts
<1>3. /\ v.seen[SlotAt(k)] \in Nat /\ w.seen[SlotAt(k)] \in Nat
      /\ v.seen[SlotAt(k)] <= w.seen[SlotAt(k)]
  BY <1>1 DEF QKnows, Q!View
<1>4. w.seen[SlotAt(k)] >= Q!Newest(SlotAt(k))'
  BY <1>2, <1>3 DEF Sees
<1> QED
  BY <1>4 DEF Sees

\* The views that are in the memory.
LEMMA QViews ==
  ASSUME QMem
  PROVE  /\ \A t \in QueueThread : qView[t] \in Q!View
         /\ \A a \in QueueLocation : \A n \in 1 .. Q!Newest(a) : qHist[a][n].view \in Q!View
BY QMemFacts DEF QMem

\* A view knows what it knows.
LEMMA QKnowsSame == ASSUME NEW v \in Q!View PROVE QKnows(v, v)
BY DEF QKnows, Q!View

\* What the other threads know of the slots of places that keep their values.
LEMMA OthersSlots ==
  ASSUME QBase, QWindow, QSlots, NEW t \in QueueThread, NEW u \in QueueThread, u # t,
         QOthers(t), qView'[u].seen = qView[u].seen, QFront' \in {QFront, QFront + 1},
         \A k \in Nat : QFront <= k /\ k < QWritten /\ (Claims(t) => k # seenAt[t]) =>
           /\ Q!Newest(SlotAt(k))' = Q!Newest(SlotAt(k))
           /\ Q!Current(SlotAt(k))' = Q!Current(SlotAt(k))
  PROVE  Filled(u)' /\ Taken(u)'
<1>1. /\ qPc'[u] = qPc[u] /\ seenAt'[u] = seenAt[u] /\ fooled'[u] = fooled[u]
      /\ result'[u] = result[u] /\ qSent'[u] = qSent[u]
  BY DEF QOthers
<1>2. /\ seenAt[u] \in Nat /\ QFront \in Nat /\ QBack \in Nat /\ QWritten \in Nat
      /\ seenAt[t] \in Nat /\ capacity \in Nat
  BY QCursors, QueueConstants DEF QBase, QLocals
<1>3. Filled(u)'
  <2> SUFFICES ASSUME qPc[u] = "casBack"
               PROVE  Filled(u)'
    BY <1>1 DEF Filled
  <2>1. PICK k \in Nat : k = seenAt[u]
    BY <1>2
  <2>2. Claims(u) /\ Within(u) /\ (Claims(t) => seenAt[t] # k)
    BY <2>1 DEF Claims, QWindow
  <2>3. QFront <= k /\ k < QWritten
    BY <1>2, <2>1, <2>2 DEF Within, QWindow
  <2>4. /\ Q!Newest(SlotAt(k))' = Q!Newest(SlotAt(k))
        /\ Q!Current(SlotAt(k))' = Q!Current(SlotAt(k))
    BY <2>2, <2>3
  <2>5. Sees(qView[u], k) /\ Q!Current(SlotAt(k)) = <<u, qSent[u]>>
    BY <2>1 DEF QSlots, Filled
  <2>6. qView'[u].seen[SlotAt(k)] >= Q!Newest(SlotAt(k))'
    BY <2>4, <2>5 DEF Sees
  <2>7. Q!Current(SlotAt(k))' = <<u, qSent'[u]>> /\ k = seenAt'[u]
    BY <1>1, <2>1, <2>4, <2>5
  <2> QED
    BY <2>6, <2>7 DEF Filled, Sees, SlotAt
<1>4. Taken(u)'
  <2> SUFFICES ASSUME qPc[u] \in {"readSlot", "casFront"}, ~fooled[u], seenAt[u] = QFront'
               PROVE  Taken(u)'
    BY <1>1 DEF Taken
  <2>1. Within(u)
    BY DEF QWindow
  <2>2. QFront' = QFront
    BY <1>2, <2>1 DEF Within
  <2>3. PICK k \in Nat : k = QFront
    BY <1>2
  <2>4. k < QBack /\ QBack <= QWritten
    BY <2>1, <2>2, <2>3 DEF Within, QWindow
  <2>5. Claims(t) => k # seenAt[t]
    BY <1>2, <2>4 DEF QWindow, Within
  <2>6. /\ Q!Newest(SlotAt(k))' = Q!Newest(SlotAt(k))
        /\ Q!Current(SlotAt(k))' = Q!Current(SlotAt(k))
    BY <1>2, <2>3, <2>4, <2>5
  <2>7. Sees(qView[u], k) /\ (qPc[u] = "casFront" => result[u] = Q!Current(SlotAt(k)))
    BY <2>2, <2>3 DEF QSlots, Taken
  <2>8. qView'[u].seen[SlotAt(k)] >= Q!Newest(SlotAt(k))'
    BY <2>6, <2>7 DEF Sees
  <2>9. /\ k = QFront'
        /\ qPc'[u] = "casFront" => result'[u] = Q!Current(SlotAt(k))'
    BY <1>1, <2>2, <2>3, <2>6, <2>7
  <2> QED
    BY <2>8, <2>9 DEF Taken, Sees, SlotAt
<1> QED
  BY <1>3, <1>4

\* The values of back_ keep telling while the slots before back_ keep their values.
LEMMA ToldKept ==
  ASSUME QBase, QWindow, QSlots, QFront' \in {QFront, QFront + 1},
         Q!Newest(Q!back_)' = Q!Newest(Q!back_),
         \A n \in 1 .. Q!Newest(Q!back_) :
           qHist'[Q!back_][n].view.seen = qHist[Q!back_][n].view.seen,
         \A k \in Nat : QFront <= k /\ k < QBack =>
           Q!Newest(SlotAt(k))' = Q!Newest(SlotAt(k))
  PROVE  SlotsTold'
<1>1. QFront \in Nat /\ QBack \in Nat /\ Q!Newest(Q!back_) = QBack + 1
  BY QCursors DEF QBase
<1> SUFFICES ASSUME NEW n \in 2 .. Q!Newest(Q!back_), NEW k \in QFront' .. (n - 2)
             PROVE  Sees(qHist[Q!back_][n].view, k)'
  BY DEF SlotsTold
<1>2. n \in Nat /\ k \in Nat /\ QFront <= k /\ k <= n - 2 /\ k < QBack /\ n \in 1 .. Q!Newest(Q!back_)
  BY <1>1
<1>3. k \in QFront .. (n - 2)
  BY <1>1, <1>2
<1>4. Sees(qHist[Q!back_][n].view, k)
  BY <1>3 DEF QSlots, SlotsTold
<1>5. /\ Q!Newest(SlotAt(k))' = Q!Newest(SlotAt(k))
      /\ qHist'[Q!back_][n].view.seen = qHist[Q!back_][n].view.seen
  BY <1>2
<1> QED
  BY <1>4, <1>5 DEF Sees

\* A step that only loads.
LEMMA QuietSlots ==
  ASSUME QBase, QWindow, QSlots, NEW t \in QueueThread, QQuiet(t), Filled(t)', Taken(t)'
  PROVE  QSlots'
<1>1. /\ QFront' = QFront /\ Q!Newest(Q!back_)' = Q!Newest(Q!back_) /\ QOthers(t)
      /\ \A k : /\ Q!Newest(SlotAt(k))' = Q!Newest(SlotAt(k))
                /\ Q!Current(SlotAt(k))' = Q!Current(SlotAt(k))
      /\ \A u \in QueueThread : u # t => qView'[u] = qView[u]
      /\ qHist' = qHist
  <2>1. qHist' = qHist
    BY DEF QQuiet
  <2> QED
    BY <2>1, QuietHist DEF QQuiet, QGrows
<1>2. SlotsTold'
  BY <1>1, ToldKept
<1>3. ASSUME NEW u \in QueueThread, u # t
      PROVE  Filled(u)' /\ Taken(u)'
  BY <1>1, <1>3, OthersSlots
<1> QED
  BY <1>2, <1>3 DEF QSlots

\* The same, when it leaves no label at which something must be known.
LEMMA QuietLabel ==
  ASSUME QBase, QWindow, QSlots, NEW t \in QueueThread, QQuiet(t),
         qPc'[t] \notin {"casBack", "readSlot", "casFront"}
  PROVE  QSlots'
<1>1. Filled(t)' /\ Taken(t)'
  BY DEF Filled, Taken
<1> QED
  BY <1>1, QuietSlots

\* The same, when t stays where it is.
LEMMA QuietStay ==
  ASSUME QBase, QWindow, QSlots, NEW t \in QueueThread, QQuiet(t),
         qPc'[t] = qPc[t], seenAt' = seenAt, fooled' = fooled, result' = result
  PROVE  QSlots'
<1>1. /\ QFront' = QFront /\ qSent' = qSent
      /\ \A k : /\ Q!Newest(SlotAt(k))' = Q!Newest(SlotAt(k))
                /\ Q!Current(SlotAt(k))' = Q!Current(SlotAt(k))
      /\ QKnows(qView'[t], qView[t])
      /\ qView[t] \in Q!View /\ qView'[t] \in Q!View
      /\ seenAt[t] \in Nat /\ QFront \in Nat /\ QMem
  <2>1. qHist' = qHist
    BY DEF QQuiet
  <2> QED
    BY <2>1, QuietHist, QViews, QCursors DEF QQuiet, QGrows, QBase, QLocals
<1>2. PICK v \in Q!View, w \in Q!View : v = qView[t] /\ w = qView'[t]
  BY <1>1
<1>3. PICK j \in Nat, k \in Nat : j = seenAt[t] /\ k = QFront
  BY <1>1
<1>4. Filled(t)'
  <2> SUFFICES ASSUME qPc[t] = "casBack"
               PROVE  Filled(t)'
    BY DEF Filled
  <2>1. Sees(v, j) /\ Q!Current(SlotAt(j)) = <<t, qSent[t]>>
    BY <1>2, <1>3 DEF QSlots, Filled
  <2>2. Sees(w, j)'
    BY <1>1, <1>2, <2>1, SeesKept
  <2> QED
    BY <1>1, <1>2, <1>3, <2>1, <2>2 DEF Filled, Sees, SlotAt
<1>5. Taken(t)'
  <2> SUFFICES ASSUME qPc[t] \in {"readSlot", "casFront"}, ~fooled[t], seenAt[t] = k
               PROVE  Taken(t)'
    BY <1>1, <1>3 DEF Taken
  <2>1. Sees(v, k) /\ (qPc[t] = "casFront" => result[t] = Q!Current(SlotAt(k)))
    BY <1>2, <1>3 DEF QSlots, Taken
  <2>2. Sees(w, k)'
    BY <1>1, <1>2, <2>1, SeesKept
  <2> QED
    BY <1>1, <1>2, <1>3, <2>1, <2>2 DEF Taken, Sees, SlotAt
<1> QED
  BY <1>4, <1>5, QuietSlots

\* What the cursors count, to have it at hand.
LEMMA QCounts ==
  ASSUME QBase, NEW t \in QueueThread
  PROVE  /\ QMem /\ QLocals /\ QValues
         /\ QWritten \in Nat /\ QFront \in Nat /\ QBack \in Nat /\ capacity \in Nat \ {0}
         /\ Q!Newest(Q!write_) = QWritten + 1 /\ Q!Newest(Q!front_) = QFront + 1
         /\ Q!Newest(Q!back_) = QBack + 1 /\ seenAt[t] \in Nat
         /\ {Q!write_, Q!front_, Q!back_} \subseteq QueueCursor
BY QCursors, QueueConstants DEF QBase, QLocals, QueueCursor

\* A consumer that finds a value learns what is in the slot.
LEMMA SlotsLoadBack ==
  ASSUME QBase, QWindow, QSlots, NEW t \in QueueThread, Q!LoadBack(t)
  PROVE  QSlots'
<1>1. /\ QQuiet(t) /\ seenAt' = seenAt
      /\ \E n \in 1 .. Q!Newest(Q!back_) :
              /\ QKnows(qView'[t], qHist[Q!back_][n].view)
              /\ \/ qPc'[t] = "loadFront"
                 \/ qPc'[t] = "readSlot" /\ fooled'[t] = (seenAt[t] >= n - 1)
  BY QCounts, QLoadBack
<1>2. PICK n \in 1 .. Q!Newest(Q!back_) :
              /\ QKnows(qView'[t], qHist[Q!back_][n].view)
              /\ \/ qPc'[t] = "loadFront"
                 \/ qPc'[t] = "readSlot" /\ fooled'[t] = (seenAt[t] >= n - 1)
  BY <1>1
<1>3. CASE qPc'[t] = "loadFront"
  BY <1>1, <1>3, QuietLabel
<1>4. CASE qPc'[t] = "readSlot"
  <2>1. Filled(t)'
    BY <1>4 DEF Filled
  <2>2. QFront' = QFront
    BY <1>1, QuietHist DEF QQuiet
  <2>3. Taken(t)'
    <3> SUFFICES ASSUME ~fooled'[t], seenAt[t] = QFront
                 PROVE  Taken(t)'
      BY <1>1, <2>2 DEF Taken
    <3>1. n \in Nat /\ QFront \in Nat /\ Q!back_ \in QueueLocation
      BY QCounts, QueuePlaces
    <3>2. ~(seenAt[t] >= n - 1)
      BY <1>2, <1>4
    <3>3. n \in 2 .. Q!Newest(Q!back_) /\ QFront \in QFront .. (n - 2)
      BY <3>1, <3>2, QCounts
    <3>4. PICK k \in Nat : k = QFront
      BY <3>1
    <3>5. PICK v \in Q!View, w \in Q!View : v = qHist[Q!back_][n].view /\ w = qView'[t]
      BY <1>1, <3>1, QViews, QCounts DEF QQuiet, QGrows
    <3>6. Sees(v, k)
      BY <3>3, <3>4, <3>5 DEF QSlots, SlotsTold
    <3>7. Q!Newest(SlotAt(k))' = Q!Newest(SlotAt(k))
      BY <1>1, QuietHist DEF QQuiet
    <3>8. Sees(w, k)'
      BY <1>2, <3>5, <3>6, <3>7, SeesKept, QCounts
    <3>9. qPc'[t] # "casFront"
      BY <1>4
    <3> QED
      BY <2>2, <3>4, <3>5, <3>8, <3>9 DEF Taken, Sees, SlotAt
  <2> QED
    BY <1>1, <2>1, <2>3, QuietSlots
<1> QED
  BY <1>2, <1>3, <1>4

\* The slot that a consumer reads.
LEMMA SlotsRead ==
  ASSUME QBase, QWindow, QSlots, NEW t \in QueueThread, Q!ReadSlot(t)
  PROVE  QSlots'
<1>1. PICK a : a = SlotAt(seenAt[t])
  OBVIOUS
<1>2. /\ qPc[t] = "readSlot" /\ qPc'[t] = "casFront" /\ seenAt' = seenAt /\ fooled' = fooled
      /\ QOthers(t) /\ QMem' /\ QHasRead(t, a)
      /\ \E n \in 1 .. Q!Newest(a) : qView[t].seen[a] <= n /\ result'[t] = qHist[a][n].val
  BY <1>1, QCounts, QReadSlot
<1>3. QFront' = QFront /\ Q!Newest(Q!back_)' = Q!Newest(Q!back_)
  BY <1>2, QueuePlaces DEF QHasRead, QFront, Q!Moves, QueueCursor
<1>4. \A k \in Nat : /\ Q!Newest(SlotAt(k))' = Q!Newest(SlotAt(k))
                     /\ Q!Current(SlotAt(k))' = Q!Current(SlotAt(k))
  BY <1>2, SlotPlaces DEF QHasRead
<1>5. /\ \A u \in QueueThread : qView'[u].seen = qView[u].seen
      /\ \A n \in 1 .. Q!Newest(Q!back_) :
           qHist'[Q!back_][n].view.seen = qHist[Q!back_][n].view.seen
  BY <1>2, QueuePlaces DEF QHasRead, QueueCursor
<1>6. SlotsTold'
  BY <1>3, <1>4, <1>5, ToldKept
<1>7. ASSUME NEW u \in QueueThread, u # t
      PROVE  Filled(u)' /\ Taken(u)'
  BY <1>2, <1>3, <1>4, <1>5, <1>7, OthersSlots
<1>8. Filled(t)'
  BY <1>2 DEF Filled
<1>9. Taken(t)'
  <2> SUFFICES ASSUME ~fooled[t], seenAt[t] = QFront
               PROVE  Taken(t)'
    BY <1>2, <1>3 DEF Taken
  <2>1. PICK k \in Nat : k = QFront
    BY QCounts
  <2>2. a = SlotAt(k) /\ a \in QueueLocation /\ Q!Newest(a) \in Nat
    BY <1>1, <2>1, SlotPlaces, QMemFacts, QCounts
  <2>3. qView[t].seen[a] >= Q!Newest(a)
    BY <1>2, <2>1, <2>2 DEF QSlots, Taken, Sees
  <2>4. qView[t].seen[a] \in Nat
    BY <2>2, QCounts DEF QMem, Q!View
  <2>5. result'[t] = Q!Current(a)
    <3>1. PICK n \in 1 .. Q!Newest(a) : qView[t].seen[a] <= n /\ result'[t] = qHist[a][n].val
      BY <1>2
    <3>2. n = Q!Newest(a)
      BY <2>2, <2>3, <2>4, <3>1
    <3> QED
      BY <3>1, <3>2 DEF Q!Current
  <2>6. result'[t] = Q!Current(SlotAt(k))' /\ qView'[t].seen[SlotAt(k)] >= Q!Newest(SlotAt(k))'
    BY <1>4, <1>5, <2>2, <2>3, <2>5
  <2> QED
    BY <1>3, <2>1, <2>6 DEF Taken, Sees, SlotAt
<1> QED
  BY <1>6, <1>7, <1>8, <1>9 DEF QSlots

\* The slot that a producer fills is its own.
LEMMA SlotsFill ==
  ASSUME QBase, QWindow, QSlots, NEW t \in QueueThread, Q!Fill(t)
  PROVE  QSlots'
<1>1. PICK j \in Nat : j = seenAt[t]
  BY QCounts
<1>2. PICK a : a = SlotAt(seenAt[t])
  OBVIOUS
<1>3. /\ qPc[t] = "fill" /\ qPc'[t] = "casBack" /\ qSent' = qSent
      /\ seenAt' = seenAt /\ QOthers(t) /\ QMem' /\ QGrows(t)
      /\ qView'[t].seen[a] = Q!Newest(a) + 1 /\ Q!Newest(a)' = Q!Newest(a) + 1
      /\ Q!Current(a)' = <<t, qSent[t]>> /\ QElsewhere(a)
  BY <1>2, QCounts, QFill
<1>4. /\ QBack <= j /\ j < QWritten /\ Claims(t)
      /\ QFront <= QBack /\ QBack <= QWritten /\ QWritten < QFront + capacity
  BY <1>1, <1>3 DEF QWindow, Within, Claims
<1>5. QFront' = QFront /\ qHist'[Q!back_] = qHist[Q!back_]
      /\ Q!Newest(Q!back_)' = Q!Newest(Q!back_)
  BY <1>1, <1>2, <1>3, SlotPlaces, QueuePlaces
     DEF QElsewhere, QFront, Q!Moves, Q!Newest, QueueCursor
<1>6. ASSUME NEW k \in Nat, QFront <= k, k < QWritten, k # j
      PROVE  /\ Q!Newest(SlotAt(k))' = Q!Newest(SlotAt(k))
             /\ Q!Current(SlotAt(k))' = Q!Current(SlotAt(k))
  <2>1. SlotAt(k) # a
    BY <1>1, <1>2, <1>4, <1>6, Apart, QCounts
  <2>2. PICK b : b = SlotAt(k)
    OBVIOUS
  <2>3. qHist'[b] = qHist[b]
    BY <1>3, <2>1, <2>2, SlotPlaces DEF QElsewhere
  <2>4. Q!Newest(b)' = Q!Newest(b) /\ Q!Current(b)' = Q!Current(b)
    BY <2>3 DEF Q!Newest, Q!Current
  <2> QED
    BY <2>2, <2>4
<1>7. SlotsTold'
  <2>1. \A k \in Nat : QFront <= k /\ k < QBack => Q!Newest(SlotAt(k))' = Q!Newest(SlotAt(k))
    BY <1>4, <1>6, QCounts
  <2> QED
    BY <1>5, <2>1, ToldKept
<1>8. ASSUME NEW u \in QueueThread, u # t
      PROVE  Filled(u)' /\ Taken(u)'
  <2>1. \A k \in Nat : QFront <= k /\ k < QWritten /\ (Claims(t) => k # seenAt[t]) =>
           /\ Q!Newest(SlotAt(k))' = Q!Newest(SlotAt(k))
           /\ Q!Current(SlotAt(k))' = Q!Current(SlotAt(k))
    BY <1>1, <1>4, <1>6
  <2>2. qView'[u].seen = qView[u].seen
    BY <1>3, <1>8 DEF QGrows
  <2> QED
    BY <1>3, <1>5, <1>8, <2>1, <2>2, OthersSlots
<1>9. Filled(t)' /\ Taken(t)'
  <2>1. Q!Newest(a) \in Nat
    BY <1>2, QMemFacts, SlotPlaces, QCounts
  <2>2. qView'[t].seen[a] >= Q!Newest(a)'
    BY <1>3, <2>1
  <2>3. a = SlotAt(seenAt'[t]) /\ qSent'[t] = qSent[t]
    BY <1>2, <1>3
  <2>4. Taken(t)'
    BY <1>3 DEF Taken
  <2>5. Filled(t)'
    BY <1>3, <2>2, <2>3 DEF Filled, Sees, SlotAt
  <2> QED
    BY <2>4, <2>5
<1> QED
  BY <1>7, <1>8, <1>9 DEF QSlots

\* Moving a cursor leaves the slots alone, and what the others know.
LEMMA MovesNoSlot ==
  ASSUME NEW t \in QueueThread, NEW a \in QueueCursor, QMoves(t, a)
  PROVE  /\ \A k \in Nat : /\ Q!Newest(SlotAt(k))' = Q!Newest(SlotAt(k))
                           /\ Q!Current(SlotAt(k))' = Q!Current(SlotAt(k))
         /\ \A u \in QueueThread : u # t => qView'[u] = qView[u]
<1>1. \A b \in QueueLocation : b # a => qHist'[b] = qHist[b]
  BY DEF QMoves
<1>2. ASSUME NEW k \in Nat
      PROVE  qHist'[SlotAt(k)] = qHist[SlotAt(k)]
  BY <1>1, SlotPlaces DEF QueueCursor
<1>3. \A k \in Nat : /\ Q!Newest(SlotAt(k))' = Q!Newest(SlotAt(k))
                     /\ Q!Current(SlotAt(k))' = Q!Current(SlotAt(k))
  BY <1>2 DEF Q!Newest, Q!Current, SlotAt
<1> QED
  BY <1>3 DEF QMoves, QGrows

LEMMA SlotsCasWrite ==
  ASSUME QBase, QWindow, QSlots, NEW t \in QueueThread, Q!CasWrite(t)
  PROVE  QSlots'
<1>1. /\ QOthers(t)
      /\ \/ QQuiet(t) /\ qPc'[t] = "loadWrite"
         \/ QMoves(t, Q!write_) /\ qPc'[t] = "fill"
  BY QCounts, QCasWrite
<1>2. CASE QQuiet(t) /\ qPc'[t] = "loadWrite"
  BY <1>2, QuietLabel
<1>3. CASE QMoves(t, Q!write_) /\ qPc'[t] = "fill"
  <2>1. /\ \A k \in Nat : /\ Q!Newest(SlotAt(k))' = Q!Newest(SlotAt(k))
                          /\ Q!Current(SlotAt(k))' = Q!Current(SlotAt(k))
        /\ \A u \in QueueThread : u # t => qView'[u] = qView[u]
        /\ qHist'[Q!back_] = qHist[Q!back_] /\ Q!Newest(Q!back_)' = Q!Newest(Q!back_)
        /\ QFront' = QFront
    BY <1>3, MovesNoSlot, MovesOther, QueuePlaces, QCounts
       DEF QMoves, QFront, Q!Moves, QueueCursor
  <2>2. SlotsTold'
    BY <2>1, ToldKept
  <2>3. ASSUME NEW u \in QueueThread, u # t
        PROVE  Filled(u)' /\ Taken(u)'
    BY <1>1, <2>1, <2>3, OthersSlots
  <2>4. Filled(t)' /\ Taken(t)'
    BY <1>3 DEF Filled, Taken
  <2> QED
    BY <2>2, <2>3, <2>4 DEF QSlots
<1> QED
  BY <1>1, <1>2, <1>3

\* front_ moves on from a slot that nobody needs any more.
LEMMA SlotsCasFront ==
  ASSUME QBase, QWindow, QSlots, NEW t \in QueueThread, Q!CasFront(t)
  PROVE  QSlots'
<1>1. /\ QOthers(t)
      /\ \/ QQuiet(t) /\ qPc'[t] = "loadFront"
         \/ QMoves(t, Q!front_) /\ qPc'[t] \in {"loadFront", "done"}
  BY QCounts, QCasFront
<1>2. CASE QQuiet(t) /\ qPc'[t] = "loadFront"
  BY <1>2, QuietLabel
<1>3. CASE QMoves(t, Q!front_) /\ qPc'[t] \in {"loadFront", "done"}
  <2>1. /\ \A k \in Nat : /\ Q!Newest(SlotAt(k))' = Q!Newest(SlotAt(k))
                          /\ Q!Current(SlotAt(k))' = Q!Current(SlotAt(k))
        /\ \A u \in QueueThread : u # t => qView'[u] = qView[u]
        /\ qHist'[Q!back_] = qHist[Q!back_] /\ Q!Newest(Q!back_)' = Q!Newest(Q!back_)
    BY <1>3, MovesNoSlot, MovesOther, QueuePlaces, QCounts DEF QMoves, QueueCursor
  <2>2. QFront' = QFront + 1
    BY <1>3, QCounts DEF QMoves, QFront, Q!Moves
  <2>3. SlotsTold'
    BY <2>1, <2>2, ToldKept
  <2>4. ASSUME NEW u \in QueueThread, u # t
        PROVE  Filled(u)' /\ Taken(u)'
    BY <1>1, <2>1, <2>2, <2>4, OthersSlots
  <2>5. Filled(t)' /\ Taken(t)'
    BY <1>3 DEF Filled, Taken
  <2> QED
    BY <2>3, <2>4, <2>5 DEF QSlots
<1> QED
  BY <1>1, <1>2, <1>3

\* The place of a producer that moves back_ is the one back_ is at.
LEMMA AtBack ==
  ASSUME QBase, QWindow, NEW t \in QueueThread, qPc[t] = "casBack", QMoves(t, Q!back_)
  PROVE  seenAt[t] = QBack /\ QBack < QWritten
<1>1. QBack <= seenAt[t] /\ seenAt[t] < QWritten
  BY DEF QWindow, Within, Claims
<1>2. QBack % capacity = seenAt[t] % capacity
  BY QCounts DEF QMoves
<1>3. seenAt[t] < QBack + capacity /\ QBack < seenAt[t] + capacity
  BY <1>1, QCounts DEF QWindow
<1>4. seenAt[t] = QBack
  BY <1>2, <1>3, SameTurn, QCounts
<1> QED
  BY <1>1, <1>4

\* A value of back_ tells what the one before told and what its producer knew.
LEMMA SlotsCasBack ==
  ASSUME QBase, QWindow, QSlots, NEW t \in QueueThread, Q!CasBack(t)
  PROVE  QSlots'
<1>1. /\ qPc[t] = "casBack" /\ seenAt' = seenAt /\ fooled' = fooled /\ result' = result
      /\ \/ QQuiet(t) /\ qPc'[t] = "casBack"
         \/ /\ QMoves(t, Q!back_) /\ qPc'[t] \in {"loadWrite", "done"} /\ QOthers(t)
            /\ QKnows(qHist'[Q!back_][Q!Newest(Q!back_) + 1].view, qView[t])
  BY QCounts, QCasBack
<1>2. CASE QQuiet(t) /\ qPc'[t] = "casBack"
  BY <1>1, <1>2, QuietStay
<1>3. CASE /\ QMoves(t, Q!back_) /\ qPc'[t] \in {"loadWrite", "done"} /\ QOthers(t)
           /\ QKnows(qHist'[Q!back_][Q!Newest(Q!back_) + 1].view, qView[t])
  <2>1. /\ \A k \in Nat : /\ Q!Newest(SlotAt(k))' = Q!Newest(SlotAt(k))
                          /\ Q!Current(SlotAt(k))' = Q!Current(SlotAt(k))
        /\ \A u \in QueueThread : u # t => qView'[u] = qView[u]
        /\ QFront' = QFront
    BY <1>3, MovesNoSlot, MovesOther, QueuePlaces, QCounts
       DEF QMoves, QFront, Q!Moves, QueueCursor
  <2>2. seenAt[t] = QBack
    BY <1>1, <1>3, AtBack
  <2>3. /\ Q!Newest(Q!back_) = QBack + 1 /\ Q!Newest(Q!back_)' = QBack + 2
        /\ \A n \in 1 .. (QBack + 1) : qHist'[Q!back_][n] = qHist[Q!back_][n]
        /\ QKnows(qHist'[Q!back_][QBack + 2].view, qHist[Q!back_][QBack + 1].view)
        /\ QKnows(qHist'[Q!back_][QBack + 2].view, qView[t])
        /\ QBack \in Nat /\ QFront \in Nat /\ QMem /\ QMem' /\ Q!back_ \in QueueLocation
    BY <1>3, QCounts, QueuePlaces DEF QMoves
  <2>4. ASSUME NEW n \in 2 .. Q!Newest(Q!back_)', NEW k \in QFront' .. (n - 2)
        PROVE  Sees(qHist[Q!back_][n].view, k)'
    <3>1. /\ n \in Nat /\ k \in Nat /\ QFront <= k /\ k <= n - 2 /\ n <= QBack + 2 /\ n >= 2
          /\ n \in 1 .. Q!Newest(Q!back_)'
      BY <2>1, <2>3
    <3>2. CASE n <= QBack + 1
      <4>1. /\ n \in 2 .. Q!Newest(Q!back_) /\ k \in QFront .. (n - 2)
            /\ n \in 1 .. (QBack + 1)
        BY <2>3, <3>1, <3>2
      <4>2. Sees(qHist[Q!back_][n].view, k)
        BY <4>1 DEF QSlots, SlotsTold
      <4>3. qHist'[Q!back_][n] = qHist[Q!back_][n]
        BY <2>3, <4>1
      <4>4. Q!Newest(SlotAt(k))' = Q!Newest(SlotAt(k))
        BY <2>1, <3>1
      <4> QED
        BY <4>2, <4>3, <4>4 DEF Sees
    <3>3. CASE n = QBack + 2
      <4>1. \A i \in 1 .. Q!Newest(Q!back_)' : qHist'[Q!back_][i].view \in Q!View
        <5>1. (\A a \in QueueLocation : \A i \in 1 .. Q!Newest(a) : qHist[a][i].view \in Q!View)'
          <6>1. ASSUME NEW a \in QueueLocation, NEW i \in 1 .. Q!Newest(a)'
                PROVE  qHist'[a][i].view \in Q!View
            <7>1. qHist'[a] \in Seq(QEntry) /\ i \in 1 .. Len(qHist'[a])
              BY <2>3 DEF QMem, Q!Newest
            <7>2. qHist'[a][i] \in QEntry
              BY <7>1
            <7> QED
              BY <7>2 DEF QEntry
          <6> QED
            BY <6>1
        <5> QED
          BY <2>3, <5>1
      <4>2. PICK w \in Q!View : w = qHist'[Q!back_][QBack + 2].view
        BY <3>1, <3>3, <4>1
      <4>3. Q!Newest(SlotAt(k))' = Q!Newest(SlotAt(k))
        BY <2>1, <3>1
      <4>4. CASE k = QBack
        <5>1. PICK v \in Q!View : v = qView[t]
          BY <2>3, QViews
        <5>2. Sees(v, k)
          BY <1>1, <2>2, <4>4, <5>1 DEF QSlots, Filled
        <5>3. Sees(w, k)'
          BY <2>3, <3>1, <4>2, <4>3, <5>1, <5>2, SeesKept
        <5> QED
          BY <3>3, <4>2, <5>3 DEF Sees
      <4>5. CASE k # QBack
        <5>1. /\ QBack + 1 \in 2 .. Q!Newest(Q!back_) /\ k \in QFront .. (QBack + 1 - 2)
              /\ QBack + 1 \in 1 .. Q!Newest(Q!back_)
          BY <2>3, <3>1, <3>3, <4>5
        <5>2. PICK v \in Q!View : v = qHist[Q!back_][QBack + 1].view
          BY <2>3, <5>1, QViews
        <5>3. Sees(v, k)
          <6>1. PICK m \in 2 .. Q!Newest(Q!back_) : m = QBack + 1 /\ k \in QFront .. (m - 2)
            BY <2>3, <5>1
          <6>2. Sees(qHist[Q!back_][m].view, k)
            BY <6>1 DEF QSlots, SlotsTold
          <6> QED
            BY <5>2, <6>1, <6>2
        <5>4. Sees(w, k)'
          BY <2>3, <3>1, <4>2, <4>3, <5>2, <5>3, SeesKept
        <5> QED
          BY <3>3, <4>2, <5>4 DEF Sees
      <4> QED
        BY <4>4, <4>5
    <3> QED
      BY <2>3, <3>1, <3>2, <3>3
  <2>5. SlotsTold'
    BY <2>4 DEF SlotsTold, Sees
  <2>6. ASSUME NEW u \in QueueThread, u # t
        PROVE  Filled(u)' /\ Taken(u)'
    BY <1>3, <2>1, <2>6, OthersSlots
  <2>7. Filled(t)' /\ Taken(t)'
    BY <1>3 DEF Filled, Taken
  <2> QED
    BY <2>5, <2>6, <2>7 DEF QSlots
<1> QED
  BY <1>1, <1>2, <1>3

\* Every step keeps what is known of the slots.
LEMMA SlotsStep ==
  ASSUME QBase, QWindow, QSlots, NEW t \in QueueThread, Q!Step(t) \/ Q!BecomeVisible(t)
  PROVE  QSlots'
<1>1. CASE Q!LoadWrite(t)
  <2>1. QQuiet(t) /\ qPc'[t] = "loadFullFront"
    BY <1>1, QCounts, QLoadWrite
  <2> QED
    BY <2>1, QuietLabel
<1>2. CASE Q!LoadFront(t)
  <2>1. QQuiet(t) /\ qPc'[t] = "loadBack"
    BY <1>2, QCounts, QLoadFront
  <2> QED
    BY <2>1, QuietLabel
<1>3. CASE Q!LoadFullFront(t)
  <2>1. QQuiet(t) /\ qPc'[t] \in {"loadWrite", "casWrite"}
    BY <1>3, QCounts, QLoadFullFront
  <2> QED
    BY <2>1, QuietLabel
<1>4. CASE Q!BecomeVisible(t)
  <2>1. /\ QQuiet(t) /\ qPc' = qPc /\ seenAt' = seenAt /\ fooled' = fooled
        /\ result' = result
    BY <1>4, QCounts, QBecomeVisible
  <2> QED
    BY <2>1, QuietStay
<1> QED
  BY <1>1, <1>2, <1>3, <1>4, SlotsLoadBack, SlotsRead, SlotsFill, SlotsCasWrite, SlotsCasBack,
     SlotsCasFront
  DEF Q!Step, Q!Push, Q!Pop

-----------------------------------------------------------------------------
(* What the values of front_ tell a producer, with one consumer *)

\* v knows of the last read of the slot of place k by every consumer.
HasRead(v, k) == \A u \in Q!Consumer : <<u, SlotAt(k)>> \in v.reads

KnowsSlot(v, k) == Sees(v, k) /\ HasRead(v, k)

\* The value of place k is yet to be stored.
Unfilled(k) == k >= QWritten \/ \E p \in QueueThread : qPc[p] = "fill" /\ seenAt[p] = k

\* Who does not pop reads no slot.
NoReader ==
  \A t, u \in QueueThread, s \in QueuePlain : u \notin Q!Consumer => <<u, s>> \in qView[t].reads

\* In the first turn the slots are as they were made.
FirstTurn ==
  \A k \in 0 .. (capacity - 1) : Unfilled(k) =>
    Q!Newest(SlotAt(k)) = 1 /\ \A t \in QueueThread : HasRead(qView[t], k)

\* Each value of front_ tells of the slots that have been popped.
RoomTold ==
  \A n \in 2 .. Q!Newest(Q!front_) : \A k \in capacity .. (n + capacity - 2) :
    Unfilled(k) => KnowsSlot(qHist[Q!front_][n].view, k)

\* A producer knows that the slot it is to fill is free, and a consumer of its own read.
Clear(t) ==
  /\ qPc[t] = "casWrite" /\ ~fooled[t] /\ seenAt[t] = QWritten => KnowsSlot(qView[t], QWritten)
  /\ qPc[t] = "fill" => KnowsSlot(qView[t], seenAt[t])
  /\ qPc[t] = "casFront" => <<t, SlotAt(QFront)>> \in qView[t].reads

QRaces ==
  qRace = FALSE /\ NoReader /\ FirstTurn /\ RoomTold /\ \A t \in QueueThread : Clear(t)

\* What is known stays known while the slot keeps its value.
LEMMA KnowsSlotKept ==
  ASSUME NEW v \in Q!View, NEW w \in Q!View, NEW k \in Nat, QKnows(w, v), KnowsSlot(v, k),
         Q!Newest(SlotAt(k))' = Q!Newest(SlotAt(k)), QMem, qQuota' = qQuota
  PROVE  KnowsSlot(w, k)'
<1>1. Sees(w, k)'
  BY SeesKept DEF KnowsSlot
<1>2. Q!Consumer' = Q!Consumer
  BY DEF Q!Consumer
<1>3. \A u \in Q!Consumer : <<u, SlotAt(k)>> \in w.reads
  BY DEF KnowsSlot, HasRead, QKnows
<1> QED
  BY <1>1, <1>2, <1>3 DEF KnowsSlot, HasRead

\* A step that stores to no slot and reads none.
LEMMA RacesFrame ==
  ASSUME QBase, QRaces, NEW t \in QueueThread, QGrows(t), qQuota' = qQuota, qRace' = qRace,
         \A k \in Nat : Q!Newest(SlotAt(k))' = Q!Newest(SlotAt(k)),
         \A k \in Nat : Unfilled(k)' => Unfilled(k),
         RoomTold', \A u \in QueueThread : Clear(u)'
  PROVE  QRaces'
<1>1. \A u \in QueueThread : qView[u].reads \subseteq qView'[u].reads
  BY DEF QGrows, QKnows
<1>2. Q!Consumer' = Q!Consumer
  BY DEF Q!Consumer
<1>3. NoReader'
  BY <1>1, <1>2 DEF QRaces, NoReader
<1>4. FirstTurn'
  <2> SUFFICES ASSUME NEW k \in 0 .. (capacity - 1), Unfilled(k)'
               PROVE  /\ Q!Newest(SlotAt(k))' = 1
                      /\ \A u \in QueueThread : HasRead(qView[u], k)'
    BY DEF FirstTurn
  <2>1. k \in Nat
    BY QueueConstants
  <2>2. Q!Newest(SlotAt(k)) = 1 /\ \A u \in QueueThread : HasRead(qView[u], k)
    BY <2>1 DEF QRaces, FirstTurn
  <2>3. Q!Newest(SlotAt(k))' = 1
    BY <2>1, <2>2
  <2>4. \A u \in QueueThread : HasRead(qView[u], k)'
    BY <1>1, <1>2, <2>2 DEF HasRead
  <2> QED
    BY <2>3, <2>4
<1> QED
  BY <1>3, <1>4 DEF QRaces

\* The values of front_ keep telling.
LEMMA RoomKept ==
  ASSUME QBase, QRaces, qQuota' = qQuota, qHist'[Q!front_] = qHist[Q!front_],
         \A k \in Nat : Q!Newest(SlotAt(k))' = Q!Newest(SlotAt(k)),
         \A k \in Nat : Unfilled(k)' => Unfilled(k)
  PROVE  RoomTold'
<1>1. Q!Newest(Q!front_)' = Q!Newest(Q!front_)
  BY DEF Q!Newest
<1> SUFFICES ASSUME NEW n \in 2 .. Q!Newest(Q!front_), NEW k \in capacity .. (n + capacity - 2),
                    Unfilled(k)'
             PROVE  KnowsSlot(qHist[Q!front_][n].view, k)'
  BY <1>1 DEF RoomTold
<1>2. k \in Nat
  BY QueueConstants
<1>3. KnowsSlot(qHist[Q!front_][n].view, k)
  BY <1>2 DEF QRaces, RoomTold
<1>4. Q!Newest(SlotAt(k))' = Q!Newest(SlotAt(k)) /\ Q!Consumer' = Q!Consumer
  BY <1>2 DEF Q!Consumer
<1> QED
  BY <1>3, <1>4 DEF KnowsSlot, HasRead, Sees

\* What the others know of the slots they are to fill or have read.
LEMMA OthersClear ==
  ASSUME QBase, QRaces, NEW t \in QueueThread, NEW u \in QueueThread, u # t,
         QOthers(t), qView'[u] = qView[u], qQuota' = qQuota,
         QWritten' \in {QWritten, QWritten + 1},
         QFront' = QFront \/ qPc[u] # "casFront",
         \A k \in Nat : Q!Newest(SlotAt(k))' = Q!Newest(SlotAt(k))
  PROVE  Clear(u)'
<1>1. /\ qPc'[u] = qPc[u] /\ seenAt'[u] = seenAt[u] /\ fooled'[u] = fooled[u]
      /\ Q!Consumer' = Q!Consumer
  BY DEF QOthers, Q!Consumer
<1>2. QWritten \in Nat /\ seenAt[u] \in Nat
      /\ (qPc[u] = "casWrite" => seenAt[u] <= QWritten)
  BY QCounts DEF QLocals
<1>3. Clear(u)
  BY DEF QRaces
<1>4. PICK j \in Nat, k \in Nat : j = seenAt[u] /\ k = QWritten
  BY <1>2
<1>5. Q!Newest(SlotAt(j))' = Q!Newest(SlotAt(j)) /\ Q!Newest(SlotAt(k))' = Q!Newest(SlotAt(k))
  OBVIOUS
<1>6. ASSUME qPc'[u] = "casWrite", ~fooled'[u], seenAt'[u] = QWritten'
      PROVE  KnowsSlot(qView[u], QWritten)'
  <2>1. QWritten' = k
    BY <1>1, <1>2, <1>4, <1>6
  <2>2. KnowsSlot(qView[u], k)
    BY <1>1, <1>3, <1>4, <1>6, <2>1 DEF Clear
  <2>3. KnowsSlot(qView[u], k)'
    BY <1>1, <1>5, <2>2 DEF KnowsSlot, HasRead, Sees
  <2> QED
    BY <2>1, <2>3 DEF KnowsSlot, HasRead, Sees, SlotAt
<1>7. ASSUME qPc'[u] = "fill"
      PROVE  KnowsSlot(qView[u], seenAt[u])'
  <2>1. KnowsSlot(qView[u], j)
    BY <1>1, <1>3, <1>4, <1>7 DEF Clear
  <2>2. KnowsSlot(qView[u], j)'
    BY <1>1, <1>5, <2>1 DEF KnowsSlot, HasRead, Sees
  <2>3. seenAt'[u] = j
    BY <1>1, <1>4
  <2> QED
    BY <2>2, <2>3 DEF KnowsSlot, HasRead, Sees, SlotAt
<1>8. ASSUME qPc'[u] = "casFront"
      PROVE  <<u, SlotAt(QFront)>>' \in qView'[u].reads
  BY <1>1, <1>3, <1>8 DEF Clear, SlotAt
<1> QED
  BY <1>6, <1>7, <1>8 DEF Clear

\* A step that only loads.
LEMMA QuietRaces ==
  ASSUME QBase, QRaces, NEW t \in QueueThread, QQuiet(t), Clear(t)',
         qPc'[t] = "fill" => qPc[t] = "fill" /\ seenAt'[t] = seenAt[t]
  PROVE  QRaces'
<1>1. /\ QFront' = QFront /\ QWritten' = QWritten /\ qHist' = qHist /\ QGrows(t)
      /\ QOthers(t) /\ qQuota' = qQuota /\ qRace' = qRace
      /\ \A k : Q!Newest(SlotAt(k))' = Q!Newest(SlotAt(k))
      /\ \A u \in QueueThread : u # t => qView'[u] = qView[u]
  <2>1. qHist' = qHist
    BY DEF QQuiet
  <2> QED
    BY <2>1, QuietHist DEF QQuiet, QGrows
<1>2. ASSUME NEW k \in Nat, Unfilled(k)'
      PROVE  Unfilled(k)
  BY <1>1, <1>2 DEF Unfilled, QOthers
<1>3. RoomTold'
  BY <1>1, <1>2, RoomKept
<1>4. \A u \in QueueThread : u # t => Clear(u)'
  BY <1>1, OthersClear
<1> QED
  BY <1>1, <1>2, <1>3, <1>4, RacesFrame

\* The same, when it leaves no label at which something must be known.
LEMMA QuietRacesLabel ==
  ASSUME QBase, QRaces, NEW t \in QueueThread, QQuiet(t),
         qPc'[t] \notin {"casWrite", "fill", "casFront"}
  PROVE  QRaces'
<1>1. Clear(t)' /\ qPc'[t] # "fill"
  BY DEF Clear
<1> QED
  BY <1>1, QuietRaces

\* The same, when t stays where it is.
LEMMA QuietRacesStay ==
  ASSUME QBase, QRaces, NEW t \in QueueThread, QQuiet(t),
         qPc'[t] = qPc[t], seenAt' = seenAt, fooled' = fooled
  PROVE  QRaces'
<1>1. /\ QFront' = QFront /\ QWritten' = QWritten /\ qQuota' = qQuota
      /\ \A k : Q!Newest(SlotAt(k))' = Q!Newest(SlotAt(k))
      /\ QKnows(qView'[t], qView[t])
      /\ qView[t] \in Q!View /\ qView'[t] \in Q!View
      /\ seenAt[t] \in Nat /\ QWritten \in Nat /\ QMem
  <2>1. qHist' = qHist
    BY DEF QQuiet
  <2> QED
    BY <2>1, QuietHist, QViews, QCounts DEF QQuiet, QGrows
<1>2. PICK v \in Q!View, w \in Q!View : v = qView[t] /\ w = qView'[t]
  BY <1>1
<1>3. PICK j \in Nat, k \in Nat : j = seenAt[t] /\ k = QWritten
  BY <1>1
<1>4. Clear(t)
  BY DEF QRaces
<1>5. ASSUME qPc'[t] = "casWrite", ~fooled'[t], seenAt'[t] = QWritten'
      PROVE  KnowsSlot(qView[t], QWritten)'
  <2>1. KnowsSlot(v, k)
    BY <1>1, <1>2, <1>3, <1>4, <1>5 DEF Clear
  <2>2. KnowsSlot(w, k)'
    BY <1>1, <1>2, <2>1, KnowsSlotKept
  <2> QED
    BY <1>1, <1>2, <1>3, <2>2 DEF KnowsSlot, HasRead, Sees, SlotAt
<1>6. ASSUME qPc'[t] = "fill"
      PROVE  KnowsSlot(qView[t], seenAt[t])'
  <2>1. KnowsSlot(v, j)
    BY <1>2, <1>3, <1>4, <1>6 DEF Clear
  <2>2. KnowsSlot(w, j)'
    BY <1>1, <1>2, <2>1, KnowsSlotKept
  <2> QED
    BY <1>2, <1>3, <2>2 DEF KnowsSlot, HasRead, Sees, SlotAt
<1>7. ASSUME qPc'[t] = "casFront"
      PROVE  <<t, SlotAt(QFront)>>' \in qView'[t].reads
  BY <1>1, <1>4, <1>7 DEF Clear, SlotAt, QKnows
<1>8. Clear(t)'
  BY <1>5, <1>6, <1>7 DEF Clear
<1> QED
  BY <1>8, QuietRaces

\* A producer that finds room learns that the slot is free.
LEMMA RacesLoadFullFront ==
  ASSUME QBase, QWindow, QRaces, NEW t \in QueueThread, Q!LoadFullFront(t)
  PROVE  QRaces'
<1>1. /\ QQuiet(t) /\ seenAt' = seenAt
      /\ \E n \in 1 .. Q!Newest(Q!front_) :
              /\ QKnows(qView'[t], qHist[Q!front_][n].view)
              /\ \/ qPc'[t] = "loadWrite"
                 \/ qPc'[t] = "casWrite" /\ fooled'[t] = (seenAt[t] >= n + capacity - 2)
  BY QCounts, QLoadFullFront
<1>2. PICK n \in 1 .. Q!Newest(Q!front_) :
              /\ QKnows(qView'[t], qHist[Q!front_][n].view)
              /\ \/ qPc'[t] = "loadWrite"
                 \/ qPc'[t] = "casWrite" /\ fooled'[t] = (seenAt[t] >= n + capacity - 2)
  BY <1>1
<1>3. CASE qPc'[t] = "loadWrite"
  BY <1>1, <1>3, QuietRacesLabel
<1>4. CASE qPc'[t] = "casWrite"
  <2>1. /\ QWritten' = QWritten /\ \A k : Q!Newest(SlotAt(k))' = Q!Newest(SlotAt(k))
        /\ QGrows(t) /\ qQuota' = qQuota /\ QMem'
    BY <1>1, QuietHist DEF QQuiet
  <2>2. ASSUME ~fooled'[t], seenAt[t] = QWritten
        PROVE  KnowsSlot(qView[t], QWritten)'
    <3>1. n \in Nat /\ n >= 1 /\ QWritten \in Nat /\ Q!front_ \in QueueLocation /\ QMem
          /\ capacity \in Nat
      BY QCounts, QueuePlaces
    <3>2. ~(seenAt[t] >= n + capacity - 2)
      BY <1>2, <1>4, <2>2
    <3>3. PICK k \in Nat : k = QWritten
      BY <3>1
    <3>4. Unfilled(k) /\ k < n + capacity - 2
      BY <2>2, <3>1, <3>2, <3>3 DEF Unfilled
    <3>5. PICK w \in Q!View : w = qView'[t]
      BY <2>1 DEF QGrows
    <3>6. CASE k < capacity
      <4>1. k \in 0 .. (capacity - 1)
        BY <3>1, <3>6
      <4>2. Q!Newest(SlotAt(k)) = 1 /\ HasRead(qView[t], k)
        BY <3>4, <4>1 DEF QRaces, FirstTurn
      <4>3. PICK v \in Q!View : v = qView[t]
        BY <3>1, QViews
      <4>4. SlotAt(k) \in QueueLocation
        BY SlotPlaces
      <4>5. v.seen[SlotAt(k)] >= 1
        BY <3>1, <4>3, <4>4 DEF QMem
      <4>6. KnowsSlot(v, k)
        BY <4>2, <4>3, <4>5 DEF KnowsSlot, Sees
      <4>7. QKnows(w, v)
        BY <2>1, <3>5, <4>3 DEF QGrows
      <4>8. KnowsSlot(w, k)'
        BY <2>1, <3>1, <4>6, <4>7, KnowsSlotKept
      <4> QED
        BY <2>1, <3>3, <3>5, <4>8 DEF KnowsSlot, HasRead, Sees, SlotAt
    <3>7. CASE k >= capacity
      <4>1. n \in 2 .. Q!Newest(Q!front_) /\ k \in capacity .. (n + capacity - 2)
        BY <3>1, <3>4, <3>7
      <4>2. PICK v \in Q!View : v = qHist[Q!front_][n].view
        BY <3>1, QViews
      <4>3. KnowsSlot(v, k)
        BY <3>4, <4>1, <4>2 DEF QRaces, RoomTold
      <4>4. KnowsSlot(w, k)'
        BY <1>2, <2>1, <3>1, <3>5, <4>2, <4>3, KnowsSlotKept
      <4> QED
        BY <2>1, <3>3, <3>5, <4>4 DEF KnowsSlot, HasRead, Sees, SlotAt
    <3> QED
      BY <3>1, <3>6, <3>7
  <2>3. Clear(t)'
    BY <1>1, <1>4, <2>1, <2>2 DEF Clear
  <2> QED
    BY <1>1, <1>4, <2>3, QuietRaces
<1> QED
  BY <1>2, <1>3, <1>4

\* A producer that has moved write_ owns a slot it knows to be free.
LEMMA RacesCasWrite ==
  ASSUME QBase, QWindow, QRaces, NEW t \in QueueThread, Q!CasWrite(t), ~lapped'
  PROVE  QRaces'
<1>1. /\ qPc[t] = "casWrite" /\ QOthers(t) /\ seenAt' = seenAt /\ qQuota' = qQuota
      /\ \/ QQuiet(t) /\ qPc'[t] = "loadWrite"
         \/ /\ QMoves(t, Q!write_) /\ qPc'[t] = "fill"
            /\ lapped' = (lapped \/ fooled[t] \/ seenAt[t] # QWritten)
  BY QCounts, QCasWrite
<1>2. CASE QQuiet(t) /\ qPc'[t] = "loadWrite"
  BY <1>2, QuietRacesLabel
<1>3. CASE QMoves(t, Q!write_) /\ qPc'[t] = "fill"
           /\ lapped' = (lapped \/ fooled[t] \/ seenAt[t] # QWritten)
  <2>1. /\ \A k \in Nat : Q!Newest(SlotAt(k))' = Q!Newest(SlotAt(k))
        /\ \A u \in QueueThread : u # t => qView'[u] = qView[u]
        /\ qHist'[Q!front_] = qHist[Q!front_] /\ QFront' = QFront
        /\ QWritten' = QWritten + 1 /\ QGrows(t) /\ qRace' = qRace
    BY <1>3, MovesNoSlot, MovesOther, QueuePlaces, QCounts
       DEF QMoves, QWritten, QFront, Q!Moves, QueueCursor
  <2>2. ~fooled[t] /\ seenAt[t] = QWritten /\ QWritten \in Nat
    BY <1>3, QCounts
  <2>3. ASSUME NEW k \in Nat, Unfilled(k)'
        PROVE  Unfilled(k)
    <3>1. CASE k >= QWritten'
      BY <2>1, <2>2, <3>1 DEF Unfilled
    <3>2. CASE \E p \in QueueThread : qPc'[p] = "fill" /\ seenAt'[p] = k
      BY <1>1, <2>2, <3>2 DEF Unfilled, QOthers
    <3> QED
      BY <2>3, <3>1, <3>2 DEF Unfilled
  <2>4. RoomTold'
    BY <1>1, <2>1, <2>3, RoomKept
  <2>5. ASSUME NEW u \in QueueThread, u # t
        PROVE  Clear(u)'
    BY <1>1, <2>1, <2>5, OthersClear
  <2>6. Clear(t)'
    <3>1. PICK k \in Nat : k = QWritten
      BY <2>2
    <3>2. PICK v \in Q!View, w \in Q!View : v = qView[t] /\ w = qView'[t]
      BY <2>1, QViews, QCounts DEF QGrows
    <3>3. KnowsSlot(v, k)
      BY <1>1, <2>2, <3>1, <3>2 DEF QRaces, Clear
    <3>4. QKnows(w, v) /\ Q!Newest(SlotAt(k))' = Q!Newest(SlotAt(k)) /\ QMem
      BY <2>1, <3>2, QCounts DEF QGrows
    <3>5. KnowsSlot(w, k)'
      BY <1>1, <3>3, <3>4, KnowsSlotKept
    <3>6. seenAt'[t] = k /\ qPc'[t] \notin {"casWrite", "casFront"}
      BY <1>1, <1>3, <2>2, <3>1
    <3> QED
      BY <3>2, <3>5, <3>6 DEF Clear, KnowsSlot, HasRead, Sees, SlotAt
  <2> QED
    BY <1>1, <2>1, <2>3, <2>4, <2>5, <2>6, RacesFrame
<1> QED
  BY <1>1, <1>2, <1>3

LEMMA RacesCasBack ==
  ASSUME QBase, QWindow, QRaces, NEW t \in QueueThread, Q!CasBack(t)
  PROVE  QRaces'
<1>1. /\ qPc[t] = "casBack" /\ seenAt' = seenAt /\ fooled' = fooled /\ qQuota' = qQuota
      /\ \/ QQuiet(t) /\ qPc'[t] = "casBack"
         \/ /\ QMoves(t, Q!back_) /\ qPc'[t] \in {"loadWrite", "done"} /\ QOthers(t)
  BY QCounts, QCasBack
<1>2. CASE QQuiet(t) /\ qPc'[t] = "casBack"
  BY <1>2, QuietRacesLabel
<1>3. CASE QMoves(t, Q!back_) /\ qPc'[t] \in {"loadWrite", "done"} /\ QOthers(t)
  <2>1. /\ \A k \in Nat : Q!Newest(SlotAt(k))' = Q!Newest(SlotAt(k))
        /\ \A u \in QueueThread : u # t => qView'[u] = qView[u]
        /\ qHist'[Q!front_] = qHist[Q!front_] /\ QFront' = QFront
        /\ QWritten' = QWritten /\ QGrows(t) /\ qRace' = qRace
    BY <1>3, MovesNoSlot, MovesOther, QueuePlaces, QCounts
       DEF QMoves, QWritten, QFront, Q!Moves, QueueCursor
  <2>2. ASSUME NEW k \in Nat, Unfilled(k)'
        PROVE  Unfilled(k)
    BY <1>3, <2>1, <2>2 DEF Unfilled, QOthers
  <2>3. RoomTold'
    BY <1>1, <2>1, <2>2, RoomKept
  <2>4. ASSUME NEW u \in QueueThread, u # t
        PROVE  Clear(u)'
    BY <1>1, <1>3, <2>1, <2>4, OthersClear
  <2>5. Clear(t)'
    BY <1>3 DEF Clear
  <2> QED
    BY <1>1, <2>1, <2>2, <2>3, <2>4, <2>5, RacesFrame
<1> QED
  BY <1>1, <1>2, <1>3

\* What is unfilled is not before back_.
LEMMA UnfilledPlace ==
  ASSUME QBase, QWindow, NEW k \in Nat, Unfilled(k)
  PROVE  QBack <= k
<1>1. QWritten \in Nat /\ QBack \in Nat
  BY QCursors DEF QBase
<1>2. CASE k >= QWritten
  BY <1>1, <1>2 DEF QWindow
<1>3. CASE \E p \in QueueThread : qPc[p] = "fill" /\ seenAt[p] = k
  <2>1. PICK p \in QueueThread : qPc[p] = "fill" /\ seenAt[p] = k
    BY <1>3
  <2> QED
    BY <2>1 DEF QWindow, Within, Claims
<1> QED
  BY <1>2, <1>3 DEF Unfilled

\* front_ tells, with every value, of the slot that its popper has read.
LEMMA RacesCasFront ==
  ASSUME QBase, QWindow, QSlots, QRaces, QAlone(Q!Consumer),
         NEW t \in QueueThread, Q!CasFront(t), ~lapped'
  PROVE  QRaces'
<1>1. /\ qPc[t] = "casFront" /\ QOthers(t) /\ seenAt' = seenAt /\ qQuota' = qQuota
      /\ \/ QQuiet(t) /\ qPc'[t] = "loadFront"
         \/ /\ QMoves(t, Q!front_) /\ qPc'[t] \in {"loadFront", "done"}
            /\ lapped' = (lapped \/ fooled[t] \/ seenAt[t] # QFront)
            /\ QKnows(qHist'[Q!front_][Q!Newest(Q!front_) + 1].view, qView[t])
  BY QCounts, QCasFront
<1>2. CASE QQuiet(t) /\ qPc'[t] = "loadFront"
  BY <1>2, QuietRacesLabel
<1>3. CASE /\ QMoves(t, Q!front_) /\ qPc'[t] \in {"loadFront", "done"}
           /\ lapped' = (lapped \/ fooled[t] \/ seenAt[t] # QFront)
           /\ QKnows(qHist'[Q!front_][Q!Newest(Q!front_) + 1].view, qView[t])
  <2>1. /\ \A k \in Nat : Q!Newest(SlotAt(k))' = Q!Newest(SlotAt(k))
        /\ \A u \in QueueThread : u # t => qView'[u] = qView[u]
        /\ QWritten' = QWritten /\ QGrows(t) /\ qRace' = qRace
    BY <1>3, MovesNoSlot, MovesOther, QueuePlaces, QCounts
       DEF QMoves, QWritten, Q!Moves, QueueCursor
  <2>2. ~fooled[t] /\ seenAt[t] = QFront /\ QFront \in Nat
    BY <1>3, QCounts
  <2>3. ASSUME NEW k \in Nat, Unfilled(k)'
        PROVE  Unfilled(k)
    BY <1>1, <1>3, <2>1, <2>3 DEF Unfilled, QOthers
  <2>4. t \in Q!Consumer /\ Q!Consumer' = Q!Consumer
        /\ \A u \in QueueThread : qPc[u] = "casFront" => u = t
    BY <1>1, QSides, QCounts DEF Popping, QAlone, Q!Consumer
  <2>5. ASSUME NEW u \in QueueThread, u # t
        PROVE  Clear(u)'
    BY <1>1, <2>1, <2>4, <2>5, OthersClear
  <2>6. Clear(t)'
    BY <1>3 DEF Clear
  <2>7. /\ Q!Newest(Q!front_) = QFront + 1 /\ Q!Newest(Q!front_)' = QFront + 2
        /\ \A n \in 1 .. (QFront + 1) : qHist'[Q!front_][n] = qHist[Q!front_][n]
        /\ QKnows(qHist'[Q!front_][QFront + 2].view, qHist[Q!front_][QFront + 1].view)
        /\ QKnows(qHist'[Q!front_][QFront + 2].view, qView[t])
        /\ capacity \in Nat /\ QMem /\ QMem' /\ Q!front_ \in QueueLocation
    BY <1>3, QCounts, QueuePlaces DEF QMoves
  <2>8. ASSUME NEW n \in 2 .. Q!Newest(Q!front_)', NEW k \in capacity .. (n + capacity - 2),
               Unfilled(k)'
        PROVE  KnowsSlot(qHist[Q!front_][n].view, k)'
    <3>1. /\ n \in Nat /\ k \in Nat /\ capacity <= k /\ k <= n + capacity - 2
          /\ n <= QFront + 2 /\ n >= 2
      BY <2>2, <2>7
    <3>2. Unfilled(k) /\ Q!Newest(SlotAt(k))' = Q!Newest(SlotAt(k))
      BY <2>1, <2>3, <2>8, <3>1
    <3>3. CASE n <= QFront + 1
      <4>1. n \in 2 .. Q!Newest(Q!front_) /\ n \in 1 .. (QFront + 1)
        BY <2>2, <2>7, <3>1, <3>3
      <4>2. KnowsSlot(qHist[Q!front_][n].view, k)
        BY <3>2, <4>1 DEF QRaces, RoomTold
      <4>3. qHist'[Q!front_][n] = qHist[Q!front_][n]
        BY <2>7, <4>1
      <4> QED
        BY <2>4, <3>2, <4>2, <4>3 DEF KnowsSlot, HasRead, Sees
    <3>4. CASE n = QFront + 2
      <4>1. PICK w \in Q!View : w = qHist'[Q!front_][QFront + 2].view
        <5>1. qHist'[Q!front_] \in Seq(QEntry) /\ QFront + 2 \in 1 .. Len(qHist'[Q!front_])
          BY <2>2, <2>7 DEF QMem, Q!Newest
        <5>2. qHist'[Q!front_][QFront + 2] \in QEntry
          BY <5>1
        <5> QED
          BY <5>2 DEF QEntry
      <4>2. CASE k = QFront + capacity
        <5>1. PICK j \in Nat : j = QFront
          BY <2>2
        <5>2. SlotAt(k) = SlotAt(j)
          BY <2>7, <4>2, <5>1, RingSteps, QueueConstants DEF SlotAt
        <5>3. PICK v \in Q!View : v = qView[t]
          BY <2>7, QViews
        <5>4. Sees(v, j) /\ <<t, SlotAt(j)>> \in v.reads
          BY <1>1, <2>2, <5>1, <5>3 DEF QSlots, Taken, QRaces, Clear
        <5>5. KnowsSlot(v, k)
          BY <2>4, <5>2, <5>4 DEF KnowsSlot, HasRead, Sees, QAlone
        <5>6. KnowsSlot(w, k)'
          BY <1>1, <2>7, <3>1, <3>2, <4>1, <5>3, <5>5, KnowsSlotKept
        <5> QED
          BY <3>4, <4>1, <5>6 DEF KnowsSlot, HasRead, Sees
      <4>3. CASE k # QFront + capacity
        <5>1. PICK m \in 2 .. Q!Newest(Q!front_) :
                m = QFront + 1 /\ k \in capacity .. (m + capacity - 2)
          BY <2>2, <2>7, <3>1, <3>4, <4>3
        <5>2. PICK v \in Q!View : v = qHist[Q!front_][QFront + 1].view
          BY <2>2, <2>7, QViews
        <5>3. KnowsSlot(v, k)
          BY <3>2, <5>1, <5>2 DEF QRaces, RoomTold
        <5>4. KnowsSlot(w, k)'
          BY <1>1, <2>7, <3>1, <3>2, <4>1, <5>2, <5>3, KnowsSlotKept
        <5> QED
          BY <3>4, <4>1, <5>4 DEF KnowsSlot, HasRead, Sees
      <4> QED
        BY <4>2, <4>3
    <3> QED
      BY <2>2, <3>1, <3>3, <3>4
  <2>9. RoomTold'
    BY <2>8 DEF RoomTold
  <2> QED
    BY <1>1, <2>1, <2>3, <2>5, <2>6, <2>9, RacesFrame
<1> QED
  BY <1>1, <1>2, <1>3

\* What v knows of the slot of place k, once t has read the slot a again.
LEMMA KnowsSlotForgets ==
  ASSUME NEW v, NEW w, NEW k \in Nat, NEW t, NEW a, a # SlotAt(k), w.seen = v.seen,
         v.reads \ {<<t, a>>} \subseteq w.reads, qQuota' = qQuota,
         Q!Newest(SlotAt(k))' = Q!Newest(SlotAt(k))
  PROVE  /\ HasRead(v, k) => HasRead(w, k)'
         /\ KnowsSlot(v, k) => KnowsSlot(w, k)'
<1>1. Q!Consumer' = Q!Consumer
  BY DEF Q!Consumer
<1>2. ASSUME HasRead(v, k)
      PROVE  \A u \in Q!Consumer : <<u, SlotAt(k)>> \in w.reads
  BY <1>2 DEF HasRead
<1>3. HasRead(v, k) => HasRead(w, k)'
  BY <1>1, <1>2 DEF HasRead
<1>4. Sees(v, k) => Sees(w, k)'
  BY DEF Sees
<1> QED
  BY <1>3, <1>4 DEF KnowsSlot

\* A lone consumer reads the slot at front_, which nobody is to fill yet.
LEMMA RacesRead ==
  ASSUME QBase, QAloneInv, QWindow, QSlots, QRaces, QAlone(Q!Consumer),
         NEW t \in QueueThread, Q!ReadSlot(t)
  PROVE  QRaces'
<1>1. PICK a : a = SlotAt(seenAt[t])
  OBVIOUS
<1>2. /\ qPc[t] = "readSlot" /\ qPc'[t] = "casFront" /\ seenAt' = seenAt /\ fooled' = fooled
      /\ QOthers(t) /\ QMem' /\ QHasRead(t, a) /\ qQuota' = qQuota
      /\ qRace = FALSE /\ qView[t].seen[a] = Q!Newest(a) => qRace' = FALSE
  BY <1>1, QCounts, QReadSlot
<1>3. t \in Q!Consumer /\ Q!Consumer' = Q!Consumer
      /\ \A u \in QueueThread : qPc[u] = "casFront" => u = t
  BY <1>2, QSides, QCounts DEF Popping, QAlone, Q!Consumer
<1>4. seenAt[t] = QFront /\ ~fooled[t] /\ QFront < QBack /\ QFront \in Nat /\ QBack \in Nat
      /\ QWritten \in Nat /\ capacity \in Nat /\ QWritten < QFront + capacity
  <2>1. seenAt[t] = QFront /\ ~fooled[t]
    BY <1>2, <1>3 DEF QAloneInv, ConsumerAlone
  <2> QED
    BY <1>2, <2>1, QCounts DEF QWindow, Within
<1>5. PICK j \in Nat : j = QFront
  BY <1>4
<1>6. a = SlotAt(j) /\ a \in QueuePlain /\ a \in QueueLocation
  BY <1>1, <1>4, <1>5, SlotPlaces
<1>7. ASSUME NEW k \in Nat, QBack <= k, k < QFront + capacity
      PROVE  SlotAt(k) # a
  BY <1>4, <1>5, <1>6, <1>7, Apart
<1>8. qRace' = FALSE
  <2>1. Sees(qView[t], j)
    BY <1>2, <1>4, <1>5 DEF QSlots, Taken
  <2>2. qView[t].seen[a] \in 1 .. Q!Newest(a) /\ Q!Newest(a) \in Nat
        /\ qView[t].seen[a] \in Nat
    <3>1. QMem
      BY QCounts
    <3>2. Q!Newest(a) \in Nat
      BY <1>6, <3>1, QMemFacts
    <3>3. qView[t].seen[a] \in 1 .. Q!Newest(a)
      BY <1>6, <3>1 DEF QMem
    <3> QED
      BY <3>2, <3>3
  <2>3. qView[t].seen[a] = Q!Newest(a)
    BY <1>6, <2>1, <2>2 DEF Sees
  <2> QED
    BY <1>2, <2>3 DEF QRaces
<1>9. /\ QFront' = QFront /\ QWritten' = QWritten
      /\ Q!Newest(Q!front_)' = Q!Newest(Q!front_)
      /\ \A k \in Nat : Q!Newest(SlotAt(k))' = Q!Newest(SlotAt(k))
  BY <1>2, SlotPlaces, QueuePlaces DEF QHasRead, QFront, QWritten, Q!Moves, QueueCursor
<1>10. ASSUME NEW u \in QueueThread
       PROVE  /\ qView'[u].seen = qView[u].seen
              /\ qView[u].reads \ {<<t, a>>} \subseteq qView'[u].reads
  BY <1>2, <1>10 DEF QHasRead
<1>11. ASSUME NEW k \in Nat
       PROVE  Unfilled(k)' => Unfilled(k)
  BY <1>2, <1>9 DEF Unfilled, QOthers
<1>12. ASSUME NEW u \in QueueThread, NEW k \in Nat, QBack <= k, k < QFront + capacity
       PROVE  /\ HasRead(qView[u], k) => HasRead(qView[u], k)'
              /\ KnowsSlot(qView[u], k) => KnowsSlot(qView[u], k)'
  <2>1. PICK v, w : v = qView[u] /\ w = qView'[u]
    OBVIOUS
  <2>2. a # SlotAt(k) /\ Q!Newest(SlotAt(k))' = Q!Newest(SlotAt(k))
    BY <1>7, <1>9, <1>12
  <2>3. w.seen = v.seen /\ v.reads \ {<<t, a>>} \subseteq w.reads
    BY <1>10, <2>1
  <2>4. /\ HasRead(v, k) => HasRead(w, k)'
        /\ KnowsSlot(v, k) => KnowsSlot(w, k)'
    BY <1>2, <2>2, <2>3, KnowsSlotForgets
  <2> QED
    BY <2>1, <2>4 DEF HasRead, KnowsSlot, Sees
<1>13. NoReader'
  <2>1. ASSUME NEW u \in QueueThread, NEW c \in QueueThread, NEW s \in QueuePlain,
               c \notin Q!Consumer
        PROVE  <<c, s>> \in qView'[u].reads
    <3>1. <<c, s>> \in qView[u].reads
      BY <2>1 DEF QRaces, NoReader
    <3>2. <<c, s>> # <<t, a>>
      BY <1>3, <2>1
    <3> QED
      BY <1>10, <3>1, <3>2
  <2> QED
    BY <1>3, <2>1 DEF NoReader
<1>14. FirstTurn'
  <2> SUFFICES ASSUME NEW k \in 0 .. (capacity - 1), Unfilled(k)'
               PROVE  /\ Q!Newest(SlotAt(k))' = 1
                      /\ \A u \in QueueThread : HasRead(qView[u], k)'
    BY DEF FirstTurn
  <2>1. k \in Nat /\ Unfilled(k)
    BY <1>4, <1>11
  <2>2. QBack <= k /\ k < QFront + capacity
    BY <1>4, <2>1, UnfilledPlace
  <2>3. Q!Newest(SlotAt(k)) = 1 /\ \A u \in QueueThread : HasRead(qView[u], k)
    BY <2>1 DEF QRaces, FirstTurn
  <2> QED
    BY <1>9, <1>12, <2>1, <2>2, <2>3
<1>15. RoomTold'
  <2> SUFFICES ASSUME NEW n \in 2 .. Q!Newest(Q!front_),
                      NEW k \in capacity .. (n + capacity - 2), Unfilled(k)'
               PROVE  KnowsSlot(qHist[Q!front_][n].view, k)'
    BY <1>9 DEF RoomTold
  <2>1. k \in Nat /\ Unfilled(k) /\ n \in Nat /\ n <= QFront + 1 /\ k <= n + capacity - 2
        /\ n \in 1 .. Q!Newest(Q!front_) /\ Q!front_ \in QueueLocation
    BY <1>4, <1>11, QCounts, QueuePlaces
  <2>2. QBack <= k /\ k < QFront + capacity
    BY <1>4, <2>1, UnfilledPlace
  <2>3. a # SlotAt(k) /\ Q!Newest(SlotAt(k))' = Q!Newest(SlotAt(k))
    BY <1>7, <1>9, <2>1, <2>2
  <2>4. PICK v, w : v = qHist[Q!front_][n].view /\ w = qHist'[Q!front_][n].view
    OBVIOUS
  <2>5. w.seen = v.seen /\ v.reads \ {<<t, a>>} \subseteq w.reads
    BY <1>2, <2>1, <2>4 DEF QHasRead
  <2>6. KnowsSlot(v, k)
    BY <2>1, <2>4 DEF QRaces, RoomTold
  <2>7. KnowsSlot(w, k)'
    BY <1>2, <2>1, <2>3, <2>5, <2>6, KnowsSlotForgets
  <2> QED
    BY <2>4, <2>7 DEF HasRead, KnowsSlot, Sees
<1>16. ASSUME NEW u \in QueueThread, u # t
       PROVE  Clear(u)'
  <2>1. qPc'[u] = qPc[u] /\ seenAt'[u] = seenAt[u] /\ fooled'[u] = fooled[u]
    BY <1>2, <1>16 DEF QOthers
  <2>2. Clear(u) /\ Within(u) /\ seenAt[u] \in Nat
    BY QCounts DEF QRaces, QWindow
  <2>3. PICK i \in Nat, k \in Nat : i = seenAt[u] /\ k = QWritten
    BY <1>4, <2>2
  <2>4. ASSUME qPc'[u] = "casWrite", ~fooled'[u], seenAt'[u] = QWritten'
        PROVE  KnowsSlot(qView[u], QWritten)'
    <3>1. KnowsSlot(qView[u], k)
      BY <1>9, <2>1, <2>2, <2>3, <2>4 DEF Clear
    <3>2. QBack <= k /\ k < QFront + capacity
      BY <1>4, <2>3 DEF QWindow
    <3>3. KnowsSlot(qView[u], k)'
      BY <1>12, <3>1, <3>2
    <3> QED
      BY <1>9, <2>3, <3>3 DEF HasRead, KnowsSlot, Sees, SlotAt
  <2>5. ASSUME qPc'[u] = "fill"
        PROVE  KnowsSlot(qView[u], seenAt[u])'
    <3>1. KnowsSlot(qView[u], i)
      BY <2>1, <2>2, <2>3, <2>5 DEF Clear
    <3>2. QBack <= i /\ i < QFront + capacity
      BY <1>4, <2>1, <2>2, <2>3, <2>5 DEF Within, Claims
    <3>3. KnowsSlot(qView[u], i)'
      BY <1>12, <3>1, <3>2
    <3> QED
      BY <2>1, <2>3, <3>3 DEF HasRead, KnowsSlot, Sees, SlotAt
  <2>6. qPc'[u] # "casFront"
    BY <1>3, <1>16, <2>1
  <2> QED
    BY <2>4, <2>5, <2>6 DEF Clear
<1>17. Clear(t)'
  <2>1. <<t, SlotAt(j)>> \in qView'[t].reads
    BY <1>2, <1>6 DEF QHasRead
  <2>2. <<t, SlotAt(QFront)>>' \in qView'[t].reads
    BY <1>5, <1>9, <2>1 DEF SlotAt
  <2> QED
    BY <1>2, <2>2 DEF Clear
<1> QED
  BY <1>8, <1>13, <1>14, <1>15, <1>16, <1>17 DEF QRaces

\* A producer fills a slot that it knows everybody is done with.
LEMMA RacesFill ==
  ASSUME QBase, QWindow, QRaces, NEW t \in QueueThread, Q!Fill(t)
  PROVE  QRaces'
<1>1. PICK j \in Nat : j = seenAt[t]
  BY QCounts
<1>2. PICK a : a = SlotAt(seenAt[t])
  OBVIOUS
<1>3. /\ qPc[t] = "fill" /\ qPc'[t] = "casBack" /\ qQuota' = qQuota
      /\ seenAt' = seenAt /\ fooled' = fooled /\ QOthers(t) /\ QMem' /\ QGrows(t)
      /\ QElsewhere(a)
      /\ (/\ qRace = FALSE /\ qView[t].seen[a] = Q!Newest(a)
          /\ \A u \in QueueThread \ {t} : <<u, a>> \in qView[t].reads)
         => qRace' = FALSE
  BY <1>2, QCounts, QFill
<1>4. /\ QBack <= j /\ j < QWritten /\ Claims(t)
      /\ QFront <= QBack /\ QBack <= QWritten /\ QWritten < QFront + capacity
      /\ QFront \in Nat /\ QBack \in Nat /\ QWritten \in Nat /\ capacity \in Nat
  BY <1>1, <1>3, QCounts DEF QWindow, Within, Claims
<1>5. a = SlotAt(j) /\ a \in QueuePlain /\ a \in QueueLocation
  BY <1>1, <1>2, SlotPlaces
<1>6. ASSUME NEW k \in Nat, QBack <= k, k < j + capacity, k # j
      PROVE  SlotAt(k) # a /\ Q!Newest(SlotAt(k))' = Q!Newest(SlotAt(k))
  <2>1. SlotAt(k) # a
    BY <1>4, <1>5, <1>6, Apart
  <2>2. PICK b : b = SlotAt(k)
    OBVIOUS
  <2>3. qHist'[b] = qHist[b]
    BY <1>3, <2>1, <2>2, SlotPlaces DEF QElsewhere
  <2>4. Q!Newest(b)' = Q!Newest(b)
    BY <2>3 DEF Q!Newest
  <2> QED
    BY <2>1, <2>2, <2>4
<1>7. Q!Consumer' = Q!Consumer
  BY <1>3 DEF Q!Consumer
<1>8. qRace' = FALSE
  <2>1. KnowsSlot(qView[t], j) /\ qRace = FALSE /\ NoReader
    BY <1>1, <1>3 DEF QRaces, Clear
  <2>2. qView[t].seen[a] = Q!Newest(a)
    <3>1. QMem
      BY QCounts
    <3>2. Q!Newest(a) \in Nat
      BY <1>5, <3>1, QMemFacts
    <3>3. qView[t].seen[a] \in 1 .. Q!Newest(a)
      BY <1>5, <3>1 DEF QMem
    <3> QED
      BY <1>5, <2>1, <3>2, <3>3 DEF KnowsSlot, Sees
  <2>3. \A u \in QueueThread \ {t} : <<u, a>> \in qView[t].reads
    BY <1>5, <2>1 DEF KnowsSlot, HasRead, NoReader
  <2> QED
    BY <1>3, <2>1, <2>2, <2>3
<1>9. /\ QFront' = QFront /\ QWritten' = QWritten /\ qHist'[Q!front_] = qHist[Q!front_]
      /\ Q!Newest(Q!front_)' = Q!Newest(Q!front_)
  BY <1>3, <1>5, QueuePlaces, SlotPlaces
     DEF QElsewhere, QFront, QWritten, Q!Moves, Q!Newest, QueueCursor
<1>10. ASSUME NEW u \in QueueThread
       PROVE  qView[u].reads \subseteq qView'[u].reads
  BY <1>3, <1>10 DEF QGrows, QKnows
<1>11. ASSUME NEW k \in Nat, Unfilled(k)'
       PROVE  Unfilled(k) /\ k # j /\ QBack <= k
  <2>1. CASE k >= QWritten'
    BY <1>4, <1>9, <2>1 DEF Unfilled
  <2>2. CASE \E p \in QueueThread : qPc'[p] = "fill" /\ seenAt'[p] = k
    <3>1. PICK p \in QueueThread : qPc'[p] = "fill" /\ seenAt'[p] = k
      BY <2>2
    <3>2. p # t /\ qPc[p] = "fill" /\ seenAt[p] = k
      BY <1>3, <3>1 DEF QOthers
    <3>3. k # j
      BY <1>1, <1>4, <3>2 DEF QWindow, Claims
    <3>4. Unfilled(k)
      BY <3>2 DEF Unfilled
    <3> QED
      BY <3>3, <3>4, UnfilledPlace
  <2> QED
    BY <1>11, <2>1, <2>2 DEF Unfilled
<1>12. NoReader'
  BY <1>7, <1>10 DEF QRaces, NoReader
<1>13. FirstTurn'
  <2> SUFFICES ASSUME NEW k \in 0 .. (capacity - 1), Unfilled(k)'
               PROVE  /\ Q!Newest(SlotAt(k))' = 1
                      /\ \A u \in QueueThread : HasRead(qView[u], k)'
    BY DEF FirstTurn
  <2>1. k \in Nat /\ k < capacity
    BY <1>4
  <2>2. Unfilled(k) /\ k # j /\ QBack <= k
    BY <1>11, <2>1
  <2>3. Q!Newest(SlotAt(k)) = 1 /\ \A u \in QueueThread : HasRead(qView[u], k)
    BY <2>2 DEF QRaces, FirstTurn
  <2>4. Q!Newest(SlotAt(k))' = Q!Newest(SlotAt(k))
    BY <1>4, <1>6, <2>1, <2>2
  <2>5. \A u \in QueueThread : HasRead(qView[u], k)'
    BY <1>7, <1>10, <2>3 DEF HasRead
  <2> QED
    BY <2>3, <2>4, <2>5
<1>14. RoomTold'
  <2> SUFFICES ASSUME NEW n \in 2 .. Q!Newest(Q!front_),
                      NEW k \in capacity .. (n + capacity - 2), Unfilled(k)'
               PROVE  KnowsSlot(qHist[Q!front_][n].view, k)'
    BY <1>9 DEF RoomTold
  <2>1. k \in Nat /\ n \in Nat /\ n <= QFront + 1 /\ k <= n + capacity - 2
    BY <1>4, QCounts
  <2>2. Unfilled(k) /\ k # j /\ QBack <= k
    BY <1>11, <2>1
  <2>3. Q!Newest(SlotAt(k))' = Q!Newest(SlotAt(k))
    BY <1>4, <1>6, <2>1, <2>2
  <2>4. KnowsSlot(qHist[Q!front_][n].view, k)
    BY <2>2 DEF QRaces, RoomTold
  <2> QED
    BY <1>7, <1>9, <2>3, <2>4 DEF HasRead, KnowsSlot, Sees
<1>15. ASSUME NEW u \in QueueThread, u # t
       PROVE  Clear(u)'
  <2>1. /\ qPc'[u] = qPc[u] /\ seenAt'[u] = seenAt[u] /\ fooled'[u] = fooled[u]
        /\ qView'[u] = qView[u]
    BY <1>3, <1>15 DEF QOthers, QGrows
  <2>2. Clear(u) /\ Within(u) /\ seenAt[u] \in Nat
    BY QCounts DEF QRaces, QWindow
  <2>3. PICK i \in Nat, k \in Nat : i = seenAt[u] /\ k = QWritten
    BY <1>4, <2>2
  <2>4. ASSUME qPc'[u] = "casWrite", ~fooled'[u], seenAt'[u] = QWritten'
        PROVE  KnowsSlot(qView[u], QWritten)'
    <3>1. KnowsSlot(qView[u], k)
      BY <1>9, <2>1, <2>2, <2>3, <2>4 DEF Clear
    <3>2. QBack <= k /\ k < j + capacity /\ k # j
      BY <1>4, <2>3
    <3>3. Q!Newest(SlotAt(k))' = Q!Newest(SlotAt(k))
      BY <1>6, <3>2
    <3>4. KnowsSlot(qView[u], k)'
      BY <1>7, <2>1, <3>1, <3>3 DEF HasRead, KnowsSlot, Sees
    <3> QED
      BY <1>9, <2>3, <3>4 DEF HasRead, KnowsSlot, Sees, SlotAt
  <2>5. ASSUME qPc'[u] = "fill"
        PROVE  KnowsSlot(qView[u], seenAt[u])'
    <3>1. KnowsSlot(qView[u], i)
      BY <2>1, <2>2, <2>3, <2>5 DEF Clear
    <3>2. QBack <= i /\ i < QWritten
      BY <2>1, <2>2, <2>3, <2>5 DEF Within, Claims
    <3>3. i # j
      BY <1>1, <1>4, <1>15, <2>1, <2>3, <2>5 DEF QWindow, Claims
    <3>4. i < j + capacity
      BY <1>4, <3>2
    <3>5. Q!Newest(SlotAt(i))' = Q!Newest(SlotAt(i))
      BY <1>6, <3>2, <3>3, <3>4
    <3>6. KnowsSlot(qView[u], i)'
      BY <1>7, <2>1, <3>1, <3>5 DEF HasRead, KnowsSlot, Sees
    <3> QED
      BY <2>1, <2>3, <3>6 DEF HasRead, KnowsSlot, Sees, SlotAt
  <2>6. ASSUME qPc'[u] = "casFront"
        PROVE  <<u, SlotAt(QFront)>>' \in qView'[u].reads
    BY <1>9, <2>1, <2>2, <2>6 DEF Clear, SlotAt
  <2> QED
    BY <2>4, <2>5, <2>6 DEF Clear
<1>16. Clear(t)'
  BY <1>3 DEF Clear
<1> QED
  BY <1>8, <1>12, <1>13, <1>14, <1>15, <1>16 DEF QRaces

\* Every step of a queue with a lone consumer keeps its slots apart.
LEMMA RacesStep ==
  ASSUME QBase, QAloneInv, QWindow, QSlots, QRaces, QAlone(Q!Consumer),
         NEW t \in QueueThread, Q!Step(t) \/ Q!BecomeVisible(t), ~lapped'
  PROVE  QRaces'
<1>1. CASE Q!LoadWrite(t)
  <2>1. QQuiet(t) /\ qPc'[t] = "loadFullFront"
    BY <1>1, QCounts, QLoadWrite
  <2> QED
    BY <2>1, QuietRacesLabel
<1>2. CASE Q!LoadFront(t)
  <2>1. QQuiet(t) /\ qPc'[t] = "loadBack"
    BY <1>2, QCounts, QLoadFront
  <2> QED
    BY <2>1, QuietRacesLabel
<1>3. CASE Q!LoadBack(t)
  <2>1. QQuiet(t) /\ qPc'[t] \in {"loadFront", "readSlot"}
    BY <1>3, QCounts, QLoadBack
  <2> QED
    BY <2>1, QuietRacesLabel
<1>4. CASE Q!BecomeVisible(t)
  <2>1. QQuiet(t) /\ qPc' = qPc /\ seenAt' = seenAt /\ fooled' = fooled
    BY <1>4, QCounts, QBecomeVisible
  <2> QED
    BY <2>1, QuietRacesStay
<1> QED
  BY <1>1, <1>2, <1>3, <1>4, RacesLoadFullFront, RacesRead, RacesFill, RacesCasWrite,
     RacesCasBack, RacesCasFront
  DEF Q!Step, Q!Push, Q!Pop

-----------------------------------------------------------------------------
(* The invariant of LockFreeQueue *)

\* The invariant of LockFreeQueue: what holds always, what until a thread is lapped, and
\* what a lone consumer needs besides.
QInv ==
  /\ QBase /\ QAloneInv
  /\ ~lapped => QWindow /\ QSlots
  /\ ~lapped /\ QAlone(Q!Consumer) => QRaces

LEMMA QInitInv ==
  ASSUME Q!Init
  PROVE  QInv
<1>1. /\ QBase /\ QAloneInv /\ qRace = FALSE
      /\ \A a \in QueueLocation : Q!Newest(a) = 1
      /\ \A t \in QueueThread : qView[t].reads = QueueThread \X QueuePlain
      /\ QWritten = 0 /\ QBack = 0 /\ QFront = 0
      /\ \A t \in QueueThread : qPc[t] \in {"loadWrite", "loadFront", "done"}
  BY QStarts
<1>2. Q!Newest(Q!back_) = 1 /\ Q!Newest(Q!front_) = 1
  BY <1>1, QueuePlaces DEF QueueCursor
<1>3. QWindow
  <2>1. \A t \in QueueThread : Within(t) /\ ~Claims(t)
    BY <1>1 DEF Within, Claims
  <2>2. QFront <= QBack /\ QBack <= QWritten /\ QWritten < QFront + capacity
    BY <1>1, QueueConstants
  <2> QED
    BY <2>1, <2>2 DEF QWindow
<1>4. QSlots
  <2>1. SlotsTold
    BY <1>2 DEF SlotsTold
  <2> QED
    BY <1>1, <2>1 DEF QSlots, Filled, Taken
<1>5. QRaces
  <2>1. RoomTold
    BY <1>2 DEF RoomTold
  <2>2. NoReader
    BY <1>1 DEF NoReader
  <2>3. \A k \in 0 .. (capacity - 1) : k \in Nat
    BY QueueConstants
  <2>4. FirstTurn
    BY <1>1, <2>3, SlotPlaces DEF FirstTurn, HasRead, Q!Consumer
  <2> QED
    BY <1>1, <2>1, <2>2, <2>4 DEF QRaces, Clear
<1> QED
  BY <1>1, <1>3, <1>4, <1>5 DEF QInv

\* Who is lapped stays lapped, and nobody changes sides.
LEMMA LappedStays ==
  ASSUME QLocals, NEW t \in QueueThread, Q!Step(t) \/ Q!BecomeVisible(t)
  PROVE  (lapped => lapped') /\ qQuota' = qQuota
<1>1. CASE Q!LoadWrite(t) \/ Q!LoadFront(t) \/ Q!Fill(t) \/ Q!ReadSlot(t) \/ Q!BecomeVisible(t)
  BY <1>1 DEF Q!LoadWrite, Q!LoadFront, Q!Fill, Q!ReadSlot, Q!BecomeVisible
<1>2. CASE Q!LoadFullFront(t) \/ Q!LoadBack(t)
  BY <1>2 DEF Q!LoadFullFront, Q!TestFull, Q!LoadBack
<1>3. CASE Q!CasBack(t)
  BY <1>3 DEF Q!CasBack, Q!MoveBack
<1>4. CASE Q!CasWrite(t)
  <2>1. qQuota' = qQuota /\ (\/ lapped' = lapped
                             \/ lapped' = (lapped \/ fooled[t] \/ seenAt[t] # Q!Moves(Q!write_)))
    BY <1>4 DEF Q!CasWrite
  <2>2. ASSUME lapped
        PROVE  lapped'
    <3>1. (lapped \/ fooled[t] \/ seenAt[t] # Q!Moves(Q!write_)) = TRUE
      BY <2>2
    <3>2. CASE lapped' = lapped
      BY <2>2, <3>2
    <3>3. CASE lapped' = (lapped \/ fooled[t] \/ seenAt[t] # Q!Moves(Q!write_))
      <4>1. lapped' = TRUE
        BY <3>1, <3>3
      <4> QED
        BY <4>1
    <3> QED
      BY <2>1, <3>2, <3>3
  <2> QED
    BY <2>1, <2>2
<1>5. CASE Q!CasFront(t)
  <2>1. qQuota' = qQuota /\ (\/ lapped' = lapped
                             \/ lapped' = (lapped \/ fooled[t] \/ seenAt[t] # Q!Moves(Q!front_)))
    BY <1>5 DEF Q!CasFront
  <2>2. ASSUME lapped
        PROVE  lapped'
    <3>1. (lapped \/ fooled[t] \/ seenAt[t] # Q!Moves(Q!front_)) = TRUE
      BY <2>2
    <3>2. CASE lapped' = lapped
      BY <2>2, <3>2
    <3>3. CASE lapped' = (lapped \/ fooled[t] \/ seenAt[t] # Q!Moves(Q!front_))
      <4>1. lapped' = TRUE
        BY <3>1, <3>3
      <4> QED
        BY <4>1
    <3> QED
      BY <2>1, <3>2, <3>3
  <2> QED
    BY <2>1, <2>2
<1> QED
  BY <1>1, <1>2, <1>3, <1>4, <1>5 DEF Q!Step, Q!Push, Q!Pop

LEMMA QStepInv ==
  ASSUME QInv, NEW t \in QueueThread, Q!Step(t) \/ Q!BecomeVisible(t)
  PROVE  QInv'
<1>1. QBase /\ QAloneInv /\ QLocals
  BY DEF QInv, QBase
<1>2. QBase' /\ QAloneInv'
  BY <1>1, QBaseStep, AloneStep
<1>3. (lapped => lapped') /\ qQuota' = qQuota
  BY <1>1, LappedStays
<1>4. ASSUME ~lapped'
      PROVE  QWindow' /\ QSlots'
  <2>1. QWindow /\ QSlots
    BY <1>3, <1>4 DEF QInv
  <2> QED
    BY <1>1, <1>4, <2>1, WindowStep, SlotsStep
<1>5. ASSUME ~lapped', QAlone(Q!Consumer)'
      PROVE  QRaces'
  <2>1. Q!Consumer' = Q!Consumer
    BY <1>3 DEF Q!Consumer
  <2>2. QAlone(Q!Consumer)
    BY <1>5, <2>1 DEF QAlone
  <2>3. QWindow /\ QSlots /\ QRaces
    BY <1>3, <1>5, <2>2 DEF QInv
  <2> QED
    BY <1>1, <1>5, <2>2, <2>3, RacesStep
<1> QED
  BY <1>2, <1>4, <1>5 DEF QInv

\* Nothing else touches the queue.
LEMMA QStutter ==
  ASSUME QInv, UNCHANGED queueVars
  PROVE  QInv'
<1>1. /\ qHist' = qHist /\ qView' = qView /\ qRace' = qRace /\ qQuota' = qQuota /\ qPc' = qPc
      /\ at' = at /\ seenAt' = seenAt /\ fooled' = fooled /\ result' = result
      /\ qSent' = qSent /\ qGot' = qGot /\ lapped' = lapped
  BY DEF queueVars
<1>2. QWritten' = QWritten /\ QBack' = QBack /\ QFront' = QFront
  BY <1>1 DEF QWritten, QBack, QFront, Q!Moves, Q!Newest
<1>3. Q!Consumer' = Q!Consumer /\ Q!Producer' = Q!Producer
  BY <1>1 DEF Q!Consumer, Q!Producer
<1>4. QBase = QBase'
  BY <1>1, <1>2, <1>3 DEF QBase, QMem, QLocals, QValues, Q!Newest
<1>5. QAloneInv = QAloneInv'
  BY <1>1, <1>2, <1>3 DEF QAloneInv, QAlone, ProducerAlone, ConsumerAlone, Q!Newest
<1>6. QWindow = QWindow'
  BY <1>1, <1>2 DEF QWindow, Within, Claims
<1>7. QSlots = QSlots'
  BY <1>1, <1>2 DEF QSlots, SlotsTold, Filled, Taken, Sees, Q!Newest, Q!Current
<1>8. QRaces = QRaces'
  BY <1>1, <1>2, <1>3
     DEF QRaces, NoReader, FirstTurn, RoomTold, Clear, Unfilled, KnowsSlot, HasRead, Sees,
         Q!Newest
<1>9. QAlone(Q!Consumer) = QAlone(Q!Consumer)'
  BY <1>3 DEF QAlone
<1> QED
  BY <1>1, <1>4, <1>5, <1>6, <1>7, <1>8, <1>9 DEF QInv

LEMMA QNextInv == ASSUME QInv, Q!Next PROVE QInv'
<1>1. CASE \E t \in QueueThread : Q!Step(t) \/ Q!BecomeVisible(t)
  BY <1>1, QStepInv
<1>2. CASE Q!Exit
  BY <1>2, QStutter DEF Q!Exit, Q!vars, queueVars
<1> QED
  BY <1>1, <1>2 DEF Q!Next

\* The queue in any behaviour of Concurrent.
LEMMA QInvariance == Spec => []QInv
<1>1. Init => QInv
  BY QInitInv DEF Init
<1>2. QInv /\ [Next]_vars => QInv'
  BY QNextInv, QStutter DEF Next, AtomicsStep, QueueStep, StackStep, MutexStep, vars
<1> QED
  BY <1>1, <1>2, PTL DEF Spec

\* LockFreeQueue.cpp: the only producer and the only consumer are never wrong about a
\* cursor, however old the value of the other side's that they read, for a ring of any
\* size and any number of values.
THEOREM LoneSidesKeepUp == Spec => []LoneSidesNeverLapped
<1>1. QInv => LoneSidesNeverLapped
  <2> SUFFICES ASSUME QInv, lapped, ~(Q!Cardinality(Q!Producer) > 1),
                      ~(Q!Cardinality(Q!Consumer) > 1)
               PROVE  FALSE
    BY DEF LoneSidesNeverLapped, Q!LoneSidesNeverLapped
  <2>1. Q!Producer \in SUBSET QueueThread /\ Q!Consumer \in SUBSET QueueThread
    BY DEF Q!Producer, Q!Consumer
  <2>2. QAlone(Q!Producer) /\ QAlone(Q!Consumer)
    BY <2>1, AtMostOne DEF QAlone
  <2> QED
    BY <2>2 DEF QInv, QAloneInv
<1> QED
  BY <1>1, QInvariance, PTL

\* Atomics and LockFreeQueue.cpp: no plain access of the programs races, and none to a slot
\* of the queue as long as one thread pops and none is lapped.
THEOREM AccessesOrdered == Spec => []DataRaceFree
<1>1. QInv => Q!DataRaceFree
  <2> SUFFICES ASSUME QInv, qRace, ~lapped, ~(Q!Cardinality(Q!Consumer) > 1)
               PROVE  FALSE
    BY DEF Q!DataRaceFree
  <2>1. Q!Consumer \in SUBSET QueueThread
    BY DEF Q!Consumer
  <2>2. QAlone(Q!Consumer)
    BY <2>1, AtMostOne DEF QAlone
  <2> QED
    BY <2>2 DEF QInv, QRaces
<1>2. AtInv => At!DataRaceFree
  BY DEF AtInv, At!DataRaceFree
<1>3. AtInv /\ QInv => DataRaceFree
  BY <1>1, <1>2 DEF DataRaceFree
<1> QED
  BY <1>3, AtInvariance, QInvariance, PTL

-----------------------------------------------------------------------------
(* LockFreeQueue implements FifoQueue *)

\* Steps along the ring.
LEMMA RingOffset ==
  ASSUME NEW d \in Nat \ {0}, NEW m \in Nat, NEW j \in Nat
  PROVE  ((m % d) + j) % d = (m + j) % d
<1> DEFINE p == m \div d
           r == m % d
           q == (m + j) \div d
           s == (m + j) % d
<1>1. /\ m = d * p + r /\ p \in Int /\ r \in 0 .. (d - 1)
      /\ m + j = d * q + s /\ q \in Int /\ s \in 0 .. (d - 1)
  <2>1. m \in Int /\ m + j \in Int
    OBVIOUS
  <2> QED
    BY <2>1, DivisionWithRemainder
<1> HIDE DEF p, q, r, s
<1>2. d * q \in Int /\ d * p \in Int /\ d * (q - p) = d * q - d * p
  BY <1>1, Z3
<1>3. r + j = d * (q - p) + s /\ q - p \in Int
  BY <1>1, <1>2
<1>4. (r + j) % d = s
  <2>1. r + j \in Int /\ s \in 0 .. (d - 1)
    BY <1>1
  <2> QED
    BY <2>1, <1>3, UniqueRemainder
<1> QED
  BY <1>4 DEF r, s

\* The distance of two cursors less than a turn apart.
LEMMA RingDistance ==
  ASSUME NEW d \in Nat \ {0}, NEW m \in Nat, NEW n \in Nat, m <= n, n < m + d
  PROVE  ((n % d) - (m % d)) % d = n - m
<1> DEFINE p == m \div d
           r == m % d
           q == n \div d
           s == n % d
<1>1. /\ m = d * p + r /\ p \in Int /\ r \in 0 .. (d - 1)
      /\ n = d * q + s /\ q \in Int /\ s \in 0 .. (d - 1)
  BY DivisionWithRemainder
<1> HIDE DEF p, q, r, s
<1>2. d * q \in Int /\ d * p \in Int /\ d * (p - q) = d * p - d * q
  BY <1>1, Z3
<1>3. s - r = d * (p - q) + (n - m) /\ p - q \in Int /\ n - m \in 0 .. (d - 1)
  BY <1>1, <1>2
<1>4. (s - r) % d = n - m
  <2>1. s - r \in Int
    BY <1>1
  <2> QED
    BY <2>1, <1>3, UniqueRemainder
<1> QED
  BY <1>4 DEF r, s

\* Sequences are equal when their values are.
LEMMA AppendedValues ==
  ASSUME NEW V, NEW q \in Seq(V), NEW x \in V, NEW r \in Seq(V), Len(r) = Len(q) + 1,
         \A i \in 1 .. Len(q) : r[i] = q[i], r[Len(q) + 1] = x
  PROVE  r = Append(q, x)
OBVIOUS

LEMMA TailValues ==
  ASSUME NEW V, NEW q \in Seq(V), NEW r \in Seq(V), Len(q) = Len(r) + 1,
         \A i \in 1 .. Len(r) : r[i] = q[i + 1]
  PROVE  r = Tail(q) /\ q # <<>> /\ Head(q) = q[1]
OBVIOUS

\* The values of the queue are those of the places from front_ to back_.
QHolds ==
  /\ Q!Contents \in Seq(QItem)
  /\ Len(Q!Contents) = QBack - QFront
  /\ \A k \in Nat :
       QFront <= k /\ k < QBack => Q!Contents[k - QFront + 1] = Q!Current(SlotAt(k))

LEMMA QContents ==
  ASSUME QBase, QWindow
  PROVE  QHolds
<1>1. /\ QMem /\ QValues /\ QFront \in Nat /\ QBack \in Nat /\ QWritten \in Nat
      /\ capacity \in Nat \ {0}
      /\ QFront <= QBack /\ QBack <= QWritten /\ QWritten < QFront + capacity
      /\ Q!Newest(Q!front_) = QFront + 1 /\ Q!Newest(Q!back_) = QBack + 1
  BY QCursors, QueueConstants DEF QBase, QWindow
<1>2. Q!Current(Q!front_) = QFront % capacity /\ Q!Current(Q!back_) = QBack % capacity
  <2>1. /\ qHist[Q!front_][Q!Newest(Q!front_)].val = (Q!Newest(Q!front_) - 1) % capacity
        /\ qHist[Q!back_][Q!Newest(Q!back_)].val = (Q!Newest(Q!back_) - 1) % capacity
    BY <1>1 DEF QValues, QueueCursor
  <2>2. Q!Newest(Q!front_) - 1 = QFront /\ Q!Newest(Q!back_) - 1 = QBack
    BY <1>1
  <2> QED
    BY <2>1, <2>2 DEF Q!Current
<1>3. (Q!Current(Q!back_) - Q!Current(Q!front_)) % capacity = QBack - QFront
  <2>1. PICK m \in Nat, k \in Nat : m = QFront /\ k = QBack
    BY <1>1
  <2>2. m <= k /\ k < m + capacity
    BY <1>1, <2>1
  <2>3. ((k % capacity) - (m % capacity)) % capacity = k - m
    BY <1>1, <2>2, RingDistance
  <2> QED
    BY <1>2, <2>1, <2>3
<1>4. PICK n \in Nat : n = QBack - QFront
  BY <1>1
<1>5. ASSUME NEW i \in 1 .. n
      PROVE  /\ Q!Slot((Q!Current(Q!front_) + i - 1) % capacity) = SlotAt(QFront + (i - 1))
             /\ Q!Current(SlotAt(QFront + (i - 1))) \in QItem
  <2>1. PICK j \in Nat : j = i - 1 /\ QFront + j \in Nat
    BY <1>1
  <2>2. ((QFront % capacity) + j) % capacity = (QFront + j) % capacity
    BY <1>1, RingOffset
  <2>3. (QFront % capacity) + i - 1 = (QFront % capacity) + j
    <3>1. QFront % capacity \in Nat
      BY <1>1, RingSteps
    <3> QED
      BY <2>1, <3>1
  <2>4. PICK a : a = SlotAt(QFront + j)
    OBVIOUS
  <2>5. a \in QueuePlain /\ a \in QueueLocation
    BY <2>1, <2>4, SlotPlaces
  <2>6. Q!Newest(a) \in 1 .. Q!Newest(a)
    BY <1>1, <2>5, QMemFacts
  <2>7. Q!Current(a) \in QItem
    BY <1>1, <2>5, <2>6 DEF QValues, Q!Current
  <2> QED
    BY <1>2, <2>1, <2>2, <2>3, <2>4, <2>7 DEF SlotAt
<1>6. Q!Contents = [i \in 1 .. n |-> Q!Current(SlotAt(QFront + (i - 1)))]
  <2>1. Q!Contents = [i \in 1 .. n |->
                        Q!Current(Q!Slot((Q!Current(Q!front_) + i - 1) % capacity))]
    BY <1>3, <1>4 DEF Q!Contents
  <2> QED
    BY <1>5, <2>1
<1>7. Q!Contents \in Seq(QItem) /\ Len(Q!Contents) = n
  BY <1>5, <1>6
<1>8. ASSUME NEW k \in Nat, QFront <= k, k < QBack
      PROVE  Q!Contents[k - QFront + 1] = Q!Current(SlotAt(k))
  <2>1. PICK f \in Nat : f = QFront
    BY <1>1
  <2>2. k - f + 1 \in 1 .. n /\ f + ((k - f + 1) - 1) = k
    BY <1>1, <1>4, <1>8, <2>1
  <2>3. Q!Contents[k - f + 1] = Q!Current(SlotAt(f + ((k - f + 1) - 1)))
    BY <1>6, <2>1, <2>2
  <2> QED
    BY <2>1, <2>2, <2>3
<1> QED
  BY <1>4, <1>7, <1>8 DEF QHolds

\* What of QHolds the lemmas on steps use, with names for what changes.
LEMMA HeldBefore ==
  ASSUME QBase, QWindow
  PROVE  \E c \in Seq(QItem), f, b \in Nat :
           /\ c = Q!Contents /\ f = QFront /\ b = QBack /\ f <= b /\ Len(c) = b - f
           /\ \A k \in Nat : f <= k /\ k < b => c[k - f + 1] = Q!Current(SlotAt(k))
<1>1. QFront \in Nat /\ QBack \in Nat /\ QFront <= QBack
  BY QCursors DEF QBase, QWindow
<1> QED
  BY <1>1, QContents DEF QHolds

\* The contents stay while the cursors and the slots between them do.
LEMMA ContentsStay ==
  ASSUME QBase, QWindow, QHolds', QFront' = QFront, QBack' = QBack,
         \A k \in Nat : QFront <= k /\ k < QBack =>
           Q!Current(SlotAt(k))' = Q!Current(SlotAt(k))
  PROVE  Q!Contents' = Q!Contents
<1>1. PICK c \in Seq(QItem), f \in Nat, b \in Nat :
        /\ c = Q!Contents /\ f = QFront /\ b = QBack /\ f <= b /\ Len(c) = b - f
        /\ \A k \in Nat : f <= k /\ k < b => c[k - f + 1] = Q!Current(SlotAt(k))
  BY HeldBefore
<1>2. PICK d : d = Q!Contents'
  OBVIOUS
<1>3. /\ d \in Seq(QItem) /\ Len(d) = b - f
      /\ \A k \in Nat : f <= k /\ k < b => d[k - f + 1] = Q!Current(SlotAt(k))'
  BY <1>1, <1>2 DEF QHolds, QItem
<1>4. ASSUME NEW i \in 1 .. (b - f)
      PROVE  d[i] = c[i]
  <2>1. PICK k \in Nat : k = f + i - 1
    BY <1>1
  <2>2. f <= k /\ k < b /\ k - f + 1 = i
    BY <1>1, <2>1
  <2>3. d[i] = Q!Current(SlotAt(k))' /\ c[i] = Q!Current(SlotAt(k))
    BY <1>1, <1>3, <2>2
  <2> QED
    BY <1>1, <2>2, <2>3
<1>5. d = c
  BY <1>1, <1>3, <1>4
<1> QED
  BY <1>1, <1>2, <1>5

\* A step that stores nothing shows nothing.
LEMMA QuietShows ==
  ASSUME NEW t \in QueueThread, QQuiet(t), qGot' = qGot
  PROVE  UNCHANGED Q!Queue!fifoVars
<1>1. qHist' = qHist /\ qSent' = qSent
  BY DEF QQuiet
<1>2. Q!Contents' = Q!Contents
  BY <1>1 DEF Q!Contents, Q!Current, Q!Newest
<1> QED
  BY <1>1, <1>2 DEF Q!Queue!fifoVars

\* Neither does the read of a slot, or the filling of one that is not published yet.
LEMMA SlotShows ==
  ASSUME QBase, QWindow, QHolds', NEW t \in QueueThread, Q!ReadSlot(t) \/ Q!Fill(t)
  PROVE  UNCHANGED Q!Queue!fifoVars
<1>1. PICK a : a = SlotAt(seenAt[t])
  OBVIOUS
<1>2. CASE Q!ReadSlot(t)
  <2>1. QHasRead(t, a) /\ qSent' = qSent
    BY <1>1, <1>2, QCounts, QReadSlot
  <2>2. QFront' = QFront /\ QBack' = QBack
    BY <2>1, QueuePlaces DEF QHasRead, QFront, QBack, Q!Moves, QueueCursor
  <2>3. \A k \in Nat : Q!Current(SlotAt(k))' = Q!Current(SlotAt(k))
    BY <2>1, SlotPlaces DEF QHasRead
  <2>4. Q!Contents' = Q!Contents
    BY <2>2, <2>3, ContentsStay
  <2>5. qGot' = qGot
    BY <1>2 DEF Q!ReadSlot
  <2> QED
    BY <2>1, <2>4, <2>5 DEF Q!Queue!fifoVars
<1>3. CASE Q!Fill(t)
  <2>1. /\ qPc[t] = "fill" /\ qSent' = qSent /\ QElsewhere(a)
    BY <1>1, <1>3, QCounts, QFill
  <2>2. PICK j \in Nat : j = seenAt[t]
    BY QCounts
  <2>3. /\ QBack <= j /\ j < QWritten
        /\ QFront <= QBack /\ QBack <= QWritten /\ QWritten < QFront + capacity
    BY <2>1, <2>2 DEF QWindow, Within, Claims
  <2>4. QFront' = QFront /\ QBack' = QBack
    BY <1>1, <2>1, <2>2, SlotPlaces, QueuePlaces
       DEF QElsewhere, QFront, QBack, Q!Moves, Q!Newest, QueueCursor
  <2>5. ASSUME NEW k \in Nat, QFront <= k, k < QBack
        PROVE  Q!Current(SlotAt(k))' = Q!Current(SlotAt(k))
    <3>1. SlotAt(k) # a
      BY <1>1, <2>2, <2>3, <2>5, Apart, QCounts
    <3>2. PICK b : b = SlotAt(k)
      OBVIOUS
    <3>3. qHist'[b] = qHist[b]
      BY <2>1, <3>1, <3>2, SlotPlaces DEF QElsewhere
    <3>4. Q!Current(b)' = Q!Current(b)
      BY <3>3 DEF Q!Newest, Q!Current
    <3> QED
      BY <3>2, <3>4
  <2>6. Q!Contents' = Q!Contents
    BY <2>4, <2>5, ContentsStay
  <2>7. qGot' = qGot
    BY <1>3 DEF Q!Fill
  <2> QED
    BY <2>1, <2>6, <2>7 DEF Q!Queue!fifoVars
<1> QED
  BY <1>2, <1>3

\* A claim shows nothing.
LEMMA ClaimShows ==
  ASSUME QBase, QWindow, QHolds', NEW t \in QueueThread, Q!CasWrite(t)
  PROVE  UNCHANGED Q!Queue!fifoVars
<1>1. qSent' = qSent /\ (QQuiet(t) \/ QMoves(t, Q!write_))
  BY QCounts, QCasWrite
<1>2. qGot' = qGot
  BY DEF Q!CasWrite
<1>3. CASE QMoves(t, Q!write_)
  <2>1. /\ \A k \in Nat : Q!Current(SlotAt(k))' = Q!Current(SlotAt(k))
        /\ QFront' = QFront /\ QBack' = QBack
    BY <1>3, MovesNoSlot, MovesOther, QueuePlaces, QCounts
       DEF QMoves, QFront, QBack, Q!Moves, QueueCursor
  <2>2. Q!Contents' = Q!Contents
    BY <2>1, ContentsStay
  <2> QED
    BY <1>1, <1>2, <2>2 DEF Q!Queue!fifoVars
<1> QED
  BY <1>1, <1>2, <1>3, QuietShows

\* A Push appends its value when it moves back_.
LEMMA PublishPushes ==
  ASSUME QBase, QWindow, QSlots, QHolds', NEW t \in QueueThread, Q!CasBack(t)
  PROVE  Q!Queue!Push(t) \/ UNCHANGED Q!Queue!fifoVars
<1>1. /\ qPc[t] = "casBack"
      /\ \/ QQuiet(t)
         \/ QMoves(t, Q!back_) /\ qSent' = [qSent EXCEPT ![t] = @ + 1]
  BY QCounts, QCasBack
<1>2. qGot' = qGot
  BY DEF Q!CasBack, Q!MoveBack
<1>3. CASE QMoves(t, Q!back_) /\ qSent' = [qSent EXCEPT ![t] = @ + 1]
  <2>1. PICK c \in Seq(QItem), f \in Nat, b \in Nat :
          /\ c = Q!Contents /\ f = QFront /\ b = QBack /\ f <= b /\ Len(c) = b - f
          /\ \A k \in Nat : f <= k /\ k < b => c[k - f + 1] = Q!Current(SlotAt(k))
    BY HeldBefore
  <2>2. PICK d, x : d = Q!Contents' /\ x = <<t, qSent[t]>>
    OBVIOUS
  <2>3. seenAt[t] = b /\ b < QWritten
    BY <1>1, <1>3, <2>1, AtBack
  <2>4. /\ \A k \in Nat : Q!Current(SlotAt(k))' = Q!Current(SlotAt(k))
        /\ QFront' = f /\ QBack' = b + 1
    BY <1>3, <2>1, MovesNoSlot, MovesOther, QueuePlaces, QCounts
       DEF QMoves, QFront, QBack, Q!Moves, QueueCursor
  <2>5. /\ d \in Seq(QItem) /\ Len(d) = b + 1 - f
        /\ \A k \in Nat : f <= k /\ k < b + 1 => d[k - f + 1] = Q!Current(SlotAt(k))'
    BY <2>2, <2>4 DEF QHolds, QItem
  <2>6. Q!Current(SlotAt(b)) = x
    BY <1>1, <2>2, <2>3 DEF QSlots, Filled
  <2>7. x \in QItem
    BY <2>2 DEF QItem, QBase, QLocals
  <2>8. ASSUME NEW i \in 1 .. Len(c)
        PROVE  d[i] = c[i]
    <3>1. PICK k \in Nat : k = f + i - 1
      BY <2>1
    <3>2. f <= k /\ k < b /\ k < b + 1 /\ k - f + 1 = i
      BY <2>1, <3>1
    <3>3. d[i] = Q!Current(SlotAt(k))' /\ c[i] = Q!Current(SlotAt(k))
      BY <2>1, <2>5, <3>2
    <3> QED
      BY <2>4, <3>3
  <2>9. d[Len(c) + 1] = x
    <3>1. Len(c) + 1 = b - f + 1 /\ f <= b /\ b < b + 1
      BY <2>1
    <3>2. d[b - f + 1] = Q!Current(SlotAt(b))'
      BY <2>1, <2>5
    <3> QED
      BY <2>4, <2>6, <3>1, <3>2
  <2>10. d = Append(c, x)
    <3>1. Len(d) = Len(c) + 1
      BY <2>1, <2>5
    <3> QED
      BY <2>1, <2>5, <2>7, <2>8, <2>9, <3>1, AppendedValues
  <2>11. Len(c) < capacity - 1
    BY <2>1, <2>3, QCounts DEF QWindow
  <2> QED
    BY <1>2, <1>3, <2>1, <2>2, <2>10, <2>11 DEF Q!Queue!Push, Q!Queue!Item
<1> QED
  BY <1>1, <1>2, <1>3, QuietShows

\* A Pop takes the oldest value when it moves front_.
LEMMA AdvancePops ==
  ASSUME QBase, QWindow, QSlots, QHolds', NEW t \in QueueThread, Q!CasFront(t), ~lapped'
  PROVE  Q!Queue!Pop(t) \/ UNCHANGED Q!Queue!fifoVars
<1>1. /\ qPc[t] = "casFront" /\ qSent' = qSent
      /\ \/ QQuiet(t) /\ qGot' = qGot
         \/ /\ QMoves(t, Q!front_) /\ qGot' = [qGot EXCEPT ![t] = Append(@, result[t])]
            /\ lapped' = (lapped \/ fooled[t] \/ seenAt[t] # QFront)
  BY QCounts, QCasFront
<1>2. CASE /\ QMoves(t, Q!front_) /\ qGot' = [qGot EXCEPT ![t] = Append(@, result[t])]
           /\ lapped' = (lapped \/ fooled[t] \/ seenAt[t] # QFront)
  <2>1. PICK c \in Seq(QItem), f \in Nat, b \in Nat :
          /\ c = Q!Contents /\ f = QFront /\ b = QBack /\ f <= b /\ Len(c) = b - f
          /\ \A k \in Nat : f <= k /\ k < b => c[k - f + 1] = Q!Current(SlotAt(k))
    BY HeldBefore
  <2>2. PICK d : d = Q!Contents'
    OBVIOUS
  <2>3. ~fooled[t] /\ seenAt[t] = QFront
    BY <1>2
  <2>4. f < b
    BY <1>1, <2>1, <2>3 DEF QWindow, Within
  <2>5. /\ \A k \in Nat : Q!Current(SlotAt(k))' = Q!Current(SlotAt(k))
        /\ QFront' = f + 1 /\ QBack' = b
    <3>1. QFront' = QFront + 1
      BY <1>2, QCounts DEF QMoves, QFront, Q!Moves
    <3>2. QBack' = QBack
      BY <1>2, MovesOther, QueuePlaces, QCounts DEF QBack, Q!Moves, QueueCursor
    <3>3. \A k \in Nat : Q!Current(SlotAt(k))' = Q!Current(SlotAt(k))
      BY <1>2, MovesNoSlot, QCounts
    <3> QED
      BY <2>1, <3>1, <3>2, <3>3
  <2>6. /\ d \in Seq(QItem) /\ Len(d) = b - (f + 1)
        /\ \A k \in Nat : f + 1 <= k /\ k < b => d[k - (f + 1) + 1] = Q!Current(SlotAt(k))'
    BY <2>2, <2>5 DEF QHolds, QItem
  <2>7. result[t] = Q!Current(SlotAt(f))
    BY <1>1, <2>1, <2>3 DEF QSlots, Taken
  <2>8. ASSUME NEW i \in 1 .. Len(d)
        PROVE  d[i] = c[i + 1]
    <3>1. PICK k \in Nat : k = f + i
      BY <2>1
    <3>2. f <= k /\ f + 1 <= k /\ k < b /\ k - f + 1 = i + 1 /\ k - (f + 1) + 1 = i
      BY <2>1, <2>6, <3>1
    <3>3. d[k - (f + 1) + 1] = Q!Current(SlotAt(k))'
      BY <2>6, <3>2
    <3>4. c[k - f + 1] = Q!Current(SlotAt(k))
      BY <2>1, <3>2
    <3> QED
      BY <2>5, <3>2, <3>3, <3>4
  <2>9. d = Tail(c) /\ c # <<>> /\ Head(c) = c[1]
    <3>1. Len(c) = Len(d) + 1
      BY <2>1, <2>4, <2>6
    <3> QED
      BY <2>1, <2>6, <2>8, <3>1, TailValues
  <2>10. Head(c) = result[t]
    <3>1. c[f - f + 1] = Q!Current(SlotAt(f))
      BY <2>1, <2>4
    <3>2. f - f + 1 = 1
      BY <2>1
    <3> QED
      BY <2>7, <2>9, <3>1, <3>2
  <2> QED
    BY <1>1, <1>2, <2>1, <2>2, <2>9, <2>10 DEF Q!Queue!Pop
<1> QED
  BY <1>1, <1>2, QuietShows

\* What the queue shows until a thread is lapped.
QShown == ~lapped => QHolds

LEMMA QShows ==
  ASSUME QInv, QShown', NEW t \in QueueThread, Q!Step(t) \/ Q!BecomeVisible(t)
  PROVE  [lapped' \/ Q!Queue!Next]_(Q!Queue!fifoVars)
<1> SUFFICES ASSUME ~lapped'
             PROVE  Q!Queue!Push(t) \/ Q!Queue!Pop(t) \/ UNCHANGED Q!Queue!fifoVars
  BY DEF Q!Queue!Next
<1>1. ~lapped
  BY LappedStays DEF QInv, QBase
<1>2. QBase /\ QWindow /\ QSlots /\ QHolds'
  BY <1>1 DEF QInv, QShown
<1>3. CASE Q!LoadWrite(t) \/ Q!LoadFullFront(t) \/ Q!LoadFront(t) \/ Q!LoadBack(t)
           \/ Q!BecomeVisible(t)
  <2>1. QQuiet(t)
    BY <1>2, <1>3, QCounts, QLoadWrite, QLoadFullFront, QLoadFront, QLoadBack, QBecomeVisible
  <2>2. qGot' = qGot
    BY <1>3 DEF Q!LoadWrite, Q!LoadFullFront, Q!TestFull, Q!LoadFront, Q!LoadBack,
                Q!BecomeVisible
  <2> QED
    BY <2>1, <2>2, QuietShows
<1> QED
  BY <1>2, <1>3, SlotShows, ClaimShows, PublishPushes, AdvancePops DEF Q!Step, Q!Push, Q!Pop

\* LockFreeQueue.cpp: the ring implements a queue of capacity - 1 values until a thread is
\* lapped, for any number of producers and consumers: a Push appends its value, a Pop takes
\* the oldest one, each in one step.
THEOREM RingImplementsFifo == Spec => Q!ImplementsFifoQueue
<1>1. QInv => QShown
  BY QContents DEF QInv, QShown
<1>2. Init => Q!Queue!Init
  <2> SUFFICES ASSUME Init
               PROVE  Q!Queue!Init
    OBVIOUS
  <2>1. QInv /\ lapped = FALSE
    BY QInitInv DEF Init, Q!Init
  <2>2. Len(Q!Contents) = QBack - QFront /\ Q!Contents \in Seq(QItem)
    BY <1>1, <2>1 DEF QShown, QHolds
  <2>3. QBack = 0 /\ QFront = 0
    BY QStarts DEF Init
  <2>4. Q!Contents = <<>>
    BY <2>2, <2>3
  <2> QED
    BY <2>4 DEF Q!Queue!Init, Init, Q!Init
<1>3. ASSUME QInv, QShown', [Next]_vars
      PROVE  [lapped' \/ Q!Queue!Next]_(Q!Queue!fifoVars)
  <2>1. CASE UNCHANGED queueVars
    <3>1. Q!Contents' = Q!Contents /\ qSent' = qSent /\ qGot' = qGot
      BY <2>1 DEF queueVars, Q!Contents, Q!Current, Q!Newest
    <3> QED
      BY <3>1 DEF Q!Queue!fifoVars
  <2>2. CASE Q!Next
    BY <1>3, <2>1, <2>2, QShows DEF Q!Next, Q!Exit, Q!vars, queueVars
  <2> QED
    BY <1>3, <2>1, <2>2 DEF Next, AtomicsStep, QueueStep, StackStep, MutexStep, vars
<1> QED
  BY <1>1, <1>2, <1>3, QInvariance, PTL DEF Spec, Q!ImplementsFifoQueue

-----------------------------------------------------------------------------
(* SafeQueue implements FifoQueue *)

Inside == {"emplace", "test", "front", "pop"}

MItem == M!Caller \X Nat

MTypes ==
  /\ m_queue \in Seq(MItem)
  /\ mPc \in [M!Caller -> Inside \cup {"enqueue", "dequeue", "done"}]
  /\ t_ \in [M!Caller -> Seq(MItem)]
  /\ mSent \in [M!Caller -> 0 .. Calls]
  /\ mGot \in [M!Caller -> Seq(MItem)]

\* The thread inside owns the queue: what it has found there is still there.
Owns(t) ==
  /\ t \in m_mutex <=> mPc[t] \in Inside
  /\ mPc[t] \in {"enqueue", "emplace"} => mSent[t] < Calls
  /\ mPc[t] \in {"front", "pop"} => m_queue # <<>>
  /\ mPc[t] = "pop" => t_[t] = <<Head(m_queue)>>

MInv ==
  /\ MTypes
  /\ m_mutex \subseteq M!Caller /\ \A t, u \in m_mutex : t = u
  /\ \A t \in M!Caller : Owns(t)
  /\ Len(m_queue) <= mSent[1] + mSent[2] + mSent[3] + mSent[4]

LEMMA Callers == M!Caller = 1 .. 4 /\ Calls \in Nat \ {0}
BY ConcurrentAssumption DEF M!Caller

LEMMA MInitInv ==
  ASSUME M!Init
  PROVE  MInv
<1>1. MTypes
  BY Callers DEF M!Init, MTypes, Inside
<1>2. \A t \in M!Caller : Owns(t)
  BY Callers DEF M!Init, Owns, Inside
<1>3. mSent[1] = 0 /\ mSent[2] = 0 /\ mSent[3] = 0 /\ mSent[4] = 0
  BY Callers DEF M!Init
<1>4. m_mutex = {} /\ Len(m_queue) = 0
  BY DEF M!Init
<1> QED
  BY <1>1, <1>2, <1>3, <1>4 DEF MInv

\* The one inside keeps the others out, and leaves them alone.
LEMMA OthersOwn ==
  ASSUME MInv, NEW t \in M!Caller, NEW u \in M!Caller, u # t,
         mPc'[u] = mPc[u], mSent'[u] = mSent[u], t_'[u] = t_[u],
         u \in m_mutex' <=> u \in m_mutex,
         t \in m_mutex \/ m_queue' = m_queue
  PROVE  Owns(u)'
<1>1. Owns(u)
  BY DEF MInv
<1>2. CASE m_queue' = m_queue
  BY <1>1, <1>2 DEF Owns
<1>3. CASE t \in m_mutex
  <2>1. u \notin m_mutex
    BY <1>3 DEF MInv
  <2> QED
    BY <1>1, <2>1 DEF Owns, Inside
<1> QED
  BY <1>2, <1>3

LEMMA EnterInv ==
  ASSUME MInv, NEW t \in M!Caller, M!Enter(t)
  PROVE  MInv'
<1>1. /\ m_mutex = {} /\ m_mutex' = {t}
      /\ \/ mPc[t] = "enqueue" /\ mPc' = [mPc EXCEPT ![t] = "emplace"]
         \/ mPc[t] = "dequeue" /\ mPc' = [mPc EXCEPT ![t] = "test"]
      /\ m_queue' = m_queue /\ t_' = t_ /\ mSent' = mSent /\ mGot' = mGot
  BY DEF M!Enter, M!Goto
<1>2. MTypes'
  BY <1>1 DEF MInv, MTypes, Inside
<1>3. Owns(t)'
  <2>1. Owns(t) /\ ((mPc'[t] = "emplace" /\ mPc[t] = "enqueue") \/ mPc'[t] = "test")
    BY <1>1 DEF MInv, MTypes
  <2> QED
    BY <1>1, <2>1 DEF Owns, Inside
<1>4. ASSUME NEW u \in M!Caller, u # t
      PROVE  Owns(u)'
  <2>1. mPc'[u] = mPc[u]
    BY <1>1, <1>4 DEF MInv, MTypes
  <2> QED
    BY <1>1, <1>4, <2>1, OthersOwn
<1> QED
  BY <1>1, <1>2, <1>3, <1>4 DEF MInv

\* An enqueue appends.
LEMMA EmplaceInv ==
  ASSUME MInv, NEW t \in M!Caller, M!Emplace(t)
  PROVE  MInv' /\ M!Queue!Push(t)
<1>1. /\ mPc[t] = "emplace"
      /\ mPc' = [mPc EXCEPT ![t] = IF mSent[t] + 1 = Calls THEN "done" ELSE "enqueue"]
      /\ m_queue' = Append(m_queue, <<t, mSent[t]>>)
      /\ mSent' = [mSent EXCEPT ![t] = @ + 1]
      /\ m_mutex' = m_mutex \ {t} /\ t_' = t_ /\ mGot' = mGot
  BY DEF M!Emplace, M!Goto, M!Leave
<1>2. /\ MTypes /\ Owns(t) /\ t \in m_mutex
      /\ Len(m_queue) <= mSent[1] + mSent[2] + mSent[3] + mSent[4]
  BY <1>1 DEF MInv, Owns, Inside
<1>3. mSent[t] < Calls /\ mSent[t] \in Nat /\ Calls \in Nat
  <2>1. mSent[t] \in 0 .. Calls
    BY <1>2 DEF MTypes
  <2>2. mSent[t] < Calls
    BY <1>1, <1>2 DEF Owns
  <2> QED
    BY <2>1, <2>2, Callers
<1>4. <<t, mSent[t]>> \in MItem
  BY <1>3 DEF MItem
<1>5. MTypes'
  <2>1. m_queue' \in Seq(MItem)
    BY <1>1, <1>2, <1>4 DEF MTypes
  <2>2. mSent' \in [M!Caller -> 0 .. Calls]
    <3>1. mSent \in [M!Caller -> 0 .. Calls]
      BY <1>2 DEF MTypes
    <3>2. mSent[t] + 1 \in 0 .. Calls
      BY <1>3
    <3> QED
      BY <1>1, <3>1, <3>2
  <2>3. mPc' \in [M!Caller -> Inside \cup {"enqueue", "dequeue", "done"}]
    BY <1>1, <1>2 DEF MTypes
  <2> QED
    BY <1>1, <1>2, <2>1, <2>2, <2>3 DEF MTypes
<1>6. Owns(t)'
  <2>1. mPc'[t] = IF mSent[t] + 1 = Calls THEN "done" ELSE "enqueue"
    BY <1>1, <1>2 DEF MTypes
  <2>2. mSent'[t] = mSent[t] + 1 /\ t \notin m_mutex'
    BY <1>1, <1>2 DEF MTypes
  <2> QED
    BY <1>3, <2>1, <2>2, Callers DEF Owns, Inside
<1>7. ASSUME NEW u \in M!Caller, u # t
      PROVE  Owns(u)'
  <2>1. /\ mPc'[u] = mPc[u] /\ mSent'[u] = mSent[u] /\ t_'[u] = t_[u]
        /\ u \in m_mutex' <=> u \in m_mutex
    BY <1>1, <1>2, <1>7 DEF MTypes
  <2> QED
    BY <1>2, <1>7, <2>1, OthersOwn
<1>8. /\ mSent[1] \in 0 .. Calls /\ mSent[2] \in 0 .. Calls /\ mSent[3] \in 0 .. Calls
      /\ mSent[4] \in 0 .. Calls /\ Len(m_queue) \in Nat /\ t \in 1 .. 4
  BY <1>2, Callers DEF MTypes
<1>9. /\ Len(m_queue') = Len(m_queue) + 1
      /\ mSent'[1] + mSent'[2] + mSent'[3] + mSent'[4]
         = mSent[1] + mSent[2] + mSent[3] + mSent[4] + 1
  <2>1. Len(m_queue') = Len(m_queue) + 1
    BY <1>1, <1>2, <1>4 DEF MTypes
  <2>2. /\ mSent'[t] = mSent[t] + 1
        /\ \A u \in 1 .. 4 : u # t => mSent'[u] = mSent[u]
    BY <1>1, <1>2, Callers DEF MTypes
  <2>3. PICK a \in Nat, b \in Nat, c \in Nat, d \in Nat :
          a = mSent[1] /\ b = mSent[2] /\ c = mSent[3] /\ d = mSent[4]
    BY <1>3, <1>8
  <2>4. mSent'[1] + mSent'[2] + mSent'[3] + mSent'[4] = a + b + c + d + 1
    <3>1. CASE t = 1
      <4>1. mSent'[1] = a + 1 /\ mSent'[2] = b /\ mSent'[3] = c /\ mSent'[4] = d
        BY <2>2, <2>3, <3>1
      <4> QED
        BY <4>1
    <3>2. CASE t = 2
      <4>1. mSent'[1] = a /\ mSent'[2] = b + 1 /\ mSent'[3] = c /\ mSent'[4] = d
        BY <2>2, <2>3, <3>2
      <4> QED
        BY <4>1
    <3>3. CASE t = 3
      <4>1. mSent'[1] = a /\ mSent'[2] = b /\ mSent'[3] = c + 1 /\ mSent'[4] = d
        BY <2>2, <2>3, <3>3
      <4> QED
        BY <4>1
    <3>4. CASE t = 4
      <4>1. mSent'[1] = a /\ mSent'[2] = b /\ mSent'[3] = c /\ mSent'[4] = d + 1
        BY <2>2, <2>3, <3>4
      <4> QED
        BY <4>1
    <3> QED
      BY <1>8, <3>1, <3>2, <3>3, <3>4
  <2>5. mSent[1] + mSent[2] + mSent[3] + mSent[4] + 1 = a + b + c + d + 1
    BY <2>3
  <2> QED
    BY <2>1, <2>4, <2>5
<1>10. MInv'
  <2>1. Len(m_queue') <= mSent'[1] + mSent'[2] + mSent'[3] + mSent'[4]
    BY <1>2, <1>8, <1>9
  <2>2. m_mutex' \subseteq M!Caller /\ \A u, w \in m_mutex' : u = w
    BY <1>1 DEF MInv
  <2> QED
    BY <1>5, <1>6, <1>7, <2>1, <2>2 DEF MInv
<1>11. Len(m_queue) < 10 * Calls
  BY <1>2, <1>8, Callers
<1> QED
  BY <1>1, <1>10, <1>11 DEF M!Queue!Push, M!Queue!Item

LEMMA TestInv ==
  ASSUME MInv, NEW t \in M!Caller, M!Test(t)
  PROVE  MInv'
<1>1. /\ mPc[t] = "test"
      /\ mPc' = [mPc EXCEPT ![t] = IF m_queue = <<>> THEN "dequeue" ELSE "front"]
      /\ m_mutex' = IF m_queue = <<>> THEN m_mutex \ {t} ELSE m_mutex
      /\ m_queue' = m_queue /\ t_' = t_ /\ mSent' = mSent /\ mGot' = mGot
  BY DEF M!Test, M!Goto, M!Leave
<1>2. MTypes /\ Owns(t) /\ t \in m_mutex
  BY <1>1 DEF MInv, Owns, Inside
<1>3. MTypes'
  BY <1>1, <1>2 DEF MTypes, Inside
<1>4. Owns(t)'
  <2>1. mPc'[t] = IF m_queue = <<>> THEN "dequeue" ELSE "front"
    BY <1>1, <1>2 DEF MTypes
  <2> QED
    BY <1>1, <1>2, <2>1 DEF Owns, Inside
<1>5. ASSUME NEW u \in M!Caller, u # t
      PROVE  Owns(u)'
  <2>1. mPc'[u] = mPc[u] /\ (u \in m_mutex' <=> u \in m_mutex)
    BY <1>1, <1>2, <1>5 DEF MTypes
  <2> QED
    BY <1>1, <1>2, <1>5, <2>1, OthersOwn
<1> QED
  BY <1>1, <1>3, <1>4, <1>5 DEF MInv

LEMMA FrontInv ==
  ASSUME MInv, NEW t \in M!Caller, M!Front(t)
  PROVE  MInv'
<1>1. /\ mPc[t] = "front" /\ mPc' = [mPc EXCEPT ![t] = "pop"]
      /\ t_' = [t_ EXCEPT ![t] = IF m_queue = <<>> THEN <<>> ELSE <<Head(m_queue)>>]
      /\ m_queue' = m_queue /\ m_mutex' = m_mutex /\ mSent' = mSent /\ mGot' = mGot
  BY DEF M!Front, M!Goto
<1>2. MTypes /\ Owns(t) /\ t \in m_mutex /\ m_queue # <<>>
  BY <1>1 DEF MInv, Owns, Inside
<1>3. Head(m_queue) \in MItem
  BY <1>2 DEF MTypes
<1>4. MTypes'
  BY <1>1, <1>2, <1>3 DEF MTypes, Inside
<1>5. Owns(t)'
  <2>1. mPc'[t] = "pop" /\ t_'[t] = <<Head(m_queue)>>
    BY <1>1, <1>2 DEF MTypes
  <2> QED
    BY <1>1, <1>2, <2>1 DEF Owns, Inside
<1>6. ASSUME NEW u \in M!Caller, u # t
      PROVE  Owns(u)'
  <2>1. mPc'[u] = mPc[u] /\ t_'[u] = t_[u]
    BY <1>1, <1>2, <1>6 DEF MTypes
  <2> QED
    BY <1>1, <1>2, <1>6, <2>1, OthersOwn
<1> QED
  BY <1>1, <1>4, <1>5, <1>6 DEF MInv

\* A dequeue takes the oldest value.
LEMMA PopInv ==
  ASSUME MInv, NEW t \in M!Caller, M!Pop(t)
  PROVE  MInv' /\ M!Queue!Pop(t)
<1>1. /\ mPc[t] = "pop"
      /\ mPc' = [mPc EXCEPT ![t] = IF Len(mGot[t]) + 1 = Calls THEN "done" ELSE "dequeue"]
      /\ m_queue' = IF m_queue = <<>> THEN <<>> ELSE Tail(m_queue)
      /\ mGot' = [mGot EXCEPT ![t] = @ \o t_[t]]
      /\ t_' = [t_ EXCEPT ![t] = <<>>]
      /\ m_mutex' = m_mutex \ {t} /\ mSent' = mSent
  BY DEF M!Pop, M!Goto, M!Leave
<1>2. /\ MTypes /\ Owns(t) /\ t \in m_mutex /\ m_queue # <<>>
      /\ t_[t] = <<Head(m_queue)>>
      /\ Len(m_queue) <= mSent[1] + mSent[2] + mSent[3] + mSent[4]
  BY <1>1 DEF MInv, Owns, Inside
<1>3. /\ m_queue' = Tail(m_queue) /\ m_queue' \in Seq(MItem)
      /\ Len(m_queue') = Len(m_queue) - 1 /\ Len(m_queue) \in Nat
  BY <1>1, <1>2 DEF MTypes
<1>4. mGot[t] \o t_[t] \in Seq(MItem) /\ mGot[t] \o t_[t] = Append(mGot[t], Head(m_queue))
  <2>1. mGot[t] \in Seq(MItem) /\ Head(m_queue) \in MItem
    BY <1>2 DEF MTypes
  <2> QED
    BY <1>2, <2>1
<1>5. MTypes'
  <2>1. mGot' \in [M!Caller -> Seq(MItem)]
    BY <1>1, <1>2, <1>4 DEF MTypes
  <2>2. t_' \in [M!Caller -> Seq(MItem)]
    BY <1>1, <1>2 DEF MTypes
  <2>3. mPc' \in [M!Caller -> Inside \cup {"enqueue", "dequeue", "done"}]
    BY <1>1, <1>2 DEF MTypes
  <2> QED
    BY <1>1, <1>2, <1>3, <2>1, <2>2, <2>3 DEF MTypes
<1>6. Owns(t)'
  <2>1. mPc'[t] \in {"done", "dequeue"} /\ t \notin m_mutex'
    BY <1>1, <1>2 DEF MTypes
  <2> QED
    BY <2>1 DEF Owns, Inside
<1>7. ASSUME NEW u \in M!Caller, u # t
      PROVE  Owns(u)'
  <2>1. /\ mPc'[u] = mPc[u] /\ mSent'[u] = mSent[u] /\ t_'[u] = t_[u]
        /\ u \in m_mutex' <=> u \in m_mutex
    BY <1>1, <1>2, <1>7 DEF MTypes
  <2> QED
    BY <1>2, <1>7, <2>1, OthersOwn
<1>8. Len(m_queue') <= mSent'[1] + mSent'[2] + mSent'[3] + mSent'[4]
  <2>1. /\ mSent[1] \in Nat /\ mSent[2] \in Nat /\ mSent[3] \in Nat /\ mSent[4] \in Nat
    BY <1>2, Callers DEF MTypes
  <2> QED
    BY <1>1, <1>2, <1>3, <2>1
<1>9. MInv'
  <2>1. m_mutex' \subseteq M!Caller /\ \A u, w \in m_mutex' : u = w
    BY <1>1 DEF MInv
  <2> QED
    BY <1>5, <1>6, <1>7, <1>8, <2>1 DEF MInv
<1>10. mGot' = [mGot EXCEPT ![t] = Append(@, Head(m_queue))]
  BY <1>1, <1>4
<1> QED
  BY <1>1, <1>2, <1>3, <1>9, <1>10 DEF M!Queue!Pop

\* A step of SafeQueue is a step of FifoQueue or none.
LEMMA MStepInv ==
  ASSUME MInv, M!Next \/ UNCHANGED mutexVars
  PROVE  MInv' /\ [M!Queue!Next]_(M!Queue!fifoVars)
<1>1. CASE UNCHANGED mutexVars
  BY <1>1 DEF mutexVars, MInv, MTypes, Owns, M!Queue!fifoVars
<1>2. CASE M!Ended /\ UNCHANGED M!vars
  BY <1>1, <1>2 DEF mutexVars, M!vars
<1>3. ASSUME NEW t \in M!Caller, M!Enter(t) \/ M!Test(t) \/ M!Front(t)
      PROVE  MInv' /\ UNCHANGED M!Queue!fifoVars
  <2>1. MInv'
    BY <1>3, EnterInv, TestInv, FrontInv
  <2>2. m_queue' = m_queue /\ mSent' = mSent /\ mGot' = mGot
    BY <1>3 DEF M!Enter, M!Test, M!Front
  <2> QED
    BY <2>1, <2>2 DEF M!Queue!fifoVars
<1>4. ASSUME NEW t \in M!Caller, M!Emplace(t) \/ M!Pop(t)
      PROVE  MInv' /\ M!Queue!Next
  BY <1>4, EmplaceInv, PopInv DEF M!Queue!Next
<1> QED
  BY <1>1, <1>2, <1>3, <1>4 DEF M!Next, M!Step

LEMMA MutexQueueImplementsFifo == Spec => M!ImplementsFifoQueue
<1>1. Init => MInv /\ M!Queue!Init
  BY MInitInv DEF Init, M!Init, M!Queue!Init
<1>2. [Next]_vars => M!Next \/ UNCHANGED mutexVars
  BY DEF Next, AtomicsStep, QueueStep, StackStep, MutexStep, vars
<1> QED
  BY <1>1, <1>2, MStepInv, PTL DEF Spec, M!ImplementsFifoQueue, M!Queue!Spec

\* LockFreeQueue.cpp and SafeQueue.cpp: under any interleaving, with stores that become
\* visible late and for any size of the ring, a push appends and a pop takes the oldest
\* value, each in one step to the other threads; the ring until a thread is lapped.
THEOREM QueuesImplementFifo == Spec => ImplementsFifoQueue
BY RingImplementsFifo, MutexQueueImplementsFifo DEF ImplementsFifoQueue

-----------------------------------------------------------------------------
(* LockFreeStack: its state, and what always holds of it *)

SPushing == {"pushLoad", "new", "casPush"}
SPopping == {"popLoad", "readNext", "casPop", "take"}

Place == Address \cup {Null}
SItem == StackThread \X Nat
SNode == [data : SItem, next : Place]

SLocal(t) ==
  /\ sSent[t] <= sQuota.push[t] /\ Len(sGot[t]) <= sQuota.pop[t]
  /\ sPc[t] \in SPushing => sSent[t] < sQuota.push[t]
  /\ sPc[t] \in SPopping => Len(sGot[t]) < sQuota.pop[t]
  /\ sPc[t] = "casPush" => mine[t] \in Address
  /\ sPc[t] \in {"readNext", "casPop", "take"} => cur[t] \in Address

STypes ==
  /\ sQuota \in StackSetup
  /\ head \in Place /\ node \in [Address -> SNode \cup {Freed}]
  /\ sPc \in [StackThread -> SPushing \cup SPopping \cup {"done"}]
  /\ cur \in [StackThread -> Place] /\ mine \in [StackThread -> Place]
  /\ next \in [StackThread -> Place]
  /\ sSent \in [StackThread -> Nat] /\ sGot \in [StackThread -> Seq(SItem)]
  /\ broken \in BOOLEAN
  /\ \A t \in StackThread : SLocal(t)

\* The node of an owner is there, and one that is to be pushed has its owner's value and is
\* linked to the head that its owner has seen.
Keeps(t) ==
  /\ sPc[t] = "casPush" => /\ node[mine[t]] # Freed /\ node[mine[t]].next = cur[t]
                           /\ node[mine[t]].data = <<t, sSent[t]>>
  /\ sPc[t] = "take" => node[cur[t]] # Freed

SOwners ==
  /\ \A t \in StackThread : Keeps(t)
  /\ \A a \in Address : \A t, u \in S!Owners(a) : t = u

\* A node that is linked: nobody owns it.
Free(a) == node[a] # Freed /\ S!Owners(a) = {}

\* c lists the nodes of a chain from h that ends with Null, each once.
Chained(c, h, n) ==
  /\ c \in Seq(Address)
  /\ \A i, j \in 1 .. Len(c) : c[i] = c[j] => i = j
  /\ \A i \in 1 .. Len(c) : n[c[i]] # Freed
  /\ \A i \in 1 .. (Len(c) - 1) : n[c[i]].next = c[i + 1]
  /\ c = <<>> => h = Null
  /\ c # <<>> => c[1] = h /\ n[c[Len(c)]].next = Null

SChain ==
  /\ Chained(S!Chain, head, node)
  /\ \A a \in Address : Free(a) <=> \E i \in 1 .. Len(S!Chain) : S!Chain[i] = a

SAlone == \A t, u \in S!Popper : t = u

\* The only popper looks at a node that nobody else takes, and knows its successor.
Sure(t) ==
  /\ sPc[t] \in {"readNext", "casPop"} => Free(cur[t])
  /\ sPc[t] = "casPop" => next[t] = node[cur[t]].next

SInv ==
  /\ STypes
  /\ broken => ~SAlone
  /\ ~broken => SOwners /\ SChain
  /\ ~broken /\ SAlone => \A t \in StackThread : Sure(t)

-----------------------------------------------------------------------------
(* The chain of nodes *)

NatLess == OpToRel(<, Nat)

\* The least number of a set of natural numbers: what induction is by.
LEMMA LeastNumber ==
  ASSUME NEW T, T \subseteq Nat, T # {}
  PROVE  \E n \in T : \A m \in T : n <= m
<1>1. NatLess = {p \in Nat \X Nat : p[1] < p[2]}
  BY DEF NatLess, OpToRel
<1>2. IsWellFoundedOn(NatLess, Nat)
  BY NatLessThanWellFounded DEF NatLess
<1>3. PICK n \in T : \A m \in T : ~ (<<m, n>> \in NatLess)
  BY <1>2, WFMin
<1>4. ASSUME NEW m \in T, m < n
      PROVE  FALSE
  <2>1. PICK p : p = <<m, n>>
    OBVIOUS
  <2>2. p \in Nat \X Nat /\ p[1] < p[2]
    BY <1>4, <2>1
  <2>3. p \in NatLess
    BY <1>1, <2>2
  <2> QED
    BY <1>3, <2>1, <2>3
<1> QED
  BY <1>4

LEMMA StackConstants ==
  /\ IsFiniteSet(Address) /\ Null \notin Address /\ Freed \notin SNode
  /\ S!Cardinality(Address) = Cardinality(Address)
  /\ Cardinality(Address) \in Nat
<1>1. IsFiniteSet(Address) /\ Null \notin Address /\ Freed \notin SNode
  BY ConcurrentAssumption DEF SNode, SItem, Place
<1>2. S!Cardinality(Address) = Cardinality(Address)
  BY DEF S!Cardinality, Cardinality
<1>3. Cardinality(Address) \in Nat
  BY <1>1, FS_CardinalityType
<1> QED
  BY <1>1, <1>2, <1>3

\* A list without repetition is no longer than there are addresses.
LEMMA NoLonger ==
  ASSUME NEW c \in Seq(Address), \A i, j \in 1 .. Len(c) : c[i] = c[j] => i = j
  PROVE  Len(c) <= Cardinality(Address)
<1>1. PICK k \in Nat : k = Len(c)
  OBVIOUS
<1>2. c \in [1 .. k -> Address]
  BY <1>1
<1>3. c \in Injection(1 .. k, Address)
  BY <1>1, <1>2 DEF Injection, IsInjective
<1>4. Cardinality(1 .. k) <= Cardinality(Address)
  BY <1>3, StackConstants, FS_Injection
<1>5. Cardinality(1 .. k) = k
  <2>1. 1 \in Int /\ k \in Int /\ (IF 1 > k THEN 0 ELSE k - 1 + 1) = k
    BY <1>1
  <2>2. Cardinality(1 .. k) = IF 1 > k THEN 0 ELSE k - 1 + 1
    BY <2>1, FS_Interval
  <2> QED
    BY <2>1, <2>2
<1> QED
  BY <1>1, <1>4, <1>5

\* There is no other list that leads on like a chain.
LEMMA OneChain ==
  ASSUME NEW h, NEW n, NEW c, Chained(c, h, n), NEW d \in Seq(Address),
         Len(d) <= Cardinality(Address), S!Leads(d, h, n)
  PROVE  d = c
<1>1. /\ c \in Seq(Address) /\ Len(c) \in Nat /\ Len(d) \in Nat
      /\ Cardinality(Address) \in Nat /\ Null \notin Address
  BY StackConstants DEF Chained
<1>2. ASSUME NEW i \in Nat, i \in 1 .. Len(c), i \in 1 .. Len(d)
      PROVE  c[i] = d[i]
  <2> DEFINE T == {j \in Nat : j \in 1 .. Len(c) /\ j \in 1 .. Len(d) /\ c[j] # d[j]}
  <2> SUFFICES ASSUME T # {}
               PROVE  FALSE
    BY <1>2
  <2>1. PICK j \in T : \A m \in T : j <= m
    BY LeastNumber
  <2>2. j \in Nat /\ j \in 1 .. Len(c) /\ j \in 1 .. Len(d) /\ c[j] # d[j]
    BY <2>1
  <2>3. CASE j = 1
    BY <1>1, <2>2, <2>3 DEF Chained, S!Leads
  <2>4. CASE j # 1
    <3>1. PICK m \in Nat : m = j - 1
      BY <2>2, <2>4
    <3>2. /\ m \in 1 .. Len(c) /\ m \in 1 .. Len(d) /\ m \in 1 .. (Len(c) - 1)
          /\ m \in 1 .. (Len(d) - 1) /\ m + 1 = j /\ ~(j <= m)
      BY <1>1, <2>2, <2>4, <3>1
    <3>3. c[m] = d[m]
      BY <2>1, <3>2
    <3>4. n[c[m]].next = c[m + 1]
      BY <3>2 DEF Chained
    <3>5. d[m + 1] = n[d[m]].next
      BY <3>2 DEF S!Leads
    <3> QED
      BY <2>2, <3>2, <3>3, <3>4, <3>5
  <2> QED
    BY <2>3, <2>4
<1>3. Len(c) <= Cardinality(Address)
  BY <1>1, NoLonger DEF Chained
<1>4. c = <<>> <=> d = <<>>
  <2>1. c # <<>> => h \in Address
    BY <1>1 DEF Chained
  <2>2. d # <<>> => h \in Address
    BY <1>1 DEF S!Leads
  <2> QED
    BY <1>1, <2>1, <2>2 DEF Chained, S!Leads
<1>5. Len(d) >= Len(c)
  <2> SUFFICES ASSUME Len(d) < Len(c)
               PROVE  FALSE
    BY <1>1
  <2>1. PICK k \in Nat : k = Len(d)
    BY <1>1
  <2>2. k > 0
    <3>1. d # <<>>
      BY <1>1, <1>4
    <3> QED
      BY <2>1, <3>1
  <2>3. k \in 1 .. Len(c) /\ k \in 1 .. Len(d) /\ k \in 1 .. (Len(c) - 1)
    BY <1>1, <2>1, <2>2
  <2>4. c[k] = d[k]
    BY <1>2, <2>3
  <2>5. n[c[k]] # Freed /\ n[c[k]].next = c[k + 1] /\ c[k + 1] \in Address
    <3>1. k + 1 \in 1 .. Len(c)
      BY <1>1, <2>3
    <3> QED
      BY <1>1, <2>3, <3>1 DEF Chained
  <2>6. d # <<>>
    BY <2>1, <2>2
  <2>7. Len(d) = Cardinality(Address) \/ n[d[k]] = Freed \/ n[d[k]].next = Null
    BY <2>1, <2>6, StackConstants DEF S!Leads
  <2>8. Len(d) # Cardinality(Address)
    BY <1>1, <1>3
  <2> QED
    BY <1>1, <2>4, <2>5, <2>7, <2>8
<1>6. Len(d) <= Len(c)
  <2> SUFFICES ASSUME Len(d) > Len(c)
               PROVE  FALSE
    BY <1>1
  <2>1. PICK k \in Nat : k = Len(c)
    BY <1>1
  <2>2. c # <<>> /\ k > 0
    <3>1. d # <<>>
      BY <1>1
    <3> QED
      BY <1>1, <1>4, <2>1, <3>1
  <2>3. k \in 1 .. Len(c) /\ k \in 1 .. Len(d) /\ k \in 1 .. (Len(d) - 1)
    BY <1>1, <2>1, <2>2
  <2>4. c[k] = d[k]
    BY <1>2, <2>3
  <2>5. n[c[k]].next = Null
    BY <2>1, <2>2 DEF Chained
  <2>6. d[k + 1] = n[d[k]].next
    BY <2>3 DEF S!Leads
  <2>7. d[k + 1] \in Address
    <3>1. k + 1 \in 1 .. Len(d)
      BY <1>1, <2>3
    <3> QED
      BY <3>1
  <2> QED
    BY <1>1, <2>4, <2>5, <2>6, <2>7
<1>7. Len(d) = Len(c) /\ \A i \in 1 .. Len(c) : d[i] = c[i]
  BY <1>1, <1>2, <1>5, <1>6
<1> QED
  BY <1>1, <1>7

\* A chain is the list that Chain picks.
LEMMA ChainIs ==
  ASSUME NEW h, NEW n, NEW c, Chained(c, h, n)
  PROVE  c = CHOOSE d \in UNION {[1 .. k -> Address] : k \in 0 .. S!Cardinality(Address)} :
               S!Leads(d, h, n)
<1> DEFINE Lists == UNION {[1 .. k -> Address] : k \in 0 .. S!Cardinality(Address)}
<1>1. c \in Lists
  <2>1. c \in Seq(Address) /\ Len(c) <= Cardinality(Address)
    BY NoLonger DEF Chained
  <2>2. PICK k \in Nat : k = Len(c) /\ k \in 0 .. Cardinality(Address)
    BY <2>1, StackConstants
  <2>3. c \in [1 .. k -> Address]
    BY <2>1, <2>2
  <2> QED
    BY <2>2, <2>3, StackConstants
<1>2. S!Leads(c, h, n)
  <2>1. /\ c \in Seq(Address) /\ Len(c) \in Nat
        /\ c = <<>> => h = Null
        /\ c # <<>> => c[1] = h /\ n[c[Len(c)]].next = Null
        /\ \A i \in 1 .. Len(c) : n[c[i]] # Freed
        /\ \A i \in 1 .. (Len(c) - 1) : n[c[i]].next = c[i + 1]
    BY DEF Chained
  <2>2. c # <<>> => h # Null
    <3> SUFFICES ASSUME c # <<>>
                 PROVE  h # Null
      OBVIOUS
    <3>1. c[1] \in Address
      BY <2>1
    <3> QED
      BY <2>1, <3>1, StackConstants
  <2>3. \A i \in 1 .. (Len(c) - 1) : n[c[i]] # Freed /\ c[i + 1] = n[c[i]].next
    BY <2>1
  <2> QED
    BY <2>1, <2>2, <2>3 DEF S!Leads
<1>3. ASSUME NEW d \in Lists, S!Leads(d, h, n)
      PROVE  d = c
  <2>1. PICK k \in 0 .. Cardinality(Address) : d \in [1 .. k -> Address]
    BY StackConstants
  <2>2. d \in Seq(Address) /\ Len(d) = k
    BY <2>1, StackConstants
  <2>3. Len(d) <= Cardinality(Address)
    BY <2>2, StackConstants
  <2> QED
    BY <1>3, <2>2, <2>3, OneChain
<1> HIDE DEF Lists
<1>4. \A d \in Lists : S!Leads(d, h, n) <=> d = c
  BY <1>1, <1>2, <1>3
<1>5. c = CHOOSE d \in Lists : S!Leads(d, h, n)
  BY <1>1, <1>4
<1> QED
  BY <1>5 DEF Lists

\* The chain and the free nodes after a step.
LEMMA NewChain ==
  ASSUME NEW c, NEW h, NEW n, h = head', n = node', Chained(c, h, n),
         \A a \in Address : Free(a)' <=> \E i \in 1 .. Len(c) : c[i] = a
  PROVE  SChain' /\ S!Chain' = c
<1>1. c = CHOOSE d \in UNION {[1 .. k -> Address] : k \in 0 .. S!Cardinality(Address)} :
            S!Leads(d, h, n)
  BY ChainIs
<1>2. S!Chain' = c
  BY <1>1 DEF S!Chain
<1>3. Chained(S!Chain, head, node)'
  BY <1>2 DEF Chained
<1> QED
  BY <1>2, <1>3 DEF SChain

\* Chains before and after a step: one that stays,
LEMMA ChainedSame ==
  ASSUME NEW c, NEW h, NEW n, NEW m, Chained(c, h, n),
         \A i \in 1 .. Len(c) : m[c[i]] = n[c[i]]
  PROVE  Chained(c, h, m)
<1>1. c \in Seq(Address) /\ Len(c) \in Nat
  BY DEF Chained
<1>2. c # <<>> => Len(c) \in 1 .. Len(c)
  BY <1>1
<1>3. \A i \in 1 .. (Len(c) - 1) : i \in 1 .. Len(c)
  BY <1>1
<1> QED
  BY <1>1, <1>2, <1>3 DEF Chained

\* one that a node is put before,
LEMMA ChainedPush ==
  ASSUME NEW c, NEW h, NEW n, NEW a \in Address, Chained(c, h, n),
         \A i \in 1 .. Len(c) : c[i] # a, n[a] # Freed, n[a].next = h
  PROVE  /\ Chained(<<a>> \o c, a, n) /\ <<a>> \o c \in Seq(Address)
         /\ Len(<<a>> \o c) = Len(c) + 1
         /\ \A i \in 1 .. (Len(c) + 1) : (<<a>> \o c)[i] = IF i = 1 THEN a ELSE c[i - 1]
<1>1. c \in Seq(Address) /\ Len(c) \in Nat
  BY DEF Chained
<1>2. PICK d : d = <<a>> \o c
  OBVIOUS
<1>3. /\ d \in Seq(Address) /\ Len(d) = Len(c) + 1
      /\ \A i \in 1 .. (Len(c) + 1) : d[i] = IF i = 1 THEN a ELSE c[i - 1]
  BY <1>1, <1>2
<1>4. \A i, j \in 1 .. Len(d) : d[i] = d[j] => i = j
  <2> SUFFICES ASSUME NEW i \in 1 .. Len(d), NEW j \in 1 .. Len(d), d[i] = d[j]
               PROVE  i = j
    OBVIOUS
  <2>1. i = 1 <=> j = 1
    <3>1. i # 1 => i - 1 \in 1 .. Len(c) /\ d[i] = c[i - 1]
      BY <1>1, <1>3
    <3>2. j # 1 => j - 1 \in 1 .. Len(c) /\ d[j] = c[j - 1]
      BY <1>1, <1>3
    <3>3. d[1] = a
      BY <1>1, <1>3
    <3> QED
      BY <3>1, <3>2, <3>3
  <2>2. CASE i # 1
    <3>1. /\ i - 1 \in 1 .. Len(c) /\ d[i] = c[i - 1]
          /\ j - 1 \in 1 .. Len(c) /\ d[j] = c[j - 1]
      BY <1>1, <1>3, <2>1, <2>2
    <3>2. i - 1 = j - 1
      BY <3>1 DEF Chained
    <3> QED
      BY <3>2
  <2> QED
    BY <2>1, <2>2
<1>5. \A i \in 1 .. Len(d) : n[d[i]] # Freed
  <2> SUFFICES ASSUME NEW i \in 1 .. Len(d)
               PROVE  n[d[i]] # Freed
    OBVIOUS
  <2>1. i # 1 => i - 1 \in 1 .. Len(c) /\ d[i] = c[i - 1]
    BY <1>1, <1>3
  <2>2. i = 1 => d[i] = a
    BY <1>1, <1>3
  <2> QED
    BY <2>1, <2>2 DEF Chained
<1>6. \A i \in 1 .. (Len(d) - 1) : n[d[i]].next = d[i + 1]
  <2> SUFFICES ASSUME NEW i \in 1 .. (Len(d) - 1)
               PROVE  n[d[i]].next = d[i + 1]
    OBVIOUS
  <2>1. i \in 1 .. Len(c) /\ d[i + 1] = c[i]
    <3>1. i + 1 \in 1 .. (Len(c) + 1) /\ i + 1 # 1 /\ (i + 1) - 1 = i /\ i \in 1 .. Len(c)
      BY <1>1, <1>3
    <3> QED
      BY <1>3, <3>1
  <2>2. CASE i = 1
    <3>1. d[i] = a /\ c # <<>>
      BY <1>1, <1>3, <2>1, <2>2
    <3> QED
      BY <2>1, <2>2, <3>1 DEF Chained
  <2>3. CASE i # 1
    <3>1. i - 1 \in 1 .. (Len(c) - 1) /\ d[i] = c[i - 1] /\ (i - 1) + 1 = i
      BY <1>1, <1>3, <2>1, <2>3
    <3>2. n[c[i - 1]].next = c[(i - 1) + 1]
      BY <3>1 DEF Chained
    <3> QED
      BY <2>1, <3>1, <3>2
  <2> QED
    BY <2>2, <2>3
<1>7. d # <<>> /\ d[1] = a
  BY <1>1, <1>3
<1>8. n[d[Len(d)]].next = Null
  <2>1. CASE c = <<>>
    <3>1. Len(d) = 1
      BY <1>3, <2>1
    <3> QED
      BY <1>7, <2>1, <3>1 DEF Chained
  <2>2. CASE c # <<>>
    <3>1. Len(c) > 0
      BY <1>1, <2>2
    <3>2. d[Len(d)] = c[Len(c)]
      BY <1>1, <1>3, <3>1
    <3> QED
      BY <2>2, <3>2 DEF Chained
  <2> QED
    BY <2>1, <2>2
<1>9. Chained(d, a, n)
  BY <1>3, <1>4, <1>5, <1>6, <1>7, <1>8 DEF Chained
<1> QED
  BY <1>2, <1>3, <1>9

\* and one whose first node is taken away.
LEMMA ChainedPop ==
  ASSUME NEW c, NEW h, NEW n, Chained(c, h, n), h # Null
  PROVE  /\ c # <<>> /\ c[1] = h /\ Len(c) > 0 /\ Tail(c) \in Seq(Address)
         /\ Len(Tail(c)) = Len(c) - 1
         /\ \A i \in 1 .. (Len(c) - 1) : Tail(c)[i] = c[i + 1] /\ c[i + 1] # h
         /\ Chained(Tail(c), n[h].next, n)
<1>1. c \in Seq(Address) /\ Len(c) \in Nat /\ c # <<>> /\ c[1] = h /\ Len(c) > 0
  <2>1. c \in Seq(Address) /\ c # <<>> /\ c[1] = h
    BY DEF Chained
  <2> QED
    BY <2>1
<1>2. PICK d : d = Tail(c)
  OBVIOUS
<1>3. /\ d \in Seq(Address) /\ Len(d) = Len(c) - 1
      /\ \A i \in 1 .. (Len(c) - 1) : d[i] = c[i + 1]
  BY <1>1, <1>2
<1>4. \A i \in 1 .. (Len(c) - 1) : /\ i + 1 \in 1 .. Len(c) /\ 1 \in 1 .. Len(c) /\ i + 1 # 1
                                   /\ i \in 1 .. Len(d)
  BY <1>1, <1>3
<1>5. \A i \in 1 .. (Len(c) - 1) : c[i + 1] # h
  BY <1>1, <1>4 DEF Chained
<1>6. \A i, j \in 1 .. Len(d) : d[i] = d[j] => i = j
  <2> SUFFICES ASSUME NEW i \in 1 .. Len(d), NEW j \in 1 .. Len(d), d[i] = d[j]
               PROVE  i = j
    OBVIOUS
  <2>1. i + 1 \in 1 .. Len(c) /\ j + 1 \in 1 .. Len(c) /\ c[i + 1] = c[j + 1]
    BY <1>3, <1>4
  <2>2. i + 1 = j + 1
    BY <2>1 DEF Chained
  <2> QED
    BY <2>2
<1>7. \A i \in 1 .. Len(d) : n[d[i]] # Freed
  BY <1>3, <1>4 DEF Chained
<1>8. \A i \in 1 .. (Len(d) - 1) : n[d[i]].next = d[i + 1]
  <2> SUFFICES ASSUME NEW i \in 1 .. (Len(d) - 1)
               PROVE  n[d[i]].next = d[i + 1]
    OBVIOUS
  <2>1. /\ i \in 1 .. (Len(c) - 1) /\ i + 1 \in 1 .. (Len(c) - 1)
        /\ d[i] = c[i + 1] /\ d[i + 1] = c[(i + 1) + 1]
    BY <1>1, <1>3
  <2>2. n[c[i + 1]].next = c[(i + 1) + 1]
    BY <2>1 DEF Chained
  <2> QED
    BY <2>1, <2>2
<1>9. CASE d = <<>>
  <2>1. Len(c) = 1
    BY <1>1, <1>3, <1>9
  <2>2. n[h].next = Null
    BY <1>1, <2>1 DEF Chained
  <2>3. Chained(d, n[h].next, n)
    BY <1>3, <1>6, <1>7, <1>8, <1>9, <2>2 DEF Chained
  <2> QED
    BY <1>1, <1>2, <1>3, <1>5, <2>3
<1>10. CASE d # <<>>
  <2>1. Len(c) > 1
    BY <1>1, <1>3, <1>10
  <2>2. d[1] = n[h].next
    <3>1. 1 \in 1 .. (Len(c) - 1) /\ d[1] = c[1 + 1]
      BY <1>1, <1>3, <2>1
    <3>2. n[c[1]].next = c[1 + 1]
      BY <3>1 DEF Chained
    <3> QED
      BY <1>1, <3>1, <3>2
  <2>3. d[Len(d)] = c[Len(c)]
    BY <1>1, <1>3, <2>1
  <2>4. n[d[Len(d)]].next = Null
    BY <1>1, <2>3 DEF Chained
  <2>5. Chained(d, n[h].next, n)
    BY <1>3, <1>6, <1>7, <1>8, <1>10, <2>2, <2>4 DEF Chained
  <2> QED
    BY <1>1, <1>2, <1>3, <1>5, <2>5
<1> QED
  BY <1>9, <1>10

-----------------------------------------------------------------------------
(* What a step of a thread leaves alone *)

SOthers(t) ==
  \A u \in StackThread : u # t =>
    /\ sPc'[u] = sPc[u] /\ cur'[u] = cur[u] /\ mine'[u] = mine[u] /\ next'[u] = next[u]
    /\ sSent'[u] = sSent[u] /\ sGot'[u] = sGot[u]

LEMMA TypesKept ==
  ASSUME STypes, NEW t \in StackThread, SOthers(t), sQuota' = sQuota, broken' \in BOOLEAN,
         head' \in Place, node' \in [Address -> SNode \cup {Freed}],
         sPc' \in [StackThread -> SPushing \cup SPopping \cup {"done"}],
         cur' \in [StackThread -> Place], mine' \in [StackThread -> Place],
         next' \in [StackThread -> Place], sSent' \in [StackThread -> Nat],
         sGot' \in [StackThread -> Seq(SItem)], SLocal(t)'
  PROVE  STypes'
<1>1. ASSUME NEW u \in StackThread, u # t
      PROVE  SLocal(u)'
  <2>1. SLocal(u)
    BY DEF STypes
  <2>2. /\ sPc'[u] = sPc[u] /\ cur'[u] = cur[u] /\ mine'[u] = mine[u]
        /\ sSent'[u] = sSent[u] /\ sGot'[u] = sGot[u]
    BY <1>1 DEF SOthers
  <2> QED
    BY <2>1, <2>2 DEF SLocal
<1>2. \A u \in StackThread : SLocal(u)'
  BY <1>1
<1> QED
  BY <1>2 DEF STypes

\* Who is an owner.
LEMMA OwnersAre ==
  /\ \A a : \A u : u \in S!Owners(a) <=>
       u \in StackThread /\ ((sPc[u] = "casPush" /\ mine[u] = a) \/ (sPc[u] = "take" /\ cur[u] = a))
  /\ \A a : \A u : u \in S!Owners(a)' <=>
       u \in StackThread
         /\ ((sPc'[u] = "casPush" /\ mine'[u] = a) \/ (sPc'[u] = "take" /\ cur'[u] = a))
BY DEF S!Owners

\* The others own what they owned.
LEMMA OthersOwners ==
  ASSUME NEW t \in StackThread, SOthers(t)
  PROVE  \A a : \A u : u # t => (u \in S!Owners(a)' <=> u \in S!Owners(a))
<1> SUFFICES ASSUME NEW a, NEW u, u # t
             PROVE  u \in S!Owners(a)' <=> u \in S!Owners(a)
  OBVIOUS
<1>1. u \in StackThread => sPc'[u] = sPc[u] /\ cur'[u] = cur[u] /\ mine'[u] = mine[u]
  BY DEF SOthers
<1> QED
  BY <1>1, OwnersAre

\* Their nodes stay as they are when a step changes a node that is not theirs, if any.
LEMMA OthersKeep ==
  ASSUME STypes, SOwners, NEW t \in StackThread, SOthers(t),
         NEW x, \A a \in Address : a # x => node'[a] = node[a],
         \A u \in S!Owners(x) : u = t,
         NEW u \in StackThread, u # t
  PROVE  Keeps(u)'
<1>1. /\ sPc'[u] = sPc[u] /\ cur'[u] = cur[u] /\ mine'[u] = mine[u] /\ sSent'[u] = sSent[u]
      /\ Keeps(u) /\ SLocal(u)
  BY DEF SOthers, SOwners, STypes
<1>2. CASE sPc[u] = "casPush"
  <2>1. mine[u] \in Address /\ u \in S!Owners(mine[u])
    BY <1>1, <1>2, OwnersAre DEF SLocal
  <2>2. node'[mine[u]] = node[mine[u]]
    BY <2>1
  <2> QED
    BY <1>1, <1>2, <2>2 DEF Keeps
<1>3. CASE sPc[u] = "take"
  <2>1. cur[u] \in Address /\ u \in S!Owners(cur[u])
    BY <1>1, <1>3, OwnersAre DEF SLocal
  <2>2. node'[cur[u]] = node[cur[u]]
    BY <2>1
  <2> QED
    BY <1>1, <1>3, <2>2 DEF Keeps
<1>4. CASE sPc[u] \notin {"casPush", "take"}
  BY <1>1, <1>4 DEF Keeps
<1> QED
  BY <1>2, <1>3, <1>4

\* t is the only owner of a node that it gets.
LEMMA OwnersKept ==
  ASSUME STypes, SOwners, NEW t \in StackThread, SOthers(t),
         NEW x, \A a \in Address : a # x => node'[a] = node[a],
         \A u \in S!Owners(x) : u = t, Keeps(t)',
         \A a \in Address : t \in S!Owners(a)' => \A u \in S!Owners(a) : u = t
  PROVE  SOwners'
<1>1. \A u \in StackThread : Keeps(u)'
  BY OthersKeep
<1>2. ASSUME NEW a \in Address, NEW u \in S!Owners(a)', NEW w \in S!Owners(a)'
      PROVE  u = w
  <2>1. \A v : v # t => (v \in S!Owners(a)' <=> v \in S!Owners(a))
    BY OthersOwners
  <2>2. \A v, z \in S!Owners(a) : v = z
    BY DEF SOwners
  <2> QED
    BY <1>2, <2>1, <2>2
<1> QED
  BY <1>1, <1>2 DEF SOwners

\* The only popper is as sure as before when another thread pushes.
LEMMA SureKept ==
  ASSUME STypes, NEW t \in StackThread, SOthers(t), SAlone, \A u \in StackThread : Sure(u),
         sPc[t] \in SPopping \/ \A a \in Address : Free(a) => Free(a)' /\ node'[a] = node[a],
         Sure(t)'
  PROVE  \A u \in StackThread : Sure(u)'
<1> SUFFICES ASSUME NEW u \in StackThread, u # t
             PROVE  Sure(u)'
  OBVIOUS
<1>1. /\ sPc'[u] = sPc[u] /\ cur'[u] = cur[u] /\ next'[u] = next[u]
      /\ Sure(u) /\ SLocal(u)
  BY DEF SOthers, STypes
<1>2. ASSUME sPc[u] \in {"readNext", "casPop"}
      PROVE  sPc[t] \notin SPopping /\ cur[u] \in Address
  <2>1. \A w \in StackThread : sPc[w] \in SPopping => w \in S!Popper
    <3> SUFFICES ASSUME NEW w \in StackThread, sPc[w] \in SPopping
                 PROVE  w \in S!Popper
      OBVIOUS
    <3>1. Len(sGot[w]) < sQuota.pop[w] /\ sGot[w] \in Seq(SItem)
      BY DEF STypes, SLocal
    <3>2. sQuota.pop[w] \in Nat
      BY ConcurrentAssumption DEF STypes, Quotas
    <3>3. sQuota.pop[w] > 0
      BY <3>1, <3>2
    <3> QED
      BY <3>3 DEF S!Popper
  <2>2. u \in S!Popper
    BY <1>2, <2>1 DEF SPopping
  <2>3. sPc[t] \notin SPopping
    BY <2>1, <2>2 DEF SAlone
  <2> QED
    BY <1>1, <1>2, <2>3 DEF SLocal
<1>3. CASE sPc[u] \in {"readNext", "casPop"}
  <2>1. PICK a \in Address : a = cur[u]
    BY <1>2, <1>3
  <2>2. Free(a) /\ (sPc[u] = "casPop" => next[u] = node[a].next)
    BY <1>1, <1>3, <2>1 DEF Sure
  <2>3. Free(a)' /\ node'[a] = node[a]
    BY <1>2, <1>3, <2>2
  <2>4. a = cur'[u]
    BY <1>1, <2>1
  <2>5. Free(cur[u])'
    BY <2>3, <2>4 DEF Free, S!Owners
  <2>6. sPc'[u] = "casPop" => next'[u] = node'[cur'[u]].next
    BY <1>1, <2>2, <2>3, <2>4
  <2> QED
    BY <2>5, <2>6 DEF Sure
<1>4. CASE sPc[u] \notin {"readNext", "casPop"}
  BY <1>1, <1>4 DEF Sure
<1> QED
  BY <1>3, <1>4

\* What the stack shows: its values, and what the threads have got.
SGotten == [t \in StackThread |-> IF sPc[t] = "take" THEN Append(sGot[t], node[cur[t]].data)
                                                    ELSE sGot[t]]

LEMMA Shows ==
  ASSUME S!Chain' = S!Chain, NEW c \in Seq(Address), c = S!Chain,
         \A i \in 1 .. Len(c) : node'[c[i]].data = node[c[i]].data,
         sSent' = sSent, SGotten' = SGotten
  PROVE  UNCHANGED S!Stack!lifoVars
<1>1. S!Values(S!Chain)' = S!Values(S!Chain)
  <2>1. S!Chain' = c /\ DOMAIN c = 1 .. Len(c)
    OBVIOUS
  <2>2. S!Values(S!Chain) = [i \in 1 .. Len(c) |-> node[c[i]].data]
    BY <2>1 DEF S!Values
  <2>3. S!Values(S!Chain)' = [i \in 1 .. Len(c) |-> node'[c[i]].data]
    BY <2>1 DEF S!Values
  <2> QED
    BY <2>2, <2>3
<1> QED
  BY <1>1 DEF S!Stack!lifoVars, SGotten

\* The others have got what they had, unless a node of theirs changes.
LEMMA GottenKept ==
  ASSUME STypes, NEW t \in StackThread, SOthers(t),
         NEW x, \A a \in Address : a # x => node'[a] = node[a],
         \A u \in S!Owners(x) : u = t
  PROVE  SGotten' = [SGotten EXCEPT ![t] = IF sPc'[t] = "take"
                                             THEN Append(sGot'[t], node'[cur'[t]].data)
                                             ELSE sGot'[t]]
<1>1. ASSUME NEW u \in StackThread, u # t
      PROVE  SGotten'[u] = SGotten[u]
  <2>1. sPc'[u] = sPc[u] /\ cur'[u] = cur[u] /\ sGot'[u] = sGot[u] /\ SLocal(u)
    BY <1>1 DEF SOthers, STypes
  <2>2. CASE sPc[u] = "take"
    <3>1. cur[u] \in Address /\ u \in S!Owners(cur[u])
      BY <2>1, <2>2, OwnersAre DEF SLocal
    <3>2. node'[cur[u]] = node[cur[u]]
      BY <1>1, <3>1
    <3> QED
      BY <2>1, <2>2, <3>2 DEF SGotten
  <2>3. CASE sPc[u] # "take"
    BY <2>1, <2>3 DEF SGotten
  <2> QED
    BY <2>2, <2>3
<1>2. SGotten'[t] = IF sPc'[t] = "take" THEN Append(sGot'[t], node'[cur'[t]].data)
                                         ELSE sGot'[t]
  BY DEF SGotten
<1>3. DOMAIN SGotten' = StackThread /\ DOMAIN SGotten = StackThread
  BY DEF SGotten
<1>4. /\ SGotten' = [u \in StackThread |-> SGotten'[u]]
      /\ SGotten = [u \in StackThread |-> SGotten[u]]
  BY DEF SGotten
<1> QED
  BY <1>1, <1>2, <1>3, <1>4

-----------------------------------------------------------------------------
(* Each step of LockFreeStack keeps the invariant *)

\* The head is the first of the chain, and free.
LEMMA HeadFree ==
  ASSUME SChain, head # Null
  PROVE  /\ head \in Address /\ Free(head)
         /\ S!Chain \in Seq(Address) /\ Len(S!Chain) > 0 /\ S!Chain[1] = head
<1>1. PICK c : c = S!Chain
  OBVIOUS
<1>2. c \in Seq(Address) /\ c # <<>> /\ c[1] = head
  BY <1>1 DEF SChain, Chained
<1>3. 1 \in 1 .. Len(c) /\ c[1] \in Address /\ Len(c) > 0
  BY <1>2
<1> QED
  BY <1>1, <1>2, <1>3 DEF SChain

\* A node that is free stays so while t gets none and none is freed.
LEMMA FreeKept ==
  ASSUME NEW t \in StackThread, SOthers(t), NEW a \in Address, node'[a] # Freed,
         t \notin S!Owners(a)', Free(a)
  PROVE  Free(a)'
<1>1. \A u : u \notin S!Owners(a)'
  BY OthersOwners DEF Free
<1> QED
  BY <1>1 DEF Free

\* A step that changes no node, nor the head, nor an owner.
LEMMA Unchained ==
  ASSUME STypes, SOwners, SChain, NEW t \in StackThread, SOthers(t),
         head' = head, node' = node, sSent' = sSent, sGot' = sGot,
         sPc[t] \notin {"casPush", "take"}, sPc'[t] \notin {"casPush", "take"}
  PROVE  /\ SOwners' /\ SChain' /\ UNCHANGED S!Stack!lifoVars
         /\ \A a \in Address : Free(a) => Free(a)' /\ node'[a] = node[a]
<1>1. \A a : t \notin S!Owners(a) /\ t \notin S!Owners(a)'
  BY OwnersAre
<1>2. \A a : \A u : u \in S!Owners(a)' <=> u \in S!Owners(a)
  BY <1>1, OthersOwners
<1>3. ASSUME NEW a \in Address
      PROVE  Free(a)' <=> Free(a)
  <2>1. S!Owners(a)' = {} <=> S!Owners(a) = {}
    BY <1>2
  <2> QED
    BY <2>1 DEF Free
<1>4. SOwners'
  <2>1. Keeps(t)'
    BY DEF Keeps
  <2>2. Null \notin Address /\ \A u \in S!Owners(Null) : u = t
    <3>1. ASSUME NEW u \in S!Owners(Null)
          PROVE  FALSE
      <4>1. u \in StackThread /\ SLocal(u)
        BY <3>1, OwnersAre DEF STypes
      <4> QED
        BY <3>1, <4>1, OwnersAre, StackConstants DEF SLocal
    <3> QED
      BY <3>1, StackConstants
  <2> QED
    BY <1>1, <2>1, <2>2, OwnersKept
<1>5. SChain' /\ S!Chain' = S!Chain
  <2>1. PICK c, h, n : c = S!Chain /\ h = head /\ n = node
    OBVIOUS
  <2>2. Chained(c, h, n) /\ \A a \in Address : Free(a) <=> \E i \in 1 .. Len(c) : c[i] = a
    BY <2>1 DEF SChain
  <2>3. \A a \in Address : Free(a)' <=> \E i \in 1 .. Len(c) : c[i] = a
    BY <1>3, <2>2
  <2> QED
    BY <2>1, <2>2, <2>3, NewChain
<1>6. SGotten' = SGotten
  <2>1. ASSUME NEW u \in StackThread
        PROVE  SGotten'[u] = SGotten[u]
    <3>1. CASE u = t
      BY <3>1 DEF SGotten
    <3>2. CASE u # t
      BY <3>2 DEF SOthers, SGotten
    <3> QED
      BY <3>1, <3>2
  <2> QED
    BY <2>1 DEF SGotten
<1>7. UNCHANGED S!Stack!lifoVars
  <2>1. PICK c \in Seq(Address) : c = S!Chain
    BY DEF SChain, Chained
  <2> QED
    BY <1>5, <1>6, <2>1, Shows
<1> QED
  BY <1>3, <1>4, <1>5, <1>7

\* What an action lemma gives.
Kept(t) ==
  /\ STypes' /\ SOthers(t) /\ sQuota' = sQuota
  /\ ~broken' => SOwners' /\ SChain' /\ (S!Stack!Next \/ UNCHANGED S!Stack!lifoVars)
  /\ SAlone /\ (\A u \in StackThread : Sure(u)) => ~broken' /\ \A u \in StackThread : Sure(u)'

LEMMA KeptPushLoad ==
  ASSUME STypes, SOwners, SChain, NEW t \in StackThread, S!PushLoad(t)
  PROVE  Kept(t)
<1>1. /\ ~broken /\ sPc[t] = "pushLoad" /\ sPc' = [sPc EXCEPT ![t] = "new"]
      /\ cur' = [cur EXCEPT ![t] = head]
      /\ sQuota' = sQuota /\ head' = head /\ node' = node /\ mine' = mine /\ next' = next
      /\ sSent' = sSent /\ sGot' = sGot /\ broken' = broken
  BY DEF S!PushLoad, S!Goto, S!SeeHead
<1>2. SOthers(t) /\ sPc'[t] = "new"
  BY <1>1 DEF SOthers, STypes
<1>3. STypes'
  <2>1. SLocal(t)'
    BY <1>1, <1>2 DEF STypes, SLocal, SPushing, SPopping
  <2>2. sPc' \in [StackThread -> SPushing \cup SPopping \cup {"done"}]
    BY <1>1 DEF STypes, SPushing
  <2>3. cur' \in [StackThread -> Place]
    BY <1>1 DEF STypes
  <2> QED
    BY <1>1, <1>2, <2>1, <2>2, <2>3, TypesKept DEF STypes
<1>4. /\ SOwners' /\ SChain' /\ UNCHANGED S!Stack!lifoVars
      /\ \A a \in Address : Free(a) => Free(a)' /\ node'[a] = node[a]
  BY <1>1, <1>2, Unchained
<1>5. Sure(t)'
  BY <1>2 DEF Sure
<1> QED
  BY <1>1, <1>2, <1>3, <1>4, <1>5, SureKept DEF Kept

LEMMA KeptPopLoad ==
  ASSUME STypes, SOwners, SChain, NEW t \in StackThread, S!PopLoad(t)
  PROVE  Kept(t)
<1>1. /\ ~broken /\ sPc[t] = "popLoad"
      /\ sPc' = [sPc EXCEPT ![t] = IF head = Null THEN "popLoad" ELSE "readNext"]
      /\ cur' = [cur EXCEPT ![t] = head]
      /\ sQuota' = sQuota /\ head' = head /\ node' = node /\ mine' = mine /\ next' = next
      /\ sSent' = sSent /\ sGot' = sGot /\ broken' = broken
  BY DEF S!PopLoad, S!Goto, S!SeeHead
<1>2. /\ SOthers(t) /\ sPc'[t] = IF head = Null THEN "popLoad" ELSE "readNext"
      /\ cur'[t] = head
  BY <1>1 DEF SOthers, STypes
<1>3. STypes'
  <2>1. SLocal(t)'
    BY <1>1, <1>2, HeadFree DEF STypes, SLocal, SPushing, SPopping
  <2>2. sPc' \in [StackThread -> SPushing \cup SPopping \cup {"done"}]
    BY <1>1 DEF STypes, SPopping
  <2>3. cur' \in [StackThread -> Place]
    BY <1>1 DEF STypes
  <2> QED
    BY <1>1, <1>2, <2>1, <2>2, <2>3, TypesKept DEF STypes
<1>4. /\ SOwners' /\ SChain' /\ UNCHANGED S!Stack!lifoVars
      /\ \A a \in Address : Free(a) => Free(a)' /\ node'[a] = node[a]
  BY <1>1, <1>2, Unchained
<1>5. Sure(t)'
  <2>1. CASE head = Null
    BY <1>2, <2>1 DEF Sure
  <2>2. CASE head # Null
    <3>1. PICK a \in Address : a = head /\ Free(a)
      BY <2>2, HeadFree
    <3>2. Free(a)' /\ cur'[t] = a
      BY <1>2, <1>4, <3>1
    <3>3. Free(cur[t])'
      BY <3>2 DEF Free, S!Owners
    <3> QED
      BY <1>2, <2>2, <3>3 DEF Sure
  <2> QED
    BY <2>1, <2>2
<1> QED
  BY <1>1, <1>2, <1>3, <1>4, <1>5, SureKept DEF Kept

LEMMA KeptReadNext ==
  ASSUME STypes, SOwners, SChain, NEW t \in StackThread, S!ReadNext(t)
  PROVE  Kept(t)
<1>1. /\ ~broken /\ sPc[t] = "readNext" /\ sPc' = [sPc EXCEPT ![t] = "casPop"]
      /\ broken' = (node[cur[t]] = Freed)
      /\ next' = [next EXCEPT ![t] = IF broken' THEN Null ELSE node[cur[t]].next]
      /\ sQuota' = sQuota /\ head' = head /\ node' = node /\ mine' = mine /\ cur' = cur
      /\ sSent' = sSent /\ sGot' = sGot
  BY DEF S!ReadNext, S!Goto
<1>2. /\ SOthers(t) /\ sPc'[t] = "casPop" /\ cur'[t] = cur[t]
      /\ next'[t] = IF broken' THEN Null ELSE node[cur[t]].next
  BY <1>1 DEF SOthers, STypes
<1>3. cur[t] \in Address /\ node[cur[t]] \in SNode \cup {Freed} /\ broken' \in BOOLEAN
  BY <1>1 DEF STypes, SLocal
<1>4. STypes'
  <2>1. SLocal(t)'
    BY <1>1, <1>2, <1>3 DEF STypes, SLocal, SPushing, SPopping
  <2>2. sPc' \in [StackThread -> SPushing \cup SPopping \cup {"done"}]
    BY <1>1 DEF STypes, SPopping
  <2>3. next' \in [StackThread -> Place]
    <3>1. (IF broken' THEN Null ELSE node[cur[t]].next) \in Place
      <4>1. CASE broken'
        BY <4>1 DEF Place
      <4>2. CASE ~broken'
        <5>1. node[cur[t]] \in SNode
          BY <1>1, <1>3, <4>2
        <5> QED
          BY <4>2, <5>1 DEF SNode
      <4> QED
        BY <4>1, <4>2
    <3> QED
      BY <1>1, <3>1 DEF STypes
  <2> QED
    BY <1>1, <1>2, <1>3, <2>1, <2>2, <2>3, TypesKept DEF STypes
<1>5. /\ SOwners' /\ SChain' /\ UNCHANGED S!Stack!lifoVars
      /\ \A a \in Address : Free(a) => Free(a)' /\ node'[a] = node[a]
  BY <1>1, <1>2, Unchained
<1>6. ASSUME Sure(t)
      PROVE  Sure(t)' /\ ~broken'
  <2>1. PICK a \in Address : a = cur[t]
    BY <1>3
  <2>2. Free(a) /\ Free(a)'
    BY <1>1, <1>5, <1>6, <2>1 DEF Sure
  <2>3. ~broken'
    BY <1>1, <2>1, <2>2 DEF Free
  <2>4. Free(cur[t])'
    BY <1>2, <2>1, <2>2 DEF Free, S!Owners
  <2>5. next'[t] = node'[cur'[t]].next
    BY <1>1, <1>2, <2>3
  <2> QED
    BY <2>3, <2>4, <2>5 DEF Sure
<1> QED
  BY <1>1, <1>2, <1>4, <1>5, <1>6, SureKept DEF Kept

\* Nobody owns a freed node.
LEMMA FreedUnowned ==
  ASSUME SOwners, NEW a \in Address, node[a] = Freed
  PROVE  S!Owners(a) = {}
<1> SUFFICES ASSUME NEW u \in S!Owners(a)
             PROVE  FALSE
  OBVIOUS
<1>1. u \in StackThread
  BY OwnersAre
<1>2. Keeps(u)
  BY <1>1 DEF SOwners
<1> QED
  BY <1>2, OwnersAre DEF Keeps

\* A list in the chain of nodes that stay is the chain after the step.
LEMMA ChainKept ==
  ASSUME SChain, NEW t \in StackThread, head' = head,
         NEW x, \A a \in Address : a # x => node'[a] = node[a], ~Free(x),
         \A a \in Address : Free(a)' <=> Free(a)
  PROVE  SChain' /\ S!Chain' = S!Chain
<1>1. PICK c, h, n, m : c = S!Chain /\ h = head /\ n = node /\ m = node'
  OBVIOUS
<1>2. /\ Chained(c, h, n) /\ c \in Seq(Address)
      /\ \A a \in Address : Free(a) <=> \E i \in 1 .. Len(c) : c[i] = a
  BY <1>1 DEF SChain, Chained
<1>3. \A i \in 1 .. Len(c) : c[i] \in Address
  BY <1>2
<1>4. \A i \in 1 .. Len(c) : m[c[i]] = n[c[i]]
  BY <1>1, <1>2, <1>3
<1>5. Chained(c, h, m)
  BY <1>2, <1>4, ChainedSame
<1> QED
  BY <1>1, <1>2, <1>5, NewChain

LEMMA KeptNew ==
  ASSUME STypes, SOwners, SChain, NEW t \in StackThread, S!New(t)
  PROVE  Kept(t)
<1>1. PICK x \in Address :
        /\ node[x] = Freed
        /\ ~broken /\ sPc[t] = "new" /\ sPc' = [sPc EXCEPT ![t] = "casPush"]
        /\ node' = [node EXCEPT ![x] = [data |-> <<t, sSent[t]>>, next |-> cur[t]]]
        /\ mine' = [mine EXCEPT ![t] = x]
        /\ sQuota' = sQuota /\ head' = head /\ cur' = cur /\ next' = next
        /\ sSent' = sSent /\ sGot' = sGot /\ broken' = broken
  BY DEF S!New, S!Goto
<1>2. PICK y : y = [data |-> <<t, sSent[t]>>, next |-> cur[t]]
  OBVIOUS
<1>3. y \in SNode /\ y # Freed /\ y.next = cur[t] /\ y.data = <<t, sSent[t]>>
  <2>1. y \in SNode
    BY <1>2 DEF STypes, SNode, SItem
  <2> QED
    BY <1>2, <2>1, StackConstants
<1>4. /\ SOthers(t) /\ sPc'[t] = "casPush" /\ mine'[t] = x /\ cur'[t] = cur[t]
      /\ node'[x] = y /\ \A a \in Address : a # x => node'[a] = node[a]
  BY <1>1, <1>2 DEF SOthers, STypes
<1>5. STypes'
  <2>1. SLocal(t)'
    BY <1>1, <1>4 DEF STypes, SLocal, SPushing, SPopping
  <2>2. sPc' \in [StackThread -> SPushing \cup SPopping \cup {"done"}]
    BY <1>1 DEF STypes, SPushing
  <2>3. node' \in [Address -> SNode \cup {Freed}]
    BY <1>1, <1>2, <1>3 DEF STypes
  <2>4. mine' \in [StackThread -> Place]
    BY <1>1 DEF STypes, Place
  <2> QED
    BY <1>1, <1>4, <2>1, <2>2, <2>3, <2>4, TypesKept DEF STypes
<1>6. S!Owners(x) = {}
  BY <1>1, FreedUnowned
<1>7. \A a : (t \in S!Owners(a)' <=> a = x) /\ t \notin S!Owners(a)
  BY <1>1, <1>4, OwnersAre
<1>8. SOwners'
  <2>1. Keeps(t)'
    BY <1>1, <1>3, <1>4 DEF Keeps
  <2> QED
    BY <1>4, <1>6, <1>7, <2>1, OwnersKept
<1>9. \A a \in Address : Free(a)' <=> Free(a)
  <2> SUFFICES ASSUME NEW a \in Address
               PROVE  Free(a)' <=> Free(a)
    OBVIOUS
  <2>1. CASE a = x
    BY <1>1, <1>7, <2>1 DEF Free
  <2>2. CASE a # x
    <3>1. S!Owners(a)' = {} <=> S!Owners(a) = {}
      BY <1>4, <1>7, <2>2, OthersOwners
    <3>2. node'[a] = node[a]
      BY <1>4, <2>2
    <3> QED
      BY <3>1, <3>2 DEF Free
  <2> QED
    BY <2>1, <2>2
<1>10. ~Free(x)
  BY <1>1 DEF Free
<1>11. SChain' /\ S!Chain' = S!Chain
  BY <1>1, <1>4, <1>9, <1>10, ChainKept
<1>12. UNCHANGED S!Stack!lifoVars
  <2>1. SGotten' = SGotten
    <3>1. SGotten' = [SGotten EXCEPT ![t] = IF sPc'[t] = "take"
                                             THEN Append(sGot'[t], node'[cur'[t]].data)
                                             ELSE sGot'[t]]
      BY <1>4, <1>6, GottenKept
    <3>2. SGotten' = [SGotten EXCEPT ![t] = sGot[t]]
      BY <1>1, <1>4, <3>1
    <3>3. SGotten[t] = sGot[t]
      BY <1>1 DEF SGotten
    <3> QED
      BY <3>2, <3>3 DEF SGotten
  <2>2. PICK c \in Seq(Address) : c = S!Chain
    BY DEF SChain, Chained
  <2>3. ASSUME NEW i \in 1 .. Len(c)
        PROVE  node'[c[i]].data = node[c[i]].data
    <3>1. c[i] \in Address /\ Free(c[i])
      BY <2>2, <2>3 DEF SChain
    <3> QED
      BY <1>4, <1>10, <3>1
  <2> QED
    BY <1>1, <1>11, <2>1, <2>2, <2>3, Shows
<1>13. \A a \in Address : Free(a) => Free(a)' /\ node'[a] = node[a]
  BY <1>4, <1>9, <1>10
<1>14. Sure(t)'
  BY <1>4 DEF Sure
<1> QED
  BY <1>1, <1>4, <1>5, <1>8, <1>11, <1>12, <1>13, <1>14, SureKept DEF Kept

LEMMA KeptTake ==
  ASSUME STypes, SOwners, SChain, NEW t \in StackThread, S!Take(t)
  PROVE  Kept(t)
<1>1. /\ ~broken /\ sPc[t] = "take"
      /\ sPc' = [sPc EXCEPT ![t] = IF Len(sGot[t]) + 1 = sQuota.pop[t] THEN "done"
                                                                     ELSE "popLoad"]
      /\ sGot' = [sGot EXCEPT ![t] = Append(@, node[cur[t]].data)]
      /\ node' = [node EXCEPT ![cur[t]] = Freed]
      /\ sQuota' = sQuota /\ head' = head /\ cur' = cur /\ mine' = mine /\ next' = next
      /\ sSent' = sSent /\ broken' = broken
  BY DEF S!Take, S!Goto
<1>2. PICK x \in Address : x = cur[t]
  BY <1>1 DEF STypes, SLocal
<1>3. node[x] # Freed /\ node[x] \in SNode /\ t \in S!Owners(x)
  BY <1>1, <1>2, OwnersAre DEF SOwners, Keeps, STypes
<1>4. \A u \in S!Owners(x) : u = t
  BY <1>3 DEF SOwners
<1>5. /\ SOthers(t) /\ sPc'[t] \in {"done", "popLoad"}
      /\ sPc'[t] = IF Len(sGot[t]) + 1 = sQuota.pop[t] THEN "done" ELSE "popLoad"
      /\ node'[x] = Freed /\ \A a \in Address : a # x => node'[a] = node[a]
      /\ sGot'[t] = Append(sGot[t], node[x].data)
  BY <1>1, <1>2 DEF SOthers, STypes
<1>6. node[x].data \in SItem /\ sGot[t] \in Seq(SItem) /\ sQuota.pop[t] \in Nat
  BY <1>3, ConcurrentAssumption DEF SNode, STypes, Quotas
<1>7. STypes'
  <2>1. Len(sGot'[t]) = Len(sGot[t]) + 1 /\ sGot'[t] \in Seq(SItem)
    BY <1>5, <1>6
  <2>2. Len(sGot[t]) < sQuota.pop[t] /\ sSent[t] <= sQuota.push[t]
    BY <1>1 DEF STypes, SLocal, SPopping
  <2>3. SLocal(t)'
    <3>1. Len(sGot'[t]) <= sQuota.pop[t]
      BY <1>6, <2>1, <2>2
    <3>2. sPc'[t] \in SPopping => Len(sGot'[t]) < sQuota.pop[t]
      BY <1>5, <1>6, <2>1, <2>2 DEF SPopping
    <3> QED
      BY <1>1, <1>5, <2>2, <3>1, <3>2 DEF SLocal, SPushing
  <2>4. sPc' \in [StackThread -> SPushing \cup SPopping \cup {"done"}]
    BY <1>1 DEF STypes, SPopping
  <2>5. node' \in [Address -> SNode \cup {Freed}]
    BY <1>1 DEF STypes
  <2>6. sGot' \in [StackThread -> Seq(SItem)]
    BY <1>1, <1>5, <2>1 DEF STypes
  <2> QED
    BY <1>1, <1>5, <2>3, <2>4, <2>5, <2>6, TypesKept DEF STypes
<1>8. \A a : t \notin S!Owners(a)' /\ (t \in S!Owners(a) <=> a = x)
  BY <1>1, <1>2, <1>5, OwnersAre
<1>9. SOwners'
  <2>1. Keeps(t)'
    BY <1>5 DEF Keeps
  <2> QED
    BY <1>4, <1>5, <1>8, <2>1, OwnersKept
<1>10. ~Free(x)
  BY <1>3 DEF Free
<1>11. \A a \in Address : Free(a)' <=> Free(a)
  <2> SUFFICES ASSUME NEW a \in Address
               PROVE  Free(a)' <=> Free(a)
    OBVIOUS
  <2>1. CASE a = x
    BY <1>5, <1>10, <2>1 DEF Free
  <2>2. CASE a # x
    <3>1. S!Owners(a)' = {} <=> S!Owners(a) = {}
      BY <1>5, <1>8, <2>2, OthersOwners
    <3>2. node'[a] = node[a]
      BY <1>5, <2>2
    <3> QED
      BY <3>1, <3>2 DEF Free
  <2> QED
    BY <2>1, <2>2
<1>12. SChain' /\ S!Chain' = S!Chain
  BY <1>1, <1>5, <1>10, <1>11, ChainKept
<1>13. UNCHANGED S!Stack!lifoVars
  <2>1. SGotten' = SGotten
    <3>1. SGotten' = [SGotten EXCEPT ![t] = IF sPc'[t] = "take"
                                             THEN Append(sGot'[t], node'[cur'[t]].data)
                                             ELSE sGot'[t]]
      BY <1>4, <1>5, GottenKept
    <3>2. SGotten' = [SGotten EXCEPT ![t] = Append(sGot[t], node[x].data)]
      BY <1>5, <3>1
    <3>3. SGotten[t] = Append(sGot[t], node[x].data)
      BY <1>1, <1>2 DEF SGotten
    <3> QED
      BY <3>2, <3>3 DEF SGotten
  <2>2. PICK c \in Seq(Address) : c = S!Chain
    BY DEF SChain, Chained
  <2>3. ASSUME NEW i \in 1 .. Len(c)
        PROVE  node'[c[i]].data = node[c[i]].data
    <3>1. c[i] \in Address /\ Free(c[i])
      BY <2>2, <2>3 DEF SChain
    <3> QED
      BY <1>5, <1>10, <3>1
  <2> QED
    BY <1>1, <1>12, <2>1, <2>2, <2>3, Shows
<1>14. Sure(t)'
  BY <1>5 DEF Sure
<1> QED
  BY <1>1, <1>5, <1>7, <1>9, <1>12, <1>13, <1>14, SureKept DEF Kept, SPopping

\* The values of a chain, before and after.
LEMMA ValuesAre ==
  ASSUME NEW c, c \in Seq(Address), NEW d, d \in Seq(Address),
         c = S!Chain, d = S!Chain', STypes, STypes',
         \A i \in 1 .. Len(c) : node[c[i]] \in SNode,
         \A i \in 1 .. Len(d) : node'[d[i]] \in SNode
  PROVE  \E v, w \in Seq(SItem) :
           /\ v = S!Values(S!Chain) /\ w = S!Values(S!Chain)'
           /\ Len(v) = Len(c) /\ Len(w) = Len(d)
           /\ \A i \in 1 .. Len(c) : v[i] = node[c[i]].data
           /\ \A i \in 1 .. Len(d) : w[i] = node'[d[i]].data
<1> DEFINE v == [i \in 1 .. Len(c) |-> node[c[i]].data]
           w == [i \in 1 .. Len(d) |-> node'[d[i]].data]
<1>1. DOMAIN c = 1 .. Len(c) /\ DOMAIN d = 1 .. Len(d) /\ Len(c) \in Nat /\ Len(d) \in Nat
  OBVIOUS
<1>2. v = S!Values(S!Chain) /\ w = S!Values(S!Chain)'
  BY <1>1 DEF S!Values
<1>3. v \in Seq(SItem) /\ Len(v) = Len(c)
  <2>1. \A i \in 1 .. Len(c) : node[c[i]].data \in SItem
    BY DEF SNode
  <2> QED
    BY <1>1, <2>1
<1>4. w \in Seq(SItem) /\ Len(w) = Len(d)
  <2>1. \A i \in 1 .. Len(d) : node'[d[i]].data \in SItem
    BY DEF SNode
  <2> QED
    BY <1>1, <2>1
<1> HIDE DEF v, w
<1>5. /\ \A i \in 1 .. Len(c) : v[i] = node[c[i]].data
      /\ \A i \in 1 .. Len(d) : w[i] = node'[d[i]].data
  BY DEF v, w
<1> QED
  BY <1>2, <1>3, <1>4, <1>5

\* A list with one element more, or one less, at its front.
LEMMA OneMore ==
  ASSUME NEW V, NEW v \in Seq(V), NEW w \in Seq(V), NEW z \in V, Len(w) = Len(v) + 1,
         \A i \in 1 .. Len(w) : w[i] = IF i = 1 THEN z ELSE v[i - 1]
  PROVE  w = <<z>> \o v
<1>1. PICK y : y = <<z>> \o v
  OBVIOUS
<1>2. /\ y \in Seq(V) /\ Len(y) = Len(v) + 1 /\ Len(v) \in Nat
      /\ \A i \in 1 .. (Len(v) + 1) : y[i] = IF i = 1 THEN z ELSE v[i - 1]
  BY <1>1
<1>3. \A i \in 1 .. Len(w) : w[i] = y[i]
  BY <1>2
<1>4. Len(w) = Len(y)
  BY <1>2
<1> QED
  BY <1>1, <1>2, <1>3, <1>4

LEMMA OneLess ==
  ASSUME NEW V, NEW v \in Seq(V), NEW w \in Seq(V), Len(v) > 0, Len(w) = Len(v) - 1,
         \A i \in 1 .. Len(w) : w[i] = v[i + 1]
  PROVE  v # <<>> /\ w = Tail(v) /\ Head(v) = v[1]
<1>1. v # <<>> /\ Head(v) = v[1]
  OBVIOUS
<1>2. PICK y : y = Tail(v)
  OBVIOUS
<1>3. /\ y \in Seq(V) /\ Len(y) = Len(v) - 1 /\ Len(v) \in Nat
      /\ \A i \in 1 .. (Len(v) - 1) : y[i] = v[i + 1]
  BY <1>1, <1>2
<1>4. \A i \in 1 .. Len(w) : w[i] = y[i]
  BY <1>3
<1>5. Len(w) = Len(y)
  BY <1>3
<1> QED
  BY <1>1, <1>2, <1>3, <1>4, <1>5

LEMMA KeptCasPush ==
  ASSUME STypes, SOwners, SChain, NEW t \in StackThread, S!CasPush(t)
  PROVE  Kept(t)
<1>1. /\ ~broken /\ sPc[t] = "casPush"
      /\ sQuota' = sQuota /\ mine' = mine /\ next' = next /\ sGot' = sGot /\ broken' = broken
      /\ \/ /\ head = cur[t] /\ head' = mine[t] /\ node' = node /\ cur' = cur
            /\ sPc' = [sPc EXCEPT ![t] = IF sSent[t] + 1 = sQuota.push[t] THEN "done"
                                                                          ELSE "pushLoad"]
            /\ sSent' = [sSent EXCEPT ![t] = @ + 1]
         \/ /\ head' = head /\ sSent' = sSent
            /\ sPc' = [sPc EXCEPT ![t] = "casPush"]
            /\ cur' = [cur EXCEPT ![t] = head]
            /\ node' = [node EXCEPT ![mine[t]].next = head]
  BY DEF S!CasPush, S!Publish, S!Goto, S!SeeHead
<1>2. PICK x \in Address : x = mine[t]
  BY <1>1 DEF STypes, SLocal
<1>3. /\ node[x] # Freed /\ node[x] \in SNode /\ t \in S!Owners(x)
      /\ node[x].next = cur[t] /\ node[x].data = <<t, sSent[t]>>
  BY <1>1, <1>2, OwnersAre DEF SOwners, Keeps, STypes
<1>4. \A u \in S!Owners(x) : u = t
  BY <1>3 DEF SOwners
<1>5. ~Free(x)
  BY <1>3 DEF Free
<1>6. PICK c : c = S!Chain
  OBVIOUS
<1>7. /\ c \in Seq(Address)
      /\ \A i \in 1 .. Len(c) : c[i] \in Address /\ Free(c[i]) /\ c[i] # x
  BY <1>5, <1>6 DEF SChain, Chained
<1>8. \A a : t \in S!Owners(a) <=> a = x
  BY <1>1, <1>2, OwnersAre
<1>9. sQuota.push[t] \in Nat /\ sSent[t] \in Nat /\ sSent[t] < sQuota.push[t]
  BY <1>1, ConcurrentAssumption DEF STypes, SLocal, SPushing, Quotas
<1>10. CASE /\ head = cur[t] /\ head' = mine[t] /\ node' = node /\ cur' = cur
            /\ sPc' = [sPc EXCEPT ![t] = IF sSent[t] + 1 = sQuota.push[t] THEN "done"
                                                                          ELSE "pushLoad"]
            /\ sSent' = [sSent EXCEPT ![t] = @ + 1]
  <2>1. /\ SOthers(t) /\ sSent'[t] = sSent[t] + 1
        /\ sPc'[t] = IF sSent[t] + 1 = sQuota.push[t] THEN "done" ELSE "pushLoad"
        /\ sPc'[t] \in {"done", "pushLoad"}
    BY <1>1, <1>10 DEF SOthers, STypes
  <2>2. STypes'
    <3>1. SLocal(t)'
      <4>1. sSent'[t] <= sQuota.push[t] /\ (sPc'[t] \in SPushing => sSent'[t] < sQuota.push[t])
        BY <1>9, <2>1 DEF SPushing
      <4>2. Len(sGot[t]) <= sQuota.pop[t]
        BY DEF STypes, SLocal
      <4> QED
        BY <1>1, <2>1, <4>1, <4>2 DEF SLocal, SPopping
    <3>2. sPc' \in [StackThread -> SPushing \cup SPopping \cup {"done"}]
      BY <1>10 DEF STypes, SPushing
    <3>3. sSent' \in [StackThread -> Nat]
      BY <1>9, <1>10 DEF STypes
    <3>4. head' \in Place
      BY <1>2, <1>10 DEF Place
    <3> QED
      BY <1>1, <1>10, <2>1, <3>1, <3>2, <3>3, <3>4, TypesKept DEF STypes
  <2>3. \A a : t \notin S!Owners(a)'
    BY <2>1, OwnersAre
  <2>4. SOwners'
    <3>1. Keeps(t)'
      BY <2>1 DEF Keeps
    <3> QED
      BY <1>4, <1>10, <2>1, <2>3, <3>1, OwnersKept
  <2>5. ASSUME NEW a \in Address
        PROVE  Free(a)' <=> Free(a) \/ a = x
    <3>1. CASE a = x
      <4>1. \A u : u \notin S!Owners(x)'
        BY <1>4, <2>1, <2>3, OthersOwners
      <4> QED
        BY <1>3, <1>10, <3>1, <4>1 DEF Free
    <3>2. CASE a # x
      <4>1. S!Owners(a)' = {} <=> S!Owners(a) = {}
        BY <1>8, <2>1, <2>3, <3>2, OthersOwners
      <4> QED
        BY <1>10, <3>2, <4>1 DEF Free
    <3> QED
      BY <3>1, <3>2
  <2>6. PICK d, h, n : d = <<x>> \o c /\ h = head /\ n = node
    OBVIOUS
  <2>7. Chained(c, h, n) /\ n[x] # Freed /\ n[x].next = h
    BY <1>3, <1>6, <1>10, <2>6 DEF SChain
  <2>8. /\ Chained(d, x, n) /\ d \in Seq(Address) /\ Len(d) = Len(c) + 1 /\ Len(c) \in Nat
        /\ \A i \in 1 .. (Len(c) + 1) : d[i] = IF i = 1 THEN x ELSE c[i - 1]
    BY <1>7, <2>6, <2>7, ChainedPush
  <2>9. \A a \in Address : Free(a)' <=> \E i \in 1 .. Len(d) : d[i] = a
    <3> SUFFICES ASSUME NEW a \in Address
                 PROVE  (Free(a) \/ a = x) <=> \E i \in 1 .. Len(d) : d[i] = a
      BY <2>5
    <3>1. a = x => \E i \in 1 .. Len(d) : d[i] = a
      BY <2>8
    <3>2. ASSUME Free(a)
          PROVE  \E i \in 1 .. Len(d) : d[i] = a
      <4>1. PICK i \in 1 .. Len(c) : c[i] = a
        BY <1>6, <3>2 DEF SChain
      <4>2. i + 1 \in 1 .. Len(d) /\ d[i + 1] = c[i]
        <5>1. i + 1 \in 1 .. (Len(c) + 1) /\ i + 1 # 1 /\ (i + 1) - 1 = i
          BY <2>8
        <5> QED
          BY <2>8, <5>1
      <4> QED
        BY <4>1, <4>2
    <3>3. ASSUME NEW i \in 1 .. Len(d), d[i] = a
          PROVE  Free(a) \/ a = x
      <4>1. i # 1 => i - 1 \in 1 .. Len(c) /\ d[i] = c[i - 1]
        BY <2>8
      <4>2. i = 1 => d[i] = x
        BY <2>8
      <4> QED
        BY <1>7, <3>3, <4>1, <4>2
    <3> QED
      BY <3>1, <3>2, <3>3
  <2>10. SChain' /\ S!Chain' = d
    <3>1. x = head' /\ n = node'
      BY <1>2, <1>10, <2>6
    <3> QED
      BY <2>8, <2>9, <3>1, NewChain
  <2>11. S!Stack!Push(t)
    <3>1. \A i \in 1 .. Len(c) : node[c[i]] \in SNode
      <4> SUFFICES ASSUME NEW i \in 1 .. Len(c)
                   PROVE  node[c[i]] \in SNode
        OBVIOUS
      <4>1. c[i] \in Address /\ node[c[i]] # Freed
        BY <1>7 DEF Free
      <4> QED
        BY <4>1 DEF STypes
    <3>2. \A i \in 1 .. Len(d) : node'[d[i]] \in SNode
      <4> SUFFICES ASSUME NEW i \in 1 .. Len(d)
                   PROVE  node'[d[i]] \in SNode
        OBVIOUS
      <4>1. i # 1 => i - 1 \in 1 .. Len(c) /\ d[i] = c[i - 1]
        BY <2>8
      <4>2. i = 1 => d[i] = x
        BY <2>8
      <4> QED
        BY <1>3, <1>10, <3>1, <4>1, <4>2
    <3>3. PICK v, w \in Seq(SItem) :
            /\ v = S!Values(S!Chain) /\ w = S!Values(S!Chain)'
            /\ Len(v) = Len(c) /\ Len(w) = Len(d)
            /\ \A i \in 1 .. Len(c) : v[i] = node[c[i]].data
            /\ \A i \in 1 .. Len(d) : w[i] = node'[d[i]].data
      BY <1>6, <1>7, <2>2, <2>8, <2>10, <3>1, <3>2, ValuesAre
    <3>4. PICK z : z = <<t, sSent[t]>>
      OBVIOUS
    <3>8. z \in SItem /\ z = node[x].data
      BY <1>3, <3>4 DEF SNode
    <3>5. \A i \in 1 .. Len(w) : w[i] = IF i = 1 THEN z ELSE v[i - 1]
      <4> SUFFICES ASSUME NEW i \in 1 .. Len(w)
                   PROVE  w[i] = IF i = 1 THEN z ELSE v[i - 1]
        OBVIOUS
      <4>1. i # 1 => i - 1 \in 1 .. Len(c) /\ d[i] = c[i - 1]
        BY <2>8, <3>3
      <4>2. i = 1 => d[i] = x
        BY <2>8, <3>3
      <4> QED
        BY <1>3, <1>10, <3>3, <3>8, <4>1, <4>2
    <3>6. w = <<z>> \o v
      BY <2>8, <3>3, <3>5, <3>8, OneMore
    <3>7. SGotten' = SGotten
      <4>1. SGotten' = [SGotten EXCEPT ![t] = IF sPc'[t] = "take"
                                               THEN Append(sGot'[t], node'[cur'[t]].data)
                                               ELSE sGot'[t]]
        BY <1>4, <1>10, <2>1, GottenKept
      <4>2. SGotten' = [SGotten EXCEPT ![t] = sGot[t]] /\ SGotten[t] = sGot[t]
        BY <1>1, <2>1, <4>1 DEF SGotten
      <4> QED
        BY <4>2 DEF SGotten
    <3> QED
      BY <1>10, <3>3, <3>4, <3>6, <3>7 DEF S!Stack!Push, SGotten
  <2>12. S!Stack!Next
    BY <2>11 DEF S!Stack!Next
  <2>13. Sure(t)'
    BY <2>1 DEF Sure
  <2>14. \A a \in Address : Free(a) => Free(a)' /\ node'[a] = node[a]
    BY <1>10, <2>5
  <2> QED
    BY <1>1, <2>1, <2>2, <2>4, <2>10, <2>12, <2>13, <2>14, SureKept DEF Kept
<1>11. CASE /\ head' = head /\ sSent' = sSent
            /\ sPc' = [sPc EXCEPT ![t] = "casPush"]
            /\ cur' = [cur EXCEPT ![t] = head]
            /\ node' = [node EXCEPT ![mine[t]].next = head]
  <2>1. PICK y : y = [node[x] EXCEPT !.next = head]
    OBVIOUS
  <2>2. y \in SNode /\ y.next = head /\ y.data = node[x].data /\ y # Freed
    <3>1. y \in SNode /\ y.next = head /\ y.data = node[x].data
      BY <1>3, <2>1 DEF SNode, STypes
    <3> QED
      BY <3>1, StackConstants
  <2>3. /\ SOthers(t) /\ sPc'[t] = "casPush" /\ cur'[t] = head /\ mine'[t] = x
        /\ node'[x] = y /\ \A a \in Address : a # x => node'[a] = node[a]
    BY <1>1, <1>2, <1>11, <2>1 DEF SOthers, STypes
  <2>4. STypes'
    <3>1. SLocal(t)'
      BY <1>1, <1>2, <1>11, <2>3 DEF STypes, SLocal, SPushing, SPopping
    <3>2. sPc' \in [StackThread -> SPushing \cup SPopping \cup {"done"}]
      BY <1>11 DEF STypes, SPushing
    <3>3. cur' \in [StackThread -> Place]
      BY <1>11 DEF STypes
    <3>4. node' \in [Address -> SNode \cup {Freed}]
      <4>1. node' = [node EXCEPT ![x] = y]
        BY <1>2, <1>11, <2>1 DEF STypes
      <4> QED
        BY <2>2, <4>1 DEF STypes
    <3> QED
      BY <1>1, <1>11, <2>3, <3>1, <3>2, <3>3, <3>4, TypesKept DEF STypes
  <2>5. \A a : t \in S!Owners(a)' <=> a = x
    BY <1>2, <2>3, OwnersAre
  <2>6. SOwners'
    <3>1. Keeps(t)'
      BY <1>3, <1>11, <2>2, <2>3 DEF Keeps
    <3> QED
      BY <1>4, <2>3, <2>5, <3>1, OwnersKept
  <2>7. \A a \in Address : Free(a)' <=> Free(a)
    <3> SUFFICES ASSUME NEW a \in Address
                 PROVE  Free(a)' <=> Free(a)
      OBVIOUS
    <3>1. CASE a = x
      BY <1>5, <2>5, <3>1 DEF Free
    <3>2. CASE a # x
      <4>1. S!Owners(a)' = {} <=> S!Owners(a) = {}
        BY <1>8, <2>3, <2>5, <3>2, OthersOwners
      <4>2. node'[a] = node[a]
        BY <2>3, <3>2
      <4> QED
        BY <4>1, <4>2 DEF Free
    <3> QED
      BY <3>1, <3>2
  <2>8. SChain' /\ S!Chain' = S!Chain
    BY <1>5, <1>11, <2>3, <2>7, ChainKept
  <2>9. UNCHANGED S!Stack!lifoVars
    <3>1. SGotten' = [SGotten EXCEPT ![t] = IF sPc'[t] = "take"
                                             THEN Append(sGot'[t], node'[cur'[t]].data)
                                             ELSE sGot'[t]]
      BY <1>4, <2>3, GottenKept
    <3>2. SGotten' = [SGotten EXCEPT ![t] = sGot[t]] /\ SGotten[t] = sGot[t]
      BY <1>1, <2>3, <3>1 DEF SGotten
    <3>3. SGotten' = SGotten
      BY <3>2 DEF SGotten
    <3>4. ASSUME NEW i \in 1 .. Len(c)
          PROVE  node'[c[i]].data = node[c[i]].data
      BY <1>7, <2>3, <3>4
    <3> QED
      BY <1>6, <1>7, <1>11, <2>8, <3>3, <3>4, Shows
  <2>10. Sure(t)'
    BY <2>3 DEF Sure
  <2>11. \A a \in Address : Free(a) => Free(a)' /\ node'[a] = node[a]
    BY <1>5, <2>3, <2>7
  <2> QED
    BY <1>1, <2>3, <2>4, <2>6, <2>8, <2>9, <2>10, <2>11, SureKept DEF Kept
<1> QED
  BY <1>1, <1>10, <1>11

LEMMA KeptCasPop ==
  ASSUME STypes, SOwners, SChain, NEW t \in StackThread, S!CasPop(t)
  PROVE  Kept(t)
<1>1. /\ ~broken /\ sPc[t] = "casPop"
      /\ sQuota' = sQuota /\ node' = node /\ mine' = mine /\ next' = next
      /\ sSent' = sSent /\ sGot' = sGot
      /\ \/ /\ head = cur[t] /\ sPc' = [sPc EXCEPT ![t] = "take"]
            /\ head' = next[t] /\ cur' = cur
            /\ broken' = (next[t] # node[cur[t]].next)
         \/ /\ head # cur[t]
            /\ sPc' = [sPc EXCEPT ![t] = IF head = Null THEN "popLoad" ELSE "readNext"]
            /\ head' = head /\ cur' = [cur EXCEPT ![t] = head] /\ broken' = broken
  BY DEF S!CasPop, S!Goto, S!SeeHead
<1>2. /\ \A a : t \notin S!Owners(a)
      /\ cur[t] \in Address /\ Len(sGot[t]) < sQuota.pop[t] /\ sSent[t] <= sQuota.push[t]
      /\ Len(sGot[t]) <= sQuota.pop[t]
  BY <1>1, OwnersAre DEF STypes, SLocal, SPopping
<1>3. CASE /\ head = cur[t] /\ sPc' = [sPc EXCEPT ![t] = "take"]
           /\ head' = next[t] /\ cur' = cur
           /\ broken' = (next[t] # node[cur[t]].next)
  <2>1. PICK x, c, n : x = head /\ c = S!Chain /\ n = node
    OBVIOUS
  <2>2. /\ x \in Address /\ x # Null /\ Free(x) /\ S!Owners(x) = {} /\ node[x] # Freed
        /\ x = cur[t] /\ node[x] \in SNode
    <3>1. x \in Address /\ x # Null
      BY <1>2, <1>3, <2>1, StackConstants
    <3>2. Free(x)
      BY <2>1, <3>1, HeadFree
    <3> QED
      BY <1>3, <2>1, <3>1, <3>2 DEF Free, STypes
  <2>3. SOthers(t) /\ sPc'[t] = "take"
    BY <1>1, <1>3 DEF SOthers, STypes
  <2>4. STypes'
    <3>1. SLocal(t)'
      BY <1>1, <1>2, <1>3, <2>3 DEF SLocal, SPushing
    <3>2. sPc' \in [StackThread -> SPushing \cup SPopping \cup {"done"}]
      BY <1>3 DEF STypes, SPopping
    <3>3. head' \in Place /\ broken' \in BOOLEAN
      BY <1>3 DEF STypes
    <3> QED
      BY <1>1, <1>3, <2>3, <3>1, <3>2, <3>3, TypesKept DEF STypes
  <2>5. \A a : t \in S!Owners(a)' <=> a = x
    BY <1>3, <2>2, <2>3, OwnersAre
  <2>6. SOwners'
    <3>1. Keeps(t)'
      BY <1>1, <1>3, <2>2, <2>3 DEF Keeps
    <3> QED
      BY <1>1, <2>2, <2>3, <2>5, <3>1, OwnersKept
  <2>7. ASSUME NEW a \in Address
        PROVE  Free(a)' <=> Free(a) /\ a # x
    <3>1. CASE a = x
      BY <2>5, <3>1 DEF Free
    <3>2. CASE a # x
      <4>1. S!Owners(a)' = {} <=> S!Owners(a) = {}
        BY <1>2, <2>3, <2>5, <3>2, OthersOwners
      <4> QED
        BY <1>1, <3>2, <4>1 DEF Free
    <3> QED
      BY <3>1, <3>2
  <2>8. ASSUME ~broken'
        PROVE  SChain' /\ S!Stack!Pop(t)
    <3>1. Chained(c, x, n) /\ c \in Seq(Address)
      BY <2>1 DEF SChain, Chained
    <3>2. PICK d : d = Tail(c)
      OBVIOUS
    <3>3. /\ c # <<>> /\ c[1] = x /\ Len(c) > 0 /\ d \in Seq(Address)
          /\ Len(d) = Len(c) - 1 /\ Len(c) \in Nat
          /\ \A i \in 1 .. (Len(c) - 1) : d[i] = c[i + 1] /\ c[i + 1] # x
          /\ Chained(d, n[x].next, n)
      BY <2>2, <3>1, <3>2, ChainedPop
    <3>4. n[x].next = head' /\ n = node'
      BY <1>1, <1>3, <2>1, <2>2, <2>8
    <3>5. \A a \in Address : Free(a)' <=> \E i \in 1 .. Len(d) : d[i] = a
      <4> SUFFICES ASSUME NEW a \in Address
                   PROVE  Free(a) /\ a # x <=> \E i \in 1 .. Len(d) : d[i] = a
        BY <2>7
      <4>1. ASSUME Free(a), a # x
            PROVE  \E i \in 1 .. Len(d) : d[i] = a
        <5>1. PICK i \in 1 .. Len(c) : c[i] = a
          BY <2>1, <4>1 DEF SChain
        <5>2. i # 1
          BY <3>3, <4>1, <5>1
        <5>3. PICK j \in Nat : j = i - 1
          BY <3>3, <5>1, <5>2
        <5>4. j \in 1 .. (Len(c) - 1) /\ j \in 1 .. Len(d) /\ j + 1 = i
          BY <3>3, <5>1, <5>2, <5>3
        <5> QED
          BY <3>3, <5>1, <5>4
      <4>2. ASSUME NEW i \in 1 .. Len(d), d[i] = a
            PROVE  Free(a) /\ a # x
        <5>1. i \in 1 .. (Len(c) - 1) /\ i + 1 \in 1 .. Len(c)
          BY <3>3
        <5>2. c[i + 1] = a /\ a # x
          BY <3>3, <4>2, <5>1
        <5> QED
          BY <2>1, <5>1, <5>2 DEF SChain
      <4> QED
        BY <4>1, <4>2
    <3>6. SChain' /\ S!Chain' = d
      <4>1. PICK h : h = head'
        OBVIOUS
      <4> QED
        BY <3>3, <3>4, <3>5, <4>1, NewChain
    <3>7. \A i \in 1 .. Len(c) : node[c[i]] \in SNode
      <4> SUFFICES ASSUME NEW i \in 1 .. Len(c)
                   PROVE  node[c[i]] \in SNode
        OBVIOUS
      <4>1. c[i] \in Address /\ node[c[i]] # Freed
        BY <2>1, <3>1 DEF Chained
      <4> QED
        BY <4>1 DEF STypes
    <3>8. \A i \in 1 .. Len(d) : node'[d[i]] \in SNode
      <4> SUFFICES ASSUME NEW i \in 1 .. Len(d)
                   PROVE  node'[d[i]] \in SNode
        OBVIOUS
      <4>1. i \in 1 .. (Len(c) - 1) /\ i + 1 \in 1 .. Len(c)
        BY <3>3
      <4> QED
        BY <1>1, <3>3, <3>7, <4>1
    <3>9. PICK v, w \in Seq(SItem) :
            /\ v = S!Values(S!Chain) /\ w = S!Values(S!Chain)'
            /\ Len(v) = Len(c) /\ Len(w) = Len(d)
            /\ \A i \in 1 .. Len(c) : v[i] = node[c[i]].data
            /\ \A i \in 1 .. Len(d) : w[i] = node'[d[i]].data
      BY <2>1, <2>4, <3>1, <3>3, <3>6, <3>7, <3>8, ValuesAre
    <3>10. \A i \in 1 .. Len(w) : w[i] = v[i + 1]
      <4> SUFFICES ASSUME NEW i \in 1 .. Len(w)
                   PROVE  w[i] = v[i + 1]
        OBVIOUS
      <4>1. i \in 1 .. (Len(c) - 1) /\ i \in 1 .. Len(d) /\ i + 1 \in 1 .. Len(c)
        BY <3>3, <3>9
      <4> QED
        BY <1>1, <3>3, <3>9, <4>1
    <3>11. v # <<>> /\ w = Tail(v) /\ Head(v) = v[1]
      BY <3>3, <3>9, <3>10, OneLess
    <3>12. v[1] = node[x].data
      BY <3>3, <3>9
    <3>13. SGotten' = [SGotten EXCEPT ![t] = Append(@, Head(v))]
      <4>1. SGotten' = [SGotten EXCEPT ![t] = IF sPc'[t] = "take"
                                               THEN Append(sGot'[t], node'[cur'[t]].data)
                                               ELSE sGot'[t]]
        BY <1>1, <2>2, <2>3, GottenKept
      <4>2. SGotten' = [SGotten EXCEPT ![t] = Append(sGot[t], node[x].data)]
        BY <1>1, <1>3, <2>2, <2>3, <4>1
      <4>3. SGotten[t] = sGot[t]
        BY <1>1 DEF SGotten
      <4> QED
        BY <3>11, <3>12, <4>2, <4>3 DEF SGotten
    <3> QED
      BY <1>1, <3>6, <3>9, <3>11, <3>13 DEF S!Stack!Pop, SGotten
  <2>9. ~broken' => S!Stack!Next
    BY <2>8 DEF S!Stack!Next
  <2>10. Sure(t)'
    BY <2>3 DEF Sure
  <2>11. Sure(t) => ~broken'
    BY <1>1, <1>3 DEF Sure
  <2>12. sPc[t] \in SPopping
    BY <1>1 DEF SPopping
  <2> QED
    BY <1>1, <2>3, <2>4, <2>6, <2>8, <2>9, <2>10, <2>11, <2>12, SureKept DEF Kept
<1>4. CASE /\ head # cur[t]
           /\ sPc' = [sPc EXCEPT ![t] = IF head = Null THEN "popLoad" ELSE "readNext"]
           /\ head' = head /\ cur' = [cur EXCEPT ![t] = head] /\ broken' = broken
  <2>1. /\ SOthers(t) /\ sPc'[t] = IF head = Null THEN "popLoad" ELSE "readNext"
        /\ cur'[t] = head
    BY <1>1, <1>4 DEF SOthers, STypes
  <2>2. STypes'
    <3>1. SLocal(t)'
      BY <1>1, <1>2, <1>4, <2>1, HeadFree DEF SLocal, SPushing, SPopping
    <3>2. sPc' \in [StackThread -> SPushing \cup SPopping \cup {"done"}]
      BY <1>4 DEF STypes, SPopping
    <3>3. cur' \in [StackThread -> Place]
      BY <1>4 DEF STypes
    <3> QED
      BY <1>1, <1>4, <2>1, <3>1, <3>2, <3>3, TypesKept DEF STypes
  <2>3. /\ SOwners' /\ SChain' /\ UNCHANGED S!Stack!lifoVars
        /\ \A a \in Address : Free(a) => Free(a)' /\ node'[a] = node[a]
    BY <1>1, <1>4, <2>1, Unchained
  <2>4. Sure(t)'
    <3>1. CASE head = Null
      BY <2>1, <3>1 DEF Sure
    <3>2. CASE head # Null
      <4>1. PICK a \in Address : a = head /\ Free(a)
        BY <3>2, HeadFree
      <4>2. Free(a)' /\ cur'[t] = a
        BY <2>1, <2>3, <4>1
      <4>3. Free(cur[t])'
        BY <4>2 DEF Free, S!Owners
      <4> QED
        BY <2>1, <3>2, <4>3 DEF Sure
    <3> QED
      BY <3>1, <3>2
  <2> QED
    BY <1>1, <1>4, <2>1, <2>2, <2>3, <2>4, SureKept DEF Kept
<1> QED
  BY <1>1, <1>3, <1>4

\* The destructor takes the first node; nothing is owned then.
LEMMA KeptDestroy ==
  ASSUME SInv, ~broken, S!Destroy
  PROVE  SInv'
<1>1. /\ S!Joined /\ head # Null /\ head' = node[head].next
      /\ node' = [node EXCEPT ![head] = Freed]
      /\ sQuota' = sQuota /\ sPc' = sPc /\ cur' = cur /\ mine' = mine /\ next' = next
      /\ sSent' = sSent /\ sGot' = sGot /\ broken' = broken
  BY DEF S!Destroy
<1>2. STypes /\ SOwners /\ SChain
  BY DEF SInv
<1>3. \A u \in StackThread : sPc[u] = "done"
  BY <1>1 DEF S!Joined
<1>4. \A a : S!Owners(a) = {} /\ S!Owners(a)' = {}
  <2>1. \A a, u : u \notin S!Owners(a) /\ u \notin S!Owners(a)'
    BY <1>1, <1>3, OwnersAre
  <2> QED
    BY <2>1
<1>5. PICK x, c, n, m : x = head /\ c = S!Chain /\ n = node /\ m = node'
  OBVIOUS
<1>6. /\ x \in Address /\ node[x] \in SNode
      /\ node'[x] = Freed /\ \A a \in Address : a # x => node'[a] = node[a]
  <2>1. x \in Address /\ node[x] # Freed
    BY <1>1, <1>2, <1>5, HeadFree DEF Free
  <2> QED
    BY <1>1, <1>2, <1>5, <2>1 DEF STypes
<1>7. STypes'
  <2>1. head' \in Place
    BY <1>1, <1>5, <1>6 DEF SNode
  <2>2. node' \in [Address -> SNode \cup {Freed}]
    BY <1>1, <1>2 DEF STypes
  <2>3. ASSUME NEW u \in StackThread
        PROVE  SLocal(u)'
    <3>1. SLocal(u)
      BY <1>2 DEF STypes
    <3> QED
      BY <1>1, <3>1 DEF SLocal
  <2> QED
    BY <1>1, <1>2, <2>1, <2>2, <2>3 DEF STypes
<1>8. SOwners'
  <2>1. \A u \in StackThread : Keeps(u)'
    BY <1>1, <1>3 DEF Keeps
  <2> QED
    BY <1>4, <2>1 DEF SOwners
<1>9. SChain'
  <2>1. Chained(c, x, n) /\ c \in Seq(Address)
    BY <1>2, <1>5 DEF SChain, Chained
  <2>2. PICK d : d = Tail(c)
    OBVIOUS
  <2>3. /\ c # <<>> /\ c[1] = x /\ Len(c) > 0 /\ d \in Seq(Address)
        /\ Len(d) = Len(c) - 1 /\ Len(c) \in Nat
        /\ \A i \in 1 .. (Len(c) - 1) : d[i] = c[i + 1] /\ c[i + 1] # x
        /\ Chained(d, n[x].next, n)
    BY <1>1, <1>5, <2>1, <2>2, ChainedPop
  <2>4. \A i \in 1 .. Len(d) : d[i] \in Address /\ m[d[i]] = n[d[i]]
    <3> SUFFICES ASSUME NEW i \in 1 .. Len(d)
                 PROVE  d[i] \in Address /\ m[d[i]] = n[d[i]]
      OBVIOUS
    <3>1. i \in 1 .. (Len(c) - 1) /\ d[i] \in Address
      BY <2>3
    <3>2. d[i] # x
      BY <2>3, <3>1
    <3> QED
      BY <1>5, <1>6, <3>1, <3>2
  <2>5. Chained(d, n[x].next, m)
    BY <2>3, <2>4, ChainedSame
  <2>6. \A a \in Address : Free(a)' <=> \E i \in 1 .. Len(d) : d[i] = a
    <3> SUFFICES ASSUME NEW a \in Address
                 PROVE  Free(a)' <=> \E i \in 1 .. Len(d) : d[i] = a
      OBVIOUS
    <3>1. Free(a)' <=> Free(a) /\ a # x
      BY <1>4, <1>6 DEF Free
    <3>2. ASSUME Free(a), a # x
          PROVE  \E i \in 1 .. Len(d) : d[i] = a
      <4>1. PICK i \in 1 .. Len(c) : c[i] = a
        BY <1>2, <1>5, <3>2 DEF SChain
      <4>2. i # 1
        BY <2>3, <3>2, <4>1
      <4>3. PICK j \in Nat : j = i - 1
        BY <2>3, <4>1, <4>2
      <4>4. j \in 1 .. (Len(c) - 1) /\ j \in 1 .. Len(d) /\ j + 1 = i
        BY <2>3, <4>1, <4>2, <4>3
      <4> QED
        BY <2>3, <4>1, <4>4
    <3>3. ASSUME NEW i \in 1 .. Len(d), d[i] = a
          PROVE  Free(a) /\ a # x
      <4>1. i \in 1 .. (Len(c) - 1) /\ i + 1 \in 1 .. Len(c)
        BY <2>3
      <4>2. c[i + 1] = a /\ a # x
        BY <2>3, <3>3, <4>1
      <4> QED
        BY <1>2, <1>5, <4>1, <4>2 DEF SChain
    <3> QED
      BY <3>1, <3>2, <3>3
  <2>7. PICK h : h = head' /\ h = n[x].next
    BY <1>1, <1>5
  <2> QED
    BY <1>5, <2>5, <2>6, <2>7, NewChain
<1>10. \A u \in StackThread : Sure(u)'
  BY <1>1, <1>3 DEF Sure
<1> QED
  BY <1>1, <1>7, <1>8, <1>9, <1>10 DEF SInv

-----------------------------------------------------------------------------
(* The invariant of LockFreeStack *)

LEMMA KeptStep ==
  ASSUME SInv, ~broken, NEW t \in StackThread, S!Step(t)
  PROVE  Kept(t)
<1>1. STypes /\ SOwners /\ SChain
  BY DEF SInv
<1>2. CASE S!PushLoad(t)
  BY <1>1, <1>2, KeptPushLoad
<1>3. CASE S!New(t)
  BY <1>1, <1>3, KeptNew
<1>4. CASE S!CasPush(t)
  BY <1>1, <1>4, KeptCasPush
<1>5. CASE S!PopLoad(t)
  BY <1>1, <1>5, KeptPopLoad
<1>6. CASE S!ReadNext(t)
  BY <1>1, <1>6, KeptReadNext
<1>7. CASE S!CasPop(t)
  BY <1>1, <1>7, KeptCasPop
<1>8. CASE S!Take(t)
  BY <1>1, <1>8, KeptTake
<1> QED
  BY <1>2, <1>3, <1>4, <1>5, <1>6, <1>7, <1>8 DEF S!Step

\* Nothing more is done once the stack is broken.
LEMMA BrokenEnds ==
  ASSUME NEW t \in StackThread, S!Step(t) \/ S!Destroy
  PROVE  ~broken
BY DEF S!Step, S!PushLoad, S!New, S!CasPush, S!Publish, S!PopLoad, S!ReadNext, S!CasPop,
       S!Take, S!Goto, S!Destroy

LEMMA SUnchanged ==
  ASSUME SInv, UNCHANGED stackVars
  PROVE  SInv' /\ S!Chain' = S!Chain /\ UNCHANGED S!Stack!lifoVars
<1>1. /\ sQuota' = sQuota /\ head' = head /\ node' = node /\ sPc' = sPc /\ cur' = cur
      /\ mine' = mine /\ next' = next /\ sSent' = sSent /\ sGot' = sGot /\ broken' = broken
  BY DEF stackVars
<1>2. S!Chain' = S!Chain
  BY <1>1 DEF S!Chain
<1>3. STypes' <=> STypes
  BY <1>1 DEF STypes, SLocal
<1>4. \A a : S!Owners(a)' = S!Owners(a)
  BY <1>1 DEF S!Owners
<1>5. SOwners' <=> SOwners
  BY <1>1, <1>4 DEF SOwners, Keeps
<1>6. \A a : Free(a)' <=> Free(a)
  BY <1>1, <1>4 DEF Free
<1>7. SChain' <=> SChain
  BY <1>1, <1>2, <1>6 DEF SChain, Chained
<1>8. SAlone' <=> SAlone
  BY <1>1 DEF SAlone, S!Popper
<1>9. \A t \in StackThread : Sure(t)' <=> Sure(t)
  BY <1>1, <1>6 DEF Sure
<1>10. S!Values(S!Chain)' = S!Values(S!Chain)
  BY <1>1, <1>2 DEF S!Values
<1>11. UNCHANGED S!Stack!lifoVars
  BY <1>1, <1>10 DEF S!Stack!lifoVars
<1> QED
  BY <1>1, <1>2, <1>3, <1>5, <1>7, <1>8, <1>9, <1>11 DEF SInv

LEMMA SStepInv ==
  ASSUME SInv, S!Next
  PROVE  SInv'
<1>1. ASSUME NEW t \in StackThread, S!Step(t)
      PROVE  SInv'
  <2>1. ~broken
    BY <1>1, BrokenEnds
  <2>2. Kept(t)
    BY <1>1, <2>1, KeptStep
  <2>3. SAlone' <=> SAlone
    BY <2>2 DEF Kept, SAlone, S!Popper
  <2>4. SAlone => \A u \in StackThread : Sure(u)
    BY <2>1 DEF SInv
  <2> QED
    BY <2>2, <2>3, <2>4 DEF Kept, SInv
<1>2. CASE S!Destroy
  BY <1>2, KeptDestroy DEF S!Destroy
<1>3. CASE S!Exit
  <2>1. UNCHANGED stackVars
    BY <1>3 DEF S!Exit, S!vars, stackVars
  <2> QED
    BY <2>1, SUnchanged
<1> QED
  BY <1>1, <1>2, <1>3 DEF S!Next

LEMMA SInitInv ==
  ASSUME S!Init
  PROVE  SInv /\ S!Chain = <<>>
<1>1. /\ sQuota \in StackSetup /\ head = Null /\ node = [a \in Address |-> Freed]
      /\ sPc = [t \in StackThread |-> CASE t \in S!Pusher -> "pushLoad"
                                        [] t \in S!Popper -> "popLoad"
                                        [] OTHER -> "done"]
      /\ cur = [t \in StackThread |-> Null] /\ mine = [t \in StackThread |-> Null]
      /\ next = [t \in StackThread |-> Null] /\ sSent = [t \in StackThread |-> 0]
      /\ sGot = [t \in StackThread |-> <<>>] /\ broken = FALSE
  BY DEF S!Init
<1>2. \A t \in StackThread :
        /\ sPc[t] \in {"pushLoad", "popLoad", "done"}
        /\ sPc[t] = "pushLoad" => t \in S!Pusher
        /\ sPc[t] = "popLoad" => t \in S!Popper
  BY <1>1
<1>3. \A t \in StackThread : sQuota.push[t] \in Nat /\ sQuota.pop[t] \in Nat
  BY <1>1, ConcurrentAssumption DEF Quotas
<1>4. STypes
  <2>1. ASSUME NEW t \in StackThread
        PROVE  SLocal(t)
    BY <1>1, <1>2, <1>3 DEF SLocal, SPushing, SPopping, S!Pusher, S!Popper
  <2>2. sPc \in [StackThread -> SPushing \cup SPopping \cup {"done"}]
    BY <1>1, <1>2 DEF SPushing, SPopping
  <2>3. sGot \in [StackThread -> Seq(SItem)]
    <3>1. <<>> \in Seq(SItem)
      OBVIOUS
    <3> QED
      BY <1>1, <3>1
  <2>4. /\ cur \in [StackThread -> Place] /\ mine \in [StackThread -> Place]
        /\ next \in [StackThread -> Place] /\ head \in Place
    BY <1>1 DEF Place
  <2>5. node \in [Address -> SNode \cup {Freed}]
    BY <1>1
  <2>6. sSent \in [StackThread -> Nat]
    BY <1>1
  <2> QED
    BY <1>1, <2>1, <2>2, <2>3, <2>4, <2>5, <2>6 DEF STypes
<1>5. \A a : S!Owners(a) = {}
  BY <1>2, OwnersAre
<1>6. SOwners
  BY <1>2, <1>5 DEF SOwners, Keeps
<1>7. PICK c : c = <<>>
  OBVIOUS
<1>8. Chained(c, Null, node)
  <2>1. c \in Seq(Address) /\ Len(c) = 0
    BY <1>7
  <2> QED
    BY <1>7, <2>1 DEF Chained
<1>9. S!Chain = c
  <2>1. PICK h, n : h = Null /\ n = node
    OBVIOUS
  <2>2. c = CHOOSE d \in UNION {[1 .. k -> Address] : k \in 0 .. S!Cardinality(Address)} :
              S!Leads(d, h, n)
    BY <1>8, <2>1, ChainIs
  <2> QED
    BY <1>1, <2>1, <2>2 DEF S!Chain
<1>10. SChain
  <2>1. \A a \in Address : ~Free(a)
    BY <1>1 DEF Free
  <2>2. Len(c) = 0
    BY <1>7
  <2> QED
    BY <1>1, <1>8, <1>9, <2>1, <2>2 DEF SChain
<1>11. \A t \in StackThread : Sure(t)
  BY <1>2 DEF Sure
<1> QED
  BY <1>1, <1>4, <1>6, <1>7, <1>9, <1>10, <1>11 DEF SInv

LEMMA SInvariance ==
  Spec => []SInv
<1>1. Init => SInv
  BY SInitInv DEF Init
<1>2. SInv /\ [Next]_vars => SInv'
  <2> SUFFICES ASSUME SInv, [Next]_vars
               PROVE  SInv'
    OBVIOUS
  <2>1. CASE S!Next
    BY <2>1, SStepInv
  <2>2. CASE ~S!Next
    <3>1. UNCHANGED stackVars
      BY <2>2 DEF Next, vars, AtomicsStep, QueueStep, StackStep, MutexStep
    <3> QED
      BY <3>1, SUnchanged
  <2> QED
    BY <2>1, <2>2
<1> QED
  BY <1>1, <1>2, PTL DEF Spec

-----------------------------------------------------------------------------
(* What the invariant says of nodes, and of the stack *)

LEMMA MoreThanOne ==
  ASSUME NEW T, IsFiniteSet(T), NEW t \in T, NEW u \in T, t # u
  PROVE  S!Cardinality(T) > 1
<1>1. Cardinality({t, u}) = 2
  <2>1. Cardinality({t}) = 1 /\ IsFiniteSet({t}) /\ {t, u} = {t} \cup {u}
    BY FS_Singleton
  <2> QED
    BY <2>1, FS_AddElement
<1>2. Cardinality({t, u}) <= Cardinality(T) /\ Cardinality(T) \in Nat
  BY FS_Subset, FS_CardinalityType
<1>3. S!Cardinality(T) = Cardinality(T)
  BY DEF S!Cardinality, Cardinality
<1> QED
  BY <1>1, <1>2, <1>3

LEMMA SOneHolder ==
  ASSUME SInv
  PROVE  S!NodesHaveOneHolder
<1>1. CASE broken
  <2>1. PICK t, u \in S!Popper : t # u
    BY <1>1 DEF SInv, SAlone
  <2>2. IsFiniteSet(S!Popper)
    <3>1. S!Popper \subseteq 1 .. 4
      BY ConcurrentAssumption DEF S!Popper
    <3>2. IsFiniteSet(1 .. 4)
      <4>1. 1 \in Int /\ 4 \in Int
        OBVIOUS
      <4> QED
        BY <4>1, FS_Interval
    <3> QED
      BY <3>1, <3>2, FS_Subset
  <2> QED
    BY <1>1, <2>1, <2>2, MoreThanOne DEF S!NodesHaveOneHolder
<1>2. CASE ~broken
  <2>1. PICK c : c = S!Chain
    OBVIOUS
  <2>2. /\ SOwners /\ c \in Seq(Address) /\ DOMAIN c = 1 .. Len(c)
        /\ \A i, j \in 1 .. Len(c) : c[i] = c[j] => i = j
        /\ \A a \in Address : Free(a) <=> \E i \in 1 .. Len(c) : c[i] = a
    BY <1>2, <2>1 DEF SInv, SChain, Chained
  <2>3. /\ \A T : S!Cardinality(T) = Cardinality(T)
        /\ Cardinality({}) = 0 /\ \A i : Cardinality({i}) = 1
    BY FS_EmptySet, FS_Singleton DEF S!Cardinality, Cardinality
  <2>4. ASSUME NEW a \in Address
        PROVE  S!Holders(c, a) = IF node[a] = Freed THEN 0 ELSE 1
    <3> DEFINE places == {i \in DOMAIN c : c[i] = a}
    <3>1. S!Holders(c, a) = Cardinality(places) + Cardinality(S!Owners(a))
      BY <2>3 DEF S!Holders
    <3>2. ~Free(a) => places = {}
      BY <2>2
    <3>3. CASE node[a] = Freed
      <4>1. S!Owners(a) = {} /\ ~Free(a)
        BY <2>2, <3>3, FreedUnowned DEF Free
      <4> QED
        BY <2>3, <3>1, <3>2, <3>3, <4>1
    <3>4. CASE node[a] # Freed /\ S!Owners(a) = {}
      <4>1. Free(a)
        BY <3>4 DEF Free
      <4>2. PICK i : places = {i}
        <5>1. PICK i \in 1 .. Len(c) : c[i] = a
          BY <2>2, <4>1
        <5>2. places = {i}
          BY <2>2, <5>1
        <5> QED
          BY <5>2
      <4>3. Cardinality(places) = 1 /\ Cardinality(S!Owners(a)) = 0
        BY <2>3, <3>4, <4>2
      <4> QED
        BY <3>1, <3>4, <4>3
    <3>5. CASE node[a] # Freed /\ S!Owners(a) # {}
      <4>1. ~Free(a)
        BY <3>5 DEF Free
      <4>2. PICK t : S!Owners(a) = {t}
        BY <2>2, <3>5 DEF SOwners
      <4>3. Cardinality(places) = 0 /\ Cardinality(S!Owners(a)) = 1
        BY <2>3, <3>2, <4>1, <4>2
      <4> QED
        BY <3>1, <3>5, <4>3
    <3> QED
      BY <3>3, <3>4, <3>5
  <2> QED
    BY <1>2, <2>1, <2>4 DEF S!NodesHaveOneHolder
<1> QED
  BY <1>1, <1>2

\* LockFreeStack.cpp: whatever is pushed and popped by any threads at any addresses, reused
\* ones included, a node is deleted or has one holder, and only with a second popper is a
\* freed node read or the head swung to a stale successor.
THEOREM OneHolder == Spec => []NodesHaveOneHolder
<1>1. SInv => NodesHaveOneHolder
  BY SOneHolder DEF NodesHaveOneHolder
<1> QED
  BY <1>1, SInvariance, PTL

LEMMA SInitShows ==
  ASSUME S!Init
  PROVE  S!Stack!Init
<1>1. S!Chain = <<>>
  BY SInitInv
<1>2. S!Values(S!Chain) = <<>>
  BY <1>1 DEF S!Values
<1>3. SGotten = [t \in StackThread |-> <<>>]
  <2>1. \A t \in StackThread : sPc[t] # "take" /\ sGot[t] = <<>>
    BY DEF S!Init
  <2> QED
    BY <2>1 DEF SGotten
<1>4. sSent = [t \in StackThread |-> 0]
  BY DEF S!Init
<1> QED
  BY <1>2, <1>3, <1>4 DEF S!Stack!Init, SGotten

LEMMA SShows ==
  ASSUME SInv, [Next]_vars
  PROVE  [broken' \/ S!Joined \/ S!Stack!Next]_(S!Stack!lifoVars)
<1>1. ASSUME NEW t \in StackThread, S!Step(t)
      PROVE  broken' \/ S!Stack!Next \/ UNCHANGED S!Stack!lifoVars
  BY <1>1, BrokenEnds, KeptStep DEF Kept
<1>2. CASE S!Destroy
  BY <1>2 DEF S!Destroy
<1>3. CASE UNCHANGED stackVars
  BY <1>3, SUnchanged
<1>4. S!Exit => UNCHANGED stackVars
  BY DEF S!Exit, S!vars, stackVars
<1>5. S!Next \/ UNCHANGED stackVars
  BY DEF Next, vars, AtomicsStep, QueueStep, StackStep, MutexStep
<1> QED
  BY <1>1, <1>2, <1>3, <1>4, <1>5 DEF S!Next

\* LockFreeStack.cpp: a push puts its value on top when it moves the head, and a pop has the
\* top value when it moves the head, for any threads, any pushes and pops and any addresses,
\* until the stack is broken.
THEOREM StackImplementsLifo == Spec => ImplementsLifoStack
<1>1. Init => S!Stack!Init
  BY SInitShows DEF Init
<1> QED
  BY <1>1, SInvariance, SShows, PTL DEF Spec, ImplementsLifoStack, S!ImplementsLifoStack

-----------------------------------------------------------------------------
(* Types *)

LEMMA AtTypes ==
  ASSUME AtInv
  PROVE  At!TypeOK
<1>1. At!Max({3 * Rounds, 2}) = 3 * Rounds
  <2>1. 3 * Rounds \in Nat /\ 3 * Rounds >= 2
    BY AtomicConstants
  <2> QED
    BY <2>1, MaxOfTwo
<1>2. \A a \in AtomicLocation :
        /\ atHist[a] \in Seq(AtEntry) /\ At!Newest(a) > 0
        /\ At!Newest(a) = Len(atHist[a])
        /\ \A t \in Thread : atView[t].seen[a] \in 1 .. At!Newest(a)
  BY DEF AtInv, AtMem, At!Newest
<1>3. ASSUME NEW a \in AtomicLocation
      PROVE  /\ atHist[a] # <<>>
             /\ \A i \in DOMAIN atHist[a] : /\ atHist[a][i].val \in 0 .. (3 * Rounds)
                                            /\ atHist[a][i].view \in At!View
  <2>1. atHist[a] # <<>>
    BY <1>2
  <2>2. \A i \in DOMAIN atHist[a] : atHist[a][i] \in AtEntry
    BY <1>2
  <2> QED
    BY <2>1, <2>2 DEF AtEntry
<1>4. At!MemTypeOK([a \in AtomicLocation |-> 0 .. At!Max({3 * Rounds, 2})])
  BY <1>1, <1>2, <1>3 DEF At!MemTypeOK, AtInv, AtMem
<1> QED
  BY <1>4 DEF At!TypeOK, AtInv, AtLocals

LEMMA QTypes ==
  ASSUME QBase
  PROVE  Q!TypeOK
<1>1. \A a \in QueueLocation :
        /\ qHist[a] \in Seq(QEntry) /\ Q!Newest(a) > 0
        /\ Q!Newest(a) = Len(qHist[a])
        /\ \A t \in QueueThread : qView[t].seen[a] \in 1 .. Q!Newest(a)
  BY DEF QBase, QMem, Q!Newest
<1>2. ASSUME NEW a \in QueueLocation
      PROVE  /\ qHist[a] # <<>>
             /\ \A i \in DOMAIN qHist[a] :
                  /\ qHist[a][i].val \in IF a \in QueuePlain THEN QItem
                                                          ELSE 0 .. (capacity - 1)
                  /\ qHist[a][i].view \in Q!View
  <2>1. qHist[a] # <<>> /\ DOMAIN qHist[a] = 1 .. Q!Newest(a)
    BY <1>1
  <2>2. \A i \in DOMAIN qHist[a] : qHist[a][i].view \in Q!View
    <3>1. \A i \in DOMAIN qHist[a] : qHist[a][i] \in QEntry
      BY <1>1
    <3> QED
      BY <3>1 DEF QEntry
  <2>3. a \in QueuePlain \/ a \in QueueCursor
    BY DEF QueueLocation, QueueCursor, Q!front_, Q!back_, Q!write_
  <2>4. ASSUME a \in QueueCursor, NEW i \in 1 .. Q!Newest(a)
        PROVE  qHist[a][i].val \in 0 .. (capacity - 1)
    <3>1. i - 1 \in Nat /\ capacity \in Nat \ {0}
      BY <1>1, QueueConstants
    <3>2. (i - 1) % capacity \in 0 .. (capacity - 1)
      BY <3>1
    <3>3. qHist[a][i].val = (i - 1) % capacity
      BY <2>4 DEF QBase, QValues
    <3> QED
      BY <3>2, <3>3
  <2>5. a \in QueuePlain => \A i \in 1 .. Q!Newest(a) : qHist[a][i].val \in QItem
    BY DEF QBase, QValues
  <2> QED
    BY <2>1, <2>2, <2>3, <2>4, <2>5
<1>3. Q!MemTypeOK([a \in QueueLocation |->
                    IF a \in QueuePlain THEN QItem ELSE 0 .. (capacity - 1)])
  BY <1>1, <1>2 DEF Q!MemTypeOK, QBase, QMem, QLocals
<1>4. \A t \in QueueThread : qSent[t] \in 0 .. qQuota.push[t]
  BY QueueConstants DEF QBase, QLocals
<1> QED
  BY <1>3, <1>4 DEF Q!TypeOK, QBase, QLocals, QItem

LEMMA STypesOK ==
  ASSUME SInv
  PROVE  S!TypeOK
<1>1. ASSUME NEW t \in StackThread
      PROVE  sSent[t] \in 0 .. sQuota.push[t] /\ Len(sGot[t]) \in 0 .. sQuota.pop[t]
  <2>1. /\ sQuota.push[t] \in Nat /\ sQuota.pop[t] \in Nat
        /\ sSent[t] \in Nat /\ Len(sGot[t]) \in Nat
        /\ sSent[t] <= sQuota.push[t] /\ Len(sGot[t]) <= sQuota.pop[t]
    BY ConcurrentAssumption DEF SInv, STypes, SLocal, Quotas
  <2> QED
    BY <2>1
<1> QED
  BY <1>1 DEF S!TypeOK, SInv, STypes, SNode, SItem, Place

\* The memories, the locals of the threads and the nodes have their types.
THEOREM TypeCorrect == Spec => []TypeOK
<1>1. AtInv /\ QInv /\ SInv => TypeOK
  BY AtTypes, QTypes, STypesOK DEF QInv, TypeOK
<1> QED
  BY <1>1, AtInvariance, QInvariance, SInvariance, PTL

=============================================================================
