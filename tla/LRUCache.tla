------------------------------ MODULE LRUCache ------------------------------
(***************************************************************************)
(* structure/LRUCache.cpp: a map from keys to the nodes of a doubly linked *)
(* list that is ordered by use, with a header node and no end node. A node *)
(* that is deleted holds Freed until it is allocated again.                *)
(***************************************************************************)
EXTENDS Integers, SequencesExt, FiniteSets

CONSTANTS Entry,      \* the pairs of a key and a value that are set
          Node,       \* bound: the nodes there is memory for, beside head
          head, NULL, Freed

Key == {e[1] : e \in Entry}

VARIABLES cap,        \* the capacity the cache was made with
          list,       \* list.node[n] is node n, list.tail the tail pointer
          mp,         \* the map, a function on the keys in it
          recent,     \* what is promised: the entries, the last used one first
          wrong       \* get has not answered as promised

lruVars == <<cap, list, mp, recent, wrong>>

\* The list that BiList() makes and the empty map, for a cache of some capacity
InitFor(capacities) ==
  /\ cap \in capacities
  /\ list = [node |-> [n \in Node \cup {head} |->
                         IF n = head THEN [key |-> 0, value |-> 0, left |-> NULL, right |-> NULL]
                                     ELSE Freed],
             tail |-> head]
  /\ mp = [k \in {} |-> NULL]
  /\ recent = <<>>
  /\ wrong = FALSE

\* insert_front(new Node(k, v)), at n
insert_front(l, n, k, v) ==
  LET first  == l.node[head].right
      linked == [l.node EXCEPT
                   ![n] = [key |-> k, value |-> v, left |-> head, right |-> first],
                   ![head].right = n]
  IN  [node |-> IF first = NULL THEN linked ELSE [linked EXCEPT ![first].left = n],
       tail |-> IF l.tail = head THEN n ELSE l.tail]

\* Seeded bug: tail is not moved.
EraseKeepsTail(l, n) ==
  LET x == l.node[n]
      skipped == [l.node EXCEPT ![x.left].right = x.right, ![n] = Freed]
  IN  [node |-> IF x.right = NULL THEN skipped ELSE [skipped EXCEPT ![x.right].left = x.left],
       tail |-> l.tail]

\* erase(n) and delete n
erase(l, n) ==
  LET x == l.node[n]
      skipped == [l.node EXCEPT ![x.left].right = x.right, ![n] = Freed]
  IN  [node |-> IF x.right = NULL THEN skipped ELSE [skipped EXCEPT ![x.right].left = x.left],
       tail |-> IF n = l.tail THEN x.left ELSE l.tail]

\* erase_end() and what it returns the key of; {-1, -1} if the list is empty
erase_end(l) ==
  LET x == l.node[l.tail]
  IN  [node |-> [l.node EXCEPT ![x.left].right = NULL, ![l.tail] = Freed], tail |-> x.left]

Without(f, k) == [m \in DOMAIN f \ {k} |-> f[m]]

With(f, k, n) == [m \in DOMAIN f \cup {k} |-> IF m = k THEN n ELSE f[m]]

\* The front of the list is a new node with k and v, and the map knows it.
Add(l, map, k, v) ==
  LET n == CHOOSE n \in Node : l.node[n] = Freed
  IN  /\ \E free \in Node : l.node[free] = Freed
      /\ list' = insert_front(l, n, k, v)
      /\ mp' = With(map, k, n)

Known(k) == \E j \in DOMAIN recent : recent[j][1] = k

Where(k) == CHOOSE j \in DOMAIN recent : recent[j][1] = k

\* What is promised to be kept when k is used and has the value v
Used(k, v) ==
  <<<<k, v>>>> \o IF Known(k) THEN RemoveAt(recent, Where(k))
                 ELSE IF Len(recent) = cap THEN SubSeq(recent, 1, cap - 1)
                 ELSE recent

set(k, v) ==
  /\ \/ /\ k \in DOMAIN mp
        /\ Add(erase(list, mp[k]), mp, k, v)
     \/ /\ k \notin DOMAIN mp /\ Cardinality(DOMAIN mp) # cap
        /\ Add(list, mp, k, v)
     \/ /\ k \notin DOMAIN mp /\ Cardinality(DOMAIN mp) = cap
        /\ IF list.tail = head THEN Add(list, mp, k, v)
           ELSE Add(erase_end(list), Without(mp, list.node[list.tail].key), k, v)
  /\ recent' = Used(k, v)
  /\ UNCHANGED <<cap, wrong>>

Promised(k) == IF Known(k) THEN recent[Where(k)][2] ELSE -1

get(k) ==
  \/ /\ k \notin DOMAIN mp
     /\ wrong' = (wrong \/ Known(k))
     /\ UNCHANGED <<cap, list, mp, recent>>
  \/ /\ k \in DOMAIN mp
     /\ LET v == list.node[mp[k]].value
        IN  /\ Add(erase(list, mp[k]), mp, k, v)
            /\ wrong' = (wrong \/ v # Promised(k))
     /\ recent' = IF Known(k) THEN Used(k, Promised(k)) ELSE recent
     /\ cap' = cap

Next == (\E k \in Key : get(k)) \/ \E e \in Entry : set(e[1], e[2])

-----------------------------------------------------------------------------

\* The nodes one meets from head on, as many as there should be
Walk == LET walk[j \in 0 .. Len(recent)] ==
              IF j = 0 THEN head ELSE list.node[walk[j - 1]].right
        IN  walk

\* The list is what was used last, from the front to the back: the pointers of both
\* directions, tail and the map agree on it, no entry beyond the capacity is kept (a
\* cache of capacity 0 keeps all of them), and get answers with the value set last.
KeepsRecency ==
  LET size == Len(recent)
  IN  /\ \A j \in 1 .. size :
           /\ Walk[j] \in Node /\ list.node[Walk[j]] # Freed
           /\ list.node[Walk[j]] = [key |-> recent[j][1], value |-> recent[j][2],
                                    left |-> Walk[j - 1],
                                    right |-> IF j = size THEN NULL ELSE Walk[j + 1]]
           /\ mp[recent[j][1]] = Walk[j]
      /\ list.tail = Walk[size]
      /\ Cardinality({n \in Node : list.node[n] # Freed}) = size
      /\ Cardinality(DOMAIN mp) = size
      /\ cap > 0 => size <= cap
      /\ ~wrong

=============================================================================
