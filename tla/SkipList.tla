------------------------------ MODULE SkipList ------------------------------
(***************************************************************************)
(* structure/SkipList.cpp: sorted linked lists at the levels 0 to          *)
(* skip_list_level, each of them leaving out nodes of the one below. The   *)
(* search that Insert, Search and Delete begin with takes one action per   *)
(* move; what they do with its result is one action.                       *)
(***************************************************************************)
EXTENDS Integers, FiniteSets

CONSTANTS Entry,      \* the pairs of a key and a value that are inserted
          Node,        \* bound: the nodes there is memory for, beside header
          header, NULL, Freed,
          max_level

Key == {e[1] : e \in Entry}

VARIABLES node,             \* node[n] is node n, or Freed
          skip_list_level, element_count,
          pc, call,         \* what the running operation does next, and its arguments
          cur, i, update,   \* its locals
          dict,             \* what is promised: a function on the keys in the list
          wrong             \* a call has not answered as promised

skipVars == <<node, skip_list_level, element_count, pc, call, cur, i, update, dict, wrong>>

Level == 0 .. max_level

NoCall == [op |-> "none", key |-> 0, value |-> 0]

Absent == 0

Init ==
  /\ node = [n \in Node \cup {header} |->
               IF n = header THEN [key |-> 0, value |-> 0, forward |-> [l \in Level |-> NULL]]
               ELSE Freed]
  /\ skip_list_level = 0 /\ element_count = 0
  /\ pc = "idle" /\ call = NoCall
  /\ cur = header /\ i = 0 /\ update = [l \in Level |-> NULL]
  /\ dict = [k \in {} |-> Absent]
  /\ wrong = FALSE

Call(op, k, v) ==
  /\ pc = "idle"
  /\ pc' = "search"
  /\ call' = [op |-> op, key |-> k, value |-> v]
  /\ cur' = header /\ i' = skip_list_level
  /\ UNCHANGED <<node, skip_list_level, element_count, update, dict, wrong>>

next == node[cur].forward[i]

Before == next # NULL /\ node[next].key < call.key

\* cur = cur->forward[i]
Right ==
  /\ pc = "search" /\ Before
  /\ cur' = next
  /\ UNCHANGED <<node, skip_list_level, element_count, pc, call, i, update, dict, wrong>>

\* update[i] = cur; i--
Down ==
  /\ pc = "search" /\ ~Before
  /\ update' = [update EXCEPT ![i] = cur]
  /\ i' = IF i = 0 THEN 0 ELSE i - 1
  /\ pc' = IF i = 0 THEN call.op ELSE "search"
  /\ UNCHANGED <<node, skip_list_level, element_count, call, cur, dict, wrong>>

\* cur->forward[0], where the key is if it is in the list
candidate == node[cur].forward[0]

Found == candidate # NULL /\ node[candidate].key = call.key

\* The operation returns `answer`, and should return `promised`; its locals are gone.
Return(answer, promised) ==
  /\ wrong' = (wrong \/ answer # promised)
  /\ pc' = "idle" /\ call' = NoCall
  /\ cur' = header /\ i' = 0 /\ update' = [l \in Level |-> NULL]

Overwrite ==
  /\ pc = "insert" /\ Found
  /\ node' = [node EXCEPT ![candidate].value = call.value]
  /\ dict' = [dict EXCEPT ![call.key] = call.value]
  /\ Return(FALSE, call.key \notin DOMAIN dict)
  /\ UNCHANGED <<skip_list_level, element_count>>

\* A new highest level is one above the last one.
InsertAt(r) ==
  LET higher == r > skip_list_level
      level  == IF higher THEN skip_list_level + 1 ELSE r
      before == IF higher THEN [update EXCEPT ![level] = header] ELSE update
      n      == CHOOSE n \in Node : node[n] = Freed
  IN  /\ pc = "insert" /\ ~Found
      /\ \E free \in Node : node[free] = Freed
      /\ skip_list_level' = IF higher THEN level ELSE skip_list_level
      /\ node' = [m \in DOMAIN node |->
           IF m = n
           THEN [key |-> call.key, value |-> call.value,
                 forward |-> [l \in 0 .. level |-> node[before[l]].forward[l]]]
           ELSE IF node[m] = Freed THEN Freed
           ELSE [node[m] EXCEPT !.forward =
                   [l \in DOMAIN @ |-> IF l <= level /\ before[l] = m THEN n ELSE @[l]]]]
      /\ element_count' = element_count + 1
      /\ dict' = [k \in DOMAIN dict \cup {call.key} |->
                    IF k = call.key THEN call.value ELSE dict[k]]
      /\ Return(TRUE, call.key \notin DOMAIN dict)

\* RandomLevel() gives a level from 1 to max_level.
InsertNew == \E r \in 1 .. max_level : InsertAt(r)

\* The value that Search finds, or Absent for false
Answer ==
  /\ pc = "find"
  /\ Return(IF Found THEN node[candidate].value ELSE Absent,
            IF call.key \in DOMAIN dict THEN dict[call.key] ELSE Absent)
  /\ UNCHANGED <<node, skip_list_level, element_count, dict>>

NotDeleted ==
  /\ pc = "delete" /\ ~Found
  /\ Return(FALSE, call.key \in DOMAIN dict)
  /\ UNCHANGED <<node, skip_list_level, element_count, dict>>

\* Seeded bug: the highest level is not unlinked (i < skip_list_level).
LinkedBelow(c) ==
  {l \in 0 .. skip_list_level - 1 : \A m \in 0 .. l : node[update[m]].forward[m] = c}

\* Levels are unlinked from below until one does not hold the node.
Linked(c) == {l \in 0 .. skip_list_level : \A m \in 0 .. l : node[update[m]].forward[m] = c}

\* The levels at the top that have no node are given up.
Shrunk(forward) ==
  CHOOSE l \in 0 .. skip_list_level :
    /\ l = 0 \/ forward[l] # NULL
    /\ \A m \in l + 1 .. skip_list_level : forward[m] = NULL

Unlink ==
  LET c == candidate
      unlinked == [m \in DOMAIN node |->
        IF m = c \/ node[m] = Freed THEN Freed
        ELSE [node[m] EXCEPT !.forward =
                [l \in DOMAIN @ |-> IF l \in Linked(c) /\ update[l] = m
                                    THEN node[c].forward[l] ELSE @[l]]]]
  IN  /\ pc = "delete" /\ Found
      /\ node' = unlinked
      /\ skip_list_level' = Shrunk(unlinked[header].forward)
      /\ element_count' = element_count - 1
      /\ dict' = [k \in DOMAIN dict \ {call.key} |-> dict[k]]
      /\ Return(TRUE, call.key \in DOMAIN dict)

Insert(k, v) == Call("insert", k, v)
Search(k) == Call("find", k, 0)
Delete(k) == Call("delete", k, 0)

Next ==
  \/ \E k \in Key : Search(k) \/ Delete(k)
  \/ \E e \in Entry : Insert(e[1], e[2])
  \/ Right \/ Down
  \/ Overwrite \/ InsertNew \/ Answer \/ NotDeleted \/ Unlink

-----------------------------------------------------------------------------

Stored == {n \in Node : node[n] # Freed}

On(l) == {n \in Stored : l \in DOMAIN node[n].forward}

\* What follows m at level l, by the keys
Following(m, l) ==
  LET greater == {n \in On(l) : m = header \/ node[n].key > node[m].key}
  IN  IF greater = {} THEN NULL
      ELSE CHOOSE n \in greater : \A o \in greater : node[n].key <= node[o].key

\* Every level links its nodes in the order of their keys and no deleted one, levels
\* above skip_list_level are empty and the highest is not, the list holds what was
\* inserted and not deleted, size() counts it, and every call answers accordingly.
KeepsMap ==
  /\ \A l \in 0 .. skip_list_level : \A m \in On(l) \cup {header} :
       node[m].forward[l] = Following(m, l)
  /\ \A n \in Stored : \A l \in DOMAIN node[n].forward : l <= skip_list_level
  /\ skip_list_level > 0 => On(skip_list_level) # {}
  /\ \A n, m \in Stored : node[n].key = node[m].key => n = m
  /\ {<<node[n].key, node[n].value>> : n \in Stored} = {<<k, dict[k]>> : k \in DOMAIN dict}
  /\ element_count = Cardinality(DOMAIN dict)
  /\ ~wrong

=============================================================================
