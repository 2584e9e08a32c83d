---------------------------- MODULE LockFreeStack ---------------------------
(***************************************************************************)
(* concurrent/LockFreeStack.cpp: a chain of nodes whose head is replaced   *)
(* by compare-exchange.  Pop deletes the node it has taken at once, so the *)
(* node a second Pop is looking at may be freed, and its address be handed *)
(* out again (ABA).                                                        *)
(*                                                                         *)
(* Every access to the head is seq_cst, and a node is written before it is *)
(* published, so one action is one access to the head or to a node.  The   *)
(* threads are the loops of main(), which has one that pushes and one that *)
(* pops; a pop that returns false is repeated.  A weak compare-exchange    *)
(* that fails for no reason only repeats a turn, and is left out.          *)
(***************************************************************************)
EXTENDS Integers, Sequences, FiniteSets

CONSTANTS Thread,
          Address,      \* where `new` may put a node
          Null, Freed,
          Setup         \* what the threads may do: quota functions, see Init

VARIABLES quota,   \* quota.push[t] values are pushed by t, quota.pop[t] popped
          head,
          node,    \* node[a] is the node at a, or Freed
          pc,      \* pc[t] is the label t is at
          cur,     \* currHead of t
          mine,    \* newNode of t
          next,    \* the currHead->next that t has read
          sent,    \* sent[t] is how many pushes of t have succeeded
          got,     \* got[t] is the sequence of values t has popped
          broken   \* history: a freed node was read, or the head replaced by a
                   \* successor that it no longer had (ABA); all is undefined then

vars == <<quota, head, node, pc, cur, mine, next, sent, got, broken>>

Pusher == {t \in Thread : quota.push[t] > 0}
Popper == {t \in Thread : quota.pop[t] > 0}

Init ==
  /\ quota \in Setup
  /\ head = Null
  /\ node = [a \in Address |-> Freed]
  /\ pc = [t \in Thread |-> CASE t \in Pusher -> "pushLoad"
                              [] t \in Popper -> "popLoad"
                              [] OTHER -> "done"]
  /\ cur = [t \in Thread |-> Null]
  /\ mine = [t \in Thread |-> Null]
  /\ next = [t \in Thread |-> Null]
  /\ sent = [t \in Thread |-> 0]
  /\ got = [t \in Thread |-> <<>>]
  /\ broken = FALSE

Goto(t, from, to) ==
  /\ ~broken
  /\ pc[t] = from
  /\ pc' = [pc EXCEPT ![t] = to]

\* currHead becomes the head, by a load or by a compare-exchange that fails.
SeeHead(t) == cur' = [cur EXCEPT ![t] = head]

-----------------------------------------------------------------------------
(* Push *)

PushLoad(t) ==
  /\ Goto(t, "pushLoad", "new")
  /\ SeeHead(t)
  /\ UNCHANGED <<quota, head, node, mine, next, sent, got, broken>>

\* newNode = new Node(value); newNode->next = currHead: the address may be that of
\* the old head, freed since it was loaded.
New(t) ==
  \E a \in {b \in Address : node[b] = Freed} :
    /\ Goto(t, "new", "casPush")
    /\ node' = [node EXCEPT ![a] = [data |-> <<t, sent[t]>>, next |-> cur[t]]]
    /\ mine' = [mine EXCEPT ![t] = a]
    /\ UNCHANGED <<quota, head, cur, next, sent, got, broken>>

Publish(t) ==
  /\ Goto(t, "casPush", IF sent[t] + 1 = quota.push[t] THEN "done" ELSE "pushLoad")
  /\ head' = mine[t]
  /\ sent' = [sent EXCEPT ![t] = @ + 1]
  /\ UNCHANGED <<quota, node, cur, mine, next, got, broken>>

\* Seeded bugs: head.store(newNode); the new node is not linked to the new head after
\* a failure; the failure is not told to the next turn.
CasPushByStore(t) == Publish(t)

CasPushUnlinked(t) ==
  \/ head = cur[t] /\ Publish(t)
  \/ /\ head # cur[t]
     /\ Goto(t, "casPush", "casPush")
     /\ SeeHead(t)
     /\ UNCHANGED <<quota, head, node, mine, next, sent, got, broken>>

CasPushStubborn(t) == head = cur[t] /\ Publish(t)

CasPush(t) ==
  \/ head = cur[t] /\ Publish(t)
  \/ /\ head # cur[t]
     /\ Goto(t, "casPush", "casPush")
     /\ SeeHead(t)
     /\ node' = [node EXCEPT ![mine[t]].next = head]
     /\ UNCHANGED <<quota, head, mine, next, sent, got, broken>>

-----------------------------------------------------------------------------
(* Pop *)

PopLoad(t) ==
  /\ Goto(t, "popLoad", IF head = Null THEN "popLoad" ELSE "readNext")
  /\ SeeHead(t)
  /\ UNCHANGED <<quota, head, node, mine, next, sent, got, broken>>

\* currHead->next, read before the compare-exchange it is an argument of
ReadNext(t) ==
  /\ Goto(t, "readNext", "casPop")
  /\ broken' = (node[cur[t]] = Freed)
  /\ next' = [next EXCEPT ![t] = IF broken' THEN Null ELSE node[cur[t]].next]
  /\ UNCHANGED <<quota, head, node, cur, mine, sent, got>>

CasPop(t) ==
  \/ /\ head = cur[t]
     /\ Goto(t, "casPop", "take")
     /\ head' = next[t]
     /\ broken' = (next[t] # node[cur[t]].next)
     /\ UNCHANGED <<quota, node, cur, mine, next, sent, got>>
  \/ /\ head # cur[t]
     /\ Goto(t, "casPop", IF head = Null THEN "popLoad" ELSE "readNext")
     /\ SeeHead(t)
     /\ UNCHANGED <<quota, head, node, mine, next, sent, got, broken>>

\* result = currHead->data; delete currHead
Take(t) ==
  /\ Goto(t, "take", IF Len(got[t]) + 1 = quota.pop[t] THEN "done" ELSE "popLoad")
  /\ got' = [got EXCEPT ![t] = Append(@, node[cur[t]].data)]
  /\ node' = [node EXCEPT ![cur[t]] = Freed]
  /\ UNCHANGED <<quota, head, cur, mine, next, sent, broken>>

-----------------------------------------------------------------------------

Step(t) ==
  \/ PushLoad(t) \/ New(t) \/ CasPush(t)
  \/ PopLoad(t) \/ ReadNext(t) \/ CasPop(t) \/ Take(t)

Joined == \A t \in Thread : pc[t] = "done"

\* ~LockFreeStack() of main, after the joins: one turn of its loop
Destroy ==
  /\ Joined
  /\ ~broken
  /\ head # Null
  /\ head' = node[head].next
  /\ node' = [node EXCEPT ![head] = Freed]
  /\ UNCHANGED <<quota, pc, cur, mine, next, sent, got, broken>>

Ended == broken \/ (Joined /\ head = Null)

Exit == Ended /\ UNCHANGED vars

Next == (\E t \in Thread : Step(t)) \/ Destroy \/ Exit

Spec == Init /\ [][Next]_vars /\ (\A t \in Thread : WF_vars(Step(t))) /\ WF_vars(Destroy)

-----------------------------------------------------------------------------
(* Properties *)

TypeOK ==
  /\ head \in Address \cup {Null}
  /\ node \in [Address -> [data : Thread \X Nat, next : Address \cup {Null}] \cup {Freed}]
  /\ cur \in [Thread -> Address \cup {Null}]
  /\ \A t \in Thread : sent[t] \in 0..quota.push[t] /\ Len(got[t]) \in 0..quota.pop[t]

\* c lists the nodes from h on, n being all of them: up to the last or to a freed one, and
\* no more than there are addresses.
Leads(c, h, n) ==
  /\ c = <<>> <=> h = Null
  /\ c # <<>> =>
       /\ c[1] = h
       /\ \/ Len(c) = Cardinality(Address)
          \/ n[c[Len(c)]] = Freed
          \/ n[c[Len(c)]].next = Null
  /\ \A i \in 1..(Len(c) - 1) : n[c[i]] # Freed /\ c[i + 1] = n[c[i]].next

\* The addresses of the chain from the head.
Chain == CHOOSE c \in UNION {[1..k -> Address] : k \in 0..Cardinality(Address)} :
           Leads(c, head, node)

\* The values of the nodes at the addresses c.
Values(c) == [i \in DOMAIN c |-> node[c[i]].data]

\* Those that have not published the node at a, or have taken it out.
Owners(a) == {t \in Thread : \/ pc[t] = "casPush" /\ mine[t] = a
                             \/ pc[t] = "take" /\ cur[t] = a}

\* How many hold the node at a: places of the chain c, and threads.
Holders(c, a) == Cardinality({i \in DOMAIN c : c[i] = a}) + Cardinality(Owners(a))

\* A node is deleted or has one holder, and no freed node is in use: a node is not
\* leaked, not linked twice and not popped twice, also when its address was that of a
\* node freed a moment ago. It takes a second popper to break this: a lone popper never
\* reads a freed node nor swings the head to a stale successor.
NodesHaveOneHolder ==
  IF broken THEN Cardinality(Popper) > 1
            ELSE LET c == Chain IN
                 \A a \in Address : Holders(c, a) = IF node[a] = Freed THEN 0 ELSE 1

Stack == INSTANCE LifoStack
           WITH stack <- Values(Chain),
                got   <- [t \in Thread |-> IF pc[t] = "take"
                                             THEN Append(got[t], node[cur[t]].data)
                                             ELSE got[t]]

\* However the threads interleave, a Push puts its value on top when it moves the head,
\* and a Pop has the top value when it moves the head, until all is undefined.
ImplementsLifoStack ==
  Stack!Init /\ [][broken' \/ Joined \/ Stack!Next]_(Stack!lifoVars)

\* main ends: every push and pop succeeds in the end, and the destructor is left with
\* no node.
Termination == <>Ended

=============================================================================
