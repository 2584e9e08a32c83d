------------------------------- MODULE RBTree -------------------------------
(***************************************************************************)
(* tree/RBTree.cpp: a red-black tree of nodes with parent pointers. An     *)
(* iteration of fixAfterInsertion and fixAfterDeletion is an action. The   *)
(* two halves of these functions mirror each other, with the exceptions    *)
(* that the comments below name; Side is the side of the half.             *)
(* The program never deletes a node; the model uses nodes that have left   *)
(* the tree again.                                                         *)
(***************************************************************************)
EXTENDS Integers, FiniteSets

CONSTANTS Entry,        \* the pairs of a key and a value that are put
          NULL, Freed

Key == {e[1] : e \in Entry}

\* Bound: there is memory for as many nodes as there are keys, and they are named like
\* them, which does not tie a node to the key of its name.
Node == Key

VARIABLES node, root,
          pc, x, phantom,  \* what is done next, to node x, and the node to unlink then
          misrotated,      \* fixAfterDeletion has rotated the wrong way
          dict,            \* what is promised: a function on the keys in the tree
          wrong            \* a call has not answered as promised

rbVars == <<node, root, pc, x, phantom, misrotated, dict, wrong>>

Side == {"left", "right"}

Other(side) == IF side = "left" THEN "right" ELSE "left"

Init ==
  /\ node = [n \in Node |-> Freed] /\ root = NULL
  /\ pc = "idle" /\ x = NULL /\ phantom = NULL
  /\ misrotated = FALSE
  /\ dict = [k \in {} |-> 0]
  /\ wrong = FALSE

\* The functions below work on a tree: the nodes and the root.
Tree == [node |-> node, root |-> root]

Black(t, n) == t.node[n].color = "black"

Paint(t, n, color) == [t EXCEPT !.node[n].color = color]

\* The parent of old gets new for a child in its place; a root has none.
Replace(t, old, new) ==
  LET p == t.node[old].parent
  IN  IF p = NULL THEN [t EXCEPT !.root = new]
      ELSE IF t.node[p].left = old THEN [t EXCEPT !.node[p].left = new]
      ELSE [t EXCEPT !.node[p].right = new]

\* leftRotate(p) for side "left", rightRotate(p) for side "right"
Rotate(t, p, side) ==
  LET r == t.node[p][Other(side)]
      m == t.node[r][side]
      moved == [t EXCEPT !.node[p][Other(side)] = m]
      adopted == IF m = NULL THEN moved ELSE [moved EXCEPT !.node[m].parent = p]
      raised == Replace([adopted EXCEPT !.node[r].parent = t.node[p].parent], p, r)
  IN  [raised EXCEPT !.node[r][side] = p, !.node[p].parent = r]

SideOf(t, n) == IF t.node[t.node[n].parent].left = n THEN "left" ELSE "right"

\* Where the search for k ends: the node with k, else the last one it passes
Last(k) ==
  LET step(n) == IF node[n].key < k THEN node[n].right ELSE node[n].left
      walk[n \in Node] == IF node[n].key = k \/ step(n) = NULL THEN n ELSE walk[step(n)]
  IN  walk[root]

Has(k) == root # NULL /\ node[Last(k)].key = k

Become(t) == node' = t.node /\ root' = t.root

\* An operation that ends here, or goes on with n at the label
Goto(label, n) == pc' = label /\ x' = n

\* Nothing is promised after a rotation the wrong way, so the model stops there.
Idle == pc = "idle" /\ ~misrotated /\ UNCHANGED misrotated

\* The operation answers, and should answer, this.
Answer(answer, promised) == wrong' = (wrong \/ answer # promised)

ValueOf(k) == IF k \in DOMAIN dict THEN dict[k] ELSE 0

Keeps(k, v) == dict' = [m \in DOMAIN dict \cup {k} |-> IF m = k THEN v ELSE dict[m]]

Put(k, v) ==
  /\ Idle
  /\ Keeps(k, v)
  /\ IF Has(k)
     THEN /\ node' = [node EXCEPT ![Last(k)].val = v]
          /\ UNCHANGED <<root, pc, x>>
     ELSE /\ \E n \in Node : node[n] = Freed
          /\ LET n == CHOOSE n \in Node : node[n] = Freed /\ (n = k \/ node[k] # Freed)
                 p == Last(k)
                 new(color, parent) ==
                   [node EXCEPT ![n] = [key |-> k, val |-> v, color |-> color,
                                        parent |-> parent, left |-> NULL, right |-> NULL]]
             IN  IF root = NULL
                 THEN node' = new("black", NULL) /\ root' = n /\ UNCHANGED <<pc, x>>
                 ELSE /\ node' = IF node[p].key < k THEN [new("red", p) EXCEPT ![p].right = n]
                                 ELSE [new("red", p) EXCEPT ![p].left = n]
                      /\ IF Black(Tree, p) THEN UNCHANGED <<pc, x>>
                         ELSE Goto("fixAfterInsertion", n)
                      /\ root' = root
  /\ UNCHANGED <<phantom, wrong>>

Get(k) ==
  /\ Idle
  /\ Answer(IF Has(k) THEN node[Last(k)].val ELSE 0, ValueOf(k))
  /\ UNCHANGED <<node, root, pc, x, phantom, dict>>

\* The uncle is red: the colours move up. Seeded bug: the grandparent stays black.
RecolourForgotten(t, p, u, g) == Paint(Paint(t, p, "black"), u, "black")

Recolour(t, p, u, g) == Paint(Paint(Paint(t, p, "black"), u, "black"), g, "red")

\* The uncle is black: an inner node is first made an outer one, then g comes down.
Straighten(t, n, g) ==
  LET side  == SideOf(t, t.node[n].parent)
      inner == SideOf(t, n) # side
      top   == IF inner THEN n ELSE t.node[n].parent
      outer == IF inner THEN Rotate(t, t.node[n].parent, side) ELSE t
  IN  Paint(Paint(Rotate(outer, g, Other(side)), top, "black"), g, "red")

\* while (node && node != root && node->parent->color == Color::RED)
FixAfterInsertion ==
  LET p == node[x].parent
      g == node[p].parent
      u == node[g][Other(SideOf(Tree, p))]
      red == u # NULL /\ ~Black(Tree, u)
      t == IF red THEN Recolour(Tree, p, u, g) ELSE Straighten(Tree, x, g)
  IN  /\ pc = "fixAfterInsertion"
      /\ IF x = root \/ Black(Tree, p)
         THEN Goto("idle", NULL) /\ UNCHANGED <<node, root>>
         ELSE /\ Become(Paint(t, t.root, "black"))
              /\ Goto(pc, IF red THEN g
                          ELSE IF SideOf(Tree, x) # SideOf(Tree, p) THEN p ELSE x)
      /\ UNCHANGED <<phantom, misrotated, dict, wrong>>

-----------------------------------------------------------------------------
(* Del *)

Missing(k) ==
  /\ Idle /\ ~Has(k)
  /\ Answer(FALSE, k \in DOMAIN dict)
  /\ UNCHANGED <<node, root, pc, x, phantom, dict>>

\* A node with two children is replaced by its successor, x.
Del(k) ==
  LET p == Last(k)
      two == node[p].left # NULL /\ node[p].right # NULL
  IN  /\ Idle /\ Has(k)
      /\ Answer(TRUE, k \in DOMAIN dict)
      /\ dict' = [m \in DOMAIN dict \ {k} |-> dict[m]]
      /\ IF two THEN Goto("successor", node[p].right) ELSE Goto("unlink", p)
      /\ phantom' = IF two THEN p ELSE NULL
      /\ UNCHANGED <<node, root>>

\* while (p->left) p->left: the loop does not move.
Successor ==
  /\ pc = "successor"
  /\ IF node[x].left # NULL
     THEN UNCHANGED <<node, pc, x, phantom>>
     ELSE /\ node' = [node EXCEPT ![phantom].key = node[x].key, ![phantom].val = node[x].val]
          /\ Goto("unlink", x)
          /\ phantom' = NULL
  /\ UNCHANGED <<root, misrotated, dict, wrong>>

\* x has one child at most, which takes its place; without a child x stays until the
\* colours are right.
Unlink ==
  LET child == IF node[x].left # NULL THEN node[x].left ELSE node[x].right
      t == Replace([Tree EXCEPT !.node[child].parent = node[x].parent], x, child)
  IN  /\ pc = "unlink"
      /\ \/ /\ child # NULL
            /\ Become([t EXCEPT !.node[x] = Freed])
            /\ IF Black(Tree, x) THEN Goto("fixAfterDeletion", child) ELSE Goto("idle", NULL)
            /\ phantom' = NULL
         \/ /\ child = NULL /\ node[x].parent = NULL
            /\ node' = [node EXCEPT ![x] = Freed] /\ root' = NULL
            /\ Goto("idle", NULL)
            /\ phantom' = NULL
         \/ /\ child = NULL /\ node[x].parent # NULL
            /\ IF Black(Tree, x) THEN Goto("fixAfterDeletion", x) ELSE Goto("drop", NULL)
            /\ phantom' = x
            /\ UNCHANGED <<node, root>>
      /\ UNCHANGED <<misrotated, dict, wrong>>

\* x lacks a black node; s is its sibling, at the other side of their parent, once a red
\* one has been rotated up.
Lifted(t, side) ==
  LET p == t.node[x].parent
      s == t.node[p][Other(side)]
  IN  IF Black(t, s) THEN t ELSE Rotate(Paint(Paint(t, s, "black"), p, "red"), p, side)

\* The children of the sibling are read, the left one first; if it is black, or in the
\* left half, so is the right one, and a null one is an access through a null pointer.
\* In the right half the wrong rotation of the sibling may bring up another one.
NullRead(t, s, side) ==
  LET l == t.node[s].left
      r == t.node[s].right
  IN  \/ l = NULL
      \/ r = NULL /\ (Black(t, l) \/ side = "left")
      \/ side = "right" /\ Black(t, l) /\ ~Black(t, r) /\ t.node[l].left = NULL

\* Both of them are black
Pale(t, s) == Black(t, t.node[s].left) /\ Black(t, t.node[s].right)

\* One of them is red: the far one, or it is made so by a rotation. Both halves rotate
\* the sibling to the right and the parent to the left, as is right for the left half.
Turned(t, side) ==
  LET p    == t.node[x].parent
      s    == t.node[p][Other(side)]
      far  == t.node[s][Other(side)]
      near == t.node[s][side]
      bent == Black(t, far)
      t1   == IF bent THEN Rotate(Paint(Paint(t, near, "black"), s, "red"), s, "right") ELSE t
      s1   == t1.node[p][Other(side)]
      t2   == Paint(Paint(t1, s1, t1.node[p].color), p, "black")
  IN  Rotate(Paint(t2, t2.node[s1][Other(side)], "black"), p, "left")

Crash == /\ Goto("crashed", NULL)
         /\ phantom' = NULL
         /\ UNCHANGED <<node, root, misrotated>>

\* while (node != root && node->color == Color::BLACK)
FixAfterDeletion ==
  LET side == SideOf(Tree, x)
      p == node[x].parent
      t == Lifted(Tree, side)
      s == t.node[t.node[x].parent][Other(side)]
  IN  /\ pc = "fixAfterDeletion"
      /\ IF x = root \/ ~Black(Tree, x)
         THEN /\ Become(Paint(Tree, x, "black"))
              /\ Goto(IF phantom = NULL THEN "idle" ELSE "drop", NULL)
              /\ UNCHANGED <<phantom, misrotated>>
         ELSE IF node[p][Other(side)] = NULL \/ s = NULL \/ NullRead(t, s, side) THEN Crash
         ELSE IF Pale(t, s)
         THEN /\ Become(Paint(t, s, "red"))
              /\ Goto(pc, p)
              /\ UNCHANGED <<phantom, misrotated>>
         ELSE /\ Become(Turned(t, side))
              /\ Goto(pc, root')
              /\ misrotated' = (misrotated \/ side = "right")
              /\ phantom' = phantom
      /\ UNCHANGED <<dict, wrong>>

\* The node without children is unlinked, if it has a parent.
Drop ==
  /\ pc = "drop"
  /\ IF node[phantom].parent # NULL
     THEN Become([Replace(Tree, phantom, NULL) EXCEPT !.node[phantom] = Freed])
     ELSE UNCHANGED <<node, root>>
  /\ Goto("idle", NULL)
  /\ phantom' = NULL
  /\ UNCHANGED <<misrotated, dict, wrong>>

Next ==
  \/ \E k \in Key : Get(k) \/ Missing(k) \/ Del(k)
  \/ \E e \in Entry : Put(e[1], e[2])
  \/ FixAfterInsertion
  \/ Successor \/ Unlink \/ FixAfterDeletion \/ Drop

\* A call that has begun goes on.
Spec == Init /\ [][Next]_rbVars /\ WF_rbVars(pc # "idle" /\ Next)

-----------------------------------------------------------------------------

Stored == {n \in Node : node[n] # Freed}

\* The number of black nodes on the way down, on both sides alike, or NULL
BlackHeight ==
  LET height[n \in Node \cup {NULL}] ==
        IF n = NULL THEN 0
        ELSE IF height[node[n].left] # height[node[n].right] THEN -100
        ELSE height[node[n].left] + IF Black(Tree, n) THEN 1 ELSE 0
  IN  height[root]

\* The nodes below n, with n
Below(n) ==
  LET below[m \in Node \cup {NULL}] ==
        IF m = NULL THEN {} ELSE {m} \cup below[node[m].left] \cup below[node[m].right]
  IN  below[n]

RedBlack ==
  /\ root # NULL => Black(Tree, root)
  /\ \A n \in Stored : \/ Black(Tree, n)
                       \/ \A side \in Side : node[n][side] = NULL \/ Black(Tree, node[n][side])
  /\ BlackHeight >= 0

Linked ==
  /\ Below(root) = Stored
  /\ root # NULL => node[root].parent = NULL
  /\ \A n \in Stored : \A side \in Side :
       node[n][side] # NULL => node[node[n][side]].parent = n
  /\ \A n \in Stored : /\ \A m \in Below(node[n].left) : node[m].key < node[n].key
                       /\ \A m \in Below(node[n].right) : node[m].key > node[n].key

\* Between two operations the tree is a red-black tree of the keys that were put and not
\* deleted, with their values, all pointers agree and every call answers accordingly: as
\* long as a deletion does not rotate the wrong way, run for ever or crash.
KeepsMap ==
  pc = "idle" /\ ~misrotated =>
    /\ Linked /\ RedBlack
    /\ {<<node[n].key, node[n].val>> : n \in Stored} = {<<k, dict[k]>> : k \in DOMAIN dict}
    /\ ~wrong

\* successor() gives an answer: the loop that looks for the least key comes to its end.
SuccessorReturns == pc = "successor" ~> pc # "successor"

=============================================================================
