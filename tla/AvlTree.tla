------------------------------ MODULE AvlTree ------------------------------
(***************************************************************************)
(* tree/AvlTree.cpp: a search tree that is rebalanced by its stored        *)
(* heights. A tree is Null or a node whose fields left and right are       *)
(* trees. Put does not look for the key, so a key may be there twice.      *)
(***************************************************************************)
EXTENDS Integers, Sequences

CONSTANTS Entry,     \* the pairs of a key and a value that are put
          Null,
          MaxNodes   \* bound: the nodes of a tree

Key == {e[1] : e \in Entry}

VARIABLES root,
          keys,      \* what is promised: keys[k] is how often k is in the tree
          dict,      \* what is promised: the value of the last Put
          twice,     \* a key has been in the tree twice
          wrong      \* Get has not answered as promised

avlVars == <<root, keys, dict, twice, wrong>>

Init ==
  /\ root = Null
  /\ keys = [k \in Key |-> 0]
  /\ dict = [k \in Key |-> 0]
  /\ twice = FALSE
  /\ wrong = FALSE

Higher(m, n) == IF m > n THEN m ELSE n

Height(t) == IF t = Null THEN 0 ELSE t.height

Measured(t) == [t EXCEPT !.height = Higher(Height(t.left), Height(t.right)) + 1]

\* The new root gets its height from its left child alone, in both rotations.
FromLeft(t) == [t EXCEPT !.height = Height(t.left) + 1]

leftRotate(t) == FromLeft([t.right EXCEPT !.left = Measured([t EXCEPT !.right = t.right.left])])

\* Seeded bug: the left child's right subtree is dropped.
rightRotateDrops(t) ==
  FromLeft([t.left EXCEPT !.right = Measured([t EXCEPT !.left = Null])])

rightRotate(t) == FromLeft([t.left EXCEPT !.right = Measured([t EXCEPT !.left = t.left.right])])

\* "adjust height" and "adjust balence", by the stored heights and with one rotation
Adjusted(t) ==
  LET l_h == Height(t.left)
      r_h == Height(t.right)
  IN  IF l_h > r_h + 1 THEN rightRotate(Measured(t))
      ELSE IF r_h > l_h + 1 THEN leftRotate(Measured(t))
      ELSE Measured(t)

RECURSIVE insert(_, _, _)
insert(t, k, v) ==
  IF t = Null THEN [key |-> k, val |-> v, height |-> 1, left |-> Null, right |-> Null]
  ELSE IF k < t.key THEN Adjusted([t EXCEPT !.left = insert(t.left, k, v)])
  ELSE Adjusted([t EXCEPT !.right = insert(t.right, k, v)])

RECURSIVE search(_, _)
search(t, k) ==
  IF t = Null \/ t.key = k THEN t
  ELSE IF k < t.key THEN search(t.left, k) ELSE search(t.right, k)

RECURSIVE mostLeftNode(_)
mostLeftNode(t) == IF t.left = Null THEN t ELSE mostLeftNode(t.left)

RECURSIVE del(_, _)
del(t, k) ==
  IF t = Null THEN Null
  ELSE IF k < t.key THEN Adjusted([t EXCEPT !.left = del(t.left, k)])
  ELSE IF k > t.key THEN Adjusted([t EXCEPT !.right = del(t.right, k)])
  ELSE IF t.right = Null THEN t.left
  ELSE IF t.left = Null THEN t.right
  ELSE LET s == mostLeftNode(t.right)
       IN  Adjusted([t EXCEPT !.key = s.key, !.val = s.val, !.right = del(t.right, s.key)])

RECURSIVE InOrder(_)
InOrder(t) ==
  IF t = Null THEN <<>> ELSE InOrder(t.left) \o <<<<t.key, t.val>>>> \o InOrder(t.right)

Put(k, v) ==
  /\ Len(InOrder(root)) < MaxNodes
  /\ root' = insert(root, k, v)
  /\ keys' = [keys EXCEPT ![k] = @ + 1]
  /\ dict' = [dict EXCEPT ![k] = v]
  /\ twice' = (twice \/ keys[k] > 0)
  /\ wrong' = wrong

Get(k) ==
  /\ LET t == search(root, k)
     IN  wrong' = (wrong \/ (~twice /\ dict[k] # IF t = Null THEN 0 ELSE t.val))
  /\ UNCHANGED <<root, keys, dict, twice>>

Del(k) ==
  /\ root' = del(root, k)
  /\ keys' = [keys EXCEPT ![k] = IF @ = 0 THEN 0 ELSE @ - 1]
  /\ dict' = [dict EXCEPT ![k] = 0]
  /\ UNCHANGED <<twice, wrong>>

Next == (\E k \in Key : Get(k) \/ Del(k)) \/ \E e \in Entry : Put(e[1], e[2])

-----------------------------------------------------------------------------

\* Whatever the rotations do to the heights, the tree has the keys in order and as often
\* as they were put and not deleted; and as long as no key was put twice, it has the
\* value of every key, and Get finds it.
KeepsKeys ==
  LET entry == InOrder(root)
  IN  /\ \A j \in 1 .. Len(entry) - 1 : entry[j][1] <= entry[j + 1][1]
      /\ \A k \in Key : Len(SelectSeq(entry, LAMBDA e : e[1] = k)) = keys[k]
      /\ ~twice => /\ \A j \in DOMAIN entry : entry[j][2] = dict[entry[j][1]]
                   /\ ~wrong

=============================================================================
