----------------------------- MODULE BPlusTree ------------------------------
(***************************************************************************)
(* The B+ tree behind the local tables (memstore_bplustree.h, .cc) and an  *)
(* iterator that keeps its place in a leaf while threads insert.  A call   *)
(* is one RTM region and so one step; between two calls anything may be    *)
(* inserted.  keys[] and values[] move together: a key stands for both.    *)
(***************************************************************************)
EXTENDS Integers, Sequences, SequencesExt

CONSTANTS
  Keys,        \* the keys in use
  M,           \* MEM_BTREE_M: entries of a leaf
  NENT,        \* keys of an inner node
  Loads,       \* sequences of keys a loader may insert first
  Asked,       \* bound: the keys of the calls after the load
  MaxInserts   \* bound: inserts after the load

\* As with 15 and 15: a leaf split in the middle leaves two entries on the
\* right, and keys[NENT - 1] of a new inner node is free to carry a key up.
ASSUME TreeAssumption ==
  /\ Keys \subseteq Nat
  /\ M \in Nat /\ M - (M + 1) \div 2 >= 2
  /\ NENT \in Nat /\ NENT >= 3
  /\ Asked \subseteq Keys
  /\ Loads \subseteq Seq(Keys)
  /\ MaxInserts \in Nat

VARIABLES
  tree,     \* nodes in the order of their allocation, root and depth
  load,     \* what the loader has still to insert
  iter,     \* node_, seq_, leaf_index and key_ of the iterator
  inserts   \* inserts since the load

vars == << tree, load, iter, inserts >>

NULL == 0
NoKey == -1

\* Faulty variant: a node splits one entry late.
FullLate(keys, room) == Len(keys) > room

Full(keys, room) == Len(keys) = room

\* The scans of the code: the leading keys that are below, or not above, key.
Below(keys, key) ==
  CHOOSE k \in 0 .. Len(keys) :
    /\ \A i \in 1 .. k : keys[i] < key
    /\ k < Len(keys) => ~(keys[k + 1] < key)
UpTo(keys, key) ==
  CHOOSE k \in 0 .. Len(keys) :
    /\ \A i \in 1 .. k : keys[i] <= key
    /\ k < Len(keys) => ~(keys[k + 1] <= key)
-----------------------------------------------------------------------------
\* LeafNode and InnerNode; the fields the other kind has are empty.
LeafNode(keys, left, right) ==
  [keys |-> keys, kids |-> << >>, left |-> left, right |-> right, seq |-> 0]
InnerNode(keys, kids) ==
  [keys |-> keys, kids |-> kids, left |-> NULL, right |-> NULL, seq |-> 0]

\* A node is written, or one is allocated.
SetNode(t, n, node) == [t EXCEPT !.node = [@ EXCEPT ![n] = node]]
NewNode(t, node) == [t EXCEPT !.node = Append(@, node)]

\* The nodes from the root down to the leaf of key.
Path(t, key) ==
  LET at[d \in 0 .. t.depth] ==
        IF d = 0 THEN t.root
        ELSE LET inner == t.node[at[d - 1]]
             IN  inner.kids[UpTo(inner.keys, key) + 1]
  IN  at

FindLeaf(t, key) == Path(t, key)[t.depth]
-----------------------------------------------------------------------------
\* The two halves of a full leaf; a key beyond the last leaf starts its own.
LeafCut(leaf, k) ==
  IF leaf.right = NULL /\ k = Len(leaf.keys) THEN Len(leaf.keys)
  ELSE (M + 1) \div 2

\* Faulty variant: the right neighbour keeps pointing at the old leaf.
RelinkedForward(t, r, new) == t

Relinked(t, r, new) ==
  IF r = NULL THEN t ELSE SetNode(t, r, [t.node[r] EXCEPT !.left = new])

\* What an insert hands to its caller: the tree, the new sibling if any, the
\* key that separates it, and whether it holds nothing but the new entry.
Returned(t, new, up, alone) == [t |-> t, new |-> new, up |-> up, alone |-> alone]

\* seq of the old leaf counts every insert, also one the new leaf receives.
WithKeys(leaf, keys, right) ==
  [leaf EXCEPT !.keys = keys, !.right = right, !.seq = @ + 1]

SplitLeaf(t, l, k, key) ==
  LET leaf == t.node[l]
      cut == LeafCut(leaf, k)
      left == SubSeq(leaf.keys, 1, cut)
      right == SubSeq(leaf.keys, cut + 1, Len(leaf.keys))
      keysL == IF k < cut THEN InsertAt(left, k + 1, key) ELSE left
      keysR == IF k < cut THEN right ELSE InsertAt(right, k - cut + 1, key)
      new == Len(t.node) + 1
  IN  Returned(NewNode(SetNode(Relinked(t, leaf.right, new), l, WithKeys(leaf, keysL, new)),
                       LeafNode(keysR, l, leaf.right)),
               new, keysR[1], Len(keysR) = 1)

LeafInsert(t, l, key) ==
  LET leaf == t.node[l]
      k == Below(leaf.keys, key)
  IN  IF k < Len(leaf.keys) /\ leaf.keys[k + 1] = key THEN Returned(t, NULL, key, FALSE)
      ELSE IF Full(leaf.keys, M) THEN SplitLeaf(t, l, k, key)
      ELSE Returned(SetNode(t, l, WithKeys(leaf, InsertAt(leaf.keys, k + 1, key), leaf.right)),
                    NULL, key, FALSE)
-----------------------------------------------------------------------------
WithChild(t, n, k, up, child) ==
  SetNode(t, n, InnerNode(InsertAt(t.node[n].keys, k + 1, up),
                          InsertAt(t.node[n].kids, k + 2, child)))

threshold == (NENT + 1) \div 2

\* The keys above the middle one, and their children, move to a new node.
Halved(t, n) ==
  LET inner == t.node[n]
  IN  NewNode(SetNode(t, n, InnerNode(SubSeq(inner.keys, 1, threshold - 1),
                                      SubSeq(inner.kids, 1, threshold))),
              InnerNode(SubSeq(inner.keys, threshold + 1, NENT),
                        SubSeq(inner.kids, threshold + 1, NENT + 1)))

\* A full inner node: a lone child starts a node of its own, else the node is
\* halved and the middle key goes up.
SplitInner(r, n, k, pivot) ==
  LET upKey == r.t.node[n].keys[threshold]
      new == Len(r.t.node) + 1
      toInsert == IF pivot >= upKey THEN new ELSE n
      slot == IF pivot < upKey THEN k ELSE IF k >= threshold THEN k - threshold ELSE 0
  IN  IF r.alone
      THEN Returned(NewNode(r.t, InnerNode(<< >>, << r.new >>)), new, r.up, TRUE)
      ELSE Returned(WithChild(Halved(r.t, n), toInsert, slot, r.up, r.new), new, upKey, FALSE)

\* What the node at height d makes of what the call for its child returned.
InnerInsert(r, n, d, key) ==
  LET k == UpTo(r.t.node[n].keys, key)
  IN  IF r.new = NULL THEN r
      ELSE IF Full(r.t.node[n].keys, NENT)
      THEN SplitInner(r, n, k, IF d = 1 THEN r.up ELSE key)
      ELSE Returned(WithChild(r.t, n, k, r.up, r.new), NULL, key, FALSE)

\* The calls along the path return, from the leaf up.
Returns(t, key) ==
  LET ret[d \in 0 .. t.depth] ==
        IF d = 0 THEN LeafInsert(t, FindLeaf(t, key), key)
        ELSE InnerInsert(ret[d - 1], Path(t, key)[t.depth - d], d, key)
  IN  ret

\* The root grows when its own node or leaf was split.
Insert_rtm(t, key) ==
  LET r == Returns(t, key)[t.depth]
  IN  IF r.new = NULL THEN r.t
      ELSE [node |-> Append(r.t.node, InnerNode(<< r.up >>, << t.root, r.new >>)),
            root |-> Len(r.t.node) + 1, depth |-> t.depth + 1]

EmptyTree == [node |-> << LeafNode(<< >>, NULL, NULL) >>, root |-> 1, depth |-> 0]
-----------------------------------------------------------------------------
Init ==
  /\ tree = EmptyTree
  /\ load \in Loads
  /\ iter = [node |-> NULL, seq |-> 0, index |-> 0, key |-> NoKey]
  /\ inserts = 0

\* The loader; the workers start when it is done.
Put ==
  /\ load # << >>
  /\ tree' = Insert_rtm(tree, Head(load))
  /\ load' = Tail(load)
  /\ UNCHANGED << iter, inserts >>

Loaded == load = << >>

\* _GetWithInsert: the key's node is found or made.
GetWithInsert(key) ==
  /\ Loaded
  /\ inserts < MaxInserts
  /\ tree' = Insert_rtm(tree, key)
  /\ inserts' = inserts + 1
  /\ UNCHANGED << load, iter >>

\* The iterator stands on an entry, or off the list when there is none.
Stand(n, i) ==
  iter' = IF n = NULL THEN [iter EXCEPT !.node = NULL]
          ELSE [node |-> n, seq |-> tree.node[n].seq, index |-> i,
                key |-> tree.node[n].keys[i]]

Valid == iter.node # NULL

Seek(key) ==
  LET l == FindLeaf(tree, key)
      k == Below(tree.node[l].keys, key)
  IN  /\ Loaded
      /\ IF k = Len(tree.node[l].keys) THEN Stand(tree.node[l].right, 1)
         ELSE Stand(l, k + 1)
      /\ UNCHANGED << tree, load, inserts >>

\* Faulty variant: the leaf is taken to be as the iterator left it.
UnmovedAlways == TRUE

\* Nothing was inserted in the iterator's leaf, or split off it.
Unmoved == tree.node[iter.node].seq = iter.seq

\* The first leaf from l on with a key above bound.
WalkRight(l, bound) ==
  LET onward(n) ==
        IF n = NULL \/ \E x \in ToSet(tree.node[n].keys) : x > bound THEN n
        ELSE tree.node[n].right
      at[i \in 0 .. Len(tree.node)] == IF i = 0 THEN l ELSE onward(at[i - 1])
  IN  at[Len(tree.node)]

IterNext ==
  /\ Valid
  /\ IF Unmoved
     THEN IF iter.index = Len(tree.node[iter.node].keys)
          THEN Stand(tree.node[iter.node].right, 1)
          ELSE Stand(iter.node, iter.index + 1)
     ELSE LET l == WalkRight(iter.node, iter.key)
          IN  IF l = NULL THEN Stand(NULL, 0)
              ELSE Stand(l, UpTo(tree.node[l].keys, iter.key) + 1)
  /\ UNCHANGED << tree, load, inserts >>

\* The iterator's key is never deleted, so the walk to it ends on its leaf.
IterPrev ==
  /\ Valid
  /\ LET l == IF Unmoved THEN iter.node ELSE WalkRight(iter.node, iter.key - 1)
         i == IF Unmoved THEN iter.index ELSE Below(tree.node[l].keys, iter.key) + 1
         before == tree.node[l].left
     IN  IF i > 1 THEN Stand(l, i - 1)
         ELSE IF before = NULL THEN Stand(NULL, 0)
         ELSE Stand(before, Len(tree.node[before].keys))
  /\ UNCHANGED << tree, load, inserts >>

Next ==
  \/ Put
  \/ \E key \in Asked : GetWithInsert(key)
  \/ \E key \in Asked : Seek(key)
  \/ IterNext
  \/ IterPrev

Spec == Init /\ [][Next]_vars
-----------------------------------------------------------------------------
Leaves == {n \in DOMAIN tree.node : tree.node[n].kids = << >>}

\* No node outgrows the arrays of its struct and an inner node has one child
\* more than keys: the shifts of LeafInsert and InnerInsert stay in bounds.
TypeOK ==
  /\ \A n \in Leaves :
       /\ tree.node[n].keys \in Seq(Keys) /\ Len(tree.node[n].keys) <= M
       /\ {tree.node[n].left, tree.node[n].right} \subseteq Leaves \union {NULL}
       /\ tree.node[n].seq \in Nat
  /\ \A n \in DOMAIN tree.node \ Leaves :
       /\ tree.node[n].keys \in Seq(Keys) /\ Len(tree.node[n].keys) <= NENT
       /\ Len(tree.node[n].kids) = Len(tree.node[n].keys) + 1
  /\ tree.root \in DOMAIN tree.node /\ tree.depth \in Nat
  /\ iter.node \in Leaves \union {NULL}
  /\ load \in Seq(Keys)
  /\ inserts \in 0 .. MaxInserts

\* The list of leaves and the inner nodes describe the same tree: links are
\* mutual (the assertion of PrintList), keys ascend within and across leaves,
\* and the descent of FindLeaf ends on the leaf that the list has a key in,
\* through every split of LeafInsert and InnerInsert.
ListMatchesTree ==
  \A l \in Leaves :
    LET leaf == tree.node[l]
    IN  /\ \A i \in 2 .. Len(leaf.keys) : leaf.keys[i - 1] < leaf.keys[i]
        /\ \A key \in ToSet(leaf.keys) : FindLeaf(tree, key) = l
        /\ leaf.right # NULL =>
             /\ tree.node[leaf.right].left = l
             /\ Last(leaf.keys) < Head(tree.node[leaf.right].keys)

Contents == UNION {ToSet(tree.node[l].keys) : l \in Leaves}
Cursor == IF Valid THEN iter.key ELSE NoKey
Least(S) == IF S = {} THEN NoKey ELSE Min(S)
Greatest(S) == IF S = {} THEN NoKey ELSE Max(S)

\* The table is an ordered set: an insert adds its key and loses none, Seek
\* finds the first key not below its argument, and Next and Prev go to the
\* neighbour among the keys of that moment, although the iterator's leaf may
\* have been filled, shifted or split since its last call.
ActsAsOrderedSet ==
  [][/\ IterNext => Cursor' = Least({x \in Contents : x > iter.key})
     /\ IterPrev => Cursor' = Greatest({x \in Contents : x < iter.key})
     /\ Put => Contents' = Contents \union {Head(load)}
     /\ \A key \in Asked :
          /\ Seek(key) => Cursor' = Least({x \in Contents : x >= key})
          /\ GetWithInsert(key) => Contents' = Contents \union {key}]_vars
=============================================================================
