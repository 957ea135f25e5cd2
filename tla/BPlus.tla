------------------------------- MODULE BPlus -------------------------------
(***************************************************************************)
(* The B+ tree in which the kernel module keeps its tunnels (bplus.c): a   *)
(* node carries the largest key under it, its parent and its links; the    *)
(* records of the leaves are chained in one list.  Every operation of the  *)
(* tree is one action: the callers hold StorageLock around it.             *)
(*                                                                         *)
(* Nodes are the allocated ones only: bpNode_alloc adds one to the domain  *)
(* of tree.node and bpNode_free takes it out, so a pointer to a freed node *)
(* is an error of TLC.  A circular walk that finds no key large enough     *)
(* would not end in the code and is an error of TLC here.                  *)
(***************************************************************************)
EXTENDS Integers, Sequences, FiniteSets, SequencesExt

CONSTANTS MINDEGREE,  \* a node other than the root has at least so many links
          MAXDEGREE,  \* and at most so many
          MaxSize,    \* MAXBPSIZE
          Key,        \* the keys the trees of the run may hold
          Busy,       \* the keys the run inserts, deletes and searches
          Expiring,   \* sets of keys that one pass may find expired
          Starts      \* sequences of keys inserted before the run begins

ASSUME DegreeAssumption ==
  /\ MINDEGREE \in Nat \ {0, 1} /\ MAXDEGREE \in Nat /\ MAXDEGREE >= 2 * MINDEGREE
  /\ MaxSize \in Nat \ {0}
  /\ Key \subseteq Nat \ {0} /\ Busy \subseteq Key /\ Expiring \subseteq SUBSET Key
  /\ \A s \in Starts : s \in Seq(Key)

NULL == 0

VARIABLES tree,   \* [root, node, header, size]
          ret     \* the answer to the last call

vars == <<tree, ret>>

-----------------------------------------------------------------------------
(* Records and lists.                                                      *)

Link == [key : Key, to : Nat]
BPNode == [leaf : BOOLEAN, key : Key, parent : Nat, links : Seq(Link)]

EmptyTree == [root |-> NULL, node |-> <<>>, header |-> <<>>, size |-> 0]

(* The node of smallest number that is not in use.                         *)
Fresh(t) == CHOOSE n \in 1 .. Cardinality(DOMAIN t.node) + 1 :
              /\ n \notin DOMAIN t.node
              /\ \A i \in 1 .. n - 1 : i \in DOMAIN t.node

With(node, n, x)  == [i \in DOMAIN node \cup {n} |-> IF i = n THEN x ELSE node[i]]
Without(node, n)  == [i \in DOMAIN node \ {n} |-> node[i]]

(* The first link whose key is not below k.                                *)
FirstAtLeast(x, k) == CHOOSE j \in DOMAIN x.links :
                        /\ x.links[j].key >= k
                        /\ \A i \in 1 .. j - 1 : x.links[i].key < k

(* Makes n the parent of the nodes that links point to.                    *)
Adopt(node, links, leaf, n) ==
  IF leaf THEN node
  ELSE LET kids == {links[i].to : i \in DOMAIN links}
       IN  [i \in DOMAIN node |-> IF i \in kids THEN [node[i] EXCEPT !.parent = n]
                                               ELSE node[i]]

ListIndex(t, k)     == CHOOSE i \in DOMAIN t.header : t.header[i] = k
BeforeInList(t, v, k) == InsertAt(t.header, ListIndex(t, v), k)
AfterInList(t, v, k)  == InsertAt(t.header, ListIndex(t, v) + 1, k)
OutOfList(t, k)       == RemoveAt(t.header, ListIndex(t, k))

-----------------------------------------------------------------------------
(* bpsplit: a node with more than MAXDEGREE links keeps the first          *)
(* MINDEGREE + 1, a new node takes the others, and the parent (a new root  *)
(* if there is none) gets one more link and may have to split in turn.     *)
RECURSIVE bpsplit(_, _)
bpsplit(t, n) ==
  LET x == t.node[n] IN
  IF Len(x.links) <= MAXDEGREE THEN t
  ELSE
  LET middle  == x.links[MINDEGREE + 1].key
      new     == Fresh(t)
      isRoot  == x.parent = NULL
      t1      == [t EXCEPT !.node = With(@, new, [x EXCEPT !.links = SubSeq(@, MINDEGREE + 2, Len(@))])]
      p       == IF isRoot THEN Fresh(t1) ELSE x.parent
      parent  == IF isRoot
                 THEN [leaf |-> FALSE, key |-> x.key, parent |-> NULL,
                       links |-> <<[key |-> middle, to |-> n], [key |-> x.key, to |-> new]>>]
                 ELSE LET old == t.node[p]
                          j   == FirstAtLeast(old, middle)
                      IN  [old EXCEPT !.links =
                             InsertAt([@ EXCEPT ![j].to = new], j, [key |-> middle, to |-> n])]
      lower   == [x EXCEPT !.key = middle, !.links = SubSeq(@, 1, MINDEGREE + 1), !.parent = p]
      upper   == [t1.node[new] EXCEPT !.parent = p]
      linked  == With(With(With(t1.node, n, lower), new, upper), p, parent)
      t2      == [t1 EXCEPT !.root = IF isRoot THEN p ELSE @,
                            !.node = Adopt(linked, upper.links, x.leaf, new)]
  IN  IF isRoot THEN t2 ELSE bpsplit(t2, p)

(* bpmerge: a node other than the root with fewer than MINDEGREE links is  *)
(* joined with its left brother, which is freed, or else joins its right   *)
(* brother and is freed itself.  A root left with one link is freed too.   *)
(* The joined node may have to split; if not, the parent may have to merge.*)
RECURSIVE bpmerge(_, _)
bpmerge(t, n) ==
  IF n = NULL \/ t.root = NULL THEN t
  ELSE IF Len(t.node[n].links) >= MINDEGREE \/ t.root = n THEN t
  ELSE
  LET x      == t.node[n]
      p      == x.parent
      links  == t.node[p].links
      j      == CHOOSE i \in DOMAIN links : links[i].to = n
      left   == j > 1
      gone   == IF left THEN links[j - 1].to ELSE n            \* the node that is freed
      kept   == IF left THEN n ELSE links[j + 1].to            \* the node that has both
      joined == t.node[gone].links \o t.node[kept].links
      out    == IF left THEN j - 1 ELSE j                      \* the parent's link that goes
      top    == p = t.root /\ Len(links) = 2
      adopted == Adopt(t.node, t.node[gone].links, x.leaf, kept)
      merged == Without(
                  [adopted EXCEPT ![kept].links = joined,
                                  ![kept].parent = IF top THEN NULL ELSE @,
                                  ![p].links = RemoveAt(@, out)], gone)
      t1     == [t EXCEPT !.root = IF top THEN kept ELSE @,
                          !.node = IF top THEN Without(merged, p) ELSE merged]
  IN  IF Len(joined) > MAXDEGREE THEN bpsplit(t1, kept)
      ELSE bpmerge(t1, t1.node[kept].parent)

-----------------------------------------------------------------------------
(* The leaf a search ends in: at each node the first link not below k.     *)
RECURSIVE Descend(_, _, _)
Descend(t, n, k) ==
  IF t.node[n].leaf THEN n
  ELSE Descend(t, t.node[n].links[FirstAtLeast(t.node[n], k)].to, k)

(* The same walk stops early when a link of an inner node has the key.     *)
RECURSIVE KeyOnPath(_, _, _)
KeyOnPath(t, n, k) ==
  LET link == t.node[n].links[FirstAtLeast(t.node[n], k)]
  IN  link.key = k \/ (~t.node[n].leaf /\ KeyOnPath(t, link.to, k))

(* A key above all others raises the keys on the right edge of the tree.   *)
RECURSIVE RaiseRightEdge(_, _, _)
RaiseRightEdge(t, n, k) ==
  LET x == t.node[n] IN
  IF x.leaf THEN [t EXCEPT !.node[n].key = k]
  ELSE RaiseRightEdge([t EXCEPT !.node[n].key = k, !.node[n].links[Len(x.links)].key = k],
                      Last(x.links).to, k)

RECURSIVE RightmostLeaf(_, _)
RightmostLeaf(t, n) ==
  IF t.node[n].leaf THEN n ELSE RightmostLeaf(t, Last(t.node[n].links).to)

InsertFirst(t, k) ==
  [root |-> 1, header |-> <<k>>, size |-> 1,
   node |-> <<[leaf |-> TRUE, key |-> k, parent |-> NULL, links |-> <<[key |-> k, to |-> k]>>]>>]

InsertAbove(t, k) ==
  LET leaf == RightmostLeaf(t, t.root)
      up   == RaiseRightEdge(t, t.root, k)
      last == Last(t.node[leaf].links).to
      t1   == [up EXCEPT !.node[leaf].links = Append(@, [key |-> k, to |-> k]),
                         !.header = AfterInList(t, last, k)]
  IN  [bpsplit(t1, leaf) EXCEPT !.size = @ + 1]

(* Mistake: the record goes behind the link before, also when there is none *)
(* and the circular list of links leads to the last.                       *)
InsertWithinCircular(t, k) ==
  LET leaf   == Descend(t, t.root, k)
      links  == t.node[leaf].links
      j      == FirstAtLeast(t.node[leaf], k)
      before == links[IF j = 1 THEN Len(links) ELSE j - 1].to
      t1     == [t EXCEPT !.node[leaf].links = InsertAt(@, j, [key |-> k, to |-> k]),
                          !.header = AfterInList(t, before, k)]
  IN  [bpsplit(t1, leaf) EXCEPT !.size = @ + 1]

InsertWithin(t, k) ==
  LET leaf   == Descend(t, t.root, k)
      links  == t.node[leaf].links
      j      == FirstAtLeast(t.node[leaf], k)
      header == IF j = 1 THEN BeforeInList(t, links[1].to, k)
                         ELSE AfterInList(t, links[j - 1].to, k)
      t1     == [t EXCEPT !.node[leaf].links = InsertAt(@, j, [key |-> k, to |-> k]),
                          !.header = header]
  IN  [bpsplit(t1, leaf) EXCEPT !.size = @ + 1]

(* _bpinsert.  A key already in the tree is refused with the answer 0.     *)
Inserted(t, k) ==
  CASE t.root = NULL              -> InsertFirst(t, k)
    [] t.root # NULL /\ k > t.node[t.root].key  -> InsertAbove(t, k)
    [] t.root # NULL /\ k <= t.node[t.root].key ->
         IF KeyOnPath(t, t.root, k) THEN t ELSE InsertWithin(t, k)

-----------------------------------------------------------------------------
(* The record of key k, or NULL (_bpsearch).                               *)
Found(t, k) ==
  IF t.root = NULL \/ t.header = <<>> THEN NULL
  ELSE IF k > t.node[t.root].key THEN NULL
  ELSE LET leaf == t.node[Descend(t, t.root, k)]
           link == leaf.links[FirstAtLeast(leaf, k)]
       IN  IF link.key = k THEN link.to ELSE NULL

(* Above a leaf that lost its largest key: as long as the parent's own key *)
(* is the lost one it and its last link take the new key; the first parent *)
(* of a larger key has the lost key in one link, which takes the new one.  *)
RECURSIVE LowerKeys(_, _, _, _)
LowerKeys(t, n, k, new) ==
  IF n = NULL THEN t
  ELSE LET x == t.node[n] IN
       IF x.key = k
       THEN LowerKeys([t EXCEPT !.node[n].key = new, !.node[n].links[Len(x.links)].key = new],
                      x.parent, k, new)
       ELSE LET j == CHOOSE i \in DOMAIN x.links : x.links[i].key = k
            IN  [t EXCEPT !.node[n].links[j].key = new]

(* Mistake: the keys above the leaf are left as they are.                  *)
DeleteLargestOnly(t, leaf, k) ==
  LET links == t.node[leaf].links
      t1    == [t EXCEPT !.node[leaf].links = Front(@),
                         !.node[leaf].key = links[Len(links) - 1].key,
                         !.header = OutOfList(t, Last(links).to)]
  IN  [bpmerge(t1, leaf) EXCEPT !.size = @ - 1]

DeleteLargest(t, leaf, k) ==
  LET links == t.node[leaf].links
      new   == links[Len(links) - 1].key
      t1    == [t EXCEPT !.node[leaf].links = Front(@), !.node[leaf].key = new,
                         !.header = OutOfList(t, Last(links).to)]
      t2    == IF t.node[leaf].parent = NULL THEN t1
               ELSE bpmerge(LowerKeys(t1, t.node[leaf].parent, k, new), leaf)
  IN  [t2 EXCEPT !.size = @ - 1]

DeleteOther(t, leaf, k) ==
  LET j  == FirstAtLeast(t.node[leaf], k)
      t1 == [t EXCEPT !.node[leaf].links = RemoveAt(@, j), !.header = OutOfList(t, k)]
  IN  [bpmerge(t1, leaf) EXCEPT !.size = @ - 1]

(* _bpdelete: the tree without k.                                          *)
Deleted(t, k) ==
  IF Found(t, k) = NULL THEN t
  ELSE LET leaf == Descend(t, t.root, k)
       IN  IF leaf = t.root /\ Len(t.node[leaf].links) = 1 THEN EmptyTree
           ELSE IF t.node[leaf].key = k THEN DeleteLargest(t, leaf, k)
           ELSE DeleteOther(t, leaf, k)

(* Mistake: the next record is read after the call, and after a removal    *)
(* that is the one behind the next.                                        *)
RECURSIVE TraversedSkipping(_, _, _)
TraversedSkipping(t, cur, dead) ==
  LET i  == ListIndex(t, cur)
      t1 == IF cur \in dead THEN Deleted(t, cur) ELSE t
  IN  IF i + 1 > Len(t1.header) THEN t1
      ELSE TraversedSkipping(t1, t1.header[i + 1], dead)

(* bptraverse with TunnelTimeCheck: the next record is read before the     *)
(* call, which may delete the current one.                                 *)
RECURSIVE Traversed(_, _, _)
Traversed(t, cur, dead) ==
  LET next == IF cur = Last(t.header) THEN NULL ELSE t.header[ListIndex(t, cur) + 1]
      t1   == IF cur \in dead THEN Deleted(t, cur) ELSE t
  IN  IF next = NULL THEN t1 ELSE Traversed(t1, next, dead)

-----------------------------------------------------------------------------
Init ==
  /\ \E s \in Starts : tree = FoldLeft(Inserted, EmptyTree, s)
  /\ ret = 0

bpinsert(k) ==
  IF tree.size = MaxSize
  THEN ret' = -1 /\ UNCHANGED tree
  ELSE tree' = Inserted(tree, k) /\ ret' = 0

bpdelete(k) ==
  /\ ret'  = Found(tree, k)
  /\ tree' = Deleted(tree, k)

bpsearch(k) ==
  /\ ret' = Found(tree, k)
  /\ UNCHANGED tree

bptraverse(dead) ==
  /\ ret' = 0
  /\ tree' = IF tree.root = NULL \/ tree.header = <<>> THEN tree
             ELSE Traversed(tree, Head(tree.header), dead)

Next == \/ \E k \in Busy : bpinsert(k) \/ bpdelete(k) \/ bpsearch(k)
        \/ \E dead \in Expiring : bptraverse(dead)

Spec == Init /\ [][Next]_vars

-----------------------------------------------------------------------------
(* Properties.                                                             *)

RECURSIVE LeavesUnder(_, _)
LeavesUnder(t, n) ==
  IF t.node[n].leaf THEN <<n>>
  ELSE FoldLeft(LAMBDA s, l : s \o LeavesUnder(t, l.to), <<>>, t.node[n].links)

Leaves == IF tree.root = NULL THEN <<>> ELSE LeavesUnder(tree, tree.root)

RECURSIVE Height(_, _)
Height(t, n) == IF t.node[n].leaf THEN 1 ELSE 1 + Height(t, t.node[n].links[1].to)

(* The records in the order of the leaves.                                 *)
Records == FoldLeft(LAMBDA s, n : s \o [i \in DOMAIN tree.node[n].links |-> tree.node[n].links[i].to],
                    <<>>, Leaves)

(* Roots, nodes, links and answers are what the structures declare.        *)
NodesHold ==
  /\ tree.root \in {NULL} \cup DOMAIN tree.node
  /\ \A n \in DOMAIN tree.node : tree.node[n] \in BPNode
  /\ tree.size \in 0 .. MaxSize
  /\ ret \in {-1, 0} \cup Key

DegreesHold ==
  \A n \in DOMAIN tree.node :
    /\ Len(tree.node[n].links) <= MAXDEGREE
    /\ n # tree.root => Len(tree.node[n].links) >= MINDEGREE
    /\ n = tree.root /\ ~tree.node[n].leaf => Len(tree.node[n].links) >= 2

(* A node is the root or the target of exactly one link, its parent's.     *)
ParentsHold ==
  \A n \in DOMAIN tree.node :
    LET from == {p \in DOMAIN tree.node : ~tree.node[p].leaf
                   /\ \E i \in DOMAIN tree.node[p].links : tree.node[p].links[i].to = n}
    IN  IF n = tree.root THEN from = {} /\ tree.node[n].parent = NULL
                         ELSE from = {tree.node[n].parent}

KeysHold ==
  \A n \in DOMAIN tree.node :
    LET x == tree.node[n] IN
    /\ x.key = Last(x.links).key
    /\ \A i \in 1 .. Len(x.links) - 1 : x.links[i].key < x.links[i + 1].key
    /\ \A i \in DOMAIN x.links :
         x.links[i].key = IF x.leaf THEN x.links[i].to ELSE tree.node[x.links[i].to].key

LevelsHold ==
  \A n \in DOMAIN tree.node : ~tree.node[n].leaf =>
    \A i \in DOMAIN tree.node[n].links :
      Height(tree, tree.node[n].links[i].to) = Height(tree, n) - 1

(* After any sequence of insertions, removals and passes the tree is a     *)
(* B+ tree: degrees, parents, keys and levels hold in every allocated node *)
(* although splits and merges ripple up to the root and replace it         *)
(* (bpsplit, bpmerge, the key repair of _bpdelete).                        *)
TreeHolds == NodesHold /\ DegreesHold /\ ParentsHold /\ KeysHold /\ LevelsHold

(* The list the traversals follow holds the records of the leaves, all of  *)
(* them and in their order, and size counts them: no expiry pass and no    *)
(* listing misses a tunnel that a search finds, or meets one it does not.  *)
ListAgrees == tree.header = Records /\ tree.size = Len(tree.header)

Stored == UNION {{x.links[i].to : i \in DOMAIN x.links} :
                   x \in {tree.node[n] : n \in {m \in DOMAIN tree.node : tree.node[m].leaf}}}

Dict == INSTANCE Dictionary WITH Key <- Key, keys <- Stored, ret <- ret

(* The tree is a bounded dictionary: what is inserted is found until it is *)
(* deleted or expires, no other key is disturbed by the restructuring, and *)
(* an expiry pass that deletes under its own feet removes exactly the      *)
(* expired tunnels.                                                        *)
ImplementsDictionary == Dict!Spec
=============================================================================
