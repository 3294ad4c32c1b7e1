----------------------------- MODULE BPlusTree ------------------------------
(***************************************************************************)
(* The tree under a sorted set: BPTree, BPTreeNode and BPTreePath of       *)
(* src/src/zset/bplustree.hpp and bplustree_internal.hpp.                  *)
(*                                                                         *)
(* Items are kept in the leaves and in the inner nodes.  An inner node     *)
(* stores the number of items below it (cnt), which every insertion,       *)
(* split, merge and rebalancing has to carry along: ranks are computed     *)
(* from it.  A node is a block of memory with an address, a BPTreePath the *)
(* sequence of the nodes and positions it records.  Positions count from   *)
(* 0, as in the code.  Items are numbered as in OrderedSet.                *)
(*                                                                         *)
(* A call is one step up to its first change of the structure above a      *)
(* leaf; every further round of its loop over the levels is a step of its  *)
(* own, and no other call begins before the loop has ended.                *)
(***************************************************************************)
EXTENDS Integers, Sequences, FiniteSets

CONSTANTS
  kMaxLeafKeys,    \* 15 for the 16 bytes of a ScoredMemberCompact
  kMaxInnerKeys,   \* 10
  MaxCount         \* a bound on the number of items, for the checks

\* With less a split would leave a node without an item.
ASSUME CapacityAssumption ==
  /\ kMaxLeafKeys \in Nat /\ kMaxLeafKeys >= 3
  /\ kMaxInnerKeys \in Nat /\ kMaxInnerKeys >= 3
  /\ MaxCount \in Nat

VARIABLES
  nodes,       \* the nodes by their addresses
  root,        \* root_: an address, or Null
  count,       \* count_
  height,      \* height_
  num_nodes,   \* num_nodes_
  job,         \* what the running call has still to do
  call         \* the last call that changed the tree: <<name, item>>

vars == <<nodes, root, count, height, num_nodes, job, call>>

Ext == INSTANCE SequencesExt
Abstract == INSTANCE OrderedSet WITH items <- {}, call <- <<>>

Null == 0

\* No call is running.
Idle == [op |-> "idle"]

\* The node right, with median before it, has to be added on the right of the
\* node that path leads to.
Adding(path, median, right) ==
  [op |-> "add", path |-> path, median |-> median, right |-> right]

\* The last node of path may have too few items, and the counts of the nodes
\* above it one too many.
Fixing(path) == [op |-> "fix", path |-> path]

-----------------------------------------------------------------------------
(* BPTreeNode.  h is the memory: the nodes by their addresses. *)

Leaf(keys) == [leaf |-> TRUE, keys |-> keys, children |-> <<>>, cnt |-> 0]

Inner(keys, children, cnt) ==
  [leaf |-> FALSE, keys |-> keys, children |-> children, cnt |-> cnt]

\* CreateNode and DestroyNode.
Fresh(h) == CHOOSE a \in 1..(Cardinality(DOMAIN h) + 1) : a \notin DOMAIN h
Store(h, a, n) == [b \in DOMAIN h \cup {a} |-> IF b = a THEN n ELSE h[b]]
Destroy(h, S) == [b \in DOMAIN h \ S |-> h[b]]

Key(n, i) == n.keys[i + 1]
Child(n, i) == n.children[i + 1]
NumItems(n) == Len(n.keys)
MaxItems(n) == IF n.leaf THEN kMaxLeafKeys ELSE kMaxInnerKeys
MinItems(n) == MaxItems(n) \div 2
AvailableSlotCount(n) == MaxItems(n) - NumItems(n)
TreeCount(n) == IF n.leaf THEN NumItems(n) ELSE n.cnt

\* A leaf has no count to increase.
IncreaseTreeCount(n, delta) ==
  IF n.leaf THEN n ELSE [n EXCEPT !.cnt = @ + delta]

\* The children at positions first .. last, none of a leaf, and their items.
Children(n, first, last) ==
  IF n.leaf THEN <<>> ELSE SubSeq(n.children, first + 1, last + 1)

Total(s) ==
  LET sum[i \in 0..Len(s)] == IF i = 0 THEN 0 ELSE sum[i - 1] + s[i]
  IN sum[Len(s)]

Counts(h, children) == [i \in 1..Len(children) |-> TreeCount(h[children[i]])]

SumCounts(h, children) == Total(Counts(h, children))

\* The position of the first key that is not below q: a binary search that
\* looks at the last key first.  A round that meets q leaves it alone between
\* lo and hi.
BSearch(n, q) ==
  LET last == NumItems(n) - 1
      Round(s) ==
        LET mid == (s.lo + s.hi) \div 2 IN
        CASE s.lo >= s.hi -> s
          [] s.lo < s.hi /\ q = Key(n, mid) -> [lo |-> mid, hi |-> mid]
          [] s.lo < s.hi /\ q < Key(n, mid) -> [lo |-> s.lo, hi |-> mid]
          [] OTHER -> [lo |-> mid + 1, hi |-> s.hi]
      search[i \in 0..last] ==
        IF i = 0 THEN [lo |-> 0, hi |-> last] ELSE Round(search[i - 1])
      hi == search[last].hi
  IN IF q > Key(n, last) THEN [index |-> NumItems(n), found |-> FALSE]
     ELSE IF q = Key(n, last) THEN [index |-> last, found |-> TRUE]
     ELSE [index |-> hi, found |-> q = Key(n, hi)]

LeafInsert(n, index, item) ==
  [n EXCEPT !.keys = Ext!InsertAt(@, index + 1, item)]

\* The child goes to the right of the item.  The caller updates the count.
InnerInsert(n, index, item, child) ==
  [n EXCEPT !.keys = Ext!InsertAt(@, index + 1, item),
            !.children = Ext!InsertAt(@, index + 2, child)]

\* ShiftLeft(index, true): the key goes, and the child on its right.
ShiftLeft(n, index) ==
  [n EXCEPT !.keys = Ext!RemoveAt(@, index + 1),
            !.children = IF n.leaf THEN @ ELSE Ext!RemoveAt(@, index + 2)]

\* num keys move from the child of p at pos to its left sibling, through p.
RebalanceChildToLeft(h, p, pos, num) ==
  LET l     == Child(h[p], pos - 1)
      r     == Child(h[p], pos)
      src   == h[r]
      dest  == h[l]
      moved == Children(src, 0, num - 1)
      delta == SumCounts(h, moved) + num
  IN [h EXCEPT
       ![p] = [@ EXCEPT !.keys[pos] = Key(src, num - 1)],
       ![l] = IncreaseTreeCount(
          [dest EXCEPT !.keys = @ \o <<Key(h[p], pos - 1)>> \o SubSeq(src.keys, 1, num - 1),
                       !.children = @ \o moved], delta),
       ![r] = IncreaseTreeCount(
          [src EXCEPT !.keys = SubSeq(@, num + 1, Len(@)),
                      !.children = Children(src, num, NumItems(src))], -delta)]

\* num keys move from the child of p at pos to its right sibling, through p.
RebalanceChildToRight(h, p, pos, num) ==
  LET l     == Child(h[p], pos)
      r     == Child(h[p], pos + 1)
      src   == h[l]
      dest  == h[r]
      left  == NumItems(src) - num
      moved == Children(src, left + 1, NumItems(src))
      delta == SumCounts(h, moved) + num
  IN [h EXCEPT
       ![p] = [@ EXCEPT !.keys[pos + 1] = Key(src, left)],
       ![r] = IncreaseTreeCount(
          [dest EXCEPT !.keys = SubSeq(src.keys, left + 2, Len(src.keys))
                                  \o <<Key(h[p], pos)>> \o @,
                       !.children = moved \o @], delta),
       ![l] = IncreaseTreeCount(
          [src EXCEPT !.keys = SubSeq(@, 1, left),
                      !.children = Children(src, 0, left)], -delta)]

\* How many keys to move to a sibling with the given room: all it can take
\* if the new item comes at the far end, otherwise half of it.
ToMove(room, at_far_end) == IF at_far_end THEN room ELSE room \div 2

\* Room for an insertion at insert_pos of the full child of p at pos: the new
\* memory and the node and position to insert at.
RebalanceChild(h, p, pos, insert_pos) ==
  LET node     == Child(h[p], pos)
      left     == Child(h[p], pos - 1)
      right    == Child(h[p], pos + 1)
      to_left  == IF pos = 0 THEN 0
                  ELSE ToMove(AvailableSlotCount(h[left]), insert_pos = NumItems(h[node]))
      to_right == IF pos = NumItems(h[p]) THEN 0
                  ELSE ToMove(AvailableSlotCount(h[right]), insert_pos = 0)
      kept     == NumItems(h[node]) - to_right
      Into(mem, child, at) ==
        [done |-> TRUE, nodes |-> mem, node |-> child, insert_pos |-> at]
  IN CASE to_left > 0 /\ insert_pos < to_left ->
            Into(RebalanceChildToLeft(h, p, pos, to_left), left,
                 NumItems(h[left]) + insert_pos + 1)
       [] to_left > 0 /\ insert_pos >= to_left ->
            Into(RebalanceChildToLeft(h, p, pos, to_left), node, insert_pos - to_left)
       [] to_left = 0 /\ to_right > 0 /\ insert_pos > kept ->
            Into(RebalanceChildToRight(h, p, pos, to_right), right,
                 insert_pos - (kept + 1))
       [] to_left = 0 /\ to_right > 0 /\ insert_pos <= kept ->
            Into(RebalanceChildToRight(h, p, pos, to_right), node, insert_pos)
       [] OTHER -> [done |-> FALSE]

\* A mutant: the key between the nodes is put behind the right one's.
MergeFromRightKeyLast(n, key, right) ==
  IncreaseTreeCount(
    [n EXCEPT !.keys = @ \o right.keys \o <<key>>,
              !.children = @ \o right.children], TreeCount(right) + 1)

MergeFromRight(n, key, right) ==
  IncreaseTreeCount(
    [n EXCEPT !.keys = @ \o <<key>> \o right.keys,
              !.children = @ \o right.children], TreeCount(right) + 1)

\* A mutant: the key between the nodes is forgotten.
FitsWithoutKey(n, m) == NumItems(n) + NumItems(m) <= MaxItems(n)

\* Two siblings and the key between them fit in one node.
Fits(n, m) == NumItems(n) + 1 + NumItems(m) <= MaxItems(n)

\* Two children of p are merged, or items move to the child at pos.  retired
\* is the node that is no longer used.
MergeOrRebalanceChild(h, p, pos) ==
  LET node     == h[Child(h[p], pos)]
      left     == h[Child(h[p], pos - 1)]
      right    == h[Child(h[p], pos + 1)]
      Merged(at) ==
        [retired |-> Child(h[p], at + 1),
         nodes   |-> [h EXCEPT
           ![Child(h[p], at)] = MergeFromRight(@, Key(h[p], at), h[Child(h[p], at + 1)]),
           ![p] = ShiftLeft(@, at)]]
  IN CASE pos > 0 /\ Fits(left, node) -> Merged(pos - 1)
       [] ~ (pos > 0 /\ Fits(left, node)) /\ pos < NumItems(h[p]) /\ Fits(right, node) ->
            Merged(pos)
       [] ~ (pos > 0 /\ Fits(left, node)) /\ pos < NumItems(h[p]) /\ ~ Fits(right, node) ->
            [retired |-> Null, nodes |->
               RebalanceChildToLeft(h, p, pos + 1, (NumItems(right) - NumItems(node)) \div 2)]
       [] OTHER ->
            [retired |-> Null, nodes |->
               RebalanceChildToRight(h, p, pos - 1, (NumItems(left) - NumItems(node)) \div 2)]

\* The left half, the median and the right half.
Split(h, n) ==
  LET mid     == NumItems(n) \div 2
      keys    == SubSeq(n.keys, mid + 2, NumItems(n))
      moved   == Children(n, mid + 1, NumItems(n))
      cnt     == Len(keys) + SumCounts(h, moved)
      left    == [n EXCEPT !.keys = SubSeq(@, 1, mid),
                           !.children = Children(n, 0, mid)]
  IN [left   |-> IncreaseTreeCount(left, -(cnt + 1)),
      median |-> Key(n, mid),
      right  |-> IF n.leaf THEN Leaf(keys) ELSE Inner(keys, moved, cnt)]

-----------------------------------------------------------------------------
(* BPTreePath: nodes and positions recorded on the way down from the root. *)

Push(path, node, pos) == Append(path, [node |-> node, pos |-> pos])
LastNode(path) == path[Len(path)].node
LastPos(path) == path[Len(path)].pos
Above(path) == SubSeq(path, 1, Len(path) - 1)
Bump(path, delta) == Push(Above(path), LastNode(path), LastPos(path) + delta)

Terminal(h, path) == Key(h[LastNode(path)], LastPos(path))

\* The node that the path leads to, below its last position.
ChildBelow(h, path) == Child(h[LastNode(path)], LastPos(path))

\* From node a down to the last item of a leaf, or to the first one.
DigRightFrom(h, path, a) ==
  LET PushLast(p, n) ==
        Push(p, n, IF h[n].leaf THEN NumItems(h[n]) - 1 ELSE NumItems(h[n]))
      dig[i \in 0..height] ==
        IF i = 0 THEN PushLast(path, a)
        ELSE LET p == dig[i - 1] IN
             IF h[LastNode(p)].leaf THEN p ELSE PushLast(p, ChildBelow(h, p))
  IN dig[height]

DigLeftFrom(h, path, a) ==
  LET dig[i \in 0..height] ==
        IF i = 0 THEN Push(path, a, 0)
        ELSE LET p == dig[i - 1] IN
             IF h[LastNode(p)].leaf THEN p ELSE Push(p, ChildBelow(h, p), 0)
  IN dig[height]

\* From an item of an inner node to its predecessor, in the subtree on its left.
DigRight(h, path) == DigRightFrom(h, path, ChildBelow(h, path))

\* The items on the left of the path at each level, and in all.
Rank(h, path) ==
  LET Left(i) ==
        LET n     == h[path[i].node]
            pos   == path[i].pos
            delta == IF i = Len(path) THEN 1 ELSE 0
        IN pos + (IF n.leaf THEN 0 ELSE SumCounts(h, Children(n, 0, pos + delta - 1)))
  IN Total([i \in 1..Len(path) |-> Left(i)])

\* Pop the nodes whose items are all behind, or all ahead.
UpTo(path, S) == SubSeq(path, 1, Ext!Max(S \cup {0}))

PopFinished(h, path) ==
  UpTo(path, {i \in 1..Len(path) : path[i].pos # NumItems(h[path[i].node])})

PopUnstarted(path) == UpTo(path, {i \in 1..Len(path) : path[i].pos # 0})

\* A mutant: the walk goes down on the left of the item it is at.
PathNextSameItem(h, path) ==
  LET n == h[LastNode(path)] IN
  IF n.leaf
  THEN IF LastPos(path) + 1 < NumItems(n) THEN Bump(path, 1)
       ELSE PopFinished(h, Above(path))
  ELSE DigLeftFrom(h, path, ChildBelow(h, path))

\* The path to the next item, and to the one before; empty at the end.
PathNext(h, path) ==
  LET n    == h[LastNode(path)]
      step == Bump(path, 1)
  IN IF n.leaf
     THEN IF LastPos(step) < NumItems(n) THEN step ELSE PopFinished(h, Above(path))
     ELSE DigLeftFrom(h, step, ChildBelow(h, step))

PathPrev(h, path) ==
  LET up == PopUnstarted(path) IN
  IF ~ h[LastNode(path)].leaf THEN DigRight(h, path)
  ELSE IF up = <<>> THEN <<>> ELSE Bump(up, -1)

-----------------------------------------------------------------------------
(* BPTree: the calls that only read. *)

\* The path to q, or to the place in a leaf where q would be.
Locate(h, q) ==
  LET PushSearch(p, a) == Push(p, a, BSearch(h[a], q).index)
      down[i \in 0..height] ==
        IF i = 0 THEN PushSearch(<<>>, root)
        ELSE LET p == down[i - 1]
                 n == h[LastNode(p)]
             IN IF BSearch(n, q).found \/ n.leaf THEN p ELSE PushSearch(p, ChildBelow(h, p))
  IN down[height]

\* What Locate returns beside the path.
Found(h, path, q) == BSearch(h[LastNode(path)], q).found

Contains(h, q) == Found(h, Locate(h, q), q)

GetRank(h, q, reverse) ==
  LET rank == Rank(h, Locate(h, q))
  IN IF reverse THEN count - rank - 1 ELSE rank

\* A mutant: the key between two children is not counted.
SkipPastKey(h, n, rank) ==
  LET skip[i \in 0..NumItems(n)] ==
        IF i = 0 THEN [pos |-> 0, rank |-> rank]
        ELSE LET s   == skip[i - 1]
                 cnt == TreeCount(h[Child(n, s.pos)])
             IN IF cnt >= s.rank THEN s
                ELSE [pos |-> s.pos + 1, rank |-> s.rank - cnt]
  IN skip[NumItems(n)]

\* The first child of n that reaches the rank, and what is left of the rank
\* there: the children before it are skipped, and the keys behind them.
Skip(h, n, rank) ==
  LET skip[i \in 0..NumItems(n)] ==
        IF i = 0 THEN [pos |-> 0, rank |-> rank]
        ELSE LET s   == skip[i - 1]
                 cnt == TreeCount(h[Child(n, s.pos)])
             IN IF cnt >= s.rank THEN s
                ELSE [pos |-> s.pos + 1, rank |-> s.rank - cnt - 1]
  IN skip[NumItems(n)]

\* From the root down by the counts of the children, to a key between two
\* children or to a leaf.
Descend(h, rank) ==
  LET Down(s) ==
        LET n  == h[s.node]
            at == Skip(h, n, s.rank)
        IN IF s.node = Null THEN s
           ELSE IF n.leaf
           THEN [path |-> Push(s.path, s.node, s.rank), node |-> Null, rank |-> 0]
           ELSE [path |-> Push(s.path, s.node, at.pos),
                 node |-> IF TreeCount(h[Child(n, at.pos)]) = at.rank THEN Null
                          ELSE Child(n, at.pos),
                 rank |-> at.rank]
      down[i \in 0..height] ==
        IF i = 0 THEN [path |-> <<>>, node |-> root, rank |-> rank]
        ELSE Down(down[i - 1])
  IN down[height].path

ToRank(h, rank) ==
  IF rank + 1 = count THEN DigRightFrom(h, <<>>, root) ELSE Descend(h, rank)

\* A mutant: a missing item's place is always stepped over.
GEQSteps(h, q) ==
  LET at == Locate(h, q) IN IF ~ Found(h, at, q) THEN PathNext(h, at) ELSE at

GEQ(h, q) ==
  LET at == Locate(h, q) IN
  IF ~ Found(h, at, q) /\ LastPos(at) >= NumItems(h[LastNode(at)])
  THEN PathNext(h, at) ELSE at

LEQ(h, q) ==
  LET at == Locate(h, q) IN IF Found(h, at, q) THEN at ELSE PathPrev(h, at)

\* The next num items from path on, in order or backwards; fewer at the end.
Walk(h, path, num, reverse) ==
  LET walked[k \in 0..num] ==
        IF k = 0 THEN [path |-> path, items |-> <<>>]
        ELSE LET w == walked[k - 1] IN
             IF w.path = <<>> THEN w
             ELSE [path  |-> IF reverse THEN PathPrev(h, w.path) ELSE PathNext(h, w.path),
                   items |-> Append(w.items, Terminal(h, w.path))]
  IN walked[num].items

Iterate(h, first, last) ==
  IF first >= count THEN <<>>
  ELSE Walk(h, ToRank(h, first), last - first + 1, FALSE)

IterateReverse(h, first, last) ==
  Walk(h, ToRank(h, count - 1 - first), last - first + 1, TRUE)

-----------------------------------------------------------------------------
(* BPTree: the calls that change the tree. *)

\* delta for the nodes of the path.
IncreaseSubtreeCounts(h, path, delta) ==
  [a \in DOMAIN h |-> IF \E i \in 1..Len(path) : path[i].node = a
                      THEN IncreaseTreeCount(h[a], delta) ELSE h[a]]

\* The call is over.
Return(h) ==
  /\ nodes' = h
  /\ job' = Idle
  /\ UNCHANGED <<root, height, num_nodes>>

\* The node at the end of path is split: its left half stays, its right half
\* is a new node for the node above.
SplitInto(h, path, halves) ==
  LET right == Fresh(h) IN
  /\ nodes' = Store([h EXCEPT ![LastNode(path)] = halves.left], right, halves.right)
  /\ num_nodes' = num_nodes + 1
  /\ job' = Adding(Above(path), halves.median, right)
  /\ UNCHANGED <<root, height>>

\* The full leaf at the end of path gets the item: after moving some of its
\* items to a sibling or splitting it.
InsertToFullLeaf(h, item, path) ==
  LET pos    == LastPos(path)
      up     == Above(path)
      res    == RebalanceChild(h, LastNode(up), LastPos(up), pos)
      halves == Split(h, h[LastNode(path)])
      kept   == NumItems(halves.left)
      filled == IF pos <= kept
                THEN [halves EXCEPT !.left = LeafInsert(@, pos, item)]
                ELSE [halves EXCEPT !.right = LeafInsert(@, pos - kept - 1, item)]
  IN IF up # <<>> /\ res.done
     THEN Return(IncreaseSubtreeCounts(
            [res.nodes EXCEPT ![res.node] = LeafInsert(@, res.insert_pos, item)], up, 1))
     ELSE SplitInto(h, path, filled)

InsertAt(h, item, path) ==
  IF NumItems(h[LastNode(path)]) = kMaxLeafKeys THEN InsertToFullLeaf(h, item, path)
  ELSE Return(IncreaseSubtreeCounts(
         [h EXCEPT ![LastNode(path)] = LeafInsert(@, LastPos(path), item)], Above(path), 1))

\* A mutant: the new node's items stay in the count of the old one.
CountInsertedOnly(h, node, at, sum) ==
  [h EXCEPT ![at] = IncreaseTreeCount(@, 1)]

\* The node at was given a key and a node of sum items, which the count of
\* node still includes.
CountInserted(h, node, at, sum) ==
  IF at = node
  THEN [h EXCEPT ![node] = IncreaseTreeCount(@, 1)]
  ELSE [h EXCEPT ![node] = IncreaseTreeCount(@, -sum),
                 ![at] = IncreaseTreeCount(@, sum + 1)]

\* A full inner node is split and one of its halves gets (median, right).
SplitInnerAndInsert(h, node, pos, median, right) ==
  LET halves == Split(h, node)
      kept   == NumItems(halves.left)
      sum    == TreeCount(h[right])
  IN IF pos <= kept
     THEN [halves EXCEPT !.left =
             IncreaseTreeCount(InnerInsert(@, pos, median, right), 1)]
     ELSE [halves EXCEPT
             !.left = IncreaseTreeCount(@, -sum),
             !.right = IncreaseTreeCount(
                InnerInsert(@, pos - kept - 1, median, right), sum + 1)]

\* A round of the loop of InsertToFullLeaf: the node at the end of path takes
\* (median, right), by itself, with the help of a sibling or by splitting.
AddToParent(path, median, right) ==
  LET node   == LastNode(path)
      pos    == LastPos(path)
      up     == Above(path)
      res    == RebalanceChild(nodes, LastNode(up), LastPos(up), pos)
      full   == NumItems(nodes[node]) >= kMaxInnerKeys
      helped == up # <<>> /\ res.done
  IN \/ /\ ~ full
        /\ Return(IncreaseSubtreeCounts(
             [nodes EXCEPT ![node] =
               IncreaseTreeCount(InnerInsert(@, pos, median, right), 1)], up, 1))
     \/ /\ full /\ helped
        /\ Return(IncreaseSubtreeCounts(
             CountInserted([res.nodes EXCEPT ![res.node] =
                              InnerInsert(@, res.insert_pos, median, right)],
                           node, res.node, TreeCount(nodes[right])), up, 1))
     \/ /\ full /\ ~ helped
        /\ SplitInto(nodes, path,
             SplitInnerAndInsert(nodes, nodes[node], pos, median, right))

\* The root was split: a new one gets the two halves.
NewRoot(median, right) ==
  LET new == Fresh(nodes) IN
  /\ nodes' = Store(nodes, new,
       Inner(<<median>>, <<root, right>>,
             TreeCount(nodes[root]) + TreeCount(nodes[right]) + 1))
  /\ root' = new
  /\ height' = height + 1
  /\ num_nodes' = num_nodes + 1
  /\ job' = Idle

\* A round of the loop of Delete: the last node of the path may have too few
\* items; it is merged or filled through its parent.
FixUnderflow(h, path) ==
  LET node == h[LastNode(path)]
      few  == NumItems(node) < MinItems(node)
      up   == Above(path)
      p    == LastNode(up)
      res  == MergeOrRebalanceChild(h, p, LastPos(up))
      h2   == [res.nodes EXCEPT ![p] = IncreaseTreeCount(@, -1)]
  IN \/ /\ ~ few
        /\ Return(IncreaseSubtreeCounts(h, up, -1))
     \/ /\ few /\ up = <<>> /\ NumItems(node) > 0
        /\ Return(h)
     \/ /\ few /\ up = <<>> /\ NumItems(node) = 0
        /\ root' = IF node.leaf THEN Null ELSE Child(node, 0)
        /\ nodes' = Destroy(h, {root})
        /\ height' = height - 1
        /\ num_nodes' = num_nodes - 1
        /\ job' = Idle
     \/ /\ few /\ up # <<>> /\ res.retired = Null
        /\ Return(IncreaseSubtreeCounts(h2, Above(up), -1))
     \/ /\ few /\ up # <<>> /\ res.retired # Null
        /\ nodes' = Destroy(h2, {res.retired})
        /\ num_nodes' = num_nodes - 1
        /\ job' = Fixing(up)
        /\ UNCHANGED <<root, height>>

\* A mutant: the predecessor goes, the item of the inner node stays.
RemoveItemKeepsKey(h, path) ==
  LET at == IF h[LastNode(path)].leaf THEN path ELSE DigRight(h, path)
  IN [path |-> at, nodes |-> [h EXCEPT ![LastNode(at)] = ShiftLeft(@, LastPos(at))]]

\* An item of an inner node is replaced by its predecessor, which is taken
\* out of its leaf instead.
RemoveItem(h, path) ==
  LET dig == DigRight(h, path) IN
  IF h[LastNode(path)].leaf
  THEN [path |-> path,
        nodes |-> [h EXCEPT ![LastNode(path)] = ShiftLeft(@, LastPos(path))]]
  ELSE [path |-> dig,
        nodes |-> [h EXCEPT
          ![LastNode(path)] = [@ EXCEPT !.keys[LastPos(path) + 1] = Terminal(h, dig)],
          ![LastNode(dig)] = ShiftLeft(@, LastPos(dig))]]

-----------------------------------------------------------------------------
(* The nodes and items below a node, and the tree with its items renumbered. *)

\* The nodes 0, 1, 2, ... levels below a.
Layers(h, a) ==
  LET layer[d \in 0..height] ==
        IF d = 0 THEN {a}
        ELSE UNION {Ext!Range(h[b].children) : b \in layer[d - 1]}
  IN layer

Under(h, a) == UNION {Layers(h, a)[d] : d \in 0..height}

KeysOf(h, S) == UNION {Ext!Range(h[a].keys) : a \in S}

\* The item between two nodes that are being linked is part of the tree.
ItemSet ==
  KeysOf(nodes, DOMAIN nodes) \cup IF job.op = "add" THEN {job.median} ELSE {}

\* Appending to <<>> makes TLC build the sequences at once.
Renumber ==
  LET S      == ItemSet
      number == [x \in S |-> Abstract!Renumbered(S, x)]
  IN [a \in DOMAIN nodes |->
        [nodes[a] EXCEPT !.keys =
           <<>> \o [i \in 1..Len(nodes[a].keys) |-> number[nodes[a].keys[i]]]]]

-----------------------------------------------------------------------------
\* h is the tree with its items renumbered, at what Locate finds there.  To
\* insert an item that is there, or delete one that is not, returns false and
\* changes nothing.
Insert(h, item, at) ==
  /\ call' = <<"Insert", item>>
  /\ \/ /\ root = Null
        /\ LET new == Fresh(h) IN
           nodes' = Store(h, new, Leaf(<<item>>)) /\ root' = new
        /\ count' = 1 /\ height' = 1 /\ num_nodes' = num_nodes + 1
        /\ UNCHANGED job
     \/ /\ root # Null
        /\ ~ Found(h, at, item) /\ InsertAt(h, item, at)
        /\ count' = count + 1

Delete(h, item, at) ==
  /\ root # Null
  /\ Found(h, at, item)
  /\ LET removed == RemoveItem(h, at) IN FixUnderflow(removed.nodes, removed.path)
  /\ count' = count - 1
  /\ call' = <<"Delete", item>>

\* Clear visits and destroys the nodes below the root.
Clear ==
  LET visited == IF root = Null THEN {} ELSE Under(nodes, root) IN
  /\ nodes' = Destroy(nodes, visited)
  /\ num_nodes' = num_nodes - Cardinality(visited)
  /\ root' = Null /\ height' = 0 /\ count' = 0
  /\ call' = <<"Clear">>
  /\ UNCHANGED job

\* A further round of the running call.
Continue ==
  /\ \/ job.op = "add" /\ job.path # <<>> /\ AddToParent(job.path, job.median, job.right)
     \/ job.op = "add" /\ job.path = <<>> /\ NewRoot(job.median, job.right)
     \/ job.op = "fix" /\ FixUnderflow(nodes, job.path)
  /\ UNCHANGED <<count, call>>

Init ==
  /\ nodes = [a \in {} |-> Leaf(<<>>)]
  /\ root = Null /\ count = 0 /\ height = 0 /\ num_nodes = 0
  /\ job = Idle /\ call = <<>>

Next ==
  \/ /\ job = Idle
     /\ \/ LET h == Renumber IN
           \E i \in Abstract!Places(count) :
             LET at == Locate(h, i) IN
             \/ count < MaxCount /\ Insert(h, i, at)
             \/ Delete(h, i, at)
        \/ Clear
  \/ Continue

Spec == Init /\ [][Next]_vars

-----------------------------------------------------------------------------
(* Properties of the tree between two calls. *)

\* The least number of keys of a node below the root.  The split of a full
\* node of even capacity leaves its right half one short.
LeastItems(n) == IF MaxItems(n) % 2 = 1 THEN MinItems(n) ELSE MinItems(n) - 1

\* The splits, merges and rebalancings keep the tree balanced and its nodes
\* within their arrays: all leaves are height_ deep, no node is lost or linked
\* twice, an inner node has one child more than keys, no node has more keys
\* than it can hold, every node but the root has its least number of keys, and
\* num_nodes_ is the number of nodes.
Shape ==
  job = Idle =>
    /\ num_nodes = Cardinality(DOMAIN nodes)
    /\ root = Null => DOMAIN nodes = {} /\ count = 0 /\ height = 0
    /\ root # Null =>
         LET layer == Layers(nodes, root) IN
         /\ DOMAIN nodes = UNION {layer[d] : d \in 0..(height - 1)}
         /\ \A d \in 0..(height - 1), a \in DOMAIN nodes :
              a \in layer[d] => (nodes[a].leaf <=> d = height - 1)
         /\ NumItems(nodes[root]) >= 1
         /\ \A a \in DOMAIN nodes :
              LET n == nodes[a] IN
              /\ Len(n.children) = IF n.leaf THEN 0 ELSE NumItems(n) + 1
              /\ NumItems(n) <= MaxItems(n)
              /\ a # root => NumItems(n) >= LeastItems(n)
         /\ \A a, b \in DOMAIN nodes :
              \A i \in DOMAIN nodes[a].children, j \in DOMAIN nodes[b].children :
                nodes[a].children[i] = nodes[b].children[j] => a = b /\ i = j

\* The count an inner node stores is the number of items below it, after
\* every insertion and deletion, wherever the items moved: Rank, ToRank and
\* GetRank believe it.
CountsExact ==
  job = Idle =>
    /\ count = Cardinality(ItemSet)
    /\ \A a \in DOMAIN nodes :
         TreeCount(nodes[a]) = Cardinality(KeysOf(nodes, Under(nodes, a)))

\* The items are in order over leaves and inner nodes, each there once: a key
\* is above everything in the subtree on its left and below everything in the
\* one on its right.  Locate finds an item only if the searches on the way
\* down meet no misplaced key.
Sorted ==
  job = Idle =>
    \A a \in DOMAIN nodes :
      LET n == nodes[a]
          Items(i) == KeysOf(nodes, Under(nodes, n.children[i]))
      IN /\ \A i, j \in DOMAIN n.keys : i < j => n.keys[i] < n.keys[j]
         /\ ~ n.leaf => \A i \in DOMAIN n.keys :
              /\ \A x \in Items(i) : x < n.keys[i]
              /\ \A x \in Items(i + 1) : x > n.keys[i]

\* ToRank, Rank and GetRank, which go by the stored counts, agree with the
\* order of the items, from both ends: the item of rank r has the number
\* 2 * (r + 1).
Ranks ==
  LET h == Renumber IN
  job = Idle =>
    \A r \in 0..(count - 1) :
      /\ Terminal(h, ToRank(h, r)) = 2 * (r + 1)
      /\ GetRank(h, 2 * (r + 1), FALSE) = r
      /\ GetRank(h, 2 * (r + 1), TRUE) = count - 1 - r

\* Contains, GEQ and LEQ find the item, the first one above it and the last
\* one below it, for every place among the items, before the first and
\* behind the last included, where the path has to leave a leaf.
Seeks ==
  LET h == Renumber
      To(path, q) == IF path = <<>> THEN q \notin 2..(2 * count) ELSE Terminal(h, path) = q
  IN job = Idle /\ root # Null =>
       \A q \in Abstract!Places(count) :
         IF q % 2 = 0
         THEN Contains(h, q) /\ To(GEQ(h, q), q) /\ To(LEQ(h, q), q)
         ELSE ~ Contains(h, q) /\ To(GEQ(h, q), q + 1) /\ To(LEQ(h, q), q - 1)

\* Iterate and IterateReverse visit the items between two ranks, all of them,
\* once and in order, over the ends of leaves and through inner nodes.
Walks ==
  LET h == Renumber IN
  job = Idle =>
    \A r \in 0..(count - 1) :
      LET last == IF r = 0 \/ r = count - 1 THEN count - 1 ELSE r + 1 IN
      /\ Iterate(h, r, last) = [i \in 1..(last - r + 1) |-> 2 * (r + i)]
      /\ IterateReverse(h, r, last) = [i \in 1..(last - r + 1) |-> 2 * (count + 1 - r - i)]

ImplementsSet == INSTANCE OrderedSet WITH items <- ItemSet

\* The tree implements the ordered set: Insert adds its item, Delete takes
\* out its item and no other, Clear everything, however the items are spread
\* over the nodes and moved between them.
SetRefined == ImplementsSet!Spec

=============================================================================
