-------------------------- MODULE BPlusTreeProofs ---------------------------
(***************************************************************************)
(* The B+ tree of src/src/zset/bplustree.hpp keeps its form, counts its    *)
(* items and implements the ordered set, for any number of items and any   *)
(* capacity of its nodes.                                                  *)
(*                                                                         *)
(* None of this is inductive between two calls only: a step of the         *)
(* specification is a round of the loops of InsertToFullLeaf and Delete.   *)
(* The invariant TreeInv says what each round leaves: a tree in order      *)
(* (Tidy), one that still awaits an item at the end of a path (Addable),   *)
(* or one whose last node on a path may be poor (Fixable). The proof has a *)
(* lemma for each way a round can go: split, help from either neighbour,   *)
(* merge, items taken from either neighbour, a new root, a root given up.  *)
(***************************************************************************)
EXTENDS BPlusTreeLemmas

-----------------------------------------------------------------------------
\* L and R are the neighbours, a the full one, n the one that gets the item.
Between(D, G, L, R, a, n, up) ==
  /\ G \in [D -> NodeSet] /\ L \in D /\ R \in D /\ L # R
  /\ (G[R].leaf <=> G[L].leaf)
  /\ a = L \/ a = R
  /\ n = L \/ n = R
  /\ ~ OnPath(up, L) /\ ~ OnPath(up, R)

\* The neighbour that neither was full nor gets the item is as before.
LEMMA HelpOther ==
  ASSUME NEW D, NEW G, NEW W, NEW L, NEW R, NEW a, NEW n, NEW i, NEW x, NEW c, NEW e, NEW up,
         Between(D, G, L, R, a, n, up), Helped(D, G, W, a, n, i, x, c, e, up),
         NEW b, b = L \/ b = R, b # a, b # n
  PROVE  W[b] = G[b]
<1>1. b \in D \ {a, n} /\ ~ OnPath(up, b)
  BY DEF Between
<1>. QED
  BY <1>1 DEF Helped

\* The item put into either neighbour is counted once.
LEMMA HelpSums ==
  ASSUME NEW D, NEW G, NEW W, NEW L, NEW R, NEW a, NEW n, NEW i, NEW x, NEW c, NEW e \in Int, NEW up,
         Between(D, G, L, R, a, n, up), Helped(D, G, W, a, n, i, x, c, e, up)
  PROVE  TreeCount(W[L]) + TreeCount(W[R]) = TreeCount(G[L]) + TreeCount(G[R]) + 1
<1>. DEFINE gl == TreeCount(G[L])
            gr == TreeCount(G[R])
            wl == TreeCount(W[L])
            wr == TreeCount(W[R])
<1>1. gl \in Int /\ gr \in Int
  BY TreeCountType DEF Between
<1>2. (G[R].leaf <=> G[L].leaf) /\ (a = L \/ a = R) /\ (n = L \/ n = R) /\ L # R
  BY DEF Between
<1>3. /\ G[n].leaf \/ n = a => TreeCount(W[n]) = TreeCount(G[n]) + 1
      /\ ~ (G[n].leaf \/ n = a) => TreeCount(W[n]) = TreeCount(G[n]) + (e + 1)
      /\ n # a /\ G[a].leaf => TreeCount(W[a]) = TreeCount(G[a])
      /\ n # a /\ ~ G[a].leaf => TreeCount(W[a]) = TreeCount(G[a]) - e
  BY DEF Helped
<1>4. \/ wl = gl + 1 /\ wr = gr
      \/ wl = gl /\ wr = gr + 1
      \/ wl = gl + (e + 1) /\ wr = gr - e
      \/ wl = gl - e /\ wr = gr + (e + 1)
  <2>1. CASE a = L /\ n = L
    <3>1. W[R] = G[R]
      BY <1>2, <2>1, HelpOther
    <3>. QED
      BY <1>2, <1>3, <2>1, <3>1
  <2>2. CASE a = R /\ n = R
    <3>1. W[L] = G[L]
      BY <1>2, <2>2, HelpOther
    <3>. QED
      BY <1>2, <1>3, <2>2, <3>1
  <2>3. CASE a = L /\ n = R
    BY <1>2, <1>3, <2>3
  <2>4. CASE a = R /\ n = L
    BY <1>2, <1>3, <2>4
  <2>. QED
    BY <1>2, <2>1, <2>2, <2>3, <2>4
<1>. HIDE DEF gl, gr, wl, wr
<1>5. wl + wr = gl + gr + 1
  BY <1>1, <1>4
<1>. QED
  BY <1>5 DEF gl, gr, wl, wr

\* The left neighbour counts its items.
LEMMA HelpLocal ==
  ASSUME NEW D, NEW G, NEW W, NEW L, NEW R, NEW a, NEW n, NEW i, NEW x, NEW c \in Int, NEW e \in Int, NEW up,
         Between(D, G, L, R, a, n, up), Helped(D, G, W, a, n, i, x, c, e, up),
         NEW h, Tallied(h, G[L].children), Whole(G[L]), i \in 0..Len(G[n].keys),
         ~ G[L].leaf => TreeCount(h[c]) = e,
         ~ G[L].leaf /\ a = L => Excess(h, G[L]) = e,
         ~ G[L].leaf /\ a # L => Excess(h, G[L]) = 0
  PROVE  LocalCount(h, W[L])
<1>0. G[L] \in NodeSet /\ W[L] \in NodeSet /\ (a = L \/ a = R) /\ (n = L \/ n = R) /\ L # R
      /\ (G[R].leaf <=> G[L].leaf)
  BY DEF Between, Helped
<1>. DEFINE t == TreeCount(G[L])
            k == Len(G[L].keys)
            z == SumCounts(h, G[L].children)
            t2 == TreeCount(W[L])
            k2 == Len(W[L].keys)
            z2 == SumCounts(h, W[L].children)
<1>1. t \in Int /\ k \in Nat /\ z \in Int /\ t2 \in Int /\ k2 \in Nat /\ G[L].children \in Numbers
      /\ W[L].children \in Numbers /\ G[L].leaf \in BOOLEAN
  BY <1>0, TreeCountType, NodeFacts, SumType
<1>2. (W[L].leaf <=> G[L].leaf) /\ (G[L].leaf => Len(W[L].children) = 0)
  <2>1. CASE n = L
    BY <2>1, <1>0 DEF Helped, Putting, Whole
  <2>2. CASE n # L /\ a = L
    <3>1. Kept(G[L], W[L])
      BY <2>2, <1>0 DEF Helped
    <3>2. Whole(W[L])
      BY <3>1, KeptWhole
    <3>. QED
      BY <3>1, <3>2 DEF Kept, Whole
  <2>3. CASE n # L /\ a # L
    <3>1. W[L] = G[L]
      BY <2>3, HelpOther
    <3>. QED
      BY <3>1 DEF Whole
  <2>. QED
    BY <2>1, <2>2, <2>3
<1>3. CASE G[L].leaf
  <2>1. SumCounts(h, W[L].children) = 0
    BY <1>1, <1>2, <1>3, NoCounts
  <2>2. TreeCount(W[L]) = Len(W[L].keys)
    BY <1>2, <1>3 DEF TreeCount, NumItems
  <2>. QED
    BY <2>1, <2>2, <1>1 DEF LocalCount
<1>4. CASE ~ G[L].leaf
  <2>1. (a = L => (t - k) - z = e) /\ (a # L => (t - k) - z = 0)
    BY <1>4 DEF Excess
  <2>2. CASE n = L
    <3>1. Putting(G[L], W[L], i, x, c) /\ i \in 0..k
      BY <2>2 DEF Helped
    <3>2. k2 = k + 1 /\ W[L].children = Ext!InsertAt(G[L].children, i + 2, c)
      BY <3>1, <1>4 DEF Putting
    <3>3. z2 = z + e
      <4>. DEFINE s == G[L].children
                  m == i + 2
      <4>1. Len(s) = k + 1
        BY <1>4 DEF Whole
      <4>2. m \in 1..(Len(s) + 1)
        <5>. HIDE DEF k, s
        <5>. QED
          BY <4>1, <3>1, <1>1
      <4>3. TreeCount(h[c]) = e /\ TreeCount(h[c]) \in Int /\ s \in Numbers /\ Tallied(h, s)
        BY <1>4, <1>1
      <4>4. z2 = SumCounts(h, Ext!InsertAt(s, m, c))
        BY <3>2
      <4>. HIDE DEF s, m, z2
      <4>5. SumCounts(h, Ext!InsertAt(s, m, c)) = SumCounts(h, s) + TreeCount(h[c])
        BY <4>2, <4>3, SumInsert
      <4>. QED
        BY <4>3, <4>4, <4>5 DEF s
    <3>4. CASE a = L
      <4>1. t2 = t + 1
        BY <2>2, <3>4 DEF Helped
      <4>2. (t - k) - z = e
        BY <2>1, <3>4
      <4>. HIDE DEF t, k, z, t2, k2, z2
      <4>3. t2 = k2 + z2
        BY <1>1, <3>2, <3>3, <4>1, <4>2
      <4>. QED
        BY <1>1, <4>3 DEF LocalCount, t2, k2, z2
    <3>5. CASE a # L
      <4>1. t2 = t + (e + 1)
        BY <2>2, <3>5, <1>4 DEF Helped
      <4>2. (t - k) - z = 0
        BY <2>1, <3>5
      <4>. HIDE DEF t, k, z, t2, k2, z2
      <4>3. t2 = k2 + z2
        BY <1>1, <3>2, <3>3, <4>1, <4>2
      <4>. QED
        BY <1>1, <4>3 DEF LocalCount, t2, k2, z2
    <3>. QED
      BY <3>4, <3>5
  <2>3. CASE n # L /\ a = L
    <3>1. Kept(G[L], W[L]) /\ t2 = t - e
      BY <2>3, <1>4 DEF Helped
    <3>2. k2 = k /\ z2 = z
      BY <3>1 DEF Kept
    <3>3. (t - k) - z = e
      BY <2>1, <2>3
    <3>. HIDE DEF t, k, z, t2, k2, z2
    <3>4. t2 = k2 + z2
      BY <1>1, <3>1, <3>2, <3>3
    <3>. QED
      BY <1>1, <3>4 DEF LocalCount, t2, k2, z2
  <2>4. CASE n # L /\ a # L
    <3>1. W[L] = G[L]
      BY <2>4, HelpOther
    <3>2. (t - k) - z = 0
      BY <2>1, <2>4
    <3>. HIDE DEF t, k, z
    <3>3. t = k + z
      BY <1>1, <3>2
    <3>. QED
      BY <1>1, <3>1, <3>3 DEF LocalCount, t, k, z
  <2>. QED
    BY <2>2, <2>3, <2>4
<1>. QED
  BY <1>1, <1>3, <1>4

-----------------------------------------------------------------------------
\* A path has one node at a level.
LEMMA SameLevel ==
  ASSUME NEW D, NEW H, NEW rt, NEW ht \in Nat, NEW lv, NEW path, On(D, H, rt, ht, lv, path),
         NEW b, OnPath(path, b), lv[b] = lv[LastNode(path)]
  PROVE  b = LastNode(path)
<1>1. PICK k \in 1..Len(path) : path[k].node = b
  BY DEF OnPath
<1>2. lv[b] = (ht - k) + 1
  BY <1>1 DEF On
<1>3. Len(path) \in Nat /\ lv[LastNode(path)] = (ht - Len(path)) + 1 /\ LastNode(path) = path[Len(path)].node
  BY OnLast
<1>4. k = Len(path)
  <2>. DEFINE m == Len(path)
  <2>0. k \in Int /\ m \in Int
    BY <1>3
  <2>1. (ht - k) + 1 = (ht - m) + 1
    <3>1. lv[b] = (ht - m) + 1
      BY <1>3
    <3>. QED
      BY <1>2, <3>1
  <2>. HIDE DEF m
  <2>2. k = m
    BY <2>0, <2>1
  <2>. QED
    BY <2>2 DEF m
<1>. QED
  BY <1>1, <1>3, <1>4

\* The neighbours L and R, one of them the full node a at the end of the path.
Beside(D, h, V, p, j, L, R, a, path, c) ==
  /\ Neighbours(D, V, p, j, L, R) /\ Facing(D, h, p, j, L, R)
  /\ h[p].children[j] = L /\ h[p].children[j + 1] = R
  /\ a = L \/ a = R
  /\ V[p] = IncreaseTreeCount(h[p], 1) /\ OnPath(Above(path), p)
  /\ ~ OnPath(Above(path), L) /\ ~ OnPath(Above(path), R)
  /\ \A b \in D : b # a /\ (b = L \/ b = R) => V[b] = h[b]
  /\ ~ h[L].leaf => TreeCount(h[c]) \in Int
  /\ ~ h[L].leaf /\ a = L => Excess(h, h[L]) = TreeCount(h[c])
  /\ ~ h[L].leaf /\ a # L => Excess(h, h[L]) = 0

\* The last node of the path and a neighbour, under their parent.
LEMMA PendingBeside ==
  ASSUME NEW D, NEW h, NEW rt, NEW ht, NEW lv, NEW lo, NEW hi, NEW M, NEW path, NEW x, NEW c,
         Pending(D, h, rt, ht, lv, lo, hi, M, path, x, c), NEW V, V = With(h, path, x, c),
         Len(path) > 1, NEW a, a = LastNode(path), NEW p, p = LastNode(Above(path)),
         NEW j \in 1..Len(h[p].keys), NEW L, L = h[p].children[j], NEW R, R = h[p].children[j + 1],
         a = L \/ a = R
  PROVE  Beside(D, h, V, p, j, L, R, a, path, c)
<1>. DEFINE up == Above(path)
<1>1. /\ h \in [D -> NodeSet] /\ x \in Int /\ c \in Int /\ ht \in Nat
      /\ On(D, h, rt, ht, lv, path) /\ Whole(h[a])
      /\ Form(D, V, rt, ht, lv, lo, hi, M)
      /\ a \in D /\ Extended(D, h, V, path, x, c)
  BY PendingFacts
<1>2. /\ V \in [D -> NodeSet]
      /\ \A b \in D : OnPath(path, b) /\ b # a => V[b] = IncreaseTreeCount(h[b], 1)
      /\ \A b \in D : ~ OnPath(path, b) => V[b] = h[b]
      /\ \A b \in D : b # a => /\ (V[b].leaf <=> h[b].leaf) /\ V[b].keys = h[b].keys
                               /\ V[b].children = h[b].children
      /\ (V[a].leaf <=> h[a].leaf)
  BY <1>1 DEF Extended, Putting
<1>3. On(D, h, rt, ht, lv, up) /\ Len(up) = Len(path) - 1
  BY <1>1, OnAbove
<1>4. p \in D /\ lv[p] = (ht - Len(up)) + 1 /\ lv[a] = (ht - Len(path)) + 1 /\ Len(path) \in Nat
      /\ Len(path) <= ht /\ p = up[Len(up)].node /\ Len(up) \in Nat /\ Len(up) >= 1
  <2>1. ht \in Nat /\ On(D, h, rt, ht, lv, path)
    BY <1>1
  <2>2. lv[a] = (ht - Len(path)) + 1 /\ Len(path) \in Nat /\ Len(path) <= ht
    BY <2>1, OnLast
  <2>. HIDE DEF up
  <2>3. /\ LastNode(up) \in D /\ lv[LastNode(up)] = (ht - Len(up)) + 1
        /\ LastNode(up) = up[Len(up)].node /\ Len(up) \in Nat /\ Len(up) >= 1
    BY <1>3, <2>1, OnLast
  <2>4. p = LastNode(up)
    BY DEF up
  <2>. QED
    BY <2>2, <2>3, <2>4
<1>5. lv[p] = lv[a] + 1 /\ lv[a] \in Int /\ lv[a] >= 1 /\ lv[p] # 1 /\ lv[p] \in Int
  <2>. DEFINE m == Len(path)
              u == Len(up)
  <2>1. lv[p] = (ht - u) + 1 /\ lv[a] = (ht - m) + 1 /\ m \in Nat /\ m <= ht /\ u = m - 1
    BY <1>3, <1>4
  <2>. HIDE DEF m, u
  <2>. QED
    BY <1>1, <2>1
<1>6. p # a
  BY <1>5
<1>7. OnPath(up, p)
  BY <1>4 DEF OnPath
<1>8. \A b : OnPath(up, b) <=> OnPath(path, b) /\ b # a
  BY <1>1, AboveNodes
<1>9. V[p] = IncreaseTreeCount(h[p], 1) /\ V[p].keys = h[p].keys /\ V[p].children = h[p].children
  BY <1>2, <1>4, <1>6, <1>7, <1>8
<1>10. Neighbours(D, V, p, j, L, R)
  BY <1>1, <1>4, <1>5, <1>9, FormNeighbours
<1>11. p # L /\ p # R /\ L # R /\ L \in D /\ R \in D /\ ~ V[p].leaf /\ (V[R].leaf <=> V[L].leaf)
       /\ Len(V[p].children) = Len(V[p].keys) + 1
  BY <1>10 DEF Neighbours
<1>12. lv[L] = lv[a] /\ lv[R] = lv[a]
  <2>1. Linked(D, V, lv, lo, hi)
    BY <1>1 DEF Form
  <2>. DEFINE k == j + 1
              cs == V[p].children
  <2>2. j \in 1..Len(cs) /\ k \in 1..Len(cs)
    <3>1. Len(cs) = Len(h[p].keys) + 1 /\ Len(h[p].keys) \in Nat
      BY <1>1, <1>4, <1>9, <1>11, NodeFacts
    <3>. HIDE DEF cs
    <3>. QED
      BY <3>1
  <2>3. L = cs[j] /\ R = cs[k]
    BY <1>9
  <2>4. lv[L] = lv[p] - 1 /\ lv[R] = lv[p] - 1
    <3>. HIDE DEF k
    <3>. QED
      BY <2>1, <2>2, <2>3, <1>4, Zenon DEF Linked
  <2>. QED
    BY <2>4, <1>5
<1>13. \A b \in D : b # a /\ (b = L \/ b = R) => ~ OnPath(path, b) /\ V[b] = h[b]
  <2>1. ASSUME NEW b \in D, b # a, b = L \/ b = R
        PROVE  ~ OnPath(path, b)
    <3>1. lv[b] = lv[LastNode(path)]
      BY <2>1, <1>12
    <3>. QED
      BY <2>1, <3>1, <1>1, SameLevel
  <2>. QED
    BY <2>1, <1>2
<1>14. ~ OnPath(up, L) /\ ~ OnPath(up, R)
  BY <1>8, <1>11, <1>13
<1>15. \A b \in D : V[b] \in NodeSet /\ h[b] \in NodeSet
  BY <1>1, <1>2
<1>16. \A b \in D : b # a /\ (b = L \/ b = R) => Whole(h[b])
  <2>1. \A b \in D : Whole(V[b])
    BY <1>1, FormWhole
  <2>. QED
    BY <2>1, <1>13
<1>17. PICK e : Awaiting(h, h[a], c, e)
  BY PendingCounts
<1>18. ASSUME NEW b \in D, b # a, b = L \/ b = R
       PROVE  \A i \in 1..Len(h[b].children) :
                h[b].children[i] \in D /\ V[h[b].children[i]] = h[h[b].children[i]]
  <2>1. Linked(D, V, lv, lo, hi)
    BY <1>1 DEF Form
  <2>2. V[b] = h[b] /\ lv[b] = lv[a]
    BY <1>13, <1>12, <1>18
  <2>3. ASSUME NEW i \in 1..Len(V[b].children)
        PROVE  V[b].children[i] \in D /\ V[V[b].children[i]] = h[V[b].children[i]]
    <3>. DEFINE d == V[b].children[i]
    <3>1. d \in D /\ lv[d] = lv[b] - 1
      BY <2>1 DEF Linked
    <3>. HIDE DEF d
    <3>2. lv[d] \in Int /\ lv[d] < lv[LastNode(path)]
      BY <3>1, <2>2, <1>5
    <3>3. ~ OnPath(path, d)
      BY <1>1, <3>2, BelowPath
    <3>4. V[d] = h[d]
      BY <3>1, <3>3, <1>2
    <3>. QED
      BY <3>1, <3>4 DEF d
  <2>. QED
    BY <2>2, <2>3
<1>19. \A b \in D : b # a /\ (b = L \/ b = R) => Tallied(h, h[b].children)
  <2>1. ASSUME NEW b \in D, b # a, b = L \/ b = R
        PROVE  Tallied(h, h[b].children)
    <3>1. \A i \in 1..Len(h[b].children) : h[h[b].children[i]] \in NodeSet
      BY <2>1, <1>18, <1>15
    <3>. QED
      BY <3>1, TreeCountType DEF Tallied
  <2>. QED
    BY <2>1
<1>20. Tallied(h, h[a].children) /\ e \in Int
       /\ (~ h[a].leaf => TreeCount(h[a]) = Len(h[a].keys) + SumCounts(h, h[a].children) + e)
       /\ (~ h[a].leaf => TreeCount(h[c]) = e)
  BY <1>17 DEF Awaiting
<1>21. h[R].leaf <=> h[L].leaf
  BY <1>2, <1>11, <1>13
<1>22. Facing(D, h, p, j, L, R)
  <2>1. Whole(h[L]) /\ Whole(h[R]) /\ Tallied(h, h[L].children) /\ Tallied(h, h[R].children)
    BY <1>1, <1>11, <1>16, <1>19, <1>20
  <2>. QED
    BY <1>1, <1>4, <1>11, <1>21, <2>1, Zenon DEF Facing
<1>23. ~ h[L].leaf => TreeCount(h[c]) \in Int
  BY <1>20, <1>21
<1>24. ASSUME ~ h[L].leaf, a = L
       PROVE  Excess(h, h[L]) = TreeCount(h[c])
  <2>. DEFINE t == TreeCount(h[L])
              k == Len(h[L].keys)
              z == SumCounts(h, h[L].children)
  <2>1. t = k + z + e /\ TreeCount(h[c]) = e /\ e \in Int
    BY <1>20, <1>24
  <2>2. k \in Nat /\ z \in Int
    <3>1. h[L] \in NodeSet /\ Tallied(h, h[L].children)
      BY <1>15, <1>11, <1>20, <1>24
    <3>. QED
      BY <3>1, NodeFacts, SumType
  <2>. HIDE DEF t, k, z
  <2>3. (t - k) - z = e
    BY <2>1, <2>2
  <2>. QED
    BY <2>1, <2>3 DEF Excess, t, k, z
<1>25. ASSUME ~ h[L].leaf, a # L
       PROVE  Excess(h, h[L]) = 0
  <2>. DEFINE t == TreeCount(h[L])
              k == Len(h[L].keys)
              z == SumCounts(h, h[L].children)
  <2>1. V[L] = h[L] /\ h[L] \in NodeSet
    BY <1>25, <1>11, <1>13, <1>15
  <2>2. t = k + SumCounts(V, h[L].children)
    <3>1. LocalCount(V, V[L])
      BY <1>1, <1>11, FormCount
    <3>. QED
      BY <3>1, <2>1 DEF LocalCount
  <2>3. SumCounts(V, h[L].children) = z
    <3>. DEFINE cs == h[L].children
    <3>1. cs \in Numbers /\ \A i \in 1..Len(cs) : TreeCount(V[cs[i]]) = TreeCount(h[cs[i]])
      BY <1>11, <1>18, <1>25, <2>1, NodeFacts
    <3>. HIDE DEF cs
    <3>2. SumCounts(V, cs) = SumCounts(h, cs)
      BY <3>1, SumSame
    <3>. QED
      BY <3>2 DEF cs
  <2>4. k \in Nat /\ z \in Int
    <3>1. Tallied(h, h[L].children)
      BY <1>11, <1>19, <1>25
    <3>. QED
      BY <2>1, <3>1, NodeFacts, SumType
  <2>5. t = k + z
    BY <2>2, <2>3
  <2>. HIDE DEF t, k, z
  <2>6. (t - k) - z = 0
    BY <2>4, <2>5
  <2>. QED
    BY <2>6 DEF Excess, t, k, z
<1>. QED
  BY <1>7, <1>9, <1>10, <1>13, <1>14, <1>22, <1>23, <1>24, <1>25 DEF Beside

-----------------------------------------------------------------------------
\* Position i of node n is position g of the items of the neighbours L and R.
Placed(G, n, L, i, g) ==
  /\ n = L => g = i
  /\ n # L => g = Len(G[L].keys) + 1 + i

\* The item is put into one of two neighbours.
LEMMA WidenAt ==
  ASSUME NEW D, NEW G \in [D -> NodeSet], NEW W, NEW L \in D, NEW R \in D, L # R,
         G[R].leaf <=> G[L].leaf, Whole(G[L]), Whole(G[R]),
         NEW n, n = L \/ n = R, NEW i \in 0..Len(G[n].keys), NEW x \in Int, NEW c \in Int,
         Putting(G[n], W[n], i, x, c), NEW k \in Int, NEW g, Placed(G, n, L, i, g),
         \A b \in D : b # n /\ (b = L \/ b = R) => Kept(G[b], W[b])
  PROVE  Widen(G[L], k, G[R], W[L], W[R], g, x, c)
<1>1. G[L] \in NodeSet /\ G[R] \in NodeSet
  OBVIOUS
<1>2. CASE n = L
  <2>1. g = i /\ g \in 0..Len(G[L].keys) /\ Putting(G[L], W[L], g, x, c) /\ Kept(G[R], W[R])
    BY <1>2 DEF Placed
  <2>. QED
    BY <1>1, <2>1, WidenLeft
<1>3. CASE n = R
  <2>1. g = Len(G[L].keys) + 1 + i /\ i \in 0..Len(G[R].keys) /\ Putting(G[R], W[R], i, x, c)
        /\ Kept(G[L], W[L])
    BY <1>3 DEF Placed
  <2>. QED
    BY <1>1, <2>1, WidenRight
<1>. QED
  BY <1>2, <1>3

\* The sizes of the nodes after the insertion.
Lengths(D, V, G, W, L, R, n) ==
  /\ W \in [D -> NodeSet]
  /\ \A b \in D : W[b].leaf <=> V[b].leaf
  /\ \A b \in D \ {L, R} : Len(W[b].keys) = Len(V[b].keys)
  /\ Len(W[n].keys) = Len(G[n].keys) + 1
  /\ n # L => Len(W[L].keys) = Len(G[L].keys)
  /\ n # R => Len(W[R].keys) = Len(G[R].keys)

\* The tree after x and c were put at i of n.
Inserted(G, path, n, i, x, c, e) ==
  IncreaseSubtreeCounts(
    CountInserted([G EXCEPT ![n] = Put(@, i, x, c)], LastNode(path), n, e), Above(path), 1)

HelpDone(D, V, G, W, rt, ht, lv, M, L, R, n) ==
  /\ \E lo2, hi2 : Form(D, W, rt, ht, lv, lo2, hi2, M)
  /\ Lengths(D, V, G, W, L, R, n)

\* After a neighbour has taken items, the awaited item is put into one of
\* the two: the tree is in order.
LEMMA HelpForm ==
  ASSUME NEW D, NEW h, NEW rt, NEW ht, NEW lv, NEW lo, NEW hi, NEW M, NEW path, NEW x, NEW c,
         Pending(D, h, rt, ht, lv, lo, hi, M, path, x, c), NEW V, V = With(h, path, x, c),
         NEW a, a = LastNode(path), NEW p, NEW j, NEW L, NEW R,
         Beside(D, h, V, p, j, L, R, a, path, c),
         NEW G, Rebalanced(D, h, G, p, j, L, R), NEW n, n = L \/ n = R,
         NEW i \in 0..Len(G[n].keys), NEW g, Placed(h, a, L, LastPos(path), g), Placed(G, n, L, i, g),
         NEW e \in Int, ~ h[a].leaf => TreeCount(h[c]) = e,
         NEW W, W = Inserted(G, path, n, i, x, c, e)
  PROVE  HelpDone(D, V, G, W, rt, ht, lv, M, L, R, n)
<1>. DEFINE up == Above(path)
            k == h[p].keys[j]
            y == G[p].keys[j]
<1>1. /\ h \in [D -> NodeSet] /\ x \in Int /\ c \in Int /\ ht \in Nat
      /\ On(D, h, rt, ht, lv, path) /\ Whole(h[a])
      /\ Form(D, V, rt, ht, lv, lo, hi, M)
      /\ a \in D /\ Extended(D, h, V, path, x, c) /\ LastPos(path) \in 0..Len(h[a].keys)
  BY PendingFacts
<1>2. /\ V \in [D -> NodeSet]
      /\ Putting(h[a], V[a], LastPos(path), x, c)
      /\ TreeCount(V[a]) = TreeCount(h[a]) + 1
      /\ \A b \in D : OnPath(path, b) /\ b # a => V[b] = IncreaseTreeCount(h[b], 1)
      /\ \A b \in D : ~ OnPath(path, b) => V[b] = h[b]
  BY <1>1 DEF Extended
<1>3. /\ Neighbours(D, V, p, j, L, R) /\ Facing(D, h, p, j, L, R)
      /\ a = L \/ a = R
      /\ V[p] = IncreaseTreeCount(h[p], 1) /\ OnPath(up, p)
      /\ ~ OnPath(up, L) /\ ~ OnPath(up, R)
      /\ \A b \in D : b # a /\ (b = L \/ b = R) => V[b] = h[b]
      /\ ~ h[L].leaf /\ a = L => Excess(h, h[L]) = TreeCount(h[c])
      /\ ~ h[L].leaf /\ a # L => Excess(h, h[L]) = 0
  BY DEF Beside
<1>4. /\ p \in D /\ L \in D /\ R \in D /\ p # L /\ p # R /\ L # R
      /\ j \in 1..Len(h[p].keys) /\ (h[R].leaf <=> h[L].leaf) /\ Whole(h[L]) /\ Whole(h[R])
  BY <1>3 DEF Facing
<1>5. /\ G \in [D -> NodeSet]
      /\ \A b \in D \ {p, L, R} : G[b] = h[b]
      /\ (G[p].leaf <=> h[p].leaf) /\ G[p].cnt = h[p].cnt /\ G[p].children = h[p].children
      /\ Len(G[p].keys) = Len(h[p].keys)
      /\ \A b \in 1..Len(h[p].keys) : b # j => G[p].keys[b] = h[p].keys[b]
      /\ Moved(h, h[L], k, h[R], G[L], y, G[R])
  BY DEF Rebalanced
<1>6. /\ y \in Int /\ (G[L].leaf <=> h[L].leaf) /\ (G[R].leaf <=> h[R].leaf)
      /\ Whole(G[L]) /\ Whole(G[R])
      /\ TreeCount(G[L]) + TreeCount(G[R]) = TreeCount(h[L]) + TreeCount(h[R])
      /\ Tallied(h, G[L].children) /\ Excess(h, G[L]) = Excess(h, h[L])
  BY <1>5 DEF Moved
<1>7. k \in Int
  <2>1. h[p] \in NodeSet
    BY <1>1, <1>4
  <2>. QED
    BY <2>1, <1>4, NodeFacts
<1>. HIDE DEF k, y
<1>8. n \in D /\ Whole(G[n]) /\ ~ OnPath(up, n) /\ ~ OnPath(up, a)
  BY <1>3, <1>4, <1>6
<1>9. Helped(D, G, W, a, n, i, x, c, e, up)
  <2>1. W = IncreaseSubtreeCounts(
              CountInserted([G EXCEPT ![n] = Put(@, i, x, c)], a, n, e), up, 1)
    BY DEF Inserted
  <2>2. a \in D /\ G \in [D -> NodeSet] /\ x \in Int /\ c \in Int
    BY <1>1, <1>5
  <2>. HIDE DEF up
  <2>. QED
    BY <2>1, <2>2, <1>8, HelpedNodes
<1>10. Between(D, G, L, R, a, n, up)
  BY <1>3, <1>4, <1>5, <1>6 DEF Between
<1>11. W \in [D -> NodeSet] /\ Putting(G[n], W[n], i, x, c)
       /\ (\A b \in D \ {a, n} : OnPath(up, b) => W[b] = IncreaseTreeCount(G[b], 1))
       /\ (\A b \in D \ {a, n} : ~ OnPath(up, b) => W[b] = G[b])
       /\ (n # a => Kept(G[a], W[a]))
  BY <1>9 DEF Helped
<1>12. \A b \in D : b # n /\ (b = L \/ b = R) => Kept(G[b], W[b])
  <2>1. ASSUME NEW b \in D, b # n, b = L \/ b = R
        PROVE  Kept(G[b], W[b])
    <3>1. CASE b = a
      BY <1>11, <2>1, <3>1
    <3>2. CASE b # a
      <4>1. W[b] = G[b]
        BY <2>1, <3>2, <1>9, <1>10, HelpOther
      <4>2. G[b] \in NodeSet
        BY <1>5
      <4>. QED
        BY <4>1, <4>2 DEF Kept
    <3>. QED
      BY <3>1, <3>2
  <2>. QED
    BY <2>1
<1>13. Widen(G[L], y, G[R], W[L], W[R], g, x, c)
  <2>1. G \in [D -> NodeSet] /\ L \in D /\ R \in D /\ L # R /\ (G[R].leaf <=> G[L].leaf)
        /\ Whole(G[L]) /\ Whole(G[R]) /\ y \in Int /\ x \in Int /\ c \in Int /\ Putting(G[n], W[n], i, x, c)
    BY <1>1, <1>4, <1>5, <1>6, <1>11
  <2>. QED
    BY <2>1, <1>12, WidenAt
<1>14. Widen(h[L], k, h[R], V[L], V[R], g, x, c)
  <2>0. \A b \in D : h[b] \in NodeSet
    BY <1>1
  <2>1. \A b \in D : b # a /\ (b = L \/ b = R) => Kept(h[b], V[b])
    BY <1>3, <2>0 DEF Kept
  <2>. DEFINE pos == LastPos(path)
  <2>2. h \in [D -> NodeSet] /\ L \in D /\ R \in D /\ L # R /\ (h[R].leaf <=> h[L].leaf)
        /\ Whole(h[L]) /\ Whole(h[R]) /\ k \in Int /\ x \in Int /\ c \in Int /\ Putting(h[a], V[a], pos, x, c)
        /\ pos \in 0..Len(h[a].keys) /\ (a = L \/ a = R) /\ Placed(h, a, L, pos, g)
    BY <1>1, <1>2, <1>3, <1>4, <1>7
  <2>. HIDE DEF pos
  <2>. QED
    BY <2>1, <2>2, WidenAt
<1>15. /\ (W[L].leaf <=> V[L].leaf) /\ (W[R].leaf <=> V[R].leaf) /\ Whole(W[L]) /\ Whole(W[R])
       /\ Link(W[L].keys, y, W[R].keys) = Link(V[L].keys, k, V[R].keys)
       /\ W[L].children \o W[R].children = V[L].children \o V[R].children
  <2>1. Moved(h, h[L], k, h[R], G[L], y, G[R])
    BY <1>5
  <2>2. SameRow(V[L], k, V[R], W[L], y, W[R])
    BY <2>1, <1>13, <1>14, MovedWiden
  <2>. QED
    BY <2>2 DEF SameRow
<1>16. \A b \in D \ {p, L, R} : W[b] = V[b]
  <2>1. \A b : OnPath(up, b) <=> OnPath(path, b) /\ b # a
    BY <1>1, AboveNodes
  <2>2. ASSUME NEW b \in D \ {p, L, R}
        PROVE  W[b] = V[b]
    <3>1. b \in D \ {a, n} /\ G[b] = h[b]
      BY <1>3, <1>5
    <3>2. CASE OnPath(up, b)
      BY <3>1, <3>2, <2>1, <1>2, <1>11
    <3>3. CASE ~ OnPath(up, b)
      BY <3>1, <3>3, <2>1, <1>2, <1>11
    <3>. QED
      BY <3>2, <3>3
  <2>. QED
    BY <2>2
<1>17. /\ ~ W[p].leaf /\ W[p].cnt = V[p].cnt /\ W[p].children = V[p].children
       /\ W[p].keys = G[p].keys /\ V[p].keys = h[p].keys
  <2>1. p \in D \ {a, n}
    BY <1>3, <1>4
  <2>2. W[p] = IncreaseTreeCount(G[p], 1) /\ V[p] = IncreaseTreeCount(h[p], 1) /\ ~ V[p].leaf
    BY <2>1, <1>3, <1>11 DEF Neighbours
  <2>3. G[p] \in NodeSet /\ h[p] \in NodeSet
    BY <1>1, <1>4, <1>5
  <2>4. ~ h[p].leaf
    BY <2>2, <2>3 DEF IncreaseTreeCount, NodeSet
  <2>5. W[p] = [G[p] EXCEPT !.cnt = @ + 1] /\ V[p] = [h[p] EXCEPT !.cnt = @ + 1]
    BY <2>2, <2>4, <1>5 DEF IncreaseTreeCount
  <2>6. /\ ~ W[p].leaf /\ W[p].cnt = G[p].cnt + 1 /\ V[p].cnt = h[p].cnt + 1
        /\ W[p].children = G[p].children /\ V[p].children = h[p].children
        /\ W[p].keys = G[p].keys /\ V[p].keys = h[p].keys
    BY <2>3, <2>4, <2>5, <1>5 DEF NodeSet
  <2>. QED
    BY <2>6, <1>5
<1>18. TreeCount(W[L]) + TreeCount(W[R]) = TreeCount(V[L]) + TreeCount(V[R])
  <2>1. TreeCount(W[L]) + TreeCount(W[R]) = TreeCount(G[L]) + TreeCount(G[R]) + 1
    BY <1>9, <1>10, HelpSums
  <2>2. TreeCount(h[L]) \in Int /\ TreeCount(h[R]) \in Int
    BY <1>1, <1>4, TreeCountType
  <2>3. \/ TreeCount(V[L]) = TreeCount(h[L]) + 1 /\ TreeCount(V[R]) = TreeCount(h[R])
        \/ TreeCount(V[L]) = TreeCount(h[L]) /\ TreeCount(V[R]) = TreeCount(h[R]) + 1
    BY <1>2, <1>3, <1>4
  <2>. DEFINE hl == TreeCount(h[L])
              hr == TreeCount(h[R])
              s == TreeCount(G[L]) + TreeCount(G[R])
              vl == TreeCount(V[L])
              vr == TreeCount(V[R])
  <2>4. s = hl + hr /\ hl \in Int /\ hr \in Int
        /\ ((vl = hl + 1 /\ vr = hr) \/ (vl = hl /\ vr = hr + 1))
    <3>1. s = hl + hr
      BY <1>6
    <3>2. (vl = hl + 1 /\ vr = hr) \/ (vl = hl /\ vr = hr + 1)
      BY <2>3
    <3>3. hl \in Int /\ hr \in Int
      BY <2>2
    <3>. QED
      BY <3>1, <3>2, <3>3
  <2>. HIDE DEF hl, hr, s, vl, vr
  <2>5. s + 1 = vl + vr
    BY <2>4
  <2>. QED
    BY <2>1, <2>5 DEF s, vl, vr
<1>19. Shifted(D, V, W, p, j, L, R)
  <2>1. Len(W[p].keys) = Len(V[p].keys) /\ W[p].keys[j] = y /\ V[p].keys[j] = k
    BY <1>5, <1>17 DEF y, k
  <2>2. \A b \in 1..Len(V[p].keys) : b # j => W[p].keys[b] = V[p].keys[b]
    BY <1>5, <1>17
  <2>. QED
    BY <1>11, <1>15, <1>16, <1>17, <1>18, <2>1, <2>2 DEF Shifted
<1>20. LocalCount(h, W[L])
  <2>1. ~ G[L].leaf => TreeCount(h[c]) = e
    BY <1>3, <1>4, <1>6
  <2>2. ~ G[L].leaf /\ a = L => Excess(h, G[L]) = e
    BY <2>1, <1>3, <1>6
  <2>3. ~ G[L].leaf /\ a # L => Excess(h, G[L]) = 0
    BY <1>3, <1>6
  <2>. QED
    BY <2>1, <2>2, <2>3, <1>1, <1>6, <1>9, <1>10, HelpLocal
<1>200. lv[L] = lv[a] /\ lv[R] = lv[a] /\ lv[a] \in Nat /\ lv[p] > lv[a]
  <2>1. Linked(D, V, lv, lo, hi) /\ lv \in [D -> Nat]
    BY <1>1 DEF Form, Typed
  <2>. DEFINE z == j + 1
  <2>2. z \in 1..Len(V[p].children) /\ j \in 1..Len(V[p].children) /\ L = V[p].children[j]
        /\ R = V[p].children[z]
    <3>1. Len(V[p].children) = Len(V[p].keys) + 1 /\ j \in 1..Len(V[p].keys) /\ Len(V[p].keys) \in Nat
          /\ L = V[p].children[j] /\ R = V[p].children[j + 1]
      BY <1>2, <1>3, <1>4, NodeFacts DEF Neighbours
    <3>. DEFINE t == Len(V[p].children)
                u == Len(V[p].keys)
    <3>2. t = u + 1 /\ j \in 1..u /\ u \in Nat
      BY <3>1
    <3>. HIDE DEF t, u
    <3>3. z \in 1..t /\ j \in 1..t
      BY <3>2
    <3>. QED
      BY <3>1, <3>3 DEF t
  <2>. HIDE DEF z
  <2>3. lv[L] = lv[p] - 1 /\ lv[R] = lv[p] - 1
    BY <2>1, <2>2, <1>4 DEF Linked
  <2>4. lv[p] \in Nat /\ lv[a] \in Nat
    BY <2>1, <1>1, <1>4
  <2>. QED
    BY <2>3, <2>4, <1>3
<1>21. LocalCount(W, W[L])
  <2>1. W[L] \in NodeSet /\ W[L].children \in Numbers /\ Len(W[L].children) \in Nat
        /\ V[L].children \in Numbers /\ V[R].children \in Numbers /\ W[R].children \in Numbers
    BY <1>2, <1>4, <1>11, NodeFacts
  <2>. DEFINE cs == W[L].children
              w2 == W[R].children
              c1 == V[L].children
              c2 == V[R].children
  <2>2. ASSUME NEW m \in 1..Len(cs)
        PROVE  cs[m] \in D /\ lv[cs[m]] < lv[a] /\ lv[cs[m]] \in Int
    <3>0. Linked(D, V, lv, lo, hi)
      BY <1>1 DEF Form
    <3>1. cs \o w2 = c1 \o c2 /\ cs \in Numbers /\ w2 \in Numbers /\ c1 \in Numbers /\ c2 \in Numbers
      BY <1>15, <2>1
    <3>2. \E b \in {L, R} : \E q \in 1..Len(V[b].children) : cs[m] = V[b].children[q]
      <4>. HIDE DEF cs, w2, c1, c2
      <4>1. (cs \o w2)[m] = cs[m] /\ Len(cs \o w2) = Len(cs) + Len(w2) /\ Len(cs) \in Nat /\ Len(w2) \in Nat
        BY <3>1, JoinNumbers, NumbersFacts
      <4>2. /\ Len(c1 \o c2) = Len(c1) + Len(c2) /\ Len(c1) \in Nat /\ Len(c2) \in Nat
            /\ \A q \in 1..Len(c1) : (c1 \o c2)[q] = c1[q]
            /\ \A q \in (Len(c1) + 1)..(Len(c1) + Len(c2)) : (c1 \o c2)[q] = c2[q - Len(c1)]
        BY <3>1, JoinNumbers, NumbersFacts
      <4>3. m \in 1..(Len(c1) + Len(c2)) /\ (c1 \o c2)[m] = cs[m]
        BY <4>1, <4>2, <3>1
      <4>4. CASE m \in 1..Len(c1)
        <5>1. cs[m] = c1[m]
          BY <4>2, <4>3, <4>4
        <5>. QED
          BY <5>1, <4>4 DEF c1
      <4>5. CASE m \notin 1..Len(c1)
        <5>. DEFINE q == m - Len(c1)
        <5>1. m \in (Len(c1) + 1)..(Len(c1) + Len(c2)) /\ q \in 1..Len(c2)
          BY <4>2, <4>3, <4>5
        <5>2. cs[m] = c2[q]
          BY <4>2, <4>3, <5>1
        <5>. QED
          BY <5>1, <5>2 DEF c2
      <4>. QED
        BY <4>4, <4>5
    <3>3. PICK b \in {L, R} : \E q \in 1..Len(V[b].children) : cs[m] = V[b].children[q]
      BY <3>2
    <3>33. PICK q \in 1..Len(V[b].children) : cs[m] = V[b].children[q]
      BY <3>3
    <3>4. lv[b] = lv[a] /\ lv[a] \in Nat /\ b \in D
      BY <1>200, <1>4, <3>3
    <3>5. cs[m] \in D /\ lv[cs[m]] = lv[b] - 1
      BY <3>0, <3>33, <3>4 DEF Linked
    <3>. QED
      BY <3>4, <3>5
  <2>3. \A m \in 1..Len(cs) : TreeCount(W[cs[m]]) = TreeCount(h[cs[m]])
    <3>1. ASSUME NEW m \in 1..Len(cs)
          PROVE  TreeCount(W[cs[m]]) = TreeCount(h[cs[m]])
      <4>. DEFINE d == cs[m]
      <4>1. d \in D /\ lv[d] < lv[a] /\ lv[d] \in Int
        BY <2>2
      <4>. HIDE DEF d
      <4>2. ~ OnPath(path, d)
        BY <4>1, <1>1, BelowPath
      <4>3. V[d] = h[d]
        BY <4>1, <4>2, <1>2
      <4>4. d # L /\ d # R /\ d # p
        BY <1>200, <4>1
      <4>5. W[d] = V[d]
        BY <4>1, <4>4, <1>16
      <4>. QED
        BY <4>3, <4>5 DEF d
    <3>. QED
      BY <3>1
  <2>4. SumCounts(W, cs) = SumCounts(h, cs)
    <3>1. cs \in Numbers
      BY <2>1
    <3>. HIDE DEF cs
    <3>. QED
      BY <3>1, <2>3, SumSame
  <2>. QED
    BY <2>4, <1>20 DEF LocalCount
<1>22. \E lo2, hi2 : Form(D, W, rt, ht, lv, lo2, hi2, M)
  BY <1>1, <1>3, <1>15, <1>19, <1>21, ShiftForm
<1>23. Lengths(D, V, G, W, L, R, n)
  <2>1. Len(W[n].keys) = Len(G[n].keys) + 1
    BY <1>11 DEF Putting
  <2>2. (n # L => Len(W[L].keys) = Len(G[L].keys)) /\ (n # R => Len(W[R].keys) = Len(G[R].keys))
    BY <1>4, <1>12 DEF Kept
  <2>3. \A b \in D \ {L, R} : Len(W[b].keys) = Len(V[b].keys)
    BY <1>5, <1>16, <1>17
  <2>4. \A b \in D : W[b].leaf <=> V[b].leaf
    <3>1. ~ V[p].leaf
      BY <1>3 DEF Neighbours
    <3>. QED
      BY <3>1, <1>15, <1>16, <1>17
  <2>. QED
    BY <1>11, <2>1, <2>2, <2>3, <2>4 DEF Lengths
<1>. QED
  BY <1>22, <1>23 DEF HelpDone

-----------------------------------------------------------------------------

\* Neighbours are not the root and stand on one level.
LEMMA ChildNotRoot ==
  ASSUME NEW D, NEW V, NEW rt, NEW ht, NEW lv, NEW lo, NEW hi, NEW M,
         Form(D, V, rt, ht, lv, lo, hi, M), NEW p, NEW j, NEW L, NEW R, Neighbours(D, V, p, j, L, R)
  PROVE  L # rt /\ R # rt /\ lv[L] = lv[p] - 1 /\ lv[R] = lv[p] - 1
<1>1. Linked(D, V, lv, lo, hi) /\ lv[rt] = ht
  BY DEF Form, Rooted
<1>2. p \in D /\ j \in 1..Len(V[p].keys) /\ V[p].children[j] = L /\ V[p].children[j + 1] = R
      /\ Len(V[p].children) = Len(V[p].keys) + 1
  BY DEF Neighbours
<1>3. Len(V[p].keys) \in Nat /\ lv[p] \in Nat /\ lv[p] <= ht /\ ht \in Nat
  BY <1>2, FormNode
<1>. DEFINE z == j + 1
            t == Len(V[p].children)
            u == Len(V[p].keys)
<1>4. t = u + 1 /\ j \in 1..u /\ u \in Nat
  BY <1>2, <1>3
<1>5. z \in 1..t /\ j \in 1..t
  <2>. HIDE DEF t, u
  <2>. QED
    BY <1>4
<1>6. V[p].children[z] = R
  BY <1>2
<1>. HIDE DEF z
<1>7. lv[L] = lv[p] - 1 /\ lv[R] = lv[p] - 1
  BY <1>1, <1>2, <1>5, <1>6 DEF Linked, t
<1>. QED
  BY <1>1, <1>3, <1>7

\* What a neighbour b of the full node a holds.
Room(h, V, a, b, s, mx, lst) ==
  /\ s = Len(h[b].keys) /\ mx = Len(h[a].keys) /\ s \in Nat /\ mx \in Nat /\ lst \in Nat
  /\ 1 <= lst /\ lst <= s /\ s <= mx
  /\ MaxItems(h[b]) = mx
  /\ MaxItems(V[a]) = mx /\ MaxItems(V[b]) = mx
  /\ LeastItems(V[a]) = lst /\ LeastItems(V[b]) = lst

\* What the sizes of the two neighbours are before items move.
LEMMA NeighbourRoom ==
  ASSUME NEW D, NEW h, NEW rt, NEW ht, NEW lv, NEW lo, NEW hi, NEW M, NEW path, NEW x, NEW c,
         Pending(D, h, rt, ht, lv, lo, hi, M, path, x, c), NEW V, V = With(h, path, x, c),
         NEW a, a = LastNode(path), Len(h[a].keys) = MaxItems(h[a]), NEW p, NEW j, NEW L, NEW R,
         Beside(D, h, V, p, j, L, R, a, path, c), NEW b, b = L \/ b = R, b # a
  PROVE  Room(h, V, a, b, Len(h[b].keys), Len(h[a].keys), LeastItems(V[a]))
<1>1. /\ Form(D, V, rt, ht, lv, lo, hi, M) /\ Fill(D, V, rt, a, Null)
      /\ h \in [D -> NodeSet] /\ a \in D
  BY PendingFacts
<1>2. /\ V \in [D -> NodeSet] /\ V[a] \in NodeSet
      /\ (V[a].leaf <=> h[a].leaf) /\ Len(h[a].keys) \in Nat
  BY PendingNode
<1>3. Neighbours(D, V, p, j, L, R) /\ Facing(D, h, p, j, L, R) /\ (a = L \/ a = R)
      /\ (b \in D => V[b] = h[b])
  BY DEF Beside
<1>4. L \in D /\ R \in D /\ (h[R].leaf <=> h[L].leaf)
  BY <1>3 DEF Facing
<1>5. b \in D /\ V[b] = h[b] /\ h[b] \in NodeSet /\ (h[b].leaf <=> h[a].leaf) /\ h[a] \in NodeSet
  BY <1>1, <1>3, <1>4
<1>6. Len(h[b].keys) \in Nat /\ h[a].leaf \in BOOLEAN /\ h[b].leaf \in BOOLEAN /\ V[a].leaf \in BOOLEAN
  BY <1>2, <1>5, NodeFacts
<1>7. MaxItems(V[a]) = MaxItems(h[a])
  BY <1>2, <1>6, SameSize
<1>8. MaxItems(h[b]) = MaxItems(h[a])
  BY <1>5, <1>6, SameSize
<1>9. LeastItems(h[b]) = LeastItems(V[a])
  <2>1. h[b].leaf <=> V[a].leaf
    BY <1>2, <1>5
  <2>. QED
    BY <2>1, <1>6, SameSize
<1>10. Sized(V[a])
  BY <1>6, SizeFacts
<1>11. LeastItems(V[a]) \in Nat /\ 1 <= LeastItems(V[a])
  BY <1>10 DEF Sized
<1>12. b # rt /\ b # Null
  <2>1. b # rt
    BY <1>1, <1>3, ChildNotRoot
  <2>2. b \in Nat /\ b # 0
    BY <1>1, <1>5, FormNode
  <2>. QED
    BY <2>1, <2>2 DEF Null
<1>13. Len(h[b].keys) <= MaxItems(h[b]) /\ LeastItems(h[b]) <= Len(h[b].keys)
  BY <1>1, <1>5, <1>12 DEF Fill
<1>. QED
  BY <1>2, <1>5, <1>6, <1>7, <1>8, <1>9, <1>11, <1>13 DEF Room

\* Both nodes hold what they may and must.
Fitting(V, W, L, R, mx, lst) ==
  \A b \in {L, R} : /\ MaxItems(V[b]) = mx /\ LeastItems(V[b]) = lst
                    /\ Len(W[b].keys) \in Int
                    /\ lst <= Len(W[b].keys) /\ Len(W[b].keys) <= mx

\* No node is too full or too poor afterwards.
LEMMA HelpFill ==
  ASSUME NEW D, NEW V \in [D -> NodeSet], NEW G, NEW W, NEW L, NEW R, NEW n, NEW rt, NEW a,
         a = L \/ a = R, Fill(D, V, rt, a, Null), Lengths(D, V, G, W, L, R, n),
         L # rt, R # rt, NEW mx \in Int, NEW lst \in Int,
         Fitting(V, W, L, R, mx, lst)
  PROVE  Fill(D, W, rt, Null, Null)
<1>1. /\ W \in [D -> NodeSet]
      /\ \A b \in D : W[b].leaf <=> V[b].leaf
      /\ \A b \in D \ {L, R} : Len(W[b].keys) = Len(V[b].keys)
  BY DEF Lengths
<1>2. ASSUME NEW b \in D
      PROVE  /\ Len(W[b].keys) <= MaxItems(W[b])
             /\ Len(W[b].keys) <= MaxItems(W[b]) + 1
             /\ b # rt /\ b # Null => LeastItems(W[b]) <= Len(W[b].keys)
             /\ b # rt => LeastItems(W[b]) - 1 <= Len(W[b].keys)
             /\ b = rt /\ b # Null => 1 <= Len(W[b].keys)
  <2>1. W[b].leaf \in BOOLEAN /\ V[b].leaf \in BOOLEAN /\ (W[b].leaf <=> V[b].leaf)
    BY <1>1, NodeFacts
  <2>2. MaxItems(W[b]) = MaxItems(V[b]) /\ LeastItems(W[b]) = LeastItems(V[b])
    BY <2>1, SameSize
  <2>3. CASE b \in {L, R}
    <3>. DEFINE q == Len(W[b].keys)
                m == MaxItems(W[b])
                z == LeastItems(W[b])
    <3>1. m = mx /\ z = lst /\ q \in Int /\ lst <= q /\ q <= mx /\ b # rt
      BY <2>2, <2>3 DEF Fitting
    <3>. HIDE DEF q, m, z
    <3>2. q <= m /\ q <= m + 1 /\ z <= q /\ z - 1 <= q
      BY <3>1
    <3>. QED
      BY <3>1, <3>2 DEF q, m, z
  <2>4. CASE b \notin {L, R}
    <3>1. b # a /\ Len(W[b].keys) = Len(V[b].keys)
      BY <1>1, <2>4
    <3>. QED
      BY <2>2, <3>1 DEF Fill
  <2>. QED
    BY <2>3, <2>4
<1>. QED
  BY <1>2 DEF Fill

\* How many items move, and how many the nodes have then.
LEMMA MoveSizes ==
  ASSUME NEW s \in Nat, NEW mx \in Nat, NEW lst \in Nat, 1 <= lst, lst <= s, s <= mx,
         NEW far \in BOOLEAN, NEW num, num = ToMove(mx - s, far), num > 0
  PROVE  /\ num \in Nat /\ num >= 1 /\ num <= mx
         /\ lst <= s + num /\ s + num <= mx
         /\ lst <= mx - num /\ (mx - num) + 1 <= mx
         /\ ~ far => (s + num) + 1 <= mx
<1>1. num = (IF far THEN mx - s ELSE (mx - s) \div 2)
  BY DEF ToMove
<1>. DEFINE room == mx - s
<1>2. room \in Nat
  OBVIOUS
<1>3. CASE far
  <2>1. num = mx - s
    BY <1>1, <1>3
  <2>2. /\ num \in Nat /\ num >= 1 /\ num <= mx
        /\ lst <= s + num /\ s + num <= mx
        /\ lst <= mx - num /\ (mx - num) + 1 <= mx
    BY <2>1
  <2>. QED
    BY <2>2, <1>3
<1>4. CASE ~ far
  <2>1. num = room \div 2
    BY <1>1, <1>4
  <2>2. num \in Nat /\ 2 * num <= room
    <3>. HIDE DEF room
    <3>. QED
      BY <1>2, <2>1
  <2>. QED
    BY <2>2, <1>4
<1>. QED
  BY <1>3, <1>4

-----------------------------------------------------------------------------
\* The insertion is complete.
Complete(D, W, rt, ht, lv, M) ==
  /\ \E lo, hi : Form(D, W, rt, ht, lv, lo, hi, M)
  /\ Fill(D, W, rt, Null, Null)

\* Sizes and positions when num items have moved to the left.
LeftFit(s, mx, lst, ip, num, gl, gr) ==
  /\ num \in 1..mx /\ gl \in Nat /\ gr \in Nat
  /\ lst <= gl /\ gl <= mx /\ lst <= gr /\ gr + 1 <= mx /\ gr <= mx /\ lst <= gr + 1 /\ lst <= gl + 1
  /\ ip < num => gl + 1 <= mx /\ s + ip + 1 \in 0..gl
  /\ ip >= num => ip - num \in 0..gr /\ s + 1 + ip = gl + 1 + (ip - num)

\* The amount moved to the left neighbour leaves both within their limits,
\* wherever the item goes.
LEMMA LeftSizes ==
  ASSUME NEW s \in Nat, NEW mx \in Nat, NEW lst \in Nat, 1 <= lst, lst <= s, s <= mx,
         NEW ip \in 0..mx, NEW far \in BOOLEAN, far <=> ip = mx,
         NEW num, num = ToMove(mx - s, far), num > 0,
         NEW gl, gl = s + num, NEW gr, gr = mx - num
  PROVE  LeftFit(s, mx, lst, ip, num, gl, gr)
<1>2. /\ num \in Nat /\ num >= 1 /\ num <= mx
      /\ lst <= s + num /\ s + num <= mx
      /\ lst <= mx - num /\ (mx - num) + 1 <= mx
      /\ ~ far => (s + num) + 1 <= mx
  BY MoveSizes
<1>3. ASSUME ip < num
      PROVE  gl + 1 <= mx /\ s + ip + 1 \in 0..gl
  <2>1. ~ far
    BY <1>2, <1>3
  <2>. QED
    BY <1>2, <1>3, <2>1
<1>4. ASSUME ip >= num
      PROVE  ip - num \in 0..gr /\ s + 1 + ip = gl + 1 + (ip - num)
  BY <1>2, <1>4
<1>5. /\ num \in 1..mx /\ gl \in Nat /\ gr \in Nat
      /\ lst <= gl /\ gl <= mx /\ lst <= gr /\ gr + 1 <= mx /\ gr <= mx /\ lst <= gr + 1 /\ lst <= gl + 1
  BY <1>2
<1>. QED
  BY <1>3, <1>4, <1>5 DEF LeftFit

\* Where the code puts the item.
TargetLeft(h, a, L, ip, num, n, i) ==
  \/ ip < num /\ n = L /\ i = Len(h[L].keys) + ip + 1
  \/ ip >= num /\ n = a /\ i = ip - num

\* num is how many items move.
Amount(room, ip, end, num) == num = ToMove(room, ip = end)

\* The tree W is complete, and its items came into a node of the kind of a.
Relieved(D, h, G, n, a, W, rt, ht, lv, M) ==
  /\ Complete(D, W, rt, ht, lv, M)
  /\ G \in [D -> NodeSet] /\ n \in D /\ a \in D
  /\ (G[n].leaf <=> h[a].leaf) /\ (G[a].leaf <=> h[a].leaf)

\* RebalanceToLeftToInsert, with the item put where it belongs.
LEMMA HelpLeft ==
  ASSUME NEW D, NEW h, NEW rt, NEW ht, NEW lv, NEW lo, NEW hi, NEW M, NEW path, NEW x, NEW c,
         Pending(D, h, rt, ht, lv, lo, hi, M, path, x, c), Len(path) > 1,
         NEW a, a = LastNode(path), Len(h[a].keys) = MaxItems(h[a]),
         NEW p, p = LastNode(Above(path)), NEW j, j = LastPos(Above(path)), j > 0,
         NEW L, L = h[p].children[j], NEW ip, ip = LastPos(path),
         NEW num, Amount(AvailableSlotCount(h[L]), ip, Len(h[a].keys), num), num > 0,
         NEW G, G = RebalanceChildToLeft(h, p, j, num), NEW n, NEW i, TargetLeft(h, a, L, ip, num, n, i),
         NEW e \in Int, ~ h[a].leaf => TreeCount(h[c]) = e,
         NEW W, W = Inserted(G, path, n, i, x, c, e)
  PROVE  Relieved(D, h, G, n, a, W, rt, ht, lv, M)
<1>. DEFINE V == With(h, path, x, c)
            R == a
            s == Len(h[L].keys)
            mx == Len(h[a].keys)
            lst == LeastItems(V[a])
            gl == Len(G[L].keys)
            gr == Len(G[R].keys)
<1>1. /\ h \in [D -> NodeSet] /\ ht \in Nat /\ On(D, h, rt, ht, lv, path)
      /\ Form(D, V, rt, ht, lv, lo, hi, M) /\ Fill(D, V, rt, a, Null)
      /\ ip \in 0..Len(h[a].keys) /\ a \in D
  BY PendingFacts
<1>2. h[p].children[j + 1] = a /\ On(D, h, rt, ht, lv, Above(path))
  BY <1>1, OnAbove
<1>3. j \in 0..Len(h[p].keys) /\ p \in D
  BY <1>1, <1>2, OnLast
<1>4. j \in 1..Len(h[p].keys)
  <2>1. Len(h[p].keys) \in Nat
    BY <1>1, <1>3, NodeFacts
  <2>. QED
    BY <2>1, <1>3
<1>5. Beside(D, h, V, p, j, L, R, a, path, c)
  <2>1. R = h[p].children[j + 1] /\ (a = L \/ a = R) /\ V = With(h, path, x, c)
    BY <1>2
  <2>. HIDE DEF V, R
  <2>. QED
    BY <1>4, <2>1, PendingBeside
<1>. HIDE DEF V
<1>6. Neighbours(D, V, p, j, L, R) /\ Facing(D, h, p, j, L, R) /\ h[p].children[j] = L /\ h[p].children[j + 1] = R
  BY <1>5 DEF Beside
<1>7. L # R /\ L \in D /\ R \in D
  BY <1>6 DEF Facing
<1>8. Room(h, V, a, L, s, mx, lst)
  <2>1. L # a /\ V = With(h, path, x, c)
    BY <1>7 DEF V
  <2>. HIDE DEF R
  <2>. QED
    BY <2>1, <1>5, NeighbourRoom
<1>9. /\ s \in Nat /\ mx \in Nat /\ lst \in Nat
      /\ 1 <= lst /\ lst <= s /\ s <= mx /\ MaxItems(h[L]) = mx
      /\ MaxItems(V[a]) = mx /\ MaxItems(V[L]) = mx
      /\ LeastItems(V[a]) = lst /\ LeastItems(V[L]) = lst
  BY <1>8 DEF Room
<1>. DEFINE far == ip = mx
<1>10. num = ToMove(mx - s, far) /\ ip \in 0..mx /\ num > 0 /\ far \in BOOLEAN
  BY <1>1, <1>9, Zenon DEF AvailableSlotCount, NumItems, Amount
<1>105. far <=> ip = mx
  OBVIOUS
<1>. HIDE DEF far
<1>. DEFINE sl == s + num
            sr == mx - num
<1>11. /\ num \in 1..mx /\ sl \in Nat /\ sr \in Nat
       /\ lst <= sl /\ sl <= mx /\ lst <= sr /\ sr + 1 <= mx /\ sr <= mx /\ lst <= sr + 1 /\ lst <= sl + 1
       /\ ip < num => sl + 1 <= mx /\ s + ip + 1 \in 0..sl
       /\ ip >= num => ip - num \in 0..sr /\ s + 1 + ip = sl + 1 + (ip - num)
  <2>1. s \in Nat /\ mx \in Nat /\ lst \in Nat /\ 1 <= lst /\ lst <= s /\ s <= mx /\ sl = s + num /\ sr = mx - num
        /\ (far <=> ip = mx)
    BY <1>9, <1>105
  <2>. HIDE DEF s, mx, lst, sl, sr
  <2>2. LeftFit(s, mx, lst, ip, num, sl, sr)
    BY <2>1, <1>10, LeftSizes
  <2>. QED
    BY <2>2 DEF LeftFit
<1>12. Rebalanced(D, h, G, p, j, L, R) /\ gl = sl /\ gr = sr
  <2>1. num \in 1..Len(h[R].keys) /\ Facing(D, h, p, j, L, R) /\ h[p].children[j] = L
        /\ h[p].children[j + 1] = R
    BY <1>6, <1>11
  <2>. HIDE DEF R
  <2>2. SentLeft(D, h, G, p, j, L, R, num)
    BY <2>1, ToLeft
  <2>. QED
    BY <2>2 DEF R, SentLeft
<1>13. (n = L \/ n = R) /\ i \in 0..Len(G[n].keys)
  <2>1. CASE ip < num /\ n = L /\ i = s + ip + 1
    <3>1. i \in 0..sl
      BY <2>1, <1>11, Zenon
    <3>. QED
      BY <2>1, <3>1, <1>12, Zenon
  <2>2. CASE ip >= num /\ n = a /\ i = ip - num
    <3>1. i \in 0..sr
      BY <2>2, <1>11
    <3>. QED
      BY <2>2, <3>1, <1>12
  <2>. QED
    BY <2>1, <2>2 DEF TargetLeft
<1>106. ip \in Int
  <2>1. mx \in Nat /\ ip \in 0..mx
    BY <1>9, <1>10, Zenon
  <2>. HIDE DEF mx
  <2>. QED
    BY <2>1
<1>. DEFINE g == s + 1 + ip
<1>14. Placed(h, a, L, ip, g)
  BY <1>7 DEF Placed
<1>15. Placed(G, n, L, i, g)
  <2>1. CASE n = L
    <3>1. i = s + ip + 1
      BY <2>1, <1>7 DEF TargetLeft
    <3>2. g = i
      <4>0. s \in Nat
        BY <1>9
      <4>1. s \in Int /\ ip \in Int
        BY <1>106, <4>0
      <4>. HIDE DEF s
      <4>. QED
        BY <3>1, <4>1
    <3>. QED
      BY <2>1, <3>2 DEF Placed
  <2>2. CASE n # L
    <3>1. i = ip - num /\ ip >= num
      BY <2>2 DEF TargetLeft
    <3>2. g = gl + 1 + i
      BY <3>1, <1>11, <1>12
    <3>. QED
      BY <2>2, <3>2 DEF Placed
  <2>. QED
    BY <2>1, <2>2
<1>. HIDE DEF R, g, s, mx, lst, sl, sr, gl, gr
<1>16. (\E lo2, hi2 : Form(D, W, rt, ht, lv, lo2, hi2, M)) /\ Lengths(D, V, G, W, L, R, n)
  <2>1. V = With(h, path, x, c) /\ Placed(h, a, L, LastPos(path), g)
    BY <1>14 DEF V
  <2>2. Rebalanced(D, h, G, p, j, L, R)
    BY <1>12
  <2>3. (n = L \/ n = R) /\ i \in 0..Len(G[n].keys)
    BY <1>13
  <2>4. HelpDone(D, V, G, W, rt, ht, lv, M, L, R, n)
    BY <2>1, <2>2, <2>3, <1>5, <1>15, HelpForm
  <2>. QED
    BY <2>4 DEF HelpDone
<1>17. /\ n = L => Len(W[L].keys) = sl + 1 /\ Len(W[R].keys) = sr /\ sl + 1 <= mx
       /\ n # L => Len(W[L].keys) = sl /\ Len(W[R].keys) = sr + 1
  <2>1. Len(W[n].keys) = Len(G[n].keys) + 1 /\ (n # L => Len(W[L].keys) = Len(G[L].keys))
        /\ (n # R => Len(W[R].keys) = Len(G[R].keys))
    BY <1>16 DEF Lengths
  <2>2. n = L => ip < num
    BY <1>7 DEF R, TargetLeft
  <2>. QED
    BY <2>1, <2>2, <1>7, <1>11, <1>12, <1>13 DEF gl, gr
<1>18. Fitting(V, W, L, R, mx, lst)
  <2>1. Len(W[L].keys) \in Int /\ lst <= Len(W[L].keys) /\ Len(W[L].keys) <= mx
        /\ Len(W[R].keys) \in Int /\ lst <= Len(W[R].keys) /\ Len(W[R].keys) <= mx
    <3>. DEFINE wl == Len(W[L].keys)
                wr == Len(W[R].keys)
    <3>1. (wl = sl + 1 /\ wr = sr /\ sl + 1 <= mx) \/ (wl = sl /\ wr = sr + 1)
      BY <1>17
    <3>2. sl \in Nat /\ sr \in Nat /\ mx \in Nat /\ lst \in Nat
          /\ lst <= sl /\ sl <= mx /\ lst <= sr /\ sr + 1 <= mx
      BY <1>9, <1>11
    <3>. HIDE DEF wl, wr
    <3>3. wl \in Int /\ lst <= wl /\ wl <= mx /\ wr \in Int /\ lst <= wr /\ wr <= mx
      BY <3>1, <3>2
    <3>. QED
      BY <3>3 DEF wl, wr
  <2>2. MaxItems(V[L]) = mx /\ MaxItems(V[R]) = mx /\ LeastItems(V[L]) = lst /\ LeastItems(V[R]) = lst
    BY <1>9 DEF R
  <2>. QED
    BY <2>1, <2>2 DEF Fitting
<1>19. Fill(D, W, rt, Null, Null)
  <2>1. L # rt /\ R # rt
    BY <1>1, <1>6, ChildNotRoot
  <2>2. V \in [D -> NodeSet] /\ mx \in Int /\ lst \in Int /\ (a = L \/ a = R) /\ Lengths(D, V, G, W, L, R, n)
        /\ Fill(D, V, rt, a, Null)
    BY <1>1, <1>6, <1>9, <1>16 DEF Neighbours, R
  <2>. QED
    BY <1>18, <2>1, <2>2, HelpFill
<1>20. /\ G \in [D -> NodeSet] /\ n \in D /\ a \in D
       /\ (G[n].leaf <=> h[a].leaf) /\ (G[a].leaf <=> h[a].leaf)
  <2>1. Moved(h, h[L], h[p].keys[j], h[R], G[L], G[p].keys[j], G[R])
    BY <1>12 DEF Rebalanced
  <2>2. /\ G[L] \in NodeSet /\ G[R] \in NodeSet
        /\ (G[L].leaf <=> h[L].leaf) /\ (G[R].leaf <=> h[R].leaf)
    BY <2>1, Zenon DEF Moved
  <2>3. (h[R].leaf <=> h[L].leaf) /\ (a = L \/ a = R)
    BY <1>6 DEF Facing, R
  <2>4. G \in [D -> NodeSet]
    BY <1>12 DEF Rebalanced
  <2>. QED
    BY <2>2, <2>3, <2>4, <1>1, <1>7, <1>13
<1>. QED
  BY <1>16, <1>19, <1>20 DEF Complete, Relieved

-----------------------------------------------------------------------------
\* Sizes and positions when num items have moved to the right.
RightFit(s, mx, lst, ip, num, gl, gr) ==
  /\ num \in 1..mx /\ gl \in Nat /\ gr \in Nat
  /\ lst <= gl /\ gl + 1 <= mx /\ lst <= gr /\ gr <= mx /\ gl <= mx /\ lst <= gr + 1 /\ lst <= gl + 1
  /\ ip > gl => gr + 1 <= mx /\ ip - (gl + 1) \in 0..gr /\ ip = gl + 1 + (ip - (gl + 1))
  /\ ip <= gl => ip \in 0..gl

\* The amount moved to the right neighbour leaves both within their limits,
\* wherever the item goes.
LEMMA RightSizes ==
  ASSUME NEW s \in Nat, NEW mx \in Nat, NEW lst \in Nat, 1 <= lst, lst <= s, s <= mx,
         NEW ip \in 0..mx, NEW far \in BOOLEAN, far <=> ip = 0,
         NEW num, num = ToMove(mx - s, far), num > 0,
         NEW gl, gl = mx - num, NEW gr, gr = s + num
  PROVE  RightFit(s, mx, lst, ip, num, gl, gr)
<1>2. /\ num \in Nat /\ num >= 1 /\ num <= mx
      /\ lst <= s + num /\ s + num <= mx
      /\ lst <= mx - num /\ (mx - num) + 1 <= mx
      /\ ~ far => (s + num) + 1 <= mx
  BY MoveSizes
<1>3. ASSUME ip > gl
      PROVE  gr + 1 <= mx /\ ip - (gl + 1) \in 0..gr /\ ip = gl + 1 + (ip - (gl + 1))
  <2>1. ~ far
    BY <1>2, <1>3
  <2>. QED
    BY <1>2, <1>3, <2>1
<1>4. ASSUME ip <= gl
      PROVE  ip \in 0..gl
  BY <1>2, <1>4
<1>5. /\ num \in 1..mx /\ gl \in Nat /\ gr \in Nat
      /\ lst <= gl /\ gl + 1 <= mx /\ lst <= gr /\ gr <= mx /\ gl <= mx /\ lst <= gr + 1 /\ lst <= gl + 1
  BY <1>2
<1>. QED
  BY <1>3, <1>4, <1>5 DEF RightFit

TargetRight(h, a, R, ip, num, n, i) ==
  \/ ip > Len(h[a].keys) - num /\ n = R /\ i = ip - ((Len(h[a].keys) - num) + 1)
  \/ ip <= Len(h[a].keys) - num /\ n = a /\ i = ip

\* RebalanceToRightToInsert, with the item put where it belongs.
LEMMA HelpRight ==
  ASSUME NEW D, NEW h, NEW rt, NEW ht, NEW lv, NEW lo, NEW hi, NEW M, NEW path, NEW x, NEW c,
         Pending(D, h, rt, ht, lv, lo, hi, M, path, x, c), Len(path) > 1,
         NEW a, a = LastNode(path), Len(h[a].keys) = MaxItems(h[a]),
         NEW p, p = LastNode(Above(path)), NEW pos, pos = LastPos(Above(path)), pos # Len(h[p].keys),
         NEW R, R = h[p].children[pos + 2], NEW ip, ip = LastPos(path),
         NEW num, Amount(AvailableSlotCount(h[R]), ip, 0, num), num > 0,
         NEW G, G = RebalanceChildToRight(h, p, pos, num), NEW n, NEW i,
         TargetRight(h, a, R, ip, num, n, i),
         NEW e \in Int, ~ h[a].leaf => TreeCount(h[c]) = e,
         NEW W, W = Inserted(G, path, n, i, x, c, e)
  PROVE  Relieved(D, h, G, n, a, W, rt, ht, lv, M)
<1>. DEFINE V == With(h, path, x, c)
            L == a
            j == pos + 1
            s == Len(h[R].keys)
            mx == Len(h[a].keys)
            lst == LeastItems(V[a])
            gl == Len(G[L].keys)
            gr == Len(G[R].keys)
<1>1. /\ h \in [D -> NodeSet] /\ ht \in Nat /\ On(D, h, rt, ht, lv, path)
      /\ Form(D, V, rt, ht, lv, lo, hi, M) /\ Fill(D, V, rt, a, Null)
      /\ ip \in 0..Len(h[a].keys) /\ a \in D
  BY PendingFacts
<1>2. h[p].children[j] = a /\ On(D, h, rt, ht, lv, Above(path))
  BY <1>1, OnAbove
<1>3. pos \in 0..Len(h[p].keys) /\ p \in D
  BY <1>1, <1>2, OnLast
<1>4. j \in 1..Len(h[p].keys) /\ j + 1 = pos + 2 /\ j - 1 = pos
  <2>1. Len(h[p].keys) \in Nat
    BY <1>1, <1>3, NodeFacts
  <2>. QED
    BY <2>1, <1>3
<1>. HIDE DEF j
<1>5. Beside(D, h, V, p, j, L, R, a, path, c)
  <2>1. L = h[p].children[j] /\ R = h[p].children[j + 1] /\ (a = L \/ a = R) /\ V = With(h, path, x, c)
    BY <1>2, <1>4
  <2>. HIDE DEF V, L
  <2>. QED
    BY <1>4, <2>1, PendingBeside
<1>. HIDE DEF V
<1>6. Neighbours(D, V, p, j, L, R) /\ Facing(D, h, p, j, L, R) /\ h[p].children[j] = L /\ h[p].children[j + 1] = R
  BY <1>5 DEF Beside
<1>7. L # R /\ L \in D /\ R \in D
  BY <1>6 DEF Facing
<1>8. Room(h, V, a, R, s, mx, lst)
  <2>1. R # a /\ V = With(h, path, x, c)
    BY <1>7 DEF V
  <2>. HIDE DEF L
  <2>. QED
    BY <2>1, <1>5, NeighbourRoom
<1>9. /\ s \in Nat /\ mx \in Nat /\ lst \in Nat
      /\ 1 <= lst /\ lst <= s /\ s <= mx /\ MaxItems(h[R]) = mx
      /\ MaxItems(V[a]) = mx /\ MaxItems(V[R]) = mx
      /\ LeastItems(V[a]) = lst /\ LeastItems(V[R]) = lst
  BY <1>8 DEF Room
<1>. DEFINE far == ip = 0
<1>10. num = ToMove(mx - s, far) /\ ip \in 0..mx /\ num > 0 /\ far \in BOOLEAN
  BY <1>1, <1>9, Zenon DEF AvailableSlotCount, NumItems, Amount
<1>105. far <=> ip = 0
  OBVIOUS
<1>. HIDE DEF far
<1>. DEFINE sl == mx - num
            sr == s + num
<1>11. /\ num \in 1..mx /\ sl \in Nat /\ sr \in Nat
       /\ lst <= sl /\ sl + 1 <= mx /\ lst <= sr /\ sr <= mx /\ sl <= mx /\ lst <= sr + 1 /\ lst <= sl + 1
       /\ ip > sl => sr + 1 <= mx /\ ip - (sl + 1) \in 0..sr /\ ip = sl + 1 + (ip - (sl + 1))
       /\ ip <= sl => ip \in 0..sl
  <2>1. s \in Nat /\ mx \in Nat /\ lst \in Nat /\ 1 <= lst /\ lst <= s /\ s <= mx /\ sl = mx - num /\ sr = s + num
        /\ (far <=> ip = 0)
    BY <1>9, <1>105
  <2>. HIDE DEF s, mx, lst, sl, sr
  <2>2. RightFit(s, mx, lst, ip, num, sl, sr)
    BY <2>1, <1>10, RightSizes
  <2>. QED
    BY <2>2 DEF RightFit
<1>12. Rebalanced(D, h, G, p, j, L, R) /\ gl = sl /\ gr = sr
  <2>1. num \in 1..Len(h[L].keys) /\ Facing(D, h, p, j, L, R) /\ h[p].children[j] = L
        /\ h[p].children[j + 1] = R /\ G = RebalanceChildToRight(h, p, j - 1, num)
    BY <1>4, <1>6, <1>11
  <2>. HIDE DEF L
  <2>2. SentRight(D, h, G, p, j, L, R, num)
    BY <2>1, ToRight
  <2>. QED
    BY <2>2 DEF L, SentRight
<1>13. (n = L \/ n = R) /\ i \in 0..Len(G[n].keys)
  <2>1. CASE ip > sl /\ n = R /\ i = ip - (sl + 1)
    <3>1. i \in 0..sr
      BY <2>1, <1>11
    <3>. QED
      BY <2>1, <3>1, <1>12
  <2>2. CASE ip <= sl /\ n = a /\ i = ip
    <3>1. i \in 0..sl
      BY <2>2, <1>11
    <3>. QED
      BY <2>2, <3>1, <1>12
  <2>. QED
    BY <2>1, <2>2 DEF TargetRight
<1>14. Placed(h, a, L, ip, ip)
  BY <1>7 DEF Placed
<1>15. Placed(G, n, L, i, ip)
  <2>1. CASE n = L
    <3>1. ip = i
      BY <2>1, <1>7 DEF TargetRight
    <3>. QED
      BY <2>1, <3>1 DEF Placed
  <2>2. CASE n # L
    <3>1. i = ip - (sl + 1) /\ ip > sl
      BY <2>2 DEF TargetRight
    <3>2. ip = gl + 1 + i
      BY <3>1, <1>11, <1>12
    <3>. QED
      BY <2>2, <3>2 DEF Placed
  <2>. QED
    BY <2>1, <2>2
<1>165. n # L => ip > sl
  BY DEF TargetRight
<1>. HIDE DEF L, s, mx, lst, sl, sr, gl, gr
<1>16. (\E lo2, hi2 : Form(D, W, rt, ht, lv, lo2, hi2, M)) /\ Lengths(D, V, G, W, L, R, n)
  <2>1. V = With(h, path, x, c) /\ Placed(h, a, L, LastPos(path), ip)
    BY <1>14 DEF V
  <2>2. Rebalanced(D, h, G, p, j, L, R)
    BY <1>12
  <2>3. (n = L \/ n = R) /\ i \in 0..Len(G[n].keys)
    BY <1>13
  <2>4. HelpDone(D, V, G, W, rt, ht, lv, M, L, R, n)
    BY <2>1, <2>2, <2>3, <1>5, <1>15, HelpForm
  <2>. QED
    BY <2>4 DEF HelpDone
<1>17. /\ n = L => Len(W[L].keys) = sl + 1 /\ Len(W[R].keys) = sr
       /\ n # L => Len(W[L].keys) = sl /\ Len(W[R].keys) = sr + 1 /\ sr + 1 <= mx
  <2>1. Len(W[n].keys) = Len(G[n].keys) + 1 /\ (n # L => Len(W[L].keys) = Len(G[L].keys))
        /\ (n # R => Len(W[R].keys) = Len(G[R].keys))
    BY <1>16 DEF Lengths
  <2>. QED
    BY <2>1, <1>165, <1>7, <1>11, <1>12, <1>13 DEF gl, gr
<1>18. Fitting(V, W, L, R, mx, lst)
  <2>1. Len(W[L].keys) \in Int /\ lst <= Len(W[L].keys) /\ Len(W[L].keys) <= mx
        /\ Len(W[R].keys) \in Int /\ lst <= Len(W[R].keys) /\ Len(W[R].keys) <= mx
    <3>. DEFINE wl == Len(W[L].keys)
                wr == Len(W[R].keys)
    <3>1. (wl = sl + 1 /\ wr = sr) \/ (wl = sl /\ wr = sr + 1 /\ sr + 1 <= mx)
      BY <1>17
    <3>2. sl \in Nat /\ sr \in Nat /\ mx \in Nat /\ lst \in Nat
          /\ lst <= sl /\ sl + 1 <= mx /\ lst <= sr /\ sr <= mx
      BY <1>9, <1>11
    <3>. HIDE DEF wl, wr
    <3>3. wl \in Int /\ lst <= wl /\ wl <= mx /\ wr \in Int /\ lst <= wr /\ wr <= mx
      BY <3>1, <3>2
    <3>. QED
      BY <3>3 DEF wl, wr
  <2>2. MaxItems(V[L]) = mx /\ MaxItems(V[R]) = mx /\ LeastItems(V[L]) = lst /\ LeastItems(V[R]) = lst
    BY <1>9 DEF L
  <2>. QED
    BY <2>1, <2>2 DEF Fitting
<1>19. Fill(D, W, rt, Null, Null)
  <2>1. L # rt /\ R # rt
    BY <1>1, <1>6, ChildNotRoot
  <2>2. V \in [D -> NodeSet] /\ mx \in Int /\ lst \in Int /\ (a = L \/ a = R) /\ Lengths(D, V, G, W, L, R, n)
        /\ Fill(D, V, rt, a, Null)
    BY <1>1, <1>6, <1>9, <1>16 DEF Neighbours, L
  <2>. QED
    BY <1>18, <2>1, <2>2, HelpFill
<1>20. /\ G \in [D -> NodeSet] /\ n \in D /\ a \in D
       /\ (G[n].leaf <=> h[a].leaf) /\ (G[a].leaf <=> h[a].leaf)
  <2>1. Moved(h, h[L], h[p].keys[j], h[R], G[L], G[p].keys[j], G[R])
    BY <1>12 DEF Rebalanced
  <2>2. /\ G[L] \in NodeSet /\ G[R] \in NodeSet
        /\ (G[L].leaf <=> h[L].leaf) /\ (G[R].leaf <=> h[R].leaf)
    BY <2>1, Zenon DEF Moved
  <2>3. (h[R].leaf <=> h[L].leaf) /\ (a = L \/ a = R)
    BY <1>6 DEF Facing, L
  <2>4. G \in [D -> NodeSet]
    BY <1>12 DEF Rebalanced
  <2>. QED
    BY <2>2, <2>3, <2>4, <1>1, <1>7, <1>13
<1>. QED
  BY <1>16, <1>19, <1>20 DEF Complete, Relieved

\* A full node is relieved by a neighbour: the insertion is complete.
LEMMA PendingHelped ==
  ASSUME NEW D, NEW h, NEW rt, NEW ht, NEW lv, NEW lo, NEW hi, NEW M, NEW path, NEW x, NEW c,
         Pending(D, h, rt, ht, lv, lo, hi, M, path, x, c), Len(path) > 1,
         NEW a, a = LastNode(path), Len(h[a].keys) = MaxItems(h[a]),
         NEW res, res = RebalanceChild(h, LastNode(Above(path)), LastPos(Above(path)), LastPos(path)),
         res.done, NEW e \in Int, ~ h[a].leaf => TreeCount(h[c]) = e,
         NEW W, W = Inserted(res.nodes, path, res.node, res.insert_pos, x, c, e)
  PROVE  Relieved(D, h, res.nodes, res.node, a, W, rt, ht, lv, M)
<1>. DEFINE p == LastNode(Above(path))
            pos == LastPos(Above(path))
            ip == LastPos(path)
            left == Child(h[p], pos - 1)
            right == Child(h[p], pos + 1)
            to_left == IF pos = 0 THEN 0
                       ELSE ToMove(AvailableSlotCount(h[left]), ip = NumItems(h[a]))
            to_right == IF pos = NumItems(h[p]) THEN 0
                        ELSE ToMove(AvailableSlotCount(h[right]), ip = 0)
            kept == NumItems(h[a]) - to_right
            Gl == RebalanceChildToLeft(h, p, pos, to_left)
            Gr == RebalanceChildToRight(h, p, pos, to_right)
<1>1. /\ h \in [D -> NodeSet] /\ ht \in Nat /\ On(D, h, rt, ht, lv, path)
      /\ ip \in 0..Len(h[a].keys) /\ a \in D
  BY PendingFacts
<1>2. h[p].children[pos + 1] = a /\ On(D, h, rt, ht, lv, Above(path))
  BY <1>1, OnAbove
<1>3. pos \in 0..Len(h[p].keys) /\ p \in D
  BY <1>1, <1>2, OnLast
<1>4. pos \in Int /\ ip \in Int /\ (pos - 1) + 1 = pos /\ (pos + 1) + 1 = pos + 2
  <2>1. Len(h[p].keys) \in Nat /\ Len(h[a].keys) \in Nat
    BY <1>1, <1>3, NodeFacts
  <2>. QED
    BY <2>1, <1>1, <1>3
<1>5. Child(h[p], pos) = a /\ left = h[p].children[pos] /\ right = h[p].children[pos + 2]
  BY <1>2, <1>4 DEF Child
<1>. HIDE DEF left, right, to_left, to_right, kept, Gl, Gr, ip, pos, p
<1>6. res = CASE to_left > 0 /\ ip < to_left ->
            [done |-> TRUE, nodes |-> Gl, node |-> left, insert_pos |-> NumItems(h[left]) + ip + 1]
       [] to_left > 0 /\ ip >= to_left ->
            [done |-> TRUE, nodes |-> Gl, node |-> a, insert_pos |-> ip - to_left]
       [] to_left = 0 /\ to_right > 0 /\ ip > kept ->
            [done |-> TRUE, nodes |-> Gr, node |-> right, insert_pos |-> ip - (kept + 1)]
       [] to_left = 0 /\ to_right > 0 /\ ip <= kept ->
            [done |-> TRUE, nodes |-> Gr, node |-> a, insert_pos |-> ip]
       [] OTHER -> [done |-> FALSE]
  BY <1>5, Zenon DEF RebalanceChild, left, right, to_left, to_right, kept, Gl, Gr, ip, pos, p
<1>7. CASE to_left > 0
  <2>1. pos # 0 /\ Amount(AvailableSlotCount(h[left]), ip, Len(h[a].keys), to_left)
    BY <1>7 DEF to_left, NumItems, Amount
  <2>2. pos > 0
    <3>1. Len(h[p].keys) \in Nat
      BY <1>1, <1>3, NodeFacts
    <3>. QED
      BY <2>1, <3>1, <1>3
  <2>3. res.nodes = Gl /\ ((ip < to_left /\ res.node = left /\ res.insert_pos = Len(h[left].keys) + ip + 1)
                          \/ (ip >= to_left /\ res.node = a /\ res.insert_pos = ip - to_left))
    BY <1>6, <1>7 DEF NumItems
  <2>4. left = h[p].children[pos]
    BY <1>5
  <2>. DEFINE n == res.node
              i == res.insert_pos
              G == res.nodes
  <2>5. /\ p = LastNode(Above(path)) /\ pos = LastPos(Above(path)) /\ ip = LastPos(path)
        /\ W = Inserted(G, path, n, i, x, c, e)
        /\ G = RebalanceChildToLeft(h, p, pos, to_left)
        /\ TargetLeft(h, a, left, ip, to_left, n, i)
    BY <2>3 DEF p, pos, ip, Gl, TargetLeft
  <2>. HIDE DEF n, i, G
  <2>9. Relieved(D, h, G, n, a, W, rt, ht, lv, M)
    BY <1>7, <2>1, <2>2, <2>4, <2>5, HelpLeft
  <2>. QED
    BY <2>9 DEF n, G
<1>8. CASE ~ (to_left > 0)
  <2>1. to_right > 0
        /\ res.nodes = Gr /\ ((ip > kept /\ res.node = right /\ res.insert_pos = ip - (kept + 1))
                            \/ (ip <= kept /\ res.node = a /\ res.insert_pos = ip))
    <3>1. \/ to_left = 0 /\ to_right > 0 /\ ip > kept
          \/ to_left = 0 /\ to_right > 0 /\ ip <= kept
      BY <1>6, <1>8
    <3>2. CASE to_left = 0 /\ to_right > 0 /\ ip > kept
      <4>0. ~ (to_left > 0 /\ ip < to_left) /\ ~ (to_left > 0 /\ ip >= to_left)
            /\ ~ (to_left = 0 /\ to_right > 0 /\ ip <= kept)
        <5>0. pos # Len(h[p].keys)
          BY <3>2, <1>4 DEF to_right, NumItems
        <5>1. h[p] \in NodeSet /\ Len(h[p].keys) \in Nat /\ pos + 2 \in 1..(Len(h[p].keys) + 1)
          <6>1. h[p] \in NodeSet /\ Len(h[p].keys) \in Nat
            BY <1>1, <1>3, NodeFacts
          <6>. QED
            BY <6>1, <5>0, <1>3
        <5>. DEFINE j == pos + 1
                    V == With(h, path, x, c)
        <5>2. j \in 1..Len(h[p].keys) /\ j + 1 = pos + 2
          <6>1. Len(h[p].keys) \in Nat /\ pos \in 0..Len(h[p].keys) /\ pos # Len(h[p].keys)
            BY <5>1, <5>0, <1>3
          <6>. QED
            BY <6>1
        <5>. HIDE DEF j
        <5>21. p = LastNode(Above(path)) /\ a = h[p].children[j] /\ right = h[p].children[j + 1]
          <6>1. pos + 1 = j
            BY DEF j
          <6>. QED
            BY <6>1, <5>2, <1>2, <1>5 DEF p
        <5>22. V = With(h, path, x, c)
          OBVIOUS
        <5>. HIDE DEF V
        <5>23. Beside(D, h, V, p, j, a, right, a, path, c)
          BY <5>2, <5>21, <5>22, PendingBeside
        <5>24. right \in D
          BY <5>23 DEF Beside, Facing
        <5>3. AvailableSlotCount(h[right]) \in Int
          <6>1. h[right] \in NodeSet
            BY <5>24, <1>1
          <6>2. Len(h[right].keys) \in Nat /\ h[right].leaf \in BOOLEAN
            BY <6>1, NodeFacts
          <6>3. Sized(h[right])
            BY <6>2, SizeFacts
          <6>4. MaxItems(h[right]) \in Nat
            BY <6>3 DEF Sized
          <6>5. AvailableSlotCount(h[right]) = MaxItems(h[right]) - Len(h[right].keys)
            BY DEF AvailableSlotCount, NumItems
          <6>. HIDE DEF j
          <6>. QED
            BY <6>2, <6>4, <6>5
        <5>4. to_right \in Int
          BY <5>0, <5>3 DEF to_right, NumItems, ToMove
        <5>5. Len(h[a].keys) \in Nat
          BY <1>1, NodeFacts
        <5>6. ip \in Int /\ kept \in Int
          BY <1>4, <5>4, <5>5 DEF kept, NumItems
        <5>. QED
          BY <1>8, <3>2, <5>6
      <4>1. res = [done |-> TRUE, nodes |-> Gr, node |-> right, insert_pos |-> ip - (kept + 1)]
        BY <1>6, <4>0, <3>2
      <4>. QED
        BY <3>2, <4>1
    <3>3. CASE ~ (to_left = 0 /\ to_right > 0 /\ ip > kept)
      BY <1>6, <1>8, <3>1, <3>3
    <3>. QED
      BY <3>2, <3>3
  <2>2. pos # Len(h[p].keys) /\ Amount(AvailableSlotCount(h[right]), ip, 0, to_right)
    BY <2>1 DEF to_right, NumItems, Amount
  <2>3. right = h[p].children[pos + 2]
    BY <1>5
  <2>. DEFINE n == res.node
              i == res.insert_pos
              G == res.nodes
  <2>4. /\ p = LastNode(Above(path)) /\ pos = LastPos(Above(path)) /\ ip = LastPos(path)
        /\ W = Inserted(G, path, n, i, x, c, e)
        /\ G = RebalanceChildToRight(h, p, pos, to_right)
        /\ TargetRight(h, a, right, ip, to_right, n, i)
    BY <2>1 DEF p, pos, ip, Gr, kept, NumItems, TargetRight
  <2>. HIDE DEF n, i, G
  <2>9. Relieved(D, h, G, n, a, W, rt, ht, lv, M)
    BY <2>1, <2>2, <2>3, <2>4, HelpRight
  <2>. QED
    BY <2>9 DEF n, G
<1>. QED
  BY <1>7, <1>8

-----------------------------------------------------------------------------
(* A running deletion.                                                      *)

\* The last node of the path may have an item too few.
Owing(D, h, rt, ht, lv, lo, hi, M, q) ==
  /\ h \in [D -> NodeSet] /\ On(D, h, rt, ht, lv, q)
  /\ Form(D, Paid(h, q), rt, ht, lv, lo, hi, M)
  /\ Fill(D, Paid(h, q), rt, Null, LastNode(q))

OwingNodes(D, h, V, q) ==
  LET a == LastNode(q) IN
  /\ V \in [D -> NodeSet] /\ V[a] = h[a]
  /\ \A b \in D : OnPath(Above(q), b) => V[b] = IncreaseTreeCount(h[b], -1)
  /\ \A b \in D : ~ OnPath(Above(q), b) => V[b] = h[b]
  /\ \A b \in D : /\ V[b].leaf <=> h[b].leaf
                  /\ V[b].keys = h[b].keys
                  /\ V[b].children = h[b].children

\* What a running deletion knows.
LEMMA OwingFacts ==
  ASSUME NEW D, NEW h, NEW rt, NEW ht, NEW lv, NEW lo, NEW hi, NEW M, NEW q,
         Owing(D, h, rt, ht, lv, lo, hi, M, q), NEW V, V = Paid(h, q)
  PROVE  /\ h \in [D -> NodeSet] /\ ht \in Nat /\ On(D, h, rt, ht, lv, q)
         /\ Form(D, V, rt, ht, lv, lo, hi, M) /\ Fill(D, V, rt, Null, LastNode(q))
         /\ LastNode(q) \in D
         /\ OwingNodes(D, h, V, q)
<1>1. h \in [D -> NodeSet] /\ On(D, h, rt, ht, lv, q)
      /\ Form(D, V, rt, ht, lv, lo, hi, M) /\ Fill(D, V, rt, Null, LastNode(q))
  BY DEF Owing
<1>2. ht \in Nat
  BY <1>1 DEF Form, Typed
<1>3. LastNode(q) \in D
  BY <1>1, <1>2, OnLast
<1>4. Raised(D, h, V, Above(q), -1)
  <2>. DEFINE up == Above(q)
              d == -1
  <2>1. V = IncreaseSubtreeCounts(h, up, d) /\ d \in Int
    BY DEF Paid
  <2>. HIDE DEF up, d
  <2>2. Raised(D, h, V, up, d)
    BY <1>1, <2>1, RaiseFacts
  <2>. QED
    BY <2>2 DEF up, d
<1>5. ~ OnPath(Above(q), LastNode(q))
  BY <1>1, <1>2, AboveNodes
<1>6. OwingNodes(D, h, V, q)
  BY <1>3, <1>4, <1>5 DEF OwingNodes, Raised
<1>. QED
  BY <1>1, <1>2, <1>3, <1>6

\* The last node has items enough: the deletion is complete.
LEMMA OwingEnough ==
  ASSUME NEW D, NEW h, NEW rt, NEW ht, NEW lv, NEW lo, NEW hi, NEW M, NEW q,
         Owing(D, h, rt, ht, lv, lo, hi, M, q), NEW a, a = LastNode(q),
         MinItems(h[a]) <= Len(h[a].keys)
  PROVE  Complete(D, Paid(h, q), rt, ht, lv, M)
<1>. DEFINE V == Paid(h, q)
<1>1. /\ h \in [D -> NodeSet] /\ Form(D, V, rt, ht, lv, lo, hi, M) /\ Fill(D, V, rt, Null, a)
      /\ a \in D /\ OwingNodes(D, h, V, q)
  BY OwingFacts
<1>. HIDE DEF V
<1>2. V[a] = h[a] /\ h[a] \in NodeSet
  BY <1>1 DEF OwingNodes
<1>3. LeastItems(V[a]) <= Len(V[a].keys) /\ LeastItems(V[a]) - 1 <= Len(V[a].keys) /\ 1 <= Len(V[a].keys)
  <2>. DEFINE l == Len(V[a].keys)
              e == LeastItems(V[a])
              m == MinItems(V[a])
  <2>1. l \in Nat /\ V[a].leaf \in BOOLEAN
    BY <1>2, NodeFacts
  <2>2. Sized(V[a])
    BY <2>1, SizeFacts
  <2>3. e \in Nat /\ 1 <= e /\ e <= m /\ m \in Nat
    BY <2>2 DEF Sized
  <2>4. m <= l
    BY <1>2
  <2>. HIDE DEF l, e, m
  <2>5. e <= l /\ e - 1 <= l /\ 1 <= l
    BY <2>1, <2>3, <2>4
  <2>. QED
    BY <2>5 DEF l, e
<1>4. Fill(D, V, rt, Null, Null)
  BY <1>1, <1>3 DEF Fill
<1>. QED
  BY <1>1, <1>4 DEF Complete, V

\* The root may have few items.
LEMMA OwingRoot ==
  ASSUME NEW D, NEW h, NEW rt, NEW ht, NEW lv, NEW lo, NEW hi, NEW M, NEW q,
         Owing(D, h, rt, ht, lv, lo, hi, M, q), Len(q) = 1
  PROVE  /\ Above(q) = <<>> /\ LastNode(q) = rt
         /\ Form(D, h, rt, ht, lv, lo, hi, M)
         /\ Fill(D, h, rt, Null, rt)
         /\ Len(h[rt].keys) > 0 => Complete(D, h, rt, ht, lv, M)
<1>. DEFINE V == Paid(h, q)
<1>1. /\ h \in [D -> NodeSet] /\ ht \in Nat /\ On(D, h, rt, ht, lv, q)
      /\ Form(D, V, rt, ht, lv, lo, hi, M) /\ Fill(D, V, rt, Null, LastNode(q))
      /\ LastNode(q) \in D
  BY OwingFacts
<1>2. Above(q) = <<>> /\ LastNode(q) = rt
  <2>1. q \in Steps /\ LastNode(q) = rt
    BY <1>1, OnLast
  <2>2. Len(q) >= 1
    OBVIOUS
  <2>3. Len(Above(q)) = Len(q) - 1 /\ Above(q) \in Steps
    BY <2>1, <2>2, AboveFacts
  <2>4. Len(Above(q)) = 0
    BY <2>3
  <2>. QED
    BY <2>1, <2>3, <2>4, StepsFacts
<1>3. V = h
  BY <1>1, <1>2, RaiseNone DEF Paid
<1>4. ASSUME Len(h[rt].keys) > 0
      PROVE  Complete(D, h, rt, ht, lv, M)
  <2>1. Len(h[rt].keys) \in Nat
    BY <1>1, <1>2, NodeFacts
  <2>2. 1 <= Len(h[rt].keys)
    BY <2>1, <1>4
  <2>3. Fill(D, h, rt, Null, Null)
    BY <1>1, <1>2, <1>3, <2>2 DEF Fill
  <2>. QED
    BY <1>1, <1>3, <2>3 DEF Complete
<1>. QED
  BY <1>1, <1>2, <1>3, <1>4

\* A root that has lost its last item gives way to its child.
LEMMA OwingLower ==
  ASSUME NEW D, NEW h, NEW rt, NEW ht, NEW lv, NEW lo, NEW hi, NEW M,
         Form(D, h, rt, ht, lv, lo, hi, M), Fill(D, h, rt, Null, rt),
         Len(h[rt].keys) = 0, ~ h[rt].leaf, NEW G, G = Destroy(h, {rt})
  PROVE  \E lv2 : Complete(D \ {rt}, G, h[rt].children[1], ht - 1, lv2, M)
<1>. DEFINE c == h[rt].children[1]
<1>1. PICK lv2 : \E lo2, hi2 : Form(D \ {rt}, G, c, ht - 1, lv2, lo2, hi2, M)
  BY LowerForm
<1>2. h \in [D -> NodeSet]
  BY DEF Form, Typed
<1>3. /\ DOMAIN h = D
      /\ \A b \in D \ {rt} : G[b] = h[b]
  BY <1>2 DEF Destroy
<1>4. c \in D \ {rt}
  BY <1>1 DEF Form, Rooted
<1>5. ASSUME NEW b \in D \ {rt}
      PROVE  /\ Len(G[b].keys) <= MaxItems(G[b])
             /\ Len(G[b].keys) <= MaxItems(G[b]) + 1
             /\ LeastItems(G[b]) <= Len(G[b].keys)
             /\ LeastItems(G[b]) - 1 <= Len(G[b].keys)
             /\ 1 <= Len(G[b].keys)
  <2>. DEFINE l == Len(G[b].keys)
              k == MaxItems(G[b])
              e == LeastItems(G[b])
  <2>1. G[b] = h[b] /\ h[b] \in NodeSet /\ b # Null
    <3>1. b # 0
      BY DEF Form, Typed
    <3>. QED
      BY <3>1, <1>2, <1>3 DEF Null
  <2>2. l <= k /\ e <= l
    BY <2>1 DEF Fill
  <2>3. l \in Nat /\ G[b].leaf \in BOOLEAN
    BY <2>1, NodeFacts
  <2>4. Sized(G[b])
    BY <2>3, SizeFacts
  <2>5. k \in Nat /\ e \in Nat /\ 1 <= e
    BY <2>4 DEF Sized
  <2>. HIDE DEF l, k, e
  <2>6. l <= k + 1 /\ e - 1 <= l /\ 1 <= l
    BY <2>2, <2>3, <2>5
  <2>. QED
    BY <2>2, <2>6 DEF l, k, e
<1>6. Fill(D \ {rt}, G, c, Null, Null)
  BY <1>5 DEF Fill
<1>. QED
  BY <1>1, <1>6 DEF Complete

\* A tree of one level is its root.
LEMMA SoleNode ==
  ASSUME NEW D, NEW h, NEW rt, NEW ht, NEW lv, NEW lo, NEW hi, NEW M,
         Form(D, h, rt, ht, lv, lo, hi, M), h[rt].leaf
  PROVE  D = {rt} /\ ht = 1
<1>1. rt \in D /\ lv[rt] = ht /\ lo[rt] = 0 /\ hi[rt] = Top
  BY DEF Form, Rooted
<1>2. lv[rt] = 1
  BY <1>1 DEF Form, Leveled
<1>3. ASSUME NEW b \in D, b # rt
      PROVE  FALSE
  <2>1. lv[b] \in 1..ht
    BY DEF Form, Leveled
  <2>2. lv[b] = lv[rt]
    BY <1>1, <1>2, <2>1
  <2>3. hi[b] <= lo[rt] \/ hi[rt] <= lo[b]
    BY <1>1, <1>3, <2>2 DEF Form, Apart
  <2>4. lo[b] \in Int /\ hi[b] \in Int /\ 0 <= lo[b] /\ lo[b] < hi[b] /\ hi[b] <= Top
    BY FormNode
  <2>5. Top \in Nat
    BY TopType
  <2>6. hi[b] <= 0 \/ Top <= lo[b]
    BY <1>1, <2>3
  <2>. DEFINE x == lo[b]
              y == hi[b]
  <2>7. x \in Int /\ y \in Int /\ 0 <= x /\ x < y /\ y <= Top /\ (y <= 0 \/ Top <= x) /\ Top \in Int
    BY <2>4, <2>5, <2>6
  <2>. HIDE DEF x, y
  <2>. QED
    BY <2>7
<1>. QED
  BY <1>1, <1>2, <1>3

\* The last item has gone.
LEMMA OwingEmpty ==
  ASSUME NEW D, NEW h, NEW rt, NEW ht, NEW lv, NEW lo, NEW hi, NEW M,
         Form(D, h, rt, ht, lv, lo, hi, M), Len(h[rt].keys) = 0, h[rt].leaf
  PROVE  D = {rt} /\ ht = 1 /\ M = {Top}
<1>1. D = {rt} /\ ht = 1
  BY SoleNode
<1>2. KeysOf(h, D) = M \ {Top} /\ Top \in M
  <2>1. KeysOf(h, D) = M \ {Top}
    BY KeysAll
  <2>. QED
    BY <2>1 DEF Form, Typed
<1>3. KeysOf(h, D) = Ext!Range(h[rt].keys)
  BY <1>1 DEF KeysOf
<1>4. h[rt].keys \in Numbers
  BY <1>1, FormNode
<1>5. Ext!Range(h[rt].keys) = {}
  BY <1>4, NumbersFacts DEF Ext!Range
<1>. QED
  BY <1>1, <1>2, <1>3, <1>5

-----------------------------------------------------------------------------
\* The neighbours L and R below p, the last node of up.
Flanked(D, h, V, lv, p, j, L, R, up) ==
  /\ Neighbours(D, V, p, j, L, R) /\ Facing(D, h, p, j, L, R)
  /\ h[p].children[j] = L /\ h[p].children[j + 1] = R
  /\ h[p] \in NodeSet /\ ~ h[p].leaf
  /\ V[p] = IncreaseTreeCount(h[p], -1) /\ OnPath(up, p) /\ p = LastNode(up)
  /\ ~ OnPath(up, L) /\ ~ OnPath(up, R)
  /\ V[L] = h[L] /\ V[R] = h[R]
  /\ lv[L] \in Int /\ lv[R] = lv[L] /\ lv[p] = lv[L] + 1 /\ lv[p] # 1

\* Nodes at the level of the last node and below are not above it.
LEMMA OwingBelow ==
  ASSUME NEW D, NEW h, NEW rt, NEW ht, NEW lv, NEW lo, NEW hi, NEW M, NEW q,
         Owing(D, h, rt, ht, lv, lo, hi, M, q), NEW V, V = Paid(h, q),
         NEW b \in D, lv[b] <= lv[LastNode(q)]
  PROVE  ~ OnPath(Above(q), b) /\ V[b] = h[b]
<1>1. /\ ht \in Nat /\ On(D, h, rt, ht, lv, q) /\ Form(D, V, rt, ht, lv, lo, hi, M)
      /\ LastNode(q) \in D /\ OwingNodes(D, h, V, q)
  BY OwingFacts
<1>2. lv[b] \in Int /\ lv[LastNode(q)] \in Int
  BY <1>1, FormNode
<1>3. \A d : OnPath(Above(q), d) <=> OnPath(q, d) /\ d # LastNode(q)
  BY <1>1, AboveNodes
<1>4. ~ OnPath(Above(q), b)
  <2>1. CASE lv[b] = lv[LastNode(q)]
    BY <2>1, <1>1, <1>3, SameLevel
  <2>2. CASE lv[b] < lv[LastNode(q)]
    <3>1. ~ OnPath(q, b)
      BY <2>2, <1>1, <1>2, BelowPath
    <3>. QED
      BY <3>1, <1>3
  <2>. QED
    BY <1>2, <2>1, <2>2
<1>. QED
  BY <1>1, <1>4 DEF OwingNodes

\* The last node of the path and a neighbour, under their parent.
LEMMA OwingFlanked ==
  ASSUME NEW D, NEW h, NEW rt, NEW ht, NEW lv, NEW lo, NEW hi, NEW M, NEW q,
         Owing(D, h, rt, ht, lv, lo, hi, M, q), NEW V, V = Paid(h, q), Len(q) > 1,
         NEW p, p = LastNode(Above(q)),
         NEW j \in 1..Len(h[p].keys), NEW L, L = h[p].children[j], NEW R, R = h[p].children[j + 1]
  PROVE  Flanked(D, h, V, lv, p, j, L, R, Above(q)) /\ L # rt /\ R # rt
<1>. DEFINE up == Above(q)
            a == LastNode(q)
<1>1. /\ h \in [D -> NodeSet] /\ ht \in Nat /\ On(D, h, rt, ht, lv, q)
      /\ Form(D, V, rt, ht, lv, lo, hi, M) /\ a \in D
      /\ OwingNodes(D, h, V, q)
  BY OwingFacts
<1>2. /\ V \in [D -> NodeSet]
      /\ \A b \in D : OnPath(up, b) => V[b] = IncreaseTreeCount(h[b], -1)
      /\ \A b \in D : ~ OnPath(up, b) => V[b] = h[b]
      /\ \A b \in D : /\ (V[b].leaf <=> h[b].leaf) /\ V[b].keys = h[b].keys
                      /\ V[b].children = h[b].children
  BY <1>1 DEF OwingNodes
<1>3. On(D, h, rt, ht, lv, up) /\ Len(up) = Len(q) - 1
  BY <1>1, OnAbove
<1>4. p \in D /\ lv[p] = (ht - Len(up)) + 1 /\ lv[a] = (ht - Len(q)) + 1 /\ Len(q) \in Nat
      /\ Len(q) <= ht /\ p = up[Len(up)].node /\ Len(up) \in Nat /\ Len(up) >= 1
  BY <1>1, <1>3, OnLast
<1>5. lv[p] = lv[a] + 1 /\ lv[a] \in Int /\ lv[a] >= 1 /\ lv[p] # 1 /\ lv[p] \in Int
  <2>. DEFINE m == Len(q)
              u == Len(up)
  <2>1. lv[p] = (ht - u) + 1 /\ lv[a] = (ht - m) + 1 /\ m \in Nat /\ m <= ht /\ u = m - 1
    BY <1>3, <1>4
  <2>. HIDE DEF m, u
  <2>. QED
    BY <1>1, <2>1
<1>6. OnPath(up, p)
  BY <1>4 DEF OnPath
<1>7. V[p] = IncreaseTreeCount(h[p], -1) /\ V[p].keys = h[p].keys /\ V[p].children = h[p].children
  BY <1>2, <1>4, <1>6
<1>8. Neighbours(D, V, p, j, L, R)
  BY <1>1, <1>4, <1>5, <1>7, FormNeighbours
<1>9. p # L /\ p # R /\ L # R /\ L \in D /\ R \in D /\ ~ V[p].leaf /\ (V[R].leaf <=> V[L].leaf)
      /\ Len(V[p].children) = Len(V[p].keys) + 1
  BY <1>8 DEF Neighbours
<1>10. lv[L] = lv[a] /\ lv[R] = lv[a]
  <2>1. Linked(D, V, lv, lo, hi)
    BY <1>1 DEF Form
  <2>. DEFINE k == j + 1
              cs == V[p].children
  <2>2. j \in 1..Len(cs) /\ k \in 1..Len(cs)
    <3>1. Len(cs) = Len(h[p].keys) + 1 /\ Len(h[p].keys) \in Nat
      BY <1>1, <1>4, <1>7, <1>9, NodeFacts
    <3>. HIDE DEF cs
    <3>. QED
      BY <3>1
  <2>3. L = cs[j] /\ R = cs[k]
    BY <1>7
  <2>4. lv[L] = lv[p] - 1 /\ lv[R] = lv[p] - 1
    <3>. HIDE DEF k
    <3>. QED
      BY <2>1, <2>2, <2>3, <1>4, Zenon DEF Linked
  <2>. QED
    BY <2>4, <1>5
<1>11. \A b \in D : lv[b] <= lv[a] => ~ OnPath(up, b) /\ V[b] = h[b]
  BY OwingBelow
<1>12. ~ OnPath(up, L) /\ ~ OnPath(up, R) /\ V[L] = h[L] /\ V[R] = h[R]
  BY <1>5, <1>9, <1>10, <1>11
<1>13. \A b \in D : V[b] \in NodeSet /\ h[b] \in NodeSet
  BY <1>1, <1>2
<1>14. ASSUME NEW b, b = L \/ b = R
       PROVE  Tallied(h, h[b].children)
  <2>1. ASSUME NEW i \in 1..Len(h[b].children)
        PROVE  TreeCount(h[h[b].children[i]]) \in Int
    <3>1. h[b].children[i] \in D
      BY <1>1, <1>2, <1>9, <1>14 DEF Form, Linked
    <3>. QED
      BY <3>1, <1>13, TreeCountType
  <2>. QED
    BY <2>1 DEF Tallied
<1>15. Whole(h[L]) /\ Whole(h[R])
  BY <1>1, <1>9, <1>12, FormWhole
<1>16. Facing(D, h, p, j, L, R)
  BY <1>1, <1>2, <1>4, <1>9, <1>14, <1>15, Zenon DEF Facing
<1>17. lv[L] \in Int /\ lv[R] = lv[L] /\ lv[p] = lv[L] + 1 /\ lv[p] # 1
  BY <1>5, <1>10
<1>18. h[p] \in NodeSet /\ ~ h[p].leaf
  BY <1>2, <1>4, <1>9, <1>13
<1>19. L # rt /\ R # rt
  <2>1. Form(D, V, rt, ht, lv, lo, hi, M) /\ Neighbours(D, V, p, j, L, R)
    BY <1>1, <1>8
  <2>. QED
    BY <2>1, ChildNotRoot
<1>20. Flanked(D, h, V, lv, p, j, L, R, up)
  BY <1>6, <1>7, <1>8, <1>12, <1>16, <1>17, <1>18 DEF Flanked
<1>. QED
  BY <1>19, <1>20

\* A child of a neighbour is off the path and below it.
LEMMA FlankedChild ==
  ASSUME NEW D, NEW h, NEW rt, NEW ht, NEW lv, NEW lo, NEW hi, NEW M, NEW q,
         Owing(D, h, rt, ht, lv, lo, hi, M, q), NEW V, V = Paid(h, q), Len(q) > 1,
         NEW p, NEW j, NEW L, NEW R, Flanked(D, h, V, lv, p, j, L, R, Above(q)),
         NEW b, b = L \/ b = R, NEW i \in 1..Len(h[b].children)
  PROVE  LET d == h[b].children[i] IN
         d \in D /\ lv[d] < lv[L] /\ V[d] = h[d] /\ d # p /\ d # L /\ d # R /\ ~ OnPath(Above(q), d)
<1>. DEFINE d == h[b].children[i]
            up == Above(q)
            a == LastNode(q)
<1>1. /\ ht \in Nat /\ On(D, h, rt, ht, lv, q) /\ Form(D, V, rt, ht, lv, lo, hi, M)
      /\ a \in D /\ OwingNodes(D, h, V, q)
  BY OwingFacts
<1>2. /\ lv[L] \in Int /\ lv[R] = lv[L] /\ lv[p] = lv[L] + 1 /\ p = LastNode(up)
      /\ V[L] = h[L] /\ V[R] = h[R] /\ L \in D /\ R \in D
  BY DEF Flanked, Facing
<1>3. V[b] = h[b] /\ b \in D /\ lv[b] = lv[L]
  BY <1>2
<1>4. d \in D /\ lv[d] = lv[b] - 1
  BY <1>1, <1>3 DEF Form, Linked
<1>5. lv[L] = lv[a]
  <2>1. On(D, h, rt, ht, lv, up) /\ Len(up) = Len(q) - 1
    BY <1>1, OnAbove
  <2>2. lv[p] = (ht - Len(up)) + 1 /\ lv[a] = (ht - Len(q)) + 1 /\ Len(q) \in Nat
    BY <1>1, <1>2, <2>1, OnLast
  <2>. DEFINE m == Len(q)
              u == Len(up)
              x == lv[L]
              y == lv[a]
  <2>3. x + 1 = (ht - u) + 1 /\ y = (ht - m) + 1 /\ m \in Nat /\ u = m - 1 /\ ht \in Nat /\ x \in Int
    BY <1>1, <1>2, <2>1, <2>2
  <2>. HIDE DEF m, u, x, y
  <2>4. x = y
    BY <2>3
  <2>. QED
    BY <2>4 DEF x, y
<1>. HIDE DEF d
<1>6. lv[d] < lv[L] /\ lv[d] <= lv[a]
  BY <1>2, <1>3, <1>4, <1>5
<1>7. V[d] = h[d] /\ ~ OnPath(up, d)
  BY <1>4, <1>6, OwingBelow
<1>8. d # p /\ d # L /\ d # R
  BY <1>2, <1>3, <1>4
<1>. QED
  BY <1>4, <1>6, <1>7, <1>8 DEF d

\* The left neighbour counts its items.
LEMMA FlankedLocal ==
  ASSUME NEW D, NEW h, NEW rt, NEW ht, NEW lv, NEW lo, NEW hi, NEW M, NEW q,
         Owing(D, h, rt, ht, lv, lo, hi, M, q), NEW V, V = Paid(h, q), Len(q) > 1,
         NEW p, NEW j, NEW L, NEW R, Flanked(D, h, V, lv, p, j, L, R, Above(q))
  PROVE  Excess(h, h[L]) = 0
<1>. DEFINE t == TreeCount(h[L])
            k == Len(h[L].keys)
            cs == h[L].children
            z == SumCounts(h, cs)
<1>1. /\ h \in [D -> NodeSet] /\ Form(D, V, rt, ht, lv, lo, hi, M)
  BY OwingFacts
<1>2. V[L] = h[L] /\ L \in D /\ h[L] \in NodeSet /\ Tallied(h, cs)
  BY <1>1 DEF Flanked, Facing
<1>3. k \in Nat /\ cs \in Numbers /\ z \in Int
  BY <1>2, NodeFacts, SumType
<1>4. t = k + SumCounts(V, cs)
  <2>1. LocalCount(V, V[L])
    BY <1>1, <1>2, FormCount
  <2>. QED
    BY <2>1, <1>2 DEF LocalCount
<1>5. SumCounts(V, cs) = z
  <2>1. \A i \in 1..Len(cs) : TreeCount(V[cs[i]]) = TreeCount(h[cs[i]])
    BY FlankedChild
  <2>. HIDE DEF cs
  <2>. QED
    BY <1>3, <2>1, SumSame
<1>6. t = k + z
  BY <1>4, <1>5
<1>. HIDE DEF t, k, z
<1>7. (t - k) - z = 0
  BY <1>3, <1>6
<1>. QED
  BY <1>7 DEF Excess, t, k, z

-----------------------------------------------------------------------------
\* An item less for p and the nodes above it.
Settled(G, up, p) ==
  IncreaseSubtreeCounts([G EXCEPT ![p] = IncreaseTreeCount(@, -1)], Above(up), -1)

\* W is G with an item less counted for p and the nodes above it.
Repaid(D, G, W, up, p) ==
  /\ W \in [D -> NodeSet]
  /\ W[p] = IncreaseTreeCount(G[p], -1)
  /\ \A b \in D \ {p} : OnPath(up, b) => W[b] = IncreaseTreeCount(G[b], -1)
  /\ \A b \in D \ {p} : ~ OnPath(up, b) => W[b] = G[b]

\* What settling the counts leaves of the nodes.
LEMMA SettledFacts ==
  ASSUME NEW D, NEW G \in [D -> NodeSet], NEW p \in D, NEW up, NEW top,
         \A b \in D : OnPath(top, b) <=> OnPath(up, b) /\ b # p, top = Above(up),
         NEW W, W = Settled(G, up, p)
  PROVE  Repaid(D, G, W, up, p)
<1>. DEFINE n == IncreaseTreeCount(G[p], -1)
            G2 == [G EXCEPT ![p] = n]
            d == -1
<1>1. d \in Int /\ G[p] \in NodeSet
  OBVIOUS
<1>2. n \in NodeSet
  <2>1. n = IncreaseTreeCount(G[p], d)
    OBVIOUS
  <2>. HIDE DEF n, d
  <2>2. Bumped(G[p], n, d)
    BY <1>1, <2>1, BumpDone
  <2>. QED
    BY <2>2 DEF Bumped
<1>. HIDE DEF n
<1>3. G2 \in [D -> NodeSet] /\ G2[p] = n /\ \A b \in D \ {p} : G2[b] = G[b]
  BY <1>2
<1>4. W = IncreaseSubtreeCounts(G2, top, d)
  BY DEF Settled, n
<1>. HIDE DEF G2, d
<1>5. Raised(D, G2, W, top, d)
  BY <1>1, <1>3, <1>4, RaiseFacts
<1>6. W \in [D -> NodeSet]
      /\ (\A b \in D : OnPath(top, b) => W[b] = IncreaseTreeCount(G2[b], d))
      /\ (\A b \in D : ~ OnPath(top, b) => W[b] = G2[b])
  BY <1>5 DEF Raised
<1>7. W[p] = n
  BY <1>3, <1>6
<1>8. \A b \in D \ {p} : OnPath(up, b) => W[b] = IncreaseTreeCount(G[b], -1)
  BY <1>3, <1>6 DEF d
<1>9. \A b \in D \ {p} : ~ OnPath(up, b) => W[b] = G[b]
  BY <1>3, <1>6
<1>. QED
  BY <1>6, <1>7, <1>8, <1>9 DEF Repaid, n

\* W is V after items have moved between L and R.
FixDone(D, V, G, W, rt, ht, lv, M, L, R) ==
  /\ \E lo2, hi2 : Form(D, W, rt, ht, lv, lo2, hi2, M)
  /\ W \in [D -> NodeSet]
  /\ \A b \in D : W[b].leaf <=> V[b].leaf
  /\ \A b \in D \ {L, R} : Len(W[b].keys) = Len(V[b].keys)
  /\ W[L] = G[L] /\ W[R] = G[R]

\* After items have moved between the neighbours the tree is in order.
LEMMA FixForm ==
  ASSUME NEW D, NEW h, NEW rt, NEW ht, NEW lv, NEW lo, NEW hi, NEW M, NEW q,
         Owing(D, h, rt, ht, lv, lo, hi, M, q), NEW V, V = Paid(h, q), Len(q) > 1,
         NEW p, NEW j, NEW L, NEW R, Flanked(D, h, V, lv, p, j, L, R, Above(q)),
         NEW G, Rebalanced(D, h, G, p, j, L, R), NEW W, W = Settled(G, Above(q), p)
  PROVE  FixDone(D, V, G, W, rt, ht, lv, M, L, R)
<1>. DEFINE up == Above(q)
            k == h[p].keys[j]
            y == G[p].keys[j]
<1>1. /\ h \in [D -> NodeSet] /\ ht \in Nat /\ On(D, h, rt, ht, lv, q)
      /\ Form(D, V, rt, ht, lv, lo, hi, M) /\ OwingNodes(D, h, V, q)
  BY OwingFacts
<1>2. /\ V \in [D -> NodeSet]
      /\ \A b \in D : OnPath(up, b) => V[b] = IncreaseTreeCount(h[b], -1)
      /\ \A b \in D : ~ OnPath(up, b) => V[b] = h[b]
      /\ \A b \in D : (V[b].leaf <=> h[b].leaf) /\ V[b].keys = h[b].keys
  BY <1>1 DEF OwingNodes
<1>3. /\ Neighbours(D, V, p, j, L, R) /\ Facing(D, h, p, j, L, R)
      /\ h[p] \in NodeSet /\ ~ h[p].leaf
      /\ V[p] = IncreaseTreeCount(h[p], -1) /\ OnPath(up, p) /\ p = LastNode(up)
      /\ ~ OnPath(up, L) /\ ~ OnPath(up, R)
      /\ V[L] = h[L] /\ V[R] = h[R]
  BY DEF Flanked
<1>4. /\ p \in D /\ L \in D /\ R \in D /\ p # L /\ p # R /\ L # R
      /\ j \in 1..Len(h[p].keys) /\ (h[R].leaf <=> h[L].leaf)
  BY <1>3 DEF Facing
<1>5. /\ G \in [D -> NodeSet]
      /\ \A b \in D \ {p, L, R} : G[b] = h[b]
      /\ (G[p].leaf <=> h[p].leaf) /\ G[p].cnt = h[p].cnt /\ G[p].children = h[p].children
      /\ Len(G[p].keys) = Len(h[p].keys)
      /\ \A b \in 1..Len(h[p].keys) : b # j => G[p].keys[b] = h[p].keys[b]
      /\ Moved(h, h[L], k, h[R], G[L], y, G[R])
  BY DEF Rebalanced
<1>6. /\ y \in Int /\ (G[L].leaf <=> h[L].leaf) /\ (G[R].leaf <=> h[R].leaf)
      /\ Whole(G[L]) /\ Whole(G[R]) /\ G[L] \in NodeSet /\ G[R] \in NodeSet
      /\ Link(G[L].keys, y, G[R].keys) = Link(h[L].keys, k, h[R].keys)
      /\ G[L].children \o G[R].children = h[L].children \o h[R].children
      /\ TreeCount(G[L]) + TreeCount(G[R]) = TreeCount(h[L]) + TreeCount(h[R])
      /\ Tallied(h, G[L].children) /\ Excess(h, G[L]) = Excess(h, h[L])
  BY <1>5 DEF Moved
<1>. HIDE DEF k, y
<1>7. Repaid(D, G, W, up, p)
  <2>. DEFINE top == Above(up)
  <2>1. On(D, h, rt, ht, lv, up)
    BY <1>1, OnAbove
  <2>2. \A b \in D : OnPath(top, b) <=> OnPath(up, b) /\ b # p
    BY <1>1, <1>3, <2>1, AboveNodes
  <2>3. top = Above(up) /\ W = Settled(G, up, p) /\ p \in D /\ G \in [D -> NodeSet]
    BY <1>4, <1>5
  <2>. HIDE DEF top, up
  <2>. QED
    BY <2>2, <2>3, SettledFacts
<1>8. /\ W \in [D -> NodeSet]
      /\ W[p] = IncreaseTreeCount(G[p], -1)
      /\ \A b \in D \ {p} : OnPath(up, b) => W[b] = IncreaseTreeCount(G[b], -1)
      /\ \A b \in D \ {p} : ~ OnPath(up, b) => W[b] = G[b]
  BY <1>7 DEF Repaid
<1>9. W[L] = G[L] /\ W[R] = G[R]
  BY <1>3, <1>4, <1>8
<1>10. \A b \in D \ {p, L, R} : W[b] = V[b]
  <2>1. ASSUME NEW b \in D \ {p, L, R}
        PROVE  W[b] = V[b]
    <3>1. G[b] = h[b] /\ b \in D /\ b \in D \ {p}
      BY <1>5
    <3>2. CASE OnPath(up, b)
      BY <3>1, <3>2, <1>2, <1>8
    <3>3. CASE ~ OnPath(up, b)
      BY <3>1, <3>3, <1>2, <1>8
    <3>. QED
      BY <3>2, <3>3
  <2>. QED
    BY <2>1
<1>11. /\ ~ W[p].leaf /\ W[p].cnt = V[p].cnt /\ W[p].children = V[p].children
       /\ W[p].keys = G[p].keys /\ V[p].keys = h[p].keys
  <2>1. G[p] \in NodeSet
    BY <1>4, <1>5
  <2>2. W[p] = [G[p] EXCEPT !.cnt = @ + (-1)] /\ V[p] = [h[p] EXCEPT !.cnt = @ + (-1)]
    BY <1>3, <1>5, <1>8 DEF IncreaseTreeCount
  <2>3. /\ ~ W[p].leaf /\ W[p].cnt = G[p].cnt + (-1) /\ V[p].cnt = h[p].cnt + (-1)
        /\ W[p].children = G[p].children /\ V[p].children = h[p].children
        /\ W[p].keys = G[p].keys /\ V[p].keys = h[p].keys
    BY <2>1, <2>2, <1>3, <1>5 DEF NodeSet
  <2>. QED
    BY <2>3, <1>5
<1>12. Shifted(D, V, W, p, j, L, R)
  <2>1. Len(W[p].keys) = Len(V[p].keys) /\ W[p].keys[j] = y /\ V[p].keys[j] = k
    BY <1>5, <1>11 DEF y, k
  <2>2. \A b \in 1..Len(V[p].keys) : b # j => W[p].keys[b] = V[p].keys[b]
    BY <1>5, <1>11
  <2>3. /\ (W[L].leaf <=> V[L].leaf) /\ (W[R].leaf <=> V[R].leaf)
        /\ Link(W[L].keys, W[p].keys[j], W[R].keys) = Link(V[L].keys, V[p].keys[j], V[R].keys)
        /\ W[L].children \o W[R].children = V[L].children \o V[R].children
        /\ TreeCount(W[L]) + TreeCount(W[R]) = TreeCount(V[L]) + TreeCount(V[R])
    BY <1>3, <1>6, <1>9, <2>1
  <2>. QED
    BY <1>8, <1>10, <1>11, <2>1, <2>2, <2>3 DEF Shifted
<1>13. LocalCount(h, G[L])
  <2>. DEFINE t == TreeCount(G[L])
              m == Len(G[L].keys)
              z == SumCounts(h, G[L].children)
  <2>1. Excess(h, G[L]) = 0
    BY <1>6, FlankedLocal
  <2>2. (t - m) - z = 0
    BY <2>1 DEF Excess
  <2>3. t \in Int /\ m \in Nat /\ z \in Int
    BY <1>6, TreeCountType, NodeFacts, SumType
  <2>. HIDE DEF t, m, z
  <2>4. t = m + z
    BY <2>2, <2>3
  <2>. QED
    BY <2>3, <2>4 DEF LocalCount, t, m, z
<1>14. LocalCount(W, W[L])
  <2>1. G[L].children \in Numbers /\ G[R].children \in Numbers
        /\ h[L].children \in Numbers /\ h[R].children \in Numbers
    BY <1>1, <1>4, <1>6, NodeFacts
  <2>. DEFINE cs == G[L].children
              w2 == G[R].children
              c1 == h[L].children
              c2 == h[R].children
  <2>2. ASSUME NEW m \in 1..Len(cs)
        PROVE  TreeCount(W[cs[m]]) = TreeCount(h[cs[m]])
    <3>1. cs \o w2 = c1 \o c2 /\ cs \in Numbers /\ w2 \in Numbers /\ c1 \in Numbers /\ c2 \in Numbers
      BY <1>6, <2>1
    <3>2. \E b \in {L, R} : \E i \in 1..Len(h[b].children) : cs[m] = h[b].children[i]
      <4>. HIDE DEF cs, w2, c1, c2
      <4>1. (cs \o w2)[m] = cs[m] /\ Len(cs \o w2) = Len(cs) + Len(w2) /\ Len(cs) \in Nat /\ Len(w2) \in Nat
        BY <3>1, JoinNumbers, NumbersFacts
      <4>2. /\ Len(c1 \o c2) = Len(c1) + Len(c2) /\ Len(c1) \in Nat /\ Len(c2) \in Nat
            /\ \A i \in 1..Len(c1) : (c1 \o c2)[i] = c1[i]
            /\ \A i \in (Len(c1) + 1)..(Len(c1) + Len(c2)) : (c1 \o c2)[i] = c2[i - Len(c1)]
        BY <3>1, JoinNumbers, NumbersFacts
      <4>3. m \in 1..(Len(c1) + Len(c2)) /\ (c1 \o c2)[m] = cs[m]
        BY <4>1, <4>2, <3>1
      <4>4. CASE m \in 1..Len(c1)
        <5>1. cs[m] = c1[m]
          BY <4>2, <4>3, <4>4
        <5>. QED
          BY <5>1, <4>4 DEF c1
      <4>5. CASE m \notin 1..Len(c1)
        <5>. DEFINE i == m - Len(c1)
        <5>1. m \in (Len(c1) + 1)..(Len(c1) + Len(c2)) /\ i \in 1..Len(c2)
          BY <4>2, <4>3, <4>5
        <5>2. cs[m] = c2[i]
          BY <4>2, <4>3, <5>1
        <5>. QED
          BY <5>1, <5>2 DEF c2
      <4>. QED
        BY <4>4, <4>5
    <3>3. PICK b \in {L, R} : \E i \in 1..Len(h[b].children) : cs[m] = h[b].children[i]
      BY <3>2
    <3>4. PICK i \in 1..Len(h[b].children) : cs[m] = h[b].children[i]
      BY <3>3
    <3>. DEFINE d == h[b].children[i]
    <3>5. d \in D /\ V[d] = h[d] /\ d # p /\ d # L /\ d # R
      <4>1. b = L \/ b = R
        BY <3>3
      <4>. QED
        BY <4>1, FlankedChild
    <3>6. cs[m] = d
      BY <3>4
    <3>. HIDE DEF d, cs
    <3>7. W[d] = V[d]
      BY <3>5, <1>10
    <3>. QED
      BY <3>5, <3>6, <3>7
  <2>3. SumCounts(W, cs) = SumCounts(h, cs)
    <3>1. cs \in Numbers /\ \A m \in 1..Len(cs) : TreeCount(W[cs[m]]) = TreeCount(h[cs[m]])
      BY <2>1, <2>2
    <3>. HIDE DEF cs
    <3>. QED
      BY <3>1, SumSame
  <2>. QED
    BY <2>3, <1>9, <1>13 DEF LocalCount
<1>15. \E lo2, hi2 : Form(D, W, rt, ht, lv, lo2, hi2, M)
  BY <1>1, <1>3, <1>6, <1>9, <1>12, <1>14, ShiftForm
<1>16. \A b \in D : W[b].leaf <=> V[b].leaf
  <2>1. ~ V[p].leaf
    BY <1>2, <1>3, <1>4
  <2>. QED
    BY <2>1, <1>3, <1>6, <1>9, <1>10, <1>11
<1>17. \A b \in D \ {L, R} : Len(W[b].keys) = Len(V[b].keys)
  BY <1>5, <1>10, <1>11
<1>. QED
  BY <1>8, <1>9, <1>15, <1>16, <1>17 DEF FixDone

-----------------------------------------------------------------------------
\* Half of what one of two nodes with n and s items has more.
HalfGap(n, s) == (s - n) \div 2

\* How many items a node with too few gets from a neighbour it cannot be
\* merged with: n and s are their items.
Shared(n, s, num, mx, lst) ==
  /\ num \in Int /\ num \in 1..s
  /\ lst <= n + num /\ n + num <= mx
  /\ lst <= s - num /\ s - num <= mx
  /\ n + num \in Int /\ s - num \in Int

\* Half the difference leaves both neighbours enough items.
LEMMA ShareSizes ==
  ASSUME NEW n \in Nat, NEW s \in Nat, NEW mx \in Nat, NEW mn \in Nat, NEW lst \in Nat,
         n < mn, ~ (s + 1 + n <= mx), s <= mx, lst <= mn, mn + mn <= mx,
         NEW num, num = HalfGap(n, s)
  PROVE  Shared(n, s, num, mx, lst)
<1>. DEFINE d == s - n
<1>1. d \in Int /\ d = s - n
  OBVIOUS
<1>2. d >= 2 /\ s + n >= mx
  OBVIOUS
<1>3. num \in Int /\ 2 * num <= d /\ d <= 2 * num + 1
  <2>1. num = d \div 2
    BY DEF HalfGap
  <2>. HIDE DEF d
  <2>. QED
    BY <1>1, <2>1
<1>. HIDE DEF d
<1>4. 1 <= num /\ num <= s
  BY <1>1, <1>2, <1>3
<1>5. lst <= s - num /\ s - num <= mx
  BY <1>1, <1>2, <1>3
<1>6. lst <= n + num /\ n + num <= mx
  BY <1>1, <1>2, <1>3
<1>. QED
  BY <1>3, <1>4, <1>5, <1>6 DEF Shared

\* No node is too full or too poor afterwards.
LEMMA FixFill ==
  ASSUME NEW D, NEW V \in [D -> NodeSet], NEW G, NEW W, NEW L, NEW R, NEW rt, NEW ht, NEW lv, NEW M,
         NEW a, a = L \/ a = R, Fill(D, V, rt, Null, a), FixDone(D, V, G, W, rt, ht, lv, M, L, R),
         L # rt, R # rt, NEW mx \in Int, NEW lst \in Int,
         Fitting(V, W, L, R, mx, lst)
  PROVE  Complete(D, W, rt, ht, lv, M)
<1>1. /\ W \in [D -> NodeSet]
      /\ \A b \in D : W[b].leaf <=> V[b].leaf
      /\ \A b \in D \ {L, R} : Len(W[b].keys) = Len(V[b].keys)
      /\ \E lo2, hi2 : Form(D, W, rt, ht, lv, lo2, hi2, M)
  BY DEF FixDone
<1>2. ASSUME NEW b \in D
      PROVE  /\ b # Null => Len(W[b].keys) <= MaxItems(W[b])
             /\ Len(W[b].keys) <= MaxItems(W[b]) + 1
             /\ b # rt /\ b # Null => LeastItems(W[b]) <= Len(W[b].keys)
             /\ b # rt => LeastItems(W[b]) - 1 <= Len(W[b].keys)
             /\ b = rt /\ b # Null => 1 <= Len(W[b].keys)
  <2>1. W[b].leaf \in BOOLEAN /\ V[b].leaf \in BOOLEAN /\ (W[b].leaf <=> V[b].leaf)
    BY <1>1, NodeFacts
  <2>2. MaxItems(W[b]) = MaxItems(V[b]) /\ LeastItems(W[b]) = LeastItems(V[b])
    BY <2>1, SameSize
  <2>3. CASE b \in {L, R}
    <3>. DEFINE q == Len(W[b].keys)
                m == MaxItems(W[b])
                z == LeastItems(W[b])
    <3>1. m = mx /\ z = lst /\ q \in Int /\ lst <= q /\ q <= mx /\ b # rt
      BY <2>2, <2>3 DEF Fitting
    <3>. HIDE DEF q, m, z
    <3>2. q <= m /\ q <= m + 1 /\ z <= q /\ z - 1 <= q
      BY <3>1
    <3>. QED
      BY <3>1, <3>2 DEF q, m, z
  <2>4. CASE b \notin {L, R}
    <3>1. b # a /\ Len(W[b].keys) = Len(V[b].keys)
      BY <1>1, <2>4
    <3>. QED
      BY <2>2, <3>1 DEF Fill
  <2>. QED
    BY <2>3, <2>4
<1>3. Fill(D, W, rt, Null, Null)
  BY <1>2 DEF Fill
<1>. QED
  BY <1>1, <1>3 DEF Complete

\* The node a with too few items and its neighbour b.
Poor(h, V, a, b, n, s, mx, mn, lst) ==
  /\ n = Len(h[a].keys) /\ s = Len(h[b].keys)
  /\ n \in Nat /\ s \in Nat /\ mx \in Nat /\ mn \in Nat /\ lst \in Nat
  /\ s <= mx /\ lst <= mn /\ mn + mn <= mx /\ 1 <= lst
  /\ MaxItems(h[a]) = mx /\ MaxItems(h[b]) = mx /\ MinItems(h[a]) = mn
  /\ MaxItems(V[a]) = mx /\ MaxItems(V[b]) = mx
  /\ LeastItems(V[a]) = lst /\ LeastItems(V[b]) = lst

\* What the sizes of a poor node and its neighbour are.
LEMMA PoorSizes ==
  ASSUME NEW D, NEW h, NEW rt, NEW ht, NEW lv, NEW lo, NEW hi, NEW M, NEW q,
         Owing(D, h, rt, ht, lv, lo, hi, M, q), NEW V, V = Paid(h, q), NEW a, a = LastNode(q),
         NEW b \in D, b # Null, h[b].leaf <=> h[a].leaf, V[b] = h[b]
  PROVE  Poor(h, V, a, b, Len(h[a].keys), Len(h[b].keys), MaxItems(h[a]), MinItems(h[a]), LeastItems(h[a]))
<1>1. h \in [D -> NodeSet] /\ Fill(D, V, rt, Null, a) /\ a \in D /\ OwingNodes(D, h, V, q)
  BY OwingFacts
<1>2. V[a] = h[a] /\ h[a] \in NodeSet /\ h[b] \in NodeSet
  BY <1>1 DEF OwingNodes
<1>3. h[a].leaf \in BOOLEAN /\ h[b].leaf \in BOOLEAN /\ Len(h[a].keys) \in Nat /\ Len(h[b].keys) \in Nat
  BY <1>2, NodeFacts
<1>4. MaxItems(h[b]) = MaxItems(h[a]) /\ LeastItems(h[b]) = LeastItems(h[a])
  BY <1>3, SameSize
<1>5. Sized(h[a])
  BY <1>3, SizeFacts
<1>6. Len(h[b].keys) <= MaxItems(h[a])
  BY <1>1, <1>4 DEF Fill
<1>. QED
  BY <1>2, <1>3, <1>4, <1>5, <1>6 DEF Poor, Sized

\* The memory W with what node a gets from its right neighbour b.
TakesFromRight(h, p, j, up, a, b, num, G, W) ==
  /\ Len(h[a].keys) < MinItems(h[a]) /\ ~ Fits(h[b], h[a])
  /\ num = HalfGap(Len(h[a].keys), Len(h[b].keys))
  /\ G = RebalanceChildToLeft(h, p, j, num) /\ W = Settled(G, up, p)

\* The last node gets items from its right neighbour.
LEMMA OwingFromRight ==
  ASSUME NEW D, NEW h, NEW rt, NEW ht, NEW lv, NEW lo, NEW hi, NEW M, NEW q,
         Owing(D, h, rt, ht, lv, lo, hi, M, q), Len(q) > 1, NEW a, a = LastNode(q),
         NEW p, p = LastNode(Above(q)), NEW j \in 1..Len(h[p].keys),
         a = h[p].children[j], NEW b, b = h[p].children[j + 1],
         NEW num, NEW G, NEW W, TakesFromRight(h, p, j, Above(q), a, b, num, G, W)
  PROVE  Complete(D, W, rt, ht, lv, M)
<1>. DEFINE V == Paid(h, q)
            up == Above(q)
            n == Len(h[a].keys)
            s == Len(h[b].keys)
            mx == MaxItems(h[a])
            mn == MinItems(h[a])
            lst == LeastItems(h[a])
<1>0. V = Paid(h, q)
  OBVIOUS
<1>. HIDE DEF V
<1>1. /\ V = Paid(h, q) /\ Form(D, V, rt, ht, lv, lo, hi, M) /\ Fill(D, V, rt, Null, a)
      /\ OwingNodes(D, h, V, q) /\ V \in [D -> NodeSet] /\ \A d \in D : d # Null
  <2>0. Form(D, V, rt, ht, lv, lo, hi, M) /\ Fill(D, V, rt, Null, LastNode(q)) /\ OwingNodes(D, h, V, q)
    BY <1>0, OwingFacts
  <2>1. /\ Form(D, V, rt, ht, lv, lo, hi, M) /\ Fill(D, V, rt, Null, a) /\ OwingNodes(D, h, V, q)
    BY <2>0
  <2>2. \A d \in D : d # Null
    BY <2>1 DEF Form, Typed, Null
  <2>3. V \in [D -> NodeSet]
    BY <2>1 DEF OwingNodes
  <2>. QED
    BY <1>0, <2>1, <2>2, <2>3
<1>2. Flanked(D, h, V, lv, p, j, a, b, up) /\ a # rt /\ b # rt
  BY <1>1, OwingFlanked
<1>3. /\ Neighbours(D, V, p, j, a, b) /\ Facing(D, h, p, j, a, b)
      /\ V[a] = h[a] /\ V[b] = h[b] /\ a \in D /\ b \in D /\ (h[b].leaf <=> h[a].leaf)
  BY <1>2, Zenon DEF Flanked, Facing
<1>4. a # rt /\ b # rt /\ b # Null
  BY <1>1, <1>2, <1>3
<1>5. Poor(h, V, a, b, n, s, mx, mn, lst)
  <2>1. V = Paid(h, q) /\ b \in D /\ b # Null /\ (h[b].leaf <=> h[a].leaf) /\ V[b] = h[b]
    BY <1>1, <1>3, <1>4
  <2>. QED
    BY <2>1, PoorSizes, Zenon
<1>6. Shared(n, s, num, mx, lst)
  <2>0. n < mn /\ num = HalfGap(n, s) /\ ~ Fits(h[b], h[a])
    BY Zenon DEF TakesFromRight
  <2>1. /\ n \in Nat /\ s \in Nat /\ mx \in Nat /\ mn \in Nat /\ lst \in Nat
        /\ n < mn /\ s <= mx /\ lst <= mn /\ mn + mn <= mx /\ num = HalfGap(n, s)
    BY <1>5, <2>0, Zenon DEF Poor
  <2>2. ~ (s + 1 + n <= mx)
    BY <1>5, <2>0, Zenon DEF Poor, Fits, NumItems
  <2>. HIDE DEF n, s, mx, mn, lst
  <2>. QED
    BY <2>1, <2>2, ShareSizes
<1>7. SentLeft(D, h, G, p, j, a, b, num)
  <2>1. num \in 1..Len(h[b].keys)
    BY <1>6 DEF Shared
  <2>2. G = RebalanceChildToLeft(h, p, j, num)
    BY Zenon DEF TakesFromRight
  <2>. HIDE DEF up
  <2>. QED
    BY <2>1, <2>2, <1>3, ToLeft
<1>8. FixDone(D, V, G, W, rt, ht, lv, M, a, b)
  <2>1. Rebalanced(D, h, G, p, j, a, b)
    BY <1>7 DEF SentLeft
  <2>2. W = Settled(G, up, p)
    BY Zenon DEF TakesFromRight
  <2>. QED
    BY <1>1, <1>2, <2>1, <2>2, FixForm
<1>9. Len(W[a].keys) = n + num /\ Len(W[b].keys) = s - num
  BY <1>7, <1>8 DEF SentLeft, FixDone
<1>10. Fitting(V, W, a, b, mx, lst)
  <2>1. MaxItems(V[a]) = mx /\ MaxItems(V[b]) = mx /\ LeastItems(V[a]) = lst /\ LeastItems(V[b]) = lst
    BY <1>5 DEF Poor
  <2>2. lst <= n + num /\ n + num <= mx /\ lst <= s - num /\ s - num <= mx
        /\ n + num \in Int /\ s - num \in Int
    BY <1>6 DEF Shared
  <2>. HIDE DEF n, s, mx, lst
  <2>. QED
    BY <2>1, <2>2, <1>9 DEF Fitting
<1>11. mx \in Int /\ lst \in Int
  <2>1. mx \in Nat /\ lst \in Nat
    BY <1>5 DEF Poor
  <2>. HIDE DEF mx, lst
  <2>. QED
    BY <2>1
<1>. HIDE DEF mx, lst
<1>. QED
  BY <1>1, <1>4, <1>8, <1>10, <1>11, FixFill

\* The memory W with what node a gets from its left neighbour b.
TakesFromLeft(h, p, j, up, a, b, num, G, W) ==
  /\ Len(h[a].keys) < MinItems(h[a]) /\ ~ Fits(h[b], h[a])
  /\ num = HalfGap(Len(h[a].keys), Len(h[b].keys))
  /\ G = RebalanceChildToRight(h, p, j - 1, num) /\ W = Settled(G, up, p)

\* The last node gets items from its left neighbour.
LEMMA OwingFromLeft ==
  ASSUME NEW D, NEW h, NEW rt, NEW ht, NEW lv, NEW lo, NEW hi, NEW M, NEW q,
         Owing(D, h, rt, ht, lv, lo, hi, M, q), Len(q) > 1, NEW a, a = LastNode(q),
         NEW p, p = LastNode(Above(q)), NEW j \in 1..Len(h[p].keys),
         NEW b, b = h[p].children[j], a = h[p].children[j + 1],
         NEW num, NEW G, NEW W, TakesFromLeft(h, p, j, Above(q), a, b, num, G, W)
  PROVE  Complete(D, W, rt, ht, lv, M)
<1>. DEFINE V == Paid(h, q)
            up == Above(q)
            n == Len(h[a].keys)
            s == Len(h[b].keys)
            mx == MaxItems(h[a])
            mn == MinItems(h[a])
            lst == LeastItems(h[a])
<1>0. V = Paid(h, q)
  OBVIOUS
<1>. HIDE DEF V
<1>1. /\ V = Paid(h, q) /\ Form(D, V, rt, ht, lv, lo, hi, M) /\ Fill(D, V, rt, Null, a)
      /\ OwingNodes(D, h, V, q) /\ V \in [D -> NodeSet] /\ \A d \in D : d # Null
  <2>0. Form(D, V, rt, ht, lv, lo, hi, M) /\ Fill(D, V, rt, Null, LastNode(q)) /\ OwingNodes(D, h, V, q)
    BY <1>0, OwingFacts
  <2>1. /\ Form(D, V, rt, ht, lv, lo, hi, M) /\ Fill(D, V, rt, Null, a) /\ OwingNodes(D, h, V, q)
    BY <2>0
  <2>2. \A d \in D : d # Null
    BY <2>1 DEF Form, Typed, Null
  <2>3. V \in [D -> NodeSet]
    BY <2>1 DEF OwingNodes
  <2>. QED
    BY <1>0, <2>1, <2>2, <2>3
<1>2. Flanked(D, h, V, lv, p, j, b, a, up) /\ b # rt /\ a # rt
  BY <1>1, OwingFlanked
<1>3. /\ Neighbours(D, V, p, j, b, a) /\ Facing(D, h, p, j, b, a)
      /\ V[a] = h[a] /\ V[b] = h[b] /\ a \in D /\ b \in D /\ (h[b].leaf <=> h[a].leaf)
  BY <1>2, Zenon DEF Flanked, Facing
<1>4. a # rt /\ b # rt /\ b # Null
  BY <1>1, <1>2, <1>3
<1>5. Poor(h, V, a, b, n, s, mx, mn, lst)
  <2>1. V = Paid(h, q) /\ b \in D /\ b # Null /\ (h[b].leaf <=> h[a].leaf) /\ V[b] = h[b]
    BY <1>1, <1>3, <1>4
  <2>. QED
    BY <2>1, PoorSizes, Zenon
<1>6. Shared(n, s, num, mx, lst)
  <2>0. n < mn /\ num = HalfGap(n, s) /\ ~ Fits(h[b], h[a])
    BY Zenon DEF TakesFromLeft
  <2>1. /\ n \in Nat /\ s \in Nat /\ mx \in Nat /\ mn \in Nat /\ lst \in Nat
        /\ n < mn /\ s <= mx /\ lst <= mn /\ mn + mn <= mx /\ num = HalfGap(n, s)
    BY <1>5, <2>0, Zenon DEF Poor
  <2>2. ~ (s + 1 + n <= mx)
    BY <1>5, <2>0, Zenon DEF Poor, Fits, NumItems
  <2>. HIDE DEF n, s, mx, mn, lst
  <2>. QED
    BY <2>1, <2>2, ShareSizes
<1>7. SentRight(D, h, G, p, j, b, a, num)
  <2>1. num \in 1..Len(h[b].keys)
    BY <1>6 DEF Shared
  <2>2. G = RebalanceChildToRight(h, p, j - 1, num)
    BY Zenon DEF TakesFromLeft
  <2>. HIDE DEF up
  <2>. QED
    BY <2>1, <2>2, <1>3, ToRight
<1>8. FixDone(D, V, G, W, rt, ht, lv, M, b, a)
  <2>1. Rebalanced(D, h, G, p, j, b, a)
    BY <1>7 DEF SentRight
  <2>2. W = Settled(G, up, p)
    BY Zenon DEF TakesFromLeft
  <2>. QED
    BY <1>1, <1>2, <2>1, <2>2, FixForm
<1>9. Len(W[a].keys) = n + num /\ Len(W[b].keys) = s - num
  BY <1>7, <1>8 DEF SentRight, FixDone
<1>10. Fitting(V, W, b, a, mx, lst)
  <2>1. MaxItems(V[a]) = mx /\ MaxItems(V[b]) = mx /\ LeastItems(V[a]) = lst /\ LeastItems(V[b]) = lst
    BY <1>5 DEF Poor
  <2>2. lst <= n + num /\ n + num <= mx /\ lst <= s - num /\ s - num <= mx
        /\ n + num \in Int /\ s - num \in Int
    BY <1>6 DEF Shared
  <2>. HIDE DEF n, s, mx, lst
  <2>. QED
    BY <2>1, <2>2, <1>9 DEF Fitting
<1>11. mx \in Int /\ lst \in Int
  <2>1. mx \in Nat /\ lst \in Nat
    BY <1>5 DEF Poor
  <2>. HIDE DEF mx, lst
  <2>. QED
    BY <2>1
<1>. HIDE DEF mx, lst
<1>. QED
  BY <1>1, <1>4, <1>8, <1>10, <1>11, FixFill

-----------------------------------------------------------------------------
(* A node with too few items is merged with a neighbour.                    *)
Merges(n, x, m, w) ==
  /\ w \in NodeSet /\ (w.leaf <=> n.leaf)
  /\ w.keys = Link(n.keys, x, m.keys)
  /\ Len(w.keys) = Len(n.keys) + 1 + Len(m.keys)
  /\ w.children = n.children \o m.children
  /\ TreeCount(w) = TreeCount(n) + TreeCount(m) + 1

SameKind(n, m) == n.leaf <=> m.leaf

\* MergeFromRight: the left node has the items of both and the one between.
LEMMA MergeFacts ==
  ASSUME NEW n \in NodeSet, NEW m \in NodeSet, SameKind(n, m), NEW x \in Int,
         NEW w, w = MergeFromRight(n, x, m)
  PROVE  Merges(n, x, m, w)
<1>0. n.leaf <=> m.leaf
  BY DEF SameKind
<1>. DEFINE ks == Link(n.keys, x, m.keys)
            cs == n.children \o m.children
            d == TreeCount(m) + 1
            n2 == [n EXCEPT !.keys = @ \o <<x>> \o m.keys, !.children = @ \o m.children]
<1>1. n.keys \in Numbers /\ m.keys \in Numbers /\ n.children \in Numbers /\ m.children \in Numbers
      /\ n.leaf \in BOOLEAN /\ n.cnt \in Int /\ Len(n.keys) \in Nat /\ Len(m.keys) \in Nat
  BY NodeFacts
<1>2. ks \in Numbers /\ Len(ks) = Len(n.keys) + 1 + Len(m.keys)
  <2>. DEFINE s == n.keys
              t == m.keys
  <2>1. s \in Numbers /\ t \in Numbers
    BY <1>1
  <2>. HIDE DEF s, t
  <2>2. Link(s, x, t) \in Numbers /\ Len(Link(s, x, t)) = Len(s) + 1 + Len(t)
    BY <2>1, LinkNumbers
  <2>. QED
    BY <2>2 DEF s, t
<1>3. cs \in Numbers
  BY <1>1, JoinNumbers
<1>4. n2.leaf = n.leaf /\ n2.keys = ks /\ n2.children = cs /\ n2.cnt = n.cnt
  BY DEF NodeSet, Link
<1>. HIDE DEF ks, cs
<1>5. n2 \in NodeSet
  BY <1>1, <1>2, <1>3, <1>4 DEF NodeSet
<1>6. w = IncreaseTreeCount(n2, d)
  BY DEF MergeFromRight
<1>. HIDE DEF n2
<1>7. TreeCount(m) \in Int /\ TreeCount(n) \in Int /\ d \in Int
  BY TreeCountType
<1>. HIDE DEF d
<1>8. Bumped(n2, w, d)
  BY <1>5, <1>6, <1>7, BumpDone
<1>9. w \in NodeSet /\ (w.leaf <=> n.leaf) /\ w.keys = ks /\ w.children = cs
  BY <1>4, <1>8 DEF Bumped
<1>10. TreeCount(w) = TreeCount(n) + TreeCount(m) + 1
  <2>1. CASE n.leaf
    <3>1. w.leaf /\ m.leaf
      BY <2>1, <1>0, <1>9
    <3>2. TreeCount(w) = Len(ks) /\ TreeCount(n) = Len(n.keys) /\ TreeCount(m) = Len(m.keys)
      BY <2>1, <3>1, <1>9 DEF TreeCount, NumItems
    <3>3. Len(ks) = Len(n.keys) + 1 + Len(m.keys) /\ Len(n.keys) \in Nat /\ Len(m.keys) \in Nat
      BY <1>1, <1>2
    <3>. DEFINE u == Len(n.keys)
                v == Len(m.keys)
    <3>0. u \in Nat /\ v \in Nat
      BY <3>3
    <3>. HIDE DEF u, v
    <3>4. u + 1 + v = u + v + 1
      BY <3>0
    <3>. QED
      BY <3>2, <3>3, <3>4 DEF u, v
  <2>2. CASE ~ n.leaf
    <3>1. TreeCount(w) = TreeCount(n2) + d
      BY <2>2, <1>4, <1>8 DEF Bumped
    <3>2. TreeCount(n2) = TreeCount(n)
      BY <2>2, <1>4 DEF TreeCount
    <3>. DEFINE s == TreeCount(n)
                t == TreeCount(m)
    <3>3. TreeCount(w) = s + d /\ d = t + 1 /\ s \in Int /\ t \in Int
      BY <3>1, <3>2, <1>7 DEF d
    <3>. HIDE DEF s, t
    <3>4. TreeCount(w) = s + t + 1
      BY <3>3
    <3>. QED
      BY <3>4 DEF s, t
  <2>. QED
    BY <2>1, <2>2
<1>. QED
  BY <1>2, <1>9, <1>10 DEF ks, cs, Merges

\* ShiftLeft of an inner node.
LEMMA ShiftLeftFacts ==
  ASSUME NEW n \in NodeSet, ~ n.leaf, NEW j \in 1..Len(n.keys), Len(n.children) = Len(n.keys) + 1,
         NEW w, w = ShiftLeft(n, j - 1)
  PROVE  /\ w \in NodeSet /\ ~ w.leaf /\ w.cnt = n.cnt
         /\ Without(n.keys, w.keys, j) /\ Without(n.children, w.children, j + 1)
         /\ Len(w.keys) = Len(n.keys) - 1
<1>1. n.keys \in Numbers /\ n.children \in Numbers /\ n.leaf \in BOOLEAN /\ n.cnt \in Int /\ Len(n.keys) \in Nat
  BY NodeFacts
<1>. DEFINE ks == n.keys
            cs == n.children
            k == j + 1
<1>2. (j - 1) + 1 = j /\ (j - 1) + 2 = k /\ k \in 1..Len(cs)
  <2>. DEFINE u == Len(ks)
              v == Len(cs)
  <2>1. u \in Nat /\ j \in 1..u /\ v = u + 1
    BY <1>1
  <2>. HIDE DEF u, v
  <2>2. (j - 1) + 1 = j /\ (j - 1) + 2 = k /\ k \in 1..v
    BY <2>1
  <2>. QED
    BY <2>2 DEF v
<1>3. w.leaf = n.leaf /\ w.keys = Ext!RemoveAt(ks, j) /\ w.children = Ext!RemoveAt(cs, k) /\ w.cnt = n.cnt
      /\ w \in [leaf : BOOLEAN, keys : {w.keys}, children : {w.children}, cnt : Int]
  BY <1>1, <1>2 DEF ShiftLeft, NodeSet
<1>. HIDE DEF k, ks, cs
<1>4. Ext!RemoveAt(ks, j) \in Numbers /\ Without(ks, Ext!RemoveAt(ks, j), j)
  BY <1>1, RemoveWithout DEF ks
<1>5. Ext!RemoveAt(cs, k) \in Numbers /\ Without(cs, Ext!RemoveAt(cs, k), k)
  BY <1>1, <1>2, RemoveWithout DEF cs
<1>6. w \in NodeSet
  BY <1>3, <1>4, <1>5 DEF NodeSet
<1>7. Len(w.keys) = Len(n.keys) - 1
  <2>1. Len(n.keys) = Len(w.keys) + 1 /\ Len(w.keys) \in Nat
    BY <1>3, <1>4, <1>6, NodeFacts DEF Without, ks
  <2>. QED
    BY <2>1
<1>. QED
  BY <1>3, <1>4, <1>5, <1>6, <1>7 DEF k, ks, cs

\* R's items and the item before them are put into L.
Merging(h, p, j, L, R) ==
  [h EXCEPT ![L] = MergeFromRight(@, h[p].keys[j], h[R]), ![p] = ShiftLeft(@, j - 1)]

\* The nodes after the merger, with an item less below p.
Merger(h, p, j, L, R) ==
  Destroy([Merging(h, p, j, L, R) EXCEPT ![p] = IncreaseTreeCount(@, -1)], {R})

MergedNodes(D, h, h3, p, j, L, R) ==
  /\ h3 \in [D \ {R} -> NodeSet]
  /\ h3[p] = IncreaseTreeCount(ShiftLeft(h[p], j - 1), -1)
  /\ h3[L] = MergeFromRight(h[L], h[p].keys[j], h[R])
  /\ \A b \in D \ {p, L, R} : h3[b] = h[b]

\* The nodes after a merge: the parent has lost an item and a child.
LEMMA MergerFacts ==
  ASSUME NEW D, NEW h, NEW p, NEW j, NEW L, NEW R, Facing(D, h, p, j, L, R),
         ~ h[p].leaf, Len(h[p].children) = Len(h[p].keys) + 1,
         NEW h3, h3 = Merger(h, p, j, L, R)
  PROVE  MergedNodes(D, h, h3, p, j, L, R)
<1>1. /\ h \in [D -> NodeSet]
      /\ p \in D /\ L \in D /\ R \in D /\ p # L /\ p # R /\ L # R
      /\ j \in 1..Len(h[p].keys) /\ (h[R].leaf <=> h[L].leaf)
  BY DEF Facing
<1>2. h[p] \in NodeSet /\ h[L] \in NodeSet /\ h[R] \in NodeSet
  BY <1>1
<1>. DEFINE x == h[p].keys[j]
            m == MergeFromRight(h[L], x, h[R])
            w == ShiftLeft(h[p], j - 1)
            d == -1
            w2 == IncreaseTreeCount(w, d)
<1>3. m \in NodeSet
  <2>1. x \in Int /\ m = MergeFromRight(h[L], x, h[R])
    BY <1>1, <1>2, NodeFacts
  <2>2. SameKind(h[L], h[R])
    BY <1>1 DEF SameKind
  <2>. HIDE DEF x, m
  <2>3. Merges(h[L], x, h[R], m)
    BY <1>2, <2>1, <2>2, MergeFacts
  <2>. QED
    BY <2>3 DEF Merges
<1>4. w2 \in NodeSet
  <2>1. w \in NodeSet
    BY <1>1, <1>2, ShiftLeftFacts
  <2>2. w2 = IncreaseTreeCount(w, d) /\ d \in Int
    OBVIOUS
  <2>. HIDE DEF w2, w, d
  <2>3. Bumped(w, w2, d)
    BY <2>1, <2>2, BumpDone
  <2>. QED
    BY <2>3 DEF Bumped
<1>5. h3 = Destroy([[h EXCEPT ![L] = m, ![p] = w] EXCEPT ![p] = IncreaseTreeCount(@, d)], {R})
  BY <1>1 DEF Merger, Merging
<1>. HIDE DEF m, w, d, w2
<1>. DEFINE G == [h EXCEPT ![L] = m, ![p] = w]
            H == [G EXCEPT ![p] = IncreaseTreeCount(@, d)]
<1>6. DOMAIN G = D /\ G[p] = w /\ G[L] = m /\ \A b \in D \ {p, L} : G[b] = h[b]
  BY <1>1
<1>7. DOMAIN H = D /\ H[p] = w2 /\ H[L] = m /\ \A b \in D \ {p, L} : H[b] = h[b]
  BY <1>1, <1>6 DEF w2
<1>8. h3 = [b \in D \ {R} |-> H[b]]
  BY <1>5, <1>7 DEF Destroy
<1>. HIDE DEF H, G
<1>9. \A b \in D \ {R} : H[b] \in NodeSet
  BY <1>1, <1>3, <1>4, <1>7
<1>. QED
  BY <1>1, <1>7, <1>8, <1>9 DEF MergedNodes, m, w, w2, d

-----------------------------------------------------------------------------
\* The path to the parent, at its first position.
Upward(q) == Push(Above(Above(q)), LastNode(Above(q)), 0)

Lifted(D, h, rt, ht, lv, q, t) ==
  /\ On(D, h, rt, ht, lv, t)
  /\ Above(t) = Above(Above(q)) /\ LastNode(t) = LastNode(Above(q))
  /\ Len(t) = Len(Above(q)) /\ t # <<>>

\* The path to the parent of its last node.
LEMMA UpwardFacts ==
  ASSUME NEW D, NEW h, NEW rt, NEW ht \in Nat, NEW lv, NEW q, On(D, h, rt, ht, lv, q), Len(q) > 1,
         NEW t, t = Upward(q)
  PROVE  Lifted(D, h, rt, ht, lv, q, t)
<1>. DEFINE up == Above(q)
            top == Above(up)
            p == LastNode(up)
<1>1. On(D, h, rt, ht, lv, up)
  BY OnAbove
<1>2. up \in Steps /\ Len(up) \in Nat /\ Len(up) >= 1 /\ p \in Int /\ p \in D /\ p = up[Len(up)].node
      /\ LastPos(up) \in 0..Len(h[p].keys)
  BY <1>1, OnLast
<1>3. top \in Steps /\ Len(top) = Len(up) - 1 /\ \A k \in 1..(Len(up) - 1) : top[k] = up[k]
  BY <1>2, AboveFacts
<1>. HIDE DEF top, p, up
<1>4. t = Push(top, p, 0)
  BY DEF Upward, top, p, up
<1>. DEFINE z == 0
<1>5. z \in Int /\ t = Push(top, p, z)
  BY <1>4
<1>. HIDE DEF z
<1>6. /\ t \in Steps /\ Len(t) = Len(top) + 1
      /\ \A k \in 1..Len(top) : t[k] = top[k]
      /\ LastNode(t) = p /\ t[Len(top) + 1].node = p /\ t[Len(top) + 1].pos = z
  <2>1. top \in Steps /\ p \in Int
    BY <1>2, <1>3
  <2>. QED
    BY <2>1, <1>5, PushFacts
<1>. DEFINE m == Len(up)
<1>7. Len(t) = m /\ m \in Nat /\ m >= 1 /\ t[m].node = p /\ t[m].pos = 0
      /\ \A k \in 1..(m - 1) : t[k] = up[k]
  <2>0. m \in Nat /\ m >= 1 /\ Len(top) = m - 1
    BY <1>2, <1>3
  <2>. HIDE DEF m
  <2>1. Len(top) + 1 = m
    BY <2>0
  <2>2. \A k \in 1..(m - 1) : t[k] = up[k]
    BY <2>0, <1>3, <1>6 DEF m
  <2>. QED
    BY <2>0, <2>1, <2>2, <1>6 DEF z
<1>8. Above(t) = top
  <2>1. t \in Steps /\ Len(t) >= 1
    BY <1>6, <1>7
  <2>2. Above(t) \in Steps /\ Len(Above(t)) = Len(t) - 1 /\ \A k \in 1..(Len(t) - 1) : Above(t)[k] = t[k]
    BY <2>1, AboveFacts
  <2>3. Len(Above(t)) = m - 1 /\ Len(top) = m - 1 /\ \A k \in 1..(m - 1) : Above(t)[k] = top[k]
    BY <2>2, <1>3, <1>7
  <2>4. Above(t) \in Seq([node : Int, pos : Int]) /\ top \in Seq([node : Int, pos : Int])
    BY <2>2, <1>3 DEF Steps
  <2>5. Len(Above(t)) = Len(top) /\ \A k \in 1..Len(Above(t)) : Above(t)[k] = top[k]
    BY <2>3
  <2>. QED
    BY <2>4, <2>5, SeqEqual
<1>9. On(D, h, rt, ht, lv, t)
  <2>. HIDE DEF m
  <2>1. m \in 1..ht /\ up[1].node = rt
        /\ (\A k \in 1..m : /\ up[k].node \in D
                            /\ lv[up[k].node] = (ht - k) + 1
                            /\ up[k].pos \in 0..Len(h[up[k].node].keys))
        /\ (\A k \in 1..(m - 1) : up[k + 1].node = h[up[k].node].children[up[k].pos + 1])
    BY <1>1 DEF On, m
  <2>2. up[m].node = p
    BY <1>2 DEF m
  <2>3. \A k \in 1..m : t[k].node = up[k].node
    <3>1. ASSUME NEW k \in 1..m PROVE t[k].node = up[k].node
      <4>1. k = m \/ k \in 1..(m - 1)
        BY <1>7
      <4>. QED
        BY <4>1, <2>2, <1>7
    <3>. QED
      BY <3>1
  <2>4. \A k \in 1..m : t[k].pos \in 0..Len(h[t[k].node].keys)
    <3>1. ASSUME NEW k \in 1..m PROVE t[k].pos \in 0..Len(h[t[k].node].keys)
      <4>1. CASE k = m
        <5>1. LastPos(up) \in 0..Len(h[p].keys)
          BY <1>2
        <5>2. 0 \in 0..Len(h[p].keys)
          BY <5>1
        <5>. QED
          BY <4>1, <5>2, <1>7
      <4>2. CASE k \in 1..(m - 1)
        BY <4>2, <2>1, <2>3, <1>7, <3>1
      <4>3. k = m \/ k \in 1..(m - 1)
        BY <1>7
      <4>. QED
        BY <4>1, <4>2, <4>3
    <3>. QED
      BY <3>1
  <2>5. \A k \in 1..(m - 1) : t[k + 1].node = h[t[k].node].children[t[k].pos + 1]
    <3>1. ASSUME NEW k \in 1..(m - 1)
          PROVE  t[k + 1].node = h[t[k].node].children[t[k].pos + 1]
      <4>1. k + 1 \in 1..m /\ t[k] = up[k]
        BY <1>7
      <4>. QED
        BY <4>1, <2>1, <2>3
    <3>. QED
      BY <3>1
  <2>6. 1 \in 1..m
    BY <1>7
  <2>7. t \in Steps /\ Len(t) = m
    BY <1>6, <1>7
  <2>. QED
    BY <2>1, <2>3, <2>4, <2>5, <2>6, <2>7 DEF On
<1>10. t # <<>>
  BY <1>7
<1>. QED
  BY <1>6, <1>7, <1>8, <1>9, <1>10 DEF m, top, p, up, Lifted

\* A path is one in a tree that differs elsewhere and has no node R.
LEMMA OnWithout ==
  ASSUME NEW D, NEW h, NEW rt, NEW ht \in Nat, NEW lv, NEW t, On(D, h, rt, ht, lv, t),
         NEW R, ~ OnPath(t, R), NEW h3, LastPos(t) = 0,
         \A b \in D : OnPath(Above(t), b) => h3[b] = h[b],
         Len(h3[LastNode(t)].keys) \in Nat
  PROVE  On(D \ {R}, h3, rt, ht, Off(D, R, lv), t)
<1>. DEFINE m == Len(t)
<1>1. t \in Steps /\ m \in Nat /\ m >= 1 /\ LastNode(t) = t[m].node /\ LastPos(t) = t[m].pos
  BY OnLast
<1>2. /\ m \in 1..ht /\ t[1].node = rt
      /\ (\A k \in 1..m : /\ t[k].node \in D
                          /\ lv[t[k].node] = (ht - k) + 1
                          /\ t[k].pos \in 0..Len(h[t[k].node].keys))
      /\ (\A k \in 1..(m - 1) : t[k + 1].node = h[t[k].node].children[t[k].pos + 1])
  BY DEF On
<1>3. \A k \in 1..m : t[k].node \in D \ {R} /\ Off(D, R, lv)[t[k].node] = (ht - k) + 1
  <2>1. \A k \in 1..m : t[k].node # R
    BY DEF OnPath
  <2>. QED
    BY <2>1, <1>2 DEF Off
<1>4. \A k \in 1..(m - 1) : h3[t[k].node] = h[t[k].node]
  <2>1. ASSUME NEW k \in 1..(m - 1) PROVE h3[t[k].node] = h[t[k].node]
    <3>1. Len(Above(t)) = m - 1 /\ Above(t)[k] = t[k] /\ k \in 1..m
      BY <1>1, AboveFacts
    <3>2. OnPath(Above(t), t[k].node) /\ t[k].node \in D
      BY <3>1, <1>2 DEF OnPath
    <3>. QED
      BY <3>2
  <2>. QED
    BY <2>1
<1>5. \A k \in 1..m : t[k].pos \in 0..Len(h3[t[k].node].keys)
  <2>1. ASSUME NEW k \in 1..m PROVE t[k].pos \in 0..Len(h3[t[k].node].keys)
    <3>. HIDE DEF m
    <3>1. k = m \/ k \in 1..(m - 1)
      BY <1>1
    <3>2. CASE k = m
      BY <3>2, <1>1
    <3>3. CASE k \in 1..(m - 1)
      BY <3>3, <1>2, <1>4, <2>1
    <3>. QED
      BY <3>1, <3>2, <3>3
  <2>. QED
    BY <2>1
<1>6. \A k \in 1..(m - 1) : t[k + 1].node = h3[t[k].node].children[t[k].pos + 1]
  BY <1>2, <1>4
<1>. QED
  BY <1>1, <1>2, <1>3, <1>5, <1>6 DEF On

-----------------------------------------------------------------------------
\* N is V after L and R have been merged, below the path t.
MergerDone(D, h3, rt, ht, lv, V, N, p, j, L, R, t) ==
  /\ Joined(D, V, N, p, j, L, R)
  /\ On(D \ {R}, h3, rt, ht, Off(D, R, lv), t)

\* After a merge the tree is in order and the parent is the node that may be
\* poor.
LEMMA MergerJoined ==
  ASSUME NEW D, NEW h, NEW rt, NEW ht, NEW lv, NEW lo, NEW hi, NEW M, NEW q,
         Owing(D, h, rt, ht, lv, lo, hi, M, q), NEW V, V = Paid(h, q), Len(q) > 1,
         NEW p, p = LastNode(Above(q)), NEW j, NEW L, NEW R,
         Flanked(D, h, V, lv, p, j, L, R, Above(q)),
         NEW h3, MergedNodes(D, h, h3, p, j, L, R), NEW N, N = Paid(h3, Upward(q))
  PROVE  MergerDone(D, h3, rt, ht, lv, V, N, p, j, L, R, Upward(q))
<1>. DEFINE up == Above(q)
            t == Upward(q)
            top == Above(t)
            x == h[p].keys[j]
            w == ShiftLeft(h[p], j - 1)
<1>1. /\ h \in [D -> NodeSet] /\ ht \in Nat /\ On(D, h, rt, ht, lv, q)
      /\ Form(D, V, rt, ht, lv, lo, hi, M) /\ OwingNodes(D, h, V, q)
  BY OwingFacts
<1>2. /\ V \in [D -> NodeSet]
      /\ \A b \in D : OnPath(up, b) => V[b] = IncreaseTreeCount(h[b], -1)
      /\ \A b \in D : ~ OnPath(up, b) => V[b] = h[b]
      /\ \A b \in D : /\ V[b].leaf <=> h[b].leaf
                      /\ V[b].keys = h[b].keys
                      /\ V[b].children = h[b].children
  BY <1>1 DEF OwingNodes
<1>3. /\ Neighbours(D, V, p, j, L, R) /\ Facing(D, h, p, j, L, R)
      /\ h[p] \in NodeSet /\ ~ h[p].leaf
      /\ V[p] = IncreaseTreeCount(h[p], -1) /\ OnPath(up, p)
      /\ ~ OnPath(up, L) /\ ~ OnPath(up, R)
      /\ V[L] = h[L] /\ V[R] = h[R]
      /\ h[p].children[j] = L /\ h[p].children[j + 1] = R
  BY DEF Flanked
<1>4. /\ p \in D /\ L \in D /\ R \in D /\ p # L /\ p # R /\ L # R
      /\ j \in 1..Len(h[p].keys) /\ (h[R].leaf <=> h[L].leaf)
  BY <1>3 DEF Facing
<1>5. /\ h3 \in [D \ {R} -> NodeSet]
      /\ h3[p] = IncreaseTreeCount(w, -1)
      /\ h3[L] = MergeFromRight(h[L], x, h[R])
      /\ \A b \in D \ {p, L, R} : h3[b] = h[b]
  BY DEF MergedNodes
<1>6. Len(h[p].children) = Len(h[p].keys) + 1
  BY <1>2, <1>3, <1>4 DEF Neighbours
<1>7. On(D, h, rt, ht, lv, up) /\ On(D, h, rt, ht, lv, t) /\ top = Above(up) /\ LastNode(t) = p
  <2>1. On(D, h, rt, ht, lv, up)
    BY <1>1, OnAbove
  <2>2. t = Upward(q)
    OBVIOUS
  <2>. HIDE DEF t
  <2>3. Lifted(D, h, rt, ht, lv, q, t)
    BY <1>1, <2>2, UpwardFacts
  <2>. QED
    BY <2>1, <2>3 DEF Lifted
<1>8. \A b : OnPath(top, b) <=> OnPath(up, b) /\ b # p
  BY <1>1, <1>7, AboveNodes
<1>9. \A b : OnPath(t, b) <=> OnPath(up, b)
  <2>1. \A b : OnPath(top, b) <=> OnPath(t, b) /\ b # p
    BY <1>1, <1>7, AboveNodes
  <2>2. OnPath(t, p)
    <3>1. t \in Steps /\ Len(t) \in Nat /\ Len(t) >= 1 /\ LastNode(t) = t[Len(t)].node
      BY <1>1, <1>7, OnLast
    <3>2. Len(t) \in 1..Len(t)
      BY <3>1
    <3>. QED
      BY <3>1, <3>2, <1>7 DEF OnPath
  <2>. QED
    BY <2>1, <2>2, <1>3, <1>8
<1>10. /\ w \in NodeSet /\ ~ w.leaf /\ w.cnt = h[p].cnt
       /\ Without(h[p].keys, w.keys, j) /\ Without(h[p].children, w.children, j + 1)
       /\ Len(w.keys) = Len(h[p].keys) - 1
  BY <1>3, <1>4, <1>6, ShiftLeftFacts, Zenon
<1>. HIDE DEF w
<1>11. /\ h3[L] \in NodeSet /\ (h3[L].leaf <=> h[L].leaf)
       /\ h3[L].keys = Link(h[L].keys, x, h[R].keys)
       /\ h3[L].children = h[L].children \o h[R].children
       /\ TreeCount(h3[L]) = TreeCount(h[L]) + TreeCount(h[R]) + 1
  <2>. DEFINE n == h[L]
              m == h[R]
              y == h3[L]
  <2>1. n \in NodeSet /\ m \in NodeSet /\ SameKind(n, m)
    BY <1>1, <1>3, <1>4 DEF SameKind
  <2>2. x \in Int
    BY <1>3, <1>4, NodeFacts
  <2>3. y = MergeFromRight(n, x, m)
    BY <1>5
  <2>. HIDE DEF x, n, m, y
  <2>4. Merges(n, x, m, y)
    BY <2>1, <2>2, <2>3, MergeFacts
  <2>. QED
    BY <2>4 DEF n, m, y, Merges
<1>12. Raised(D \ {R}, h3, N, top, -1)
  <2>. DEFINE D2 == D \ {R}
              d == -1
  <2>1. N = IncreaseSubtreeCounts(h3, top, d) /\ d \in Int /\ h3 \in [D2 -> NodeSet]
    BY <1>5 DEF Paid
  <2>. HIDE DEF D2, d, top
  <2>2. Raised(D2, h3, N, top, d)
    BY <2>1, RaiseFacts
  <2>. QED
    BY <2>2 DEF D2, d
<1>13. /\ N \in [D \ {R} -> NodeSet]
       /\ \A b \in D \ {R} : OnPath(top, b) => N[b] = IncreaseTreeCount(h3[b], -1)
       /\ \A b \in D \ {R} : ~ OnPath(top, b) => N[b] = h3[b]
       /\ \A b \in D \ {R} : (N[b].leaf <=> h3[b].leaf) /\ N[b].keys = h3[b].keys
  BY <1>12 DEF Raised
<1>14. N[L] = h3[L] /\ N[p] = h3[p]
  BY <1>3, <1>4, <1>8, <1>13
<1>15. \A b \in D \ {p, L, R} : N[b] = V[b]
  <2>1. ASSUME NEW b \in D \ {p, L, R}
        PROVE  N[b] = V[b]
    <3>1. h3[b] = h[b] /\ b \in D /\ b \in D \ {R} /\ b # p
      BY <1>5
    <3>2. CASE OnPath(up, b)
      BY <3>1, <3>2, <1>2, <1>8, <1>13
    <3>3. CASE ~ OnPath(up, b)
      BY <3>1, <3>3, <1>2, <1>8, <1>13
    <3>. QED
      BY <3>2, <3>3
  <2>. QED
    BY <2>1
<1>16. /\ ~ N[p].leaf /\ ~ V[p].leaf /\ N[p].cnt = V[p].cnt
       /\ N[p].keys = w.keys /\ N[p].children = w.children
       /\ V[p].keys = h[p].keys /\ V[p].children = h[p].children
  <2>1. N[p] = [w EXCEPT !.cnt = @ + (-1)] /\ V[p] = [h[p] EXCEPT !.cnt = @ + (-1)]
    BY <1>3, <1>5, <1>10, <1>14 DEF IncreaseTreeCount
  <2>2. /\ ~ N[p].leaf /\ N[p].cnt = w.cnt + (-1) /\ V[p].cnt = h[p].cnt + (-1) /\ ~ V[p].leaf
        /\ N[p].children = w.children /\ V[p].children = h[p].children
        /\ N[p].keys = w.keys /\ V[p].keys = h[p].keys
    BY <2>1, <1>3, <1>10 DEF NodeSet
  <2>. QED
    BY <2>2, <1>10
<1>17. Joined(D, V, N, p, j, L, R)
  <2>1. /\ j \in 1..Len(V[p].keys) /\ V[p].children[j] = L /\ V[p].children[j + 1] = R
        /\ Len(V[p].children) = Len(V[p].keys) + 1
    BY <1>3 DEF Neighbours
  <2>2. Without(V[p].keys, N[p].keys, j) /\ Without(V[p].children, N[p].children, j + 1)
    BY <1>10, <1>16
  <2>3. /\ (N[L].leaf <=> V[L].leaf) /\ (V[R].leaf <=> V[L].leaf)
        /\ N[L].keys = Link(V[L].keys, V[p].keys[j], V[R].keys)
        /\ N[L].children = V[L].children \o V[R].children
        /\ TreeCount(N[L]) = TreeCount(V[L]) + TreeCount(V[R]) + 1
    BY <1>3, <1>4, <1>11, <1>14, <1>16
  <2>. QED
    BY <1>2, <1>4, <1>13, <1>15, <1>16, <2>1, <2>2, <2>3 DEF Joined
<1>18. On(D \ {R}, h3, rt, ht, Off(D, R, lv), t)
  <2>1. ~ OnPath(t, R)
    BY <1>3, <1>9
  <2>2. LastPos(t) = 0
    <3>1. Above(up) \in Steps /\ p \in Int
      <4>1. up \in Steps /\ Len(up) >= 1 /\ LastNode(up) \in Int
        BY <1>1, <1>7, OnLast
      <4>. QED
        BY <4>1, AboveFacts
    <3>. DEFINE z == 0
                s == Above(up)
    <3>2. t = Push(s, p, z) /\ z \in Int /\ s \in Steps
      BY <3>1 DEF Upward
    <3>. HIDE DEF z, t, s
    <3>3. LastPos(t) = z
      BY <3>1, <3>2, PushFacts
    <3>. QED
      BY <3>3 DEF z
  <2>3. \A b \in D : OnPath(top, b) => h3[b] = h[b]
    BY <1>3, <1>5, <1>8
  <2>4. Len(h3[p].keys) \in Nat
    BY <1>4, <1>5, NodeFacts
  <2>. HIDE DEF t
  <2>. QED
    BY <2>1, <2>2, <2>3, <2>4, <1>1, <1>7, OnWithout
<1>. QED
  BY <1>17, <1>18 DEF MergerDone

-----------------------------------------------------------------------------
Roomy(h, L, R) == Len(h[L].keys) + 1 + Len(h[R].keys) <= MaxItems(h[L])

\* The merged node is full enough, and its parent has an item less.
LEMMA MergerFill ==
  ASSUME NEW D, NEW V, NEW N, NEW rt, NEW p, NEW j, NEW L, NEW R, Joined(D, V, N, p, j, L, R),
         NEW a, a = L \/ a = R, Fill(D, V, rt, Null, a), L # rt, R # rt,
         \A b \in D : b # Null,
         Roomy(V, L, R)
  PROVE  Fill(D \ {R}, N, rt, Null, p)
<1>0. Len(V[L].keys) + 1 + Len(V[R].keys) <= MaxItems(V[L])
  BY DEF Roomy
<1>1. /\ p \in D /\ L \in D /\ R \in D /\ p # L /\ p # R /\ L # R
      /\ V \in [D -> NodeSet] /\ N \in [D \ {R} -> NodeSet]
      /\ \A b \in D \ {p, L, R} : N[b] = V[b]
      /\ j \in 1..Len(V[p].keys) /\ Without(V[p].keys, N[p].keys, j)
      /\ ~ N[p].leaf /\ ~ V[p].leaf
      /\ (N[L].leaf <=> V[L].leaf) /\ (V[R].leaf <=> V[L].leaf)
      /\ N[L].keys = Link(V[L].keys, V[p].keys[j], V[R].keys)
  BY DEF Joined
<1>2. \A b \in D : /\ Len(V[b].keys) \in Nat /\ V[b].leaf \in BOOLEAN /\ V[b].keys \in Numbers
                   /\ Sized(V[b])
  BY <1>1, NodeFacts, SizeFacts
<1>3. \A b \in D : Len(V[b].keys) <= MaxItems(V[b])
  BY DEF Fill
<1>4. ASSUME NEW b \in D \ {R}
      PROVE  /\ b # Null => Len(N[b].keys) <= MaxItems(N[b])
             /\ Len(N[b].keys) <= MaxItems(N[b]) + 1
             /\ b # rt /\ b # p => LeastItems(N[b]) <= Len(N[b].keys)
             /\ b # rt => LeastItems(N[b]) - 1 <= Len(N[b].keys)
             /\ b = rt /\ b # p => 1 <= Len(N[b].keys)
  <2>1. CASE b = L
    <3>. DEFINE l == Len(V[L].keys)
                r == Len(V[R].keys)
                k == Len(N[L].keys)
                m == MaxItems(V[L])
                z == LeastItems(V[L])
    <3>1. MaxItems(N[L]) = m /\ LeastItems(N[L]) = z /\ LeastItems(V[R]) = z
      <4>1. N[L].leaf \in BOOLEAN
        BY <1>1, NodeFacts
      <4>. QED
        BY <4>1, <1>1, <1>2, SameSize
    <3>2. k = l + 1 + r
      <4>1. V[p].keys[j] \in Int
        BY <1>1, NodeFacts
      <4>2. V[L].keys \in Numbers /\ V[R].keys \in Numbers
        BY <1>1, <1>2
      <4>. DEFINE s == V[L].keys
                  t == V[R].keys
                  x == V[p].keys[j]
                  y == N[L].keys
      <4>3. y = Link(s, x, t) /\ s \in Numbers /\ t \in Numbers /\ x \in Int
        BY <1>1, <4>1, <4>2
      <4>. HIDE DEF s, t, x, y
      <4>4. Len(y) = Len(s) + 1 + Len(t)
        BY <4>3, LinkNumbers
      <4>. QED
        BY <4>4 DEF s, t, y
    <3>3. l \in Nat /\ r \in Nat /\ m \in Nat /\ z \in Nat /\ l + 1 + r <= m
      BY <1>0, <1>1, <1>2 DEF Sized
    <3>4. z <= l \/ z <= r
      <4>1. LeastItems(V[L]) <= l \/ LeastItems(V[R]) <= r
        BY <1>1 DEF Fill
      <4>. QED
        BY <4>1, <3>1
    <3>5. b # rt
      BY <2>1
    <3>. HIDE DEF l, r, k, m, z
    <3>6. k <= m /\ k <= m + 1 /\ z <= k /\ z - 1 <= k
      BY <3>2, <3>3, <3>4
    <3>. QED
      BY <2>1, <3>1, <3>5, <3>6 DEF k
  <2>2. CASE b = p
    <3>. DEFINE l == Len(V[p].keys)
                k == Len(N[p].keys)
                m == MaxItems(V[p])
                z == LeastItems(V[p])
    <3>1. MaxItems(N[p]) = m /\ LeastItems(N[p]) = z
      <4>1. N[p].leaf \in BOOLEAN
        BY <1>1, NodeFacts
      <4>. QED
        BY <4>1, <1>1, <1>2, SameSize
    <3>2. l = k + 1
      BY <1>1 DEF Without
    <3>3. l \in Nat /\ k \in Nat /\ m \in Nat /\ z \in Nat /\ l <= m
      BY <1>1, <1>2, <1>3, NodeFacts DEF Sized
    <3>4. p # rt => z <= l
      BY <1>1 DEF Fill
    <3>. HIDE DEF l, k, m, z
    <3>5. k <= m /\ k <= m + 1
      BY <3>2, <3>3
    <3>6. z <= l => z - 1 <= k
      BY <3>2, <3>3
    <3>. QED
      BY <2>2, <3>1, <3>4, <3>5, <3>6 DEF k
  <2>3. CASE b \notin {p, L}
    <3>1. N[b] = V[b] /\ b # a /\ b \in D
      BY <1>1, <2>3
    <3>. QED
      BY <3>1 DEF Fill
  <2>. QED
    BY <2>1, <2>2, <2>3
<1>. QED
  BY <1>4 DEF Fill

\* L and R have been merged; the parent of q's node is to be looked at.
Fused(D, h3, rt, ht, M, q, L, R) ==
  /\ L \in D /\ R \in D /\ L # R
  /\ Upward(q) # <<>>
  /\ Above(Upward(q)) = Above(Above(q)) /\ LastNode(Upward(q)) = LastNode(Above(q))
  /\ \E lv2, lo2, hi2 : Owing(D \ {R}, h3, rt, ht, lv2, lo2, hi2, M, Upward(q))

\* Merging the last node with a neighbour leaves its parent to be looked at.
LEMMA OwingMerge ==
  ASSUME NEW D, NEW h, NEW rt, NEW ht, NEW lv, NEW lo, NEW hi, NEW M, NEW q,
         Owing(D, h, rt, ht, lv, lo, hi, M, q), Len(q) > 1, NEW a, a = LastNode(q),
         NEW p, p = LastNode(Above(q)), NEW j \in 1..Len(h[p].keys),
         NEW L, L = h[p].children[j], NEW R, R = h[p].children[j + 1], a = L \/ a = R, Roomy(h, L, R),
         NEW h3, h3 = Merger(h, p, j, L, R)
  PROVE  Fused(D, h3, rt, ht, M, q, L, R)
<1>. DEFINE V == Paid(h, q)
            N == Paid(h3, Upward(q))
            up == Above(q)
            t == Upward(q)
            D2 == D \ {R}
            lv2 == Off(D, R, lv)
            lo2 == Off(D, R, lo)
            hi2 == Over(D, L, R, hi)
<1>0. V = Paid(h, q) /\ N = Paid(h3, Upward(q))
  OBVIOUS
<1>. HIDE DEF V, N
<1>1. /\ Form(D, V, rt, ht, lv, lo, hi, M) /\ Fill(D, V, rt, Null, LastNode(q))
      /\ OwingNodes(D, h, V, q) /\ On(D, h, rt, ht, lv, q) /\ ht \in Nat /\ h \in [D -> NodeSet]
  BY <1>0, OwingFacts
<1>2. Flanked(D, h, V, lv, p, j, L, R, up)
  BY <1>0, OwingFlanked
<1>3. /\ Neighbours(D, V, p, j, L, R) /\ Facing(D, h, p, j, L, R)
      /\ ~ h[p].leaf /\ V[L] = h[L] /\ V[R] = h[R]
      /\ L \in D /\ R \in D /\ L # R /\ p \in D
  BY <1>2, Zenon DEF Flanked, Facing
<1>4. MergedNodes(D, h, h3, p, j, L, R)
  <2>1. Len(V[p].children) = Len(V[p].keys) + 1
    BY <1>3 DEF Neighbours
  <2>2. V[p].children = h[p].children /\ V[p].keys = h[p].keys
    BY <1>1, <1>3 DEF OwingNodes
  <2>3. Facing(D, h, p, j, L, R) /\ ~ h[p].leaf /\ Len(h[p].children) = Len(h[p].keys) + 1
        /\ h3 = Merger(h, p, j, L, R)
    BY <1>3, <2>1, <2>2
  <2>. QED
    BY <2>3, MergerFacts
<1>5. /\ Joined(D, V, N, p, j, L, R)
      /\ On(D \ {R}, h3, rt, ht, Off(D, R, lv), Upward(q))
  <2>1. MergerDone(D, h3, rt, ht, lv, V, N, p, j, L, R, Upward(q))
    BY <1>0, <1>2, <1>4, MergerJoined
  <2>. QED
    BY <2>1 DEF MergerDone
<1>6. Form(D2, N, rt, ht, lv2, lo2, hi2, M)
  BY <1>1, <1>5, JoinForm
<1>7. Fill(D2, N, rt, Null, p)
  <2>1. L # rt /\ R # rt
    <3>1. Form(D, V, rt, ht, lv, lo, hi, M) /\ Neighbours(D, V, p, j, L, R)
      BY <1>1, <1>3
    <3>. QED
      BY <3>1, ChildNotRoot
  <2>2. \A d \in D : d # Null
    BY <1>1 DEF Form, Typed, Null
  <2>3. Roomy(V, L, R)
    BY <1>3 DEF Roomy
  <2>4. Fill(D, V, rt, Null, a) /\ Joined(D, V, N, p, j, L, R)
    BY <1>1, <1>5
  <2>. QED
    BY <2>1, <2>2, <2>3, <2>4, MergerFill
<1>8. /\ Above(t) = Above(Above(q)) /\ LastNode(t) = LastNode(Above(q)) /\ t # <<>>
  <2>1. On(D, h, rt, ht, lv, q) /\ Len(q) > 1 /\ ht \in Nat /\ t = Upward(q)
    BY <1>1
  <2>. HIDE DEF t
  <2>2. Lifted(D, h, rt, ht, lv, q, t)
    BY <2>1, UpwardFacts
  <2>. QED
    BY <2>2 DEF Lifted
<1>10. h3 \in [D2 -> NodeSet]
  BY <1>4 DEF MergedNodes
<1>11. Owing(D2, h3, rt, ht, lv2, lo2, hi2, M, Upward(q))
  <2>. HIDE DEF D2, lv2, lo2, hi2, t
  <2>1. Fill(D2, N, rt, Null, LastNode(Upward(q)))
    BY <1>7, <1>8 DEF t
  <2>2. On(D2, h3, rt, ht, lv2, Upward(q))
    BY <1>5 DEF D2, lv2
  <2>. QED
    BY <1>0, <1>6, <1>10, <2>1, <2>2 DEF Owing
<1>12. \E lv3, lo3, hi3 : Owing(D \ {R}, h3, rt, ht, lv3, lo3, hi3, M, Upward(q))
  <2>. HIDE DEF lv2, lo2, hi2
  <2>. QED
    BY <1>11
<1>. QED
  BY <1>3, <1>8, <1>12 DEF Fused

-----------------------------------------------------------------------------
(* A round of the loop of Delete.                                           *)

\* What MergeOrRebalanceChild does with child a of p: K is its result.
MendMerge(h, p, j, K) ==
  /\ K.retired = h[p].children[j + 1]
  /\ K.nodes = Merging(h, p, j, h[p].children[j], h[p].children[j + 1])

MendLeft(h, p, j, a, K) ==
  LET b == h[p].children[j + 1] IN
  /\ a = h[p].children[j] /\ ~ Fits(h[b], h[a])
  /\ K.retired = Null
  /\ K.nodes = RebalanceChildToLeft(h, p, j, (Len(h[b].keys) - Len(h[a].keys)) \div 2)

MendRight(h, p, j, a, K) ==
  LET b == h[p].children[j] IN
  /\ a = h[p].children[j + 1] /\ ~ Fits(h[b], h[a])
  /\ K.retired = Null
  /\ K.nodes = RebalanceChildToRight(h, p, j - 1, (Len(h[b].keys) - Len(h[a].keys)) \div 2)

\* Child j of p or the one behind it is a, and they fit into one node.
Meeting(h, p, j, a) ==
  LET L == h[p].children[j]
      R == h[p].children[j + 1]
  IN (a = R /\ Fits(h[L], h[a])) \/ (a = L /\ Fits(h[R], h[a]))

\* MergeOrRebalanceChild merges the child with a neighbour or takes items
\* from one, on either side.
LEMMA MendCases ==
  ASSUME NEW h, NEW p, NEW m, m = Len(h[p].keys), m \in Nat, m >= 1, NEW pos \in 0..m,
         NEW a, a = h[p].children[pos + 1], NEW K, K = MergeOrRebalanceChild(h, p, pos)
  PROVE  \E j \in 1..m :
           \/ Meeting(h, p, j, a) /\ MendMerge(h, p, j, K)
           \/ MendLeft(h, p, j, a, K)
           \/ MendRight(h, p, j, a, K)
<1>. DEFINE k1 == pos + 1
            b == h[p].children[pos]
            c == h[p].children[k1 + 1]
            q0 == pos - 1
            Merged(at) ==
              [retired |-> Child(h[p], at + 1),
               nodes   |-> [h EXCEPT
                 ![Child(h[p], at)] = MergeFromRight(@, Key(h[p], at), h[Child(h[p], at + 1)]),
                 ![p] = ShiftLeft(@, at)]]
<1>1. q0 \in Int /\ q0 + 1 = pos /\ k1 \in Int /\ k1 = pos + 1 /\ k1 - 1 = pos
      /\ pos \in Int
  OBVIOUS
<1>2. /\ Child(h[p], pos) = a /\ Child(h[p], pos - 1) = b /\ Child(h[p], pos + 1) = c
      /\ Child(h[p], q0) = b /\ Child(h[p], q0 + 1) = a
      /\ Key(h[p], q0) = h[p].keys[pos] /\ Key(h[p], pos) = h[p].keys[k1]
  <2>1. Child(h[p], q0) = b /\ Key(h[p], q0) = h[p].keys[pos]
    <3>. HIDE DEF q0
    <3>. QED
      BY <1>1 DEF Child, Key
  <2>. QED
    BY <1>1, <2>1 DEF Child, Key
<1>3. CASE pos > 0 /\ Fits(h[b], h[a])
  <2>1. K = Merged(q0)
    BY <1>2, <1>3, Zenon DEF MergeOrRebalanceChild
  <2>2. pos \in 1..m
    BY <1>3
  <2>3. MendMerge(h, p, pos, K)
    <3>1. K.retired = a /\ K.nodes = [h EXCEPT ![b] = MergeFromRight(@, h[p].keys[pos], h[a]),
                                               ![p] = ShiftLeft(@, q0)]
      <4>1. /\ K.retired = Child(h[p], q0 + 1)
            /\ K.nodes = [h EXCEPT
                 ![Child(h[p], q0)] = MergeFromRight(@, Key(h[p], q0), h[Child(h[p], q0 + 1)]),
                 ![p] = ShiftLeft(@, q0)]
        BY <2>1
      <4>. QED
        BY <4>1, <1>2
    <3>. QED
      BY <3>1 DEF MendMerge, Merging
  <2>4. Meeting(h, p, pos, a)
    BY <1>3 DEF Meeting
  <2>. QED
    BY <2>2, <2>3, <2>4
<1>4. CASE ~ (pos > 0 /\ Fits(h[b], h[a])) /\ pos < m /\ Fits(h[c], h[a])
  <2>1. K = Merged(pos)
    BY <1>2, <1>4, Zenon DEF MergeOrRebalanceChild, NumItems
  <2>2. k1 \in 1..m
    BY <1>4
  <2>3. MendMerge(h, p, k1, K)
    <3>1. K.retired = c /\ K.nodes = [h EXCEPT ![a] = MergeFromRight(@, h[p].keys[k1], h[c]),
                                               ![p] = ShiftLeft(@, pos)]
      <4>1. /\ K.retired = Child(h[p], pos + 1)
            /\ K.nodes = [h EXCEPT
                 ![Child(h[p], pos)] = MergeFromRight(@, Key(h[p], pos), h[Child(h[p], pos + 1)]),
                 ![p] = ShiftLeft(@, pos)]
        BY <2>1
      <4>. QED
        BY <4>1, <1>2
    <3>2. h[p].children[k1] = a
      OBVIOUS
    <3>3. Merging(h, p, k1, a, c) = [h EXCEPT ![a] = MergeFromRight(@, h[p].keys[k1], h[c]),
                                              ![p] = ShiftLeft(@, pos)]
      <4>. HIDE DEF k1, c
      <4>. QED
        BY <1>1 DEF Merging
    <3>. QED
      BY <3>1, <3>2, <3>3 DEF MendMerge
  <2>4. Meeting(h, p, k1, a)
    BY <1>4 DEF Meeting
  <2>. HIDE DEF k1
  <2>. QED
    BY <2>2, <2>3, <2>4
<1>5. CASE ~ (pos > 0 /\ Fits(h[b], h[a])) /\ pos < m /\ ~ Fits(h[c], h[a])
  <2>1. K = [retired |-> Null, nodes |->
               RebalanceChildToLeft(h, p, k1, (Len(h[c].keys) - Len(h[a].keys)) \div 2)]
    BY <1>2, <1>5 DEF MergeOrRebalanceChild, NumItems
  <2>2. k1 \in 1..m
    BY <1>5
  <2>3. MendLeft(h, p, k1, a, K)
    BY <1>5, <2>1 DEF MendLeft
  <2>. HIDE DEF k1
  <2>. QED
    BY <2>2, <2>3
<1>6. CASE ~ (pos > 0 /\ Fits(h[b], h[a])) /\ ~ (pos < m)
  <2>1. K = [retired |-> Null, nodes |->
               RebalanceChildToRight(h, p, q0, (Len(h[b].keys) - Len(h[a].keys)) \div 2)]
    BY <1>2, <1>6 DEF MergeOrRebalanceChild, NumItems
  <2>2. pos \in 1..m /\ pos > 0
    BY <1>6
  <2>3. MendRight(h, p, pos, a, K)
    BY <1>6, <2>1, <2>2 DEF MendRight
  <2>. QED
    BY <2>2, <2>3
<1>. QED
  BY <1>3, <1>4, <1>5, <1>6

-----------------------------------------------------------------------------
\* After the repair of the node that q leads to: all is done, or a node has
\* gone and its parent is to be looked at.
Mended(D, rt, ht, lv, M, q, K, h2) ==
  \/ K.retired = Null /\ Complete(D, IncreaseSubtreeCounts(h2, Above(Above(q)), -1), rt, ht, lv, M)
  \/ /\ K.retired \in D /\ K.retired # Null
     /\ Upward(q) # <<>>
     /\ Above(Upward(q)) = Above(Above(q)) /\ LastNode(Upward(q)) = LastNode(Above(q))
     /\ \E lv2, lo2, hi2 :
          Owing(D \ {K.retired}, Destroy(h2, {K.retired}), rt, ht, lv2, lo2, hi2, M, Upward(q))

\* The child a step of the path goes to is the next node of the path.
LEMMA LastChild ==
  ASSUME NEW D, NEW h, NEW rt, NEW ht \in Nat, NEW lv, NEW q, On(D, h, rt, ht, lv, q), Len(q) > 1,
         NEW p, p = LastNode(Above(q)), NEW a, a = LastNode(q)
  PROVE  h[p].children[LastPos(Above(q)) + 1] = a
BY OnAbove

\* A poor node is mended whatever MergeOrRebalanceChild does: nothing is
\* poor any more, or its parent is.
LEMMA FixMend ==
  ASSUME NEW D, NEW h, NEW rt, NEW ht, NEW lv, NEW lo, NEW hi, NEW M, NEW q,
         Owing(D, h, rt, ht, lv, lo, hi, M, q), Len(q) > 1, NEW a, a = LastNode(q),
         Len(h[a].keys) < MinItems(h[a]),
         NEW p, p = LastNode(Above(q)), NEW K, K = MergeOrRebalanceChild(h, p, LastPos(Above(q))),
         NEW h2, h2 = [K.nodes EXCEPT ![p] = IncreaseTreeCount(@, -1)]
  PROVE  Mended(D, rt, ht, lv, M, q, K, h2)
<1>. DEFINE V == Paid(h, q)
            up == Above(q)
            m == Len(h[p].keys)
            pos == LastPos(up)
<1>0. V = Paid(h, q)
  OBVIOUS
<1>. HIDE DEF V
<1>1. /\ Form(D, V, rt, ht, lv, lo, hi, M) /\ Fill(D, V, rt, Null, a)
      /\ OwingNodes(D, h, V, q) /\ On(D, h, rt, ht, lv, q) /\ ht \in Nat /\ h \in [D -> NodeSet]
      /\ a \in D
  <2>1. /\ Form(D, V, rt, ht, lv, lo, hi, M) /\ Fill(D, V, rt, Null, LastNode(q))
        /\ OwingNodes(D, h, V, q) /\ On(D, h, rt, ht, lv, q) /\ ht \in Nat /\ h \in [D -> NodeSet]
        /\ LastNode(q) \in D
    BY <1>0, OwingFacts
  <2>. QED
    BY <2>1
<1>2. /\ On(D, h, rt, ht, lv, up) /\ h[p].children[pos + 1] = a
                      /\ Len(up) = Len(q) - 1
  <2>0. ht \in Nat /\ On(D, h, rt, ht, lv, q)
    BY <1>1
  <2>1. On(D, h, rt, ht, lv, up)
    BY <2>0, OnAbove
  <2>2. Len(up) = Len(q) - 1
    BY <2>0, OnAbove
  <2>3. h[p].children[pos + 1] = a
    BY <2>0, LastChild
  <2>. QED
    BY <2>1, <2>2, <2>3
<1>3. p \in D /\ pos \in 0..m
  BY <1>1, <1>2, OnLast
<1>4. p # a
  <2>1. a = h[p].children[pos + 1]
    BY <1>2
  <2>2. lv[p] = (ht - Len(up)) + 1 /\ lv[a] = (ht - Len(q)) + 1
    BY <1>1, <1>2, OnLast
  <2>3. Len(up) = Len(q) - 1 /\ Len(q) \in Nat
    BY <1>1, <1>2, OnLast
  <2>. QED
    BY <1>1, <2>2, <2>3
<1>5. m \in Nat /\ m >= 1
  <2>1. V[p].keys = h[p].keys /\ (V[p].leaf <=> h[p].leaf) /\ V \in [D -> NodeSet]
    BY <1>1, <1>3 DEF OwingNodes
  <2>2. V[p].leaf \in BOOLEAN /\ m \in Nat
    BY <1>1, <1>3, <2>1, NodeFacts
  <2>3. Sized(V[p])
    BY <2>2, SizeFacts
  <2>4. p # Null
    BY <1>1, <1>3 DEF Form, Typed, Null
  <2>5. LeastItems(V[p]) <= m \/ 1 <= m
    BY <1>1, <1>3, <1>4, <2>1, <2>4 DEF Fill
  <2>6. LeastItems(V[p]) \in Nat /\ 1 <= LeastItems(V[p])
    BY <2>3 DEF Sized
  <2>. HIDE DEF m
  <2>. QED
    BY <2>2, <2>5, <2>6
<1>6. PICK j \in 1..m :
        \/ Meeting(h, p, j, a) /\ MendMerge(h, p, j, K)
        \/ MendLeft(h, p, j, a, K)
        \/ MendRight(h, p, j, a, K)
  <2>1. m = Len(h[p].keys) /\ m \in Nat /\ m >= 1 /\ pos \in 0..m /\ a = h[p].children[pos + 1]
        /\ K = MergeOrRebalanceChild(h, p, pos)
    BY <1>2, <1>3, <1>5
  <2>. HIDE DEF m, pos
  <2>. QED
    BY <2>1, MendCases
<1>. DEFINE L == h[p].children[j]
            R == h[p].children[j + 1]
<1>7. CASE MendLeft(h, p, j, a, K)
  <2>. DEFINE num == HalfGap(Len(h[a].keys), Len(h[R].keys))
              G == RebalanceChildToLeft(h, p, j, num)
              W == Settled(G, up, p)
  <2>1. a = L /\ ~ Fits(h[R], h[a]) /\ K.retired = Null /\ K.nodes = G
    BY <1>7, Zenon DEF MendLeft, HalfGap
  <2>2. Complete(D, W, rt, ht, lv, M)
    <3>1. /\ j \in 1..Len(h[p].keys) /\ a = h[p].children[j] /\ R = h[p].children[j + 1]
          /\ TakesFromRight(h, p, j, Above(q), a, R, num, G, W)
      BY <2>1, <1>1, <1>2, Zenon DEF TakesFromRight
    <3>. HIDE DEF num, G, W, R, m
    <3>. QED
      BY <3>1, OwingFromRight
  <2>3. W = IncreaseSubtreeCounts(h2, Above(Above(q)), -1)
    <3>. HIDE DEF G
    <3>. QED
      BY <2>1 DEF Settled
  <2>. HIDE DEF W
  <2>. QED
    BY <2>1, <2>2, <2>3, Zenon DEF Mended
<1>8. CASE MendRight(h, p, j, a, K)
  <2>. DEFINE num == HalfGap(Len(h[a].keys), Len(h[L].keys))
              G == RebalanceChildToRight(h, p, j - 1, num)
              W == Settled(G, up, p)
  <2>1. a = R /\ ~ Fits(h[L], h[a]) /\ K.retired = Null /\ K.nodes = G
    BY <1>8, Zenon DEF MendRight, HalfGap
  <2>2. Complete(D, W, rt, ht, lv, M)
    <3>1. /\ j \in 1..Len(h[p].keys) /\ L = h[p].children[j] /\ a = h[p].children[j + 1]
          /\ TakesFromLeft(h, p, j, Above(q), a, L, num, G, W)
      BY <2>1, <1>1, <1>2, Zenon DEF TakesFromLeft
    <3>. HIDE DEF num, G, W, L, m
    <3>. QED
      BY <3>1, OwingFromLeft
  <2>3. W = IncreaseSubtreeCounts(h2, Above(Above(q)), -1)
    <3>. HIDE DEF G
    <3>. QED
      BY <2>1 DEF Settled
  <2>. HIDE DEF W
  <2>. QED
    BY <2>1, <2>2, <2>3, Zenon DEF Mended
<1>9. CASE Meeting(h, p, j, a) /\ MendMerge(h, p, j, K)
  <2>. DEFINE h3 == Merger(h, p, j, L, R)
              t == Upward(q)
  <2>1. K.retired = R /\ K.nodes = Merging(h, p, j, L, R)
    BY <1>9 DEF MendMerge
  <2>2. a = L \/ a = R
    BY <1>9 DEF Meeting
  <2>3. L \in D /\ R \in D /\ (h[R].leaf <=> h[L].leaf)
    <3>1. V = Paid(h, q) /\ j \in 1..Len(h[p].keys) /\ L = h[p].children[j] /\ R = h[p].children[j + 1]
      BY <1>0
    <3>. HIDE DEF L, R, m, up
    <3>2. Flanked(D, h, V, lv, p, j, L, R, Above(q))
      BY <3>1, OwingFlanked
    <3>. QED
      BY <3>2 DEF Flanked, Facing
  <2>4. Roomy(h, L, R)
    <3>1. h[L].leaf \in BOOLEAN /\ h[R].leaf \in BOOLEAN /\ Len(h[L].keys) \in Nat /\ Len(h[R].keys) \in Nat
      BY <1>1, <2>3, NodeFacts
    <3>2. MaxItems(h[L]) = MaxItems(h[R])
      BY <2>3, <3>1, SameSize
    <3>. DEFINE nl == Len(h[L].keys)
                nr == Len(h[R].keys)
                mx == MaxItems(h[L])
    <3>3. nl + 1 + nr <= mx \/ nr + 1 + nl <= mx
      BY <1>9, <2>2, <3>2 DEF Meeting, Fits, NumItems
    <3>4. nl \in Nat /\ nr \in Nat
      BY <3>1
    <3>. HIDE DEF nl, nr, mx
    <3>5. nl + 1 + nr = nr + 1 + nl
      BY <3>4
    <3>6. nl + 1 + nr <= mx
      BY <3>3, <3>5
    <3>. QED
      BY <3>6 DEF nl, nr, mx, Roomy
  <2>5. /\ R \in D /\ t # <<>>
        /\ Above(t) = Above(Above(q)) /\ LastNode(t) = LastNode(Above(q))
        /\ \E lv2, lo2, hi2 : Owing(D \ {R}, h3, rt, ht, lv2, lo2, hi2, M, t)
    <3>1. j \in 1..Len(h[p].keys) /\ L = h[p].children[j] /\ R = h[p].children[j + 1]
          /\ h3 = Merger(h, p, j, L, R)
      OBVIOUS
    <3>. HIDE DEF L, R, m, h3, t, up, pos
    <3>2. Fused(D, h3, rt, ht, M, q, L, R)
      BY <2>2, <2>4, <3>1, OwingMerge
    <3>. QED
      BY <3>2 DEF t, Fused
  <2>6. Destroy(h2, {K.retired}) = h3
    BY <2>1 DEF Merger
  <2>7. R # Null
    BY <1>1, <2>3 DEF Form, Typed, Null
  <2>. HIDE DEF L, R, h3
  <2>. QED
    BY <2>1, <2>5, <2>6, <2>7 DEF Mended
<1>. QED
  BY <1>6, <1>7, <1>8, <1>9

-----------------------------------------------------------------------------
\* A tree between two calls: M is its items, and Top.
Tidy(h, rt, ht, M) ==
  \/ rt = Null /\ DOMAIN h = {} /\ ht = 0 /\ M = {Top}
  \/ rt # Null /\ \E lv : Complete(DOMAIN h, h, rt, ht, lv, M)

\* A tree with the last node of path to be repaired.
Fixable(h, rt, ht, M, path) ==
  /\ path # <<>>
  /\ \E lv, lo, hi, q :
       /\ Owing(DOMAIN h, h, rt, ht, lv, lo, hi, M, q)
       /\ Above(path) = Above(q) /\ LastNode(path) = LastNode(q)

\* After a round of the loop of Delete.
Settling(h, rt, ht, M, j) ==
  \/ j = Idle /\ Tidy(h, rt, ht, M)
  \/ \E path : j = Fixing(path) /\ Fixable(h, rt, ht, M, path)

\* A tree that owes and awaits nothing has no nodes but its own.
LEMMA CompleteTidy ==
  ASSUME NEW h, NEW rt, NEW ht, NEW lv, NEW D, D = DOMAIN h, NEW M, Complete(D, h, rt, ht, lv, M)
  PROVE  Tidy(h, rt, ht, M) /\ rt # Null /\ IsFiniteSet(D) /\ rt \in D
<1>1. \E lo, hi : Form(D, h, rt, ht, lv, lo, hi, M)
  BY DEF Complete
<1>2. rt \in D /\ D \subseteq Nat \ {0} /\ IsFiniteSet(D)
  BY <1>1 DEF Form, Rooted, Typed
<1>. QED
  BY <1>2 DEF Tidy, Null

\* A node less.
LEMMA LessOne ==
  ASSUME NEW D, IsFiniteSet(D), NEW x \in D
  PROVE  IsFiniteSet(D \ {x}) /\ Cardinality(D \ {x}) = Cardinality(D) - 1 /\ Cardinality(D) \in Nat
BY FS_RemoveElement, FS_CardinalityType

\* Destroyed nodes are nodes no more.
LEMMA DestroyDomain ==
  ASSUME NEW h, NEW S
  PROVE  DOMAIN Destroy(h, S) = DOMAIN h \ S
BY DEF Destroy

\* The nodes are still counted and the tree tidy, or a node above is to be
\* repaired.
LEMMA FixStep ==
  ASSUME NEW h, NEW M, NEW path, Fixable(h, root, height, M, path),
         num_nodes = Cardinality(DOMAIN h), FixUnderflow(h, path)
  PROVE  num_nodes' = Cardinality(DOMAIN nodes') /\ Settling(nodes', root', height', M, job')
<1>. DEFINE D == DOMAIN h
            rt == root
            ht == height
            up == Above(path)
            a == LastNode(path)
            p == LastNode(up)
            K == MergeOrRebalanceChild(h, p, LastPos(up))
            h2 == [K.nodes EXCEPT ![p] = IncreaseTreeCount(@, -1)]
            few == Len(h[a].keys) < MinItems(h[a])
<1>1. PICK lv, lo, hi, q : /\ Owing(D, h, rt, ht, lv, lo, hi, M, q)
                           /\ up = Above(q) /\ a = LastNode(q)
  BY DEF Fixable
<1>2. /\ h \in [D -> NodeSet] /\ ht \in Nat /\ On(D, h, rt, ht, lv, q) /\ a \in D
      /\ Form(D, Paid(h, q), rt, ht, lv, lo, hi, M)
  <2>. DEFINE V == Paid(h, q)
  <2>1. V = Paid(h, q)
    OBVIOUS
  <2>. HIDE DEF V
  <2>2. /\ h \in [D -> NodeSet] /\ ht \in Nat /\ On(D, h, rt, ht, lv, q) /\ LastNode(q) \in D
        /\ Form(D, V, rt, ht, lv, lo, hi, M)
    BY <1>1, <2>1, OwingFacts
  <2>. QED
    BY <1>1, <2>1, <2>2
<1>3. IsFiniteSet(D) /\ rt \in D /\ rt # Null /\ \A b \in D : b # Null
  BY <1>2 DEF Form, Typed, Rooted, Null
<1>4. Len(h[a].keys) \in Nat /\ MinItems(h[a]) \in Nat
  <2>1. h[a].leaf \in BOOLEAN /\ Len(h[a].keys) \in Nat
    BY <1>2, NodeFacts
  <2>2. Sized(h[a])
    BY <2>1, SizeFacts
  <2>. QED
    BY <2>1, <2>2 DEF Sized
<1>5. /\ Len(q) \in Nat /\ Len(q) >= 1 /\ q \in Steps
  BY <1>2, OnLast
<1>6. Len(up) = Len(q) - 1 /\ up \in Steps
  BY <1>1, <1>5, AboveFacts
<1>7. (Len(q) = 1 <=> up = <<>>) /\ (up # <<>> => Len(q) > 1)
  BY <1>5, <1>6, StepsFacts
<1>. HIDE DEF up, a, D, K, h2, p
<1>8. CASE ~ few /\ Return(IncreaseSubtreeCounts(h, up, -1))
  <2>. DEFINE W == IncreaseSubtreeCounts(h, up, -1)
  <2>1. W = Paid(h, q)
    BY <1>1 DEF Paid
  <2>2. MinItems(h[a]) <= Len(h[a].keys)
    BY <1>4, <1>8
  <2>. HIDE DEF few
  <2>3. Complete(D, Paid(h, q), rt, ht, lv, M)
    BY <1>1, <2>2, OwingEnough
  <2>4. DOMAIN W = D
    BY DEF IncreaseSubtreeCounts, D
  <2>. HIDE DEF W, rt, ht
  <2>5. Tidy(W, rt, ht, M)
    BY <2>1, <2>3, <2>4, CompleteTidy
  <2>6. nodes' = W /\ job' = Idle /\ root' = rt /\ height' = ht /\ num_nodes' = num_nodes
    BY <1>8 DEF Return, W, rt, ht
  <2>. QED
    BY <2>4, <2>5, <2>6 DEF Settling, D
<1>9. CASE few /\ up = <<>> /\ Len(h[a].keys) > 0 /\ Return(h)
  <2>1. Len(q) = 1
    BY <1>7, <1>9
  <2>2. a = rt
    BY <1>1, <2>1, OwingRoot
  <2>3. Complete(D, h, rt, ht, lv, M)
    <3>1. Len(h[rt].keys) > 0
      BY <1>9, <2>2
    <3>2. Len(h[rt].keys) > 0 => Complete(D, h, rt, ht, lv, M)
      BY <1>1, <2>1, OwingRoot
    <3>. QED
      BY <3>1, <3>2
  <2>4. Tidy(h, rt, ht, M)
    BY <2>3, CompleteTidy DEF D
  <2>. QED
    BY <1>9, <2>4 DEF Return, Settling
<1>10. CASE /\ few /\ up = <<>> /\ Len(h[a].keys) = 0
            /\ root' = IF h[a].leaf THEN Null ELSE h[a].children[1]
            /\ nodes' = Destroy(h, {rt})
            /\ height' = ht - 1
            /\ num_nodes' = num_nodes - 1
            /\ job' = Idle
  <2>1. Len(q) = 1
    BY <1>7, <1>10
  <2>2. a = rt
    BY <1>1, <2>1, OwingRoot
  <2>3. Form(D, h, rt, ht, lv, lo, hi, M)
    BY <1>1, <2>1, OwingRoot
  <2>4. Fill(D, h, rt, Null, rt)
    BY <1>1, <2>1, OwingRoot
  <2>5. DOMAIN nodes' = D \ {rt}
    BY <1>10, DestroyDomain DEF D
  <2>6. num_nodes' = Cardinality(DOMAIN nodes')
    BY <1>3, <1>10, <2>5, LessOne DEF D
  <2>7. CASE h[a].leaf
    <3>1. D = {rt} /\ ht = 1 /\ M = {Top}
      BY <1>10, <2>2, <2>3, <2>7, OwingEmpty
    <3>2. root' = Null /\ height' = 0 /\ DOMAIN nodes' = {}
      <4>1. root' = Null
        BY <1>10, <2>7
      <4>2. DOMAIN nodes' = {}
        BY <2>5, <3>1
      <4>3. height' = 0
        <5>1. height' = ht - 1
          BY <1>10
        <5>. HIDE DEF ht
        <5>. QED
          BY <5>1, <3>1
      <4>. QED
        BY <4>1, <4>2, <4>3
    <3>. QED
      BY <1>10, <2>6, <3>1, <3>2 DEF Settling, Tidy
  <2>8. CASE ~ h[a].leaf
    <3>. DEFINE G == Destroy(h, {rt})
    <3>1. \E lv2 : Complete(D \ {rt}, G, h[rt].children[1], ht - 1, lv2, M)
      <4>1. Len(h[rt].keys) = 0 /\ ~ h[rt].leaf /\ G = Destroy(h, {rt})
        BY <1>10, <2>2, <2>8
      <4>. HIDE DEF G, rt, ht
      <4>. QED
        BY <2>3, <2>4, <4>1, OwingLower
    <3>2. PICK lv2 : Complete(D \ {rt}, G, h[rt].children[1], ht - 1, lv2, M)
      BY <3>1
    <3>. DEFINE r2 == root'
                H2 == height'
                g2 == nodes'
    <3>3. Complete(DOMAIN g2, g2, r2, H2, lv2, M)
      BY <1>10, <2>2, <2>5, <2>8, <3>2
    <3>. HIDE DEF r2, H2, g2
    <3>4. Tidy(g2, r2, H2, M)
      BY <3>3, CompleteTidy
    <3>. QED
      BY <1>10, <2>6, <3>4 DEF Settling, r2, H2, g2
  <2>. QED
    BY <2>7, <2>8
<1>11. few /\ up # <<>> => Mended(D, rt, ht, lv, M, q, K, h2)
  <2>1. SUFFICES ASSUME few, up # <<>> PROVE Mended(D, rt, ht, lv, M, q, K, h2)
    OBVIOUS
  <2>2. /\ Owing(D, h, rt, ht, lv, lo, hi, M, q) /\ Len(q) > 1 /\ a = LastNode(q)
        /\ Len(h[a].keys) < MinItems(h[a])
        /\ p = LastNode(Above(q)) /\ K = MergeOrRebalanceChild(h, p, LastPos(Above(q)))
        /\ h2 = [K.nodes EXCEPT ![p] = IncreaseTreeCount(@, -1)]
    BY <1>1, <1>7, <2>1 DEF up, p, K, h2
  <2>. HIDE DEF rt, ht, few
  <2>. QED
    BY <2>2, FixMend
<1>12. CASE few /\ up # <<>> /\ K.retired = Null /\ Return(IncreaseSubtreeCounts(h2, Above(up), -1))
  <2>. DEFINE W == IncreaseSubtreeCounts(h2, Above(up), -1)
  <2>1. Complete(D, W, rt, ht, lv, M)
    BY <1>1, <1>11, <1>12 DEF Mended
  <2>2. DOMAIN W = D
    BY <2>1 DEF Complete, Form, Typed
  <2>. HIDE DEF W, rt, ht
  <2>3. Tidy(W, rt, ht, M)
    BY <2>1, <2>2, CompleteTidy
  <2>4. nodes' = W /\ job' = Idle /\ root' = rt /\ height' = ht /\ num_nodes' = num_nodes
    BY <1>12 DEF Return, W, rt, ht
  <2>. QED
    BY <2>2, <2>3, <2>4 DEF Settling, D
<1>13. CASE /\ few /\ up # <<>> /\ K.retired # Null
            /\ nodes' = Destroy(h2, {K.retired})
            /\ num_nodes' = num_nodes - 1
            /\ job' = Fixing(up)
            /\ UNCHANGED <<root, height>>
  <2>. DEFINE R == K.retired
              W == Destroy(h2, {R})
              t == Upward(q)
  <2>1. /\ R \in D /\ t # <<>> /\ Above(t) = Above(Above(q)) /\ LastNode(t) = LastNode(Above(q))
        /\ \E lv2, lo2, hi2 : Owing(D \ {R}, W, rt, ht, lv2, lo2, hi2, M, t)
    BY <1>11, <1>13 DEF Mended
  <2>2. PICK lv2, lo2, hi2 : Owing(D \ {R}, W, rt, ht, lv2, lo2, hi2, M, t)
    BY <2>1
  <2>3. DOMAIN W = D \ {R}
    BY <2>2 DEF Owing
  <2>. HIDE DEF W, R, t
  <2>4. nodes' = W /\ job' = Fixing(up) /\ root' = rt /\ height' = ht /\ num_nodes' = num_nodes - 1
    BY <1>13 DEF W, R
  <2>5. num_nodes' = Cardinality(DOMAIN nodes')
    BY <1>3, <2>1, <2>3, <2>4, LessOne DEF D
  <2>. HIDE DEF rt, ht
  <2>6. Owing(DOMAIN W, W, rt, ht, lv2, lo2, hi2, M, t) /\ Above(up) = Above(t) /\ LastNode(up) = LastNode(t)
    BY <1>1, <2>1, <2>2, <2>3
  <2>7. Fixable(W, rt, ht, M, up)
    BY <1>13, <2>6 DEF Fixable
  <2>. QED
    BY <2>4, <2>5, <2>7 DEF Settling
<1>14. h[a].children[0 + 1] = h[a].children[1]
  OBVIOUS
<1>. QED
  BY <1>8, <1>9, <1>10, <1>12, <1>13, <1>14 DEF FixUnderflow, NumItems, Child, up, a, K, h2, p

-----------------------------------------------------------------------------
(* A round of the loop of InsertToFullLeaf.                                 *)

\* There is an address that no node has.
LEMMA FreshFacts ==
  ASSUME NEW h, NEW D, D = DOMAIN h, IsFiniteSet(D), NEW a, a = Fresh(h)
  PROVE  /\ a \in Nat /\ a # 0 /\ a \notin D
         /\ IsFiniteSet(D \cup {a}) /\ Cardinality(D \cup {a}) = Cardinality(D) + 1
<1>. DEFINE n == Cardinality(D)
            m == n + 1
<1>1. n \in Nat /\ m \in Nat /\ m > n /\ m >= 1
  BY FS_CardinalityType
<1>2. a = CHOOSE b \in 1..m : b \notin D
  BY DEF Fresh
<1>. HIDE DEF n, m
<1>3. \E b \in 1..m : b \notin D
  <2>1. SUFFICES ASSUME 1..m \subseteq D PROVE FALSE
    BY <2>1
  <2>2. Cardinality(1..m) <= n
    BY <2>1, FS_Subset DEF n
  <2>3. Cardinality(1..m) = m
    <3>1. 1 \in Int /\ m \in Int /\ ~ (1 > m) /\ (m - 1) + 1 = m
      BY <1>1
    <3>. QED
      BY <3>1, FS_Interval
  <2>. QED
    BY <1>1, <2>2, <2>3
<1>4. a \in 1..m /\ a \notin D
  BY <1>2, <1>3
<1>. QED
  BY <1>1, <1>4, FS_AddElement DEF n

\* A tree to which (y, new) is to be added at the end of path, or over the
\* root.
Addable(h, rt, ht, M, path, y, new) ==
  \/ /\ path # <<>>
     /\ \E lv, lo, hi : Pending(DOMAIN h, h, rt, ht, lv, lo, hi, M, path, y, new)
     /\ ~ h[LastNode(path)].leaf
  \/ /\ path = <<>>
     /\ Crowned(DOMAIN h \cup {Fresh(h)}, Topped(h, Fresh(h), y, rt, new), Fresh(h), ht, M)

\* After a round of the loop of InsertToFullLeaf.
Growing(h, rt, ht, M, j) ==
  \/ j = Idle /\ Tidy(h, rt, ht, M)
  \/ \E path, y, new : j = Adding(path, y, new) /\ Addable(h, rt, ht, M, path, y, new)

\* A stored node is a node.
LEMMA StoreDomain ==
  ASSUME NEW h, NEW a, NEW n
  PROVE  DOMAIN Store(h, a, n) = DOMAIN h \cup {a}
BY DEF Store

\* The last node is split.
LEMMA SplitStep ==
  ASSUME NEW D, NEW h, D = DOMAIN h, NEW lv, NEW lo, NEW hi, NEW M, NEW path, NEW x, NEW c,
         Pending(D, h, root, height, lv, lo, hi, M, path, x, c),
         Len(h[LastNode(path)].keys) = MaxItems(h[LastNode(path)]),
         NEW s, s = SplitWith(h, h[LastNode(path)], LastPos(path), x, c),
         NEW halves, Same(s, halves), SplitInto(h, path, halves), num_nodes = Cardinality(D)
  PROVE  num_nodes' = Cardinality(DOMAIN nodes') /\ Growing(nodes', root', height', M, job')
<1>. DEFINE rt == root
            ht == height
            a == LastNode(path)
            V == With(h, path, x, c)
            new == Fresh(h)
            h2 == Store([h EXCEPT ![a] = s.left], new, s.right)
            D2 == D \cup {new}
            y == s.median
            up == Above(path)
<1>1. /\ h \in [D -> NodeSet] /\ ht \in Nat /\ On(D, h, rt, ht, lv, path)
      /\ Form(D, V, rt, ht, lv, lo, hi, M)
  <2>0. V = With(h, path, x, c)
    OBVIOUS
  <2>. HIDE DEF V, rt, ht
  <2>. QED
    BY <2>0, PendingFacts DEF rt, ht
<1>2. IsFiniteSet(D) /\ rt \in D
  BY <1>1 DEF Form, Typed, Rooted
<1>3. /\ new \in Nat /\ new # 0 /\ new \notin D
      /\ IsFiniteSet(D2) /\ Cardinality(D2) = Cardinality(D) + 1
  <2>1. new = Fresh(h)
    OBVIOUS
  <2>. HIDE DEF new
  <2>. QED
    BY <1>2, <2>1, FreshFacts
<1>4. DOMAIN h2 = D2
  <2>. DEFINE g == [h EXCEPT ![a] = s.left]
  <2>1. DOMAIN g = D /\ h2 = Store(g, new, s.right)
    OBVIOUS
  <2>. HIDE DEF g, h2
  <2>. QED
    BY <2>1, StoreDomain, Zenon
<1>5. /\ nodes' = h2 /\ num_nodes' = num_nodes + 1 /\ job' = Adding(up, y, new)
      /\ root' = rt /\ height' = ht
  BY DEF SplitInto, Same
<1>6. path \in Steps /\ Len(path) \in Nat /\ Len(path) >= 1 /\ up \in Steps /\ Len(up) = Len(path) - 1
  BY <1>1, OnLast, AboveFacts
<1>7. (Len(path) = 1 => up = <<>>) /\ (Len(path) > 1 => up # <<>>)
  BY <1>6, StepsFacts
<1>8. num_nodes' = Cardinality(DOMAIN nodes')
  BY <1>3, <1>4, <1>5
<1>9. CASE Len(path) > 1
  <2>1. \E lv2, lo2, hi2 :
           /\ Pending(D2, h2, rt, ht, lv2, lo2, hi2, M, Above(path), s.median, new)
           /\ ~ h2[LastNode(Above(path))].leaf
    <3>1. D2 = D \cup {new} /\ h2 = Store([h EXCEPT ![LastNode(path)] = s.left], new, s.right)
      OBVIOUS
    <3>. HIDE DEF D2, h2, new
    <3>. QED
      BY <1>3, <1>9, <3>1, PendingSplit
  <2>. HIDE DEF D2, h2, new, y, up, rt, ht
  <2>2. Addable(h2, rt, ht, M, up, y, new)
    BY <1>4, <1>7, <1>9, <2>1 DEF Addable, up, y
  <2>. QED
    BY <1>5, <1>8, <2>2 DEF Growing
<1>10. CASE Len(path) = 1
  <2>. DEFINE new2 == Fresh(h2)
              D3 == D2 \cup {new2}
              h3 == Topped(h2, new2, y, rt, new)
  <2>1. /\ new2 \in Nat /\ new2 # 0 /\ new2 \notin D2
    <3>1. new2 = Fresh(h2)
      OBVIOUS
    <3>. HIDE DEF new2, D2, h2
    <3>. QED
      BY <1>3, <1>4, <3>1, FreshFacts
  <2>2. Crowned(D3, h3, new2, ht, M)
    <3>1. /\ h2 = Store([h EXCEPT ![LastNode(path)] = s.left], new, s.right)
          /\ new2 \notin D /\ new2 # new
          /\ h3 = Topped(h2, new2, s.median, rt, new)
          /\ D3 = (D \cup {new2}) \cup {new}
      BY <2>1
    <3>2. a = rt
      BY <1>1, <1>10, OnLast
    <3>3. Len(h[rt].keys) = MaxItems(h[rt])
      BY <3>2
    <3>. HIDE DEF D3, h3, h2, new, new2, D2, rt, ht
    <3>4. Pending(D, h, rt, ht, lv, lo, hi, M, path, x, c)
      BY DEF rt, ht
    <3>. QED
      BY <1>3, <1>10, <2>1, <3>1, <3>3, <3>4, PendingRoot
  <2>3. Addable(h2, rt, ht, M, up, y, new)
    <3>. HIDE DEF h2, D2, rt, ht, y, up, new
    <3>. QED
      BY <1>4, <1>7, <1>10, <2>2 DEF Addable
  <2>. QED
    BY <1>5, <1>8, <2>3 DEF Growing
<1>. QED
  BY <1>6, <1>9, <1>10

-----------------------------------------------------------------------------

\* An inner node with an item more.
LEMMA PutInner ==
  ASSUME NEW n, ~ n.leaf, NEW i, NEW x, NEW c
  PROVE  Put(n, i, x, c) = InnerInsert(n, i, x, c)
BY DEF Put, InnerInsert

\* A leaf with an item more.
LEMMA PutLeaf ==
  ASSUME NEW n \in NodeSet, n.leaf, NEW i, NEW x, NEW c
  PROVE  Put(n, i, x, c) = LeafInsert(n, i, x)
BY DEF Put, LeafInsert, NodeSet

\* What the code computes with the help of a sibling.
HelpedInner(G, path, n, i, x, c, e) ==
  IncreaseSubtreeCounts(
    CountInserted([G EXCEPT ![n] = InnerInsert(@, i, x, c)], LastNode(path), n, e), Above(path), 1)

HelpedLeaf(G, path, n, i, x) ==
  IncreaseSubtreeCounts([G EXCEPT ![n] = LeafInsert(@, i, x)], Above(path), 1)

\* An inner node that a neighbour has helped.
LEMMA InsertedInner ==
  ASSUME NEW G, NEW path, NEW n, ~ G[n].leaf, NEW i, NEW x, NEW c, NEW e,
         NEW g, g = HelpedInner(G, path, n, i, x, c, e)
  PROVE  g = Inserted(G, path, n, i, x, c, e)
<1>1. Put(G[n], i, x, c) = InnerInsert(G[n], i, x, c)
  BY PutInner
<1>2. [G EXCEPT ![n] = Put(@, i, x, c)] = [G EXCEPT ![n] = InnerInsert(@, i, x, c)]
  BY <1>1
<1>. QED
  BY <1>2 DEF Inserted, HelpedInner

\* A leaf that a neighbour has helped.
LEMMA InsertedLeaf ==
  ASSUME NEW D, NEW G \in [D -> NodeSet], NEW path, NEW n \in D, G[n].leaf, NEW i, NEW x, NEW c, NEW e,
         NEW a \in D, a = LastNode(path), G[a].leaf,
         NEW g, g = HelpedLeaf(G, path, n, i, x)
  PROVE  g = Inserted(G, path, n, i, x, c, e)
<1>. DEFINE H == [G EXCEPT ![n] = LeafInsert(@, i, x)]
            K == [G EXCEPT ![n] = Put(@, i, x, c)]
<1>1. Put(G[n], i, x, c) = LeafInsert(G[n], i, x)
  BY PutLeaf
<1>2. K = H
  BY <1>1
<1>3. LeafInsert(G[n], i, x).leaf
  BY DEF LeafInsert, NodeSet
<1>4. H[n].leaf /\ H[a].leaf /\ DOMAIN H = D /\ H = [b \in D |-> H[b]]
  BY <1>3
<1>. HIDE DEF H, K
<1>5. CountInserted(H, a, n, e) = H
  <2>1. \A k : IncreaseTreeCount(H[a], k) = H[a] /\ IncreaseTreeCount(H[n], k) = H[n]
    BY <1>4 DEF IncreaseTreeCount
  <2>2. CASE n = a
    <3>1. CountInserted(H, a, n, e) = [H EXCEPT ![a] = H[a]]
      BY <2>1, <2>2 DEF CountInserted
    <3>. QED
      BY <3>1, <1>4
  <2>3. CASE n # a
    <3>1. CountInserted(H, a, n, e) = [H EXCEPT ![a] = H[a], ![n] = H[n]]
      BY <2>1, <2>3 DEF CountInserted
    <3>. QED
      BY <3>1, <1>4
  <2>. QED
    BY <2>2, <2>3
<1>6. Inserted(G, path, n, i, x, c, e) = IncreaseSubtreeCounts(CountInserted(K, a, n, e), Above(path), 1)
  BY DEF Inserted, K
<1>. QED
  BY <1>2, <1>5, <1>6 DEF H, HelpedLeaf

\* What it computes with room in the last node.
RoomInner(h, path, x, c) ==
  IncreaseSubtreeCounts(
    [h EXCEPT ![LastNode(path)] = IncreaseTreeCount(InnerInsert(@, LastPos(path), x, c), 1)],
    Above(path), 1)

RoomLeaf(h, path, x) ==
  IncreaseSubtreeCounts([h EXCEPT ![LastNode(path)] = LeafInsert(@, LastPos(path), x)], Above(path), 1)

\* An inner node with room gets the item.
LEMMA WithInner ==
  ASSUME NEW h, NEW path, NEW a, a = LastNode(path), ~ h[a].leaf, NEW x, NEW c,
         NEW g, g = RoomInner(h, path, x, c)
  PROVE  g = With(h, path, x, c)
<1>1. Put(h[a], LastPos(path), x, c) = InnerInsert(h[a], LastPos(path), x, c)
  BY PutInner
<1>. QED
  BY <1>1 DEF With, RoomInner

\* A leaf with room gets the item.
LEMMA WithLeaf ==
  ASSUME NEW D, NEW h \in [D -> NodeSet], NEW path, NEW a \in D, a = LastNode(path), h[a].leaf, NEW x, NEW c,
         NEW g, g = RoomLeaf(h, path, x)
  PROVE  g = With(h, path, x, c)
<1>1. Put(h[a], LastPos(path), x, c) = LeafInsert(h[a], LastPos(path), x)
  BY PutLeaf
<1>2. LeafInsert(h[a], LastPos(path), x).leaf
  BY DEF LeafInsert, NodeSet
<1>3. IncreaseTreeCount(Put(h[a], LastPos(path), x, c), 1) = LeafInsert(h[a], LastPos(path), x)
  BY <1>1, <1>2 DEF IncreaseTreeCount
<1>. QED
  BY <1>3 DEF With, RoomLeaf

-----------------------------------------------------------------------------
\* W is complete and the call over.
LEMMA ReturnStep ==
  ASSUME NEW D, NEW W, NEW lv, NEW M, Complete(D, W, root, height, lv, M), Return(W),
         num_nodes = Cardinality(D)
  PROVE  num_nodes' = Cardinality(DOMAIN nodes') /\ Growing(nodes', root', height', M, job')
<1>1. DOMAIN W = D
  BY DEF Complete, Form, Typed
<1>. DEFINE rt == root
            ht == height
<1>2. Complete(D, W, rt, ht, lv, M)
  OBVIOUS
<1>3. nodes' = W /\ job' = Idle /\ root' = rt /\ height' = ht /\ num_nodes' = num_nodes
  BY DEF Return
<1>. HIDE DEF rt, ht
<1>4. Tidy(W, rt, ht, M)
  BY <1>1, <1>2, CompleteTidy
<1>. QED
  BY <1>1, <1>3, <1>4 DEF Growing

\* How full the last node is.
LEMMA PendingSizes ==
  ASSUME NEW D, NEW h, NEW rt, NEW ht, NEW lv, NEW lo, NEW hi, NEW M, NEW path, NEW x, NEW c,
         Pending(D, h, rt, ht, lv, lo, hi, M, path, x, c), NEW a, a = LastNode(path)
  PROVE  /\ h \in [D -> NodeSet] /\ a \in D /\ On(D, h, rt, ht, lv, path) /\ c \in Int /\ x \in Int
         /\ h[a].leaf \in BOOLEAN /\ Whole(h[a]) /\ MaxItems(h[a]) >= 3
         /\ Len(h[a].keys) \in Nat /\ MaxItems(h[a]) \in Nat /\ Len(h[a].keys) <= MaxItems(h[a])
         /\ LastPos(path) \in 0..Len(h[a].keys)
<1>. DEFINE V == With(h, path, x, c)
<1>0. V = With(h, path, x, c)
  OBVIOUS
<1>. HIDE DEF V
<1>1. /\ h \in [D -> NodeSet] /\ a \in D /\ On(D, h, rt, ht, lv, path) /\ c \in Int /\ x \in Int
      /\ Whole(h[a]) /\ LastPos(path) \in 0..Len(h[a].keys)
  BY <1>0, PendingFacts
<1>2. Len(h[a].keys) \in Nat /\ Len(h[a].keys) <= MaxItems(h[a])
      /\ Len(V[a].keys) = Len(h[a].keys) + 1
  BY <1>0, PendingNode
<1>3. h[a].leaf \in BOOLEAN
  BY <1>1, NodeFacts
<1>4. Sized(h[a])
  BY <1>3, SizeFacts
<1>5. MaxItems(h[a]) \in Nat /\ MaxItems(h[a]) >= 3
  BY <1>4 DEF Sized
<1>. QED
  BY <1>1, <1>2, <1>3, <1>5

\* What the call returns with the help of a sibling.
HelpReturns(h, path, x, c, a, res) ==
  \/ ~ h[a].leaf /\ Return(IncreaseSubtreeCounts(
      CountInserted([res.nodes EXCEPT ![res.node] = InnerInsert(@, res.insert_pos, x, c)],
                    a, res.node, TreeCount(h[c])), Above(path), 1))
  \/ h[a].leaf /\ Return(IncreaseSubtreeCounts(
      [res.nodes EXCEPT ![res.node] = LeafInsert(@, res.insert_pos, x)], Above(path), 1))

\* A sibling helps.
LEMMA HelpStep ==
  ASSUME NEW D, NEW h, NEW lv, NEW lo, NEW hi, NEW M, NEW path, NEW x, NEW c,
         Pending(D, h, root, height, lv, lo, hi, M, path, x, c), Len(path) > 1,
         NEW a, a = LastNode(path), Len(h[a].keys) = MaxItems(h[a]),
         NEW res, res = RebalanceChild(h, LastNode(Above(path)), LastPos(Above(path)), LastPos(path)),
         res.done, num_nodes = Cardinality(D),
         HelpReturns(h, path, x, c, a, res)
  PROVE  num_nodes' = Cardinality(DOMAIN nodes') /\ Growing(nodes', root', height', M, job')
<1>. DEFINE rt == root
            ht == height
            G == res.nodes
            n == res.node
            i == res.insert_pos
<1>1. PICK e : Awaiting(h, h[a], c, e)
  <2>. HIDE DEF rt, ht
  <2>1. Pending(D, h, rt, ht, lv, lo, hi, M, path, x, c)
    BY DEF rt, ht
  <2>2. \E e : Awaiting(h, h[LastNode(path)], c, e)
    BY <2>1, PendingCounts
  <2>. QED
    BY <2>2
<1>. DEFINE W == Inserted(G, path, n, i, x, c, e)
<1>2. e \in Int /\ (~ h[a].leaf => TreeCount(h[c]) = e)
  BY <1>1 DEF Awaiting
<1>3. Relieved(D, h, G, n, a, W, rt, ht, lv, M)
  <2>1. Pending(D, h, rt, ht, lv, lo, hi, M, path, x, c) /\ W = Inserted(res.nodes, path, res.node, res.insert_pos, x, c, e)
    OBVIOUS
  <2>. HIDE DEF W, rt, ht
  <2>2. Relieved(D, h, res.nodes, res.node, a, W, rt, ht, lv, M)
    BY <1>2, <2>1, PendingHelped
  <2>. QED
    BY <2>2
<1>4. /\ Complete(D, W, rt, ht, lv, M) /\ G \in [D -> NodeSet] /\ n \in D /\ a \in D
      /\ (G[n].leaf <=> h[a].leaf) /\ (G[a].leaf <=> h[a].leaf)
  BY <1>3 DEF Relieved
<1>5. Return(W)
  <2>1. CASE ~ h[a].leaf
    <3>. DEFINE g == HelpedInner(G, path, n, i, x, c, e)
    <3>1. Return(g)
      BY <1>2, <2>1 DEF HelpedInner, HelpReturns
    <3>2. g = W
      <4>1. ~ G[n].leaf /\ g = HelpedInner(G, path, n, i, x, c, e)
        BY <1>4, <2>1
      <4>. HIDE DEF g, G, n, i
      <4>. QED
        BY <4>1, InsertedInner
    <3>. QED
      BY <3>1, <3>2
  <2>2. CASE h[a].leaf
    <3>. DEFINE g == HelpedLeaf(G, path, n, i, x)
    <3>1. Return(g)
      BY <2>2 DEF HelpedLeaf, HelpReturns
    <3>2. g = W
      <4>1. G \in [D -> NodeSet] /\ n \in D /\ G[n].leaf /\ a \in D /\ a = LastNode(path) /\ G[a].leaf
            /\ g = HelpedLeaf(G, path, n, i, x)
        BY <1>4, <2>2
      <4>. HIDE DEF g, G, n, i
      <4>. QED
        BY <4>1, InsertedLeaf
    <3>. QED
      BY <3>1, <3>2
  <2>. QED
    BY <2>1, <2>2
<1>. HIDE DEF W
<1>. QED
  BY <1>4, <1>5, ReturnStep

\* Whether the path has a node above the last one.
LEMMA AboveEmpty ==
  ASSUME NEW path \in Steps, Len(path) >= 1
  PROVE  Above(path) # <<>> <=> Len(path) > 1
<1>. DEFINE up == Above(path)
<1>1. up \in Steps /\ Len(up) = Len(path) - 1 /\ Len(path) \in Nat
  BY AboveFacts, StepsFacts
<1>2. up # <<>> <=> Len(up) # 0
  BY <1>1, StepsFacts
<1>. HIDE DEF up
<1>3. Len(up) # 0 <=> Len(path) > 1
  BY <1>1
<1>. QED
  BY <1>2, <1>3 DEF up

-----------------------------------------------------------------------------
\* The last node has room.
LEMMA RoomStep ==
  ASSUME NEW D, NEW h, NEW lv, NEW lo, NEW hi, NEW M, NEW path, NEW x, NEW c,
         Pending(D, h, root, height, lv, lo, hi, M, path, x, c),
         NEW a, a = LastNode(path), Len(h[a].keys) < MaxItems(h[a]), num_nodes = Cardinality(D),
         \/ ~ h[a].leaf /\ Return(RoomInner(h, path, x, c))
         \/ h[a].leaf /\ Return(RoomLeaf(h, path, x))
  PROVE  num_nodes' = Cardinality(DOMAIN nodes') /\ Growing(nodes', root', height', M, job')
<1>. DEFINE rt == root
            ht == height
            V == With(h, path, x, c)
<1>0. V = With(h, path, x, c) /\ Pending(D, h, rt, ht, lv, lo, hi, M, path, x, c)
  OBVIOUS
<1>1. h \in [D -> NodeSet] /\ a \in D
  <2>. HIDE DEF rt, ht
  <2>. QED
    BY <1>0, PendingSizes
<1>2. Complete(D, V, rt, ht, lv, M)
  <2>. HIDE DEF V, rt, ht
  <2>1. Len(h[LastNode(path)].keys) < MaxItems(h[LastNode(path)])
    OBVIOUS
  <2>2. Form(D, V, rt, ht, lv, lo, hi, M) /\ Fill(D, V, rt, Null, Null)
    BY <1>0, <2>1, PendingFits
  <2>. QED
    BY <2>2 DEF Complete
<1>3. Return(V)
  <2>1. CASE ~ h[a].leaf
    <3>. DEFINE g == RoomInner(h, path, x, c)
    <3>1. Return(g) /\ g = RoomInner(h, path, x, c)
      BY <2>1
    <3>. HIDE DEF g
    <3>2. g = With(h, path, x, c)
      BY <2>1, <3>1, WithInner
    <3>. QED
      BY <3>1, <3>2
  <2>2. CASE h[a].leaf
    <3>. DEFINE g == RoomLeaf(h, path, x)
    <3>1. Return(g) /\ g = RoomLeaf(h, path, x)
      BY <2>2
    <3>. HIDE DEF g
    <3>2. g = With(h, path, x, c)
      BY <1>1, <2>2, <3>1, WithLeaf
    <3>. QED
      BY <3>1, <3>2
  <2>. QED
    BY <2>1, <2>2
<1>. HIDE DEF V
<1>. QED
  BY <1>2, <1>3, ReturnStep

\* A round of the loop of InsertToFullLeaf.
LEMMA AddStep ==
  ASSUME NEW M, NEW path, NEW x, NEW c, Addable(nodes, root, height, M, path, x, c),
         path # <<>>, num_nodes = Cardinality(DOMAIN nodes), AddToParent(path, x, c)
  PROVE  num_nodes' = Cardinality(DOMAIN nodes') /\ Growing(nodes', root', height', M, job')
<1>. DEFINE D == DOMAIN nodes
            h == nodes
            rt == root
            ht == height
            a == LastNode(path)
            up == Above(path)
            res == RebalanceChild(h, LastNode(up), LastPos(up), LastPos(path))
            s == SplitWith(h, h[a], LastPos(path), x, c)
            t == SplitInnerAndInsert(h, h[a], LastPos(path), x, c)
<1>1. PICK lv, lo, hi : Pending(D, h, rt, ht, lv, lo, hi, M, path, x, c)
  BY DEF Addable
<1>2. ~ h[a].leaf
  BY DEF Addable
<1>3. /\ h \in [D -> NodeSet] /\ a \in D /\ On(D, h, rt, ht, lv, path) /\ c \in Int /\ x \in Int
      /\ Whole(h[a]) /\ MaxItems(h[a]) >= 3
      /\ Len(h[a].keys) \in Nat /\ MaxItems(h[a]) \in Nat /\ Len(h[a].keys) <= MaxItems(h[a])
      /\ LastPos(path) \in 0..Len(h[a].keys)
  <2>. HIDE DEF D, h, rt, ht
  <2>. QED
    BY <1>1, PendingSizes
<1>4. MaxItems(h[a]) = kMaxInnerKeys
  BY <1>2 DEF MaxItems
<1>5. Len(h[a].keys) >= kMaxInnerKeys <=> Len(h[a].keys) = MaxItems(h[a])
  BY <1>3, <1>4, CapacityAssumption
<1>6. ~ (Len(h[a].keys) >= kMaxInnerKeys) <=> Len(h[a].keys) < MaxItems(h[a])
  BY <1>3, <1>4, CapacityAssumption
<1>7. path \in Steps /\ Len(path) \in Nat /\ Len(path) >= 1
  BY <1>1, <1>3 DEF On, Steps
<1>8. up # <<>> <=> Len(path) > 1
  BY <1>7, AboveEmpty
<1>9. \/ Len(h[a].keys) < MaxItems(h[a]) /\ Return(RoomInner(h, path, x, c))
      \/ /\ Len(h[a].keys) = MaxItems(h[a]) /\ up # <<>> /\ res.done
         /\ Return(IncreaseSubtreeCounts(
             CountInserted([res.nodes EXCEPT ![res.node] = InnerInsert(@, res.insert_pos, x, c)],
                           a, res.node, TreeCount(h[c])), up, 1))
      \/ Len(h[a].keys) = MaxItems(h[a]) /\ ~ (up # <<>> /\ res.done) /\ SplitInto(h, path, t)
  BY <1>5, <1>6 DEF AddToParent, NumItems, RoomInner
<1>. HIDE DEF res, s, t, h, rt, ht, up
<1>10. CASE Len(h[a].keys) < MaxItems(h[a]) /\ Return(RoomInner(h, path, x, c))
  <2>1. Pending(D, h, root, height, lv, lo, hi, M, path, x, c)
    BY <1>1 DEF rt, ht
  <2>. QED
    BY <1>2, <1>10, <2>1, RoomStep
<1>11. CASE /\ Len(h[a].keys) = MaxItems(h[a]) /\ up # <<>> /\ res.done
            /\ Return(IncreaseSubtreeCounts(
                CountInserted([res.nodes EXCEPT ![res.node] = InnerInsert(@, res.insert_pos, x, c)],
                              a, res.node, TreeCount(h[c])), up, 1))
  <2>1. Pending(D, h, root, height, lv, lo, hi, M, path, x, c) /\ Len(path) > 1
        /\ res = RebalanceChild(h, LastNode(Above(path)), LastPos(Above(path)), LastPos(path))
    BY <1>1, <1>8, <1>11 DEF rt, ht, up, res
  <2>2. HelpReturns(h, path, x, c, a, res)
    BY <1>2, <1>11 DEF up, HelpReturns
  <2>. QED
    BY <1>11, <2>1, <2>2, HelpStep
<1>12. CASE Len(h[a].keys) = MaxItems(h[a]) /\ ~ (up # <<>> /\ res.done) /\ SplitInto(h, path, t)
  <2>1. Pending(D, h, root, height, lv, lo, hi, M, path, x, c)
    BY <1>1 DEF rt, ht
  <2>2. Tallied(h, h[a].children)
    <3>1. \E e : Awaiting(h, h[LastNode(path)], c, e)
      BY <1>1, PendingCounts
    <3>. QED
      BY <3>1 DEF Awaiting
  <2>3. Same(s, t)
    <3>1. Len(h[a].keys) >= 1 /\ h[a] \in NodeSet
      BY <1>3, <1>12
    <3>. DEFINE n == h[a]
                i == LastPos(path)
    <3>2. n \in NodeSet /\ ~ n.leaf /\ Whole(n) /\ Len(n.keys) >= 1 /\ i \in 0..Len(n.keys) /\ Tallied(h, n.children)
      BY <3>1, <1>2, <1>3, <2>2
    <3>. HIDE DEF n, i
    <3>3. Same(SplitWith(h, n, i, x, c), SplitInnerAndInsert(h, n, i, x, c))
      BY <3>2, <1>3, SplitWithInner
    <3>. QED
      BY <3>3 DEF s, t, n, i
  <2>4. D = DOMAIN h /\ s = SplitWith(h, h[LastNode(path)], LastPos(path), x, c)
        /\ Len(h[LastNode(path)].keys) = MaxItems(h[LastNode(path)])
    BY <1>12 DEF h, s
  <2>. HIDE DEF D
  <2>. QED
    BY <1>12, <2>1, <2>3, <2>4, SplitStep DEF D
<1>. QED
  BY <1>9, <1>10, <1>11, <1>12

-----------------------------------------------------------------------------
\* The two halves of the root get a new root.
LEMMA RootStep ==
  ASSUME NEW M, NEW y, NEW new, Addable(nodes, root, height, M, <<>>, y, new),
         num_nodes = Cardinality(DOMAIN nodes), NewRoot(y, new)
  PROVE  num_nodes' = Cardinality(DOMAIN nodes') /\ Growing(nodes', root', height', M, job')
<1>. DEFINE D == DOMAIN nodes
            n2 == Fresh(nodes)
            W == Topped(nodes, n2, y, root, new)
            D2 == D \cup {n2}
            k == height + 1
<1>1. Crowned(D2, W, n2, height, M)
  BY DEF Addable
<1>2. PICK lv, lo, hi : Form(D2, W, n2, k, lv, lo, hi, M) /\ Fill(D2, W, n2, Null, Null)
  BY <1>1 DEF Crowned
<1>3. Complete(D2, W, n2, k, lv, M)
  BY <1>2 DEF Complete
<1>4. IsFiniteSet(D2) /\ DOMAIN W = D2
  BY <1>2 DEF Form, Typed
<1>5. IsFiniteSet(D)
  BY <1>4, FS_Subset
<1>6. Cardinality(D2) = Cardinality(D) + 1
  <2>1. n2 = Fresh(nodes) /\ D = DOMAIN nodes
    OBVIOUS
  <2>. HIDE DEF n2, D
  <2>. QED
    BY <1>5, <2>1, FreshFacts
<1>7. nodes' = W /\ root' = n2 /\ height' = k /\ num_nodes' = num_nodes + 1 /\ job' = Idle
  BY DEF NewRoot, Topped
<1>. HIDE DEF W, D2, k, n2
<1>8. Tidy(W, n2, k, M)
  BY <1>3, <1>4, CompleteTidy
<1>. QED
  BY <1>4, <1>6, <1>7, <1>8 DEF Growing

\* The leaf at the end of path gets the item.
LEMMA LeafStep ==
  ASSUME NEW D, NEW h, D = DOMAIN h, NEW lv, NEW lo, NEW hi, NEW M, NEW path, NEW x, NEW c,
         Pending(D, h, root, height, lv, lo, hi, M, path, x, c), h[LastNode(path)].leaf,
         num_nodes = Cardinality(D), InsertAt(h, x, path)
  PROVE  num_nodes' = Cardinality(DOMAIN nodes') /\ Growing(nodes', root', height', M, job')
<1>. DEFINE rt == root
            ht == height
            a == LastNode(path)
            up == Above(path)
            pos == LastPos(path)
            res == RebalanceChild(h, LastNode(up), LastPos(up), pos)
            s == SplitWith(h, h[a], pos, x, c)
            halves == Split(h, h[a])
            kept == NumItems(halves.left)
            t == IF pos <= kept
                 THEN [halves EXCEPT !.left = LeafInsert(@, pos, x)]
                 ELSE [halves EXCEPT !.right = LeafInsert(@, pos - kept - 1, x)]
<1>1. Pending(D, h, rt, ht, lv, lo, hi, M, path, x, c)
  OBVIOUS
<1>2. h[a].leaf
  OBVIOUS
<1>3. /\ h \in [D -> NodeSet] /\ a \in D /\ On(D, h, rt, ht, lv, path) /\ c \in Int /\ x \in Int
      /\ Whole(h[a]) /\ MaxItems(h[a]) >= 3
      /\ Len(h[a].keys) \in Nat /\ MaxItems(h[a]) \in Nat /\ Len(h[a].keys) <= MaxItems(h[a])
      /\ LastPos(path) \in 0..Len(h[a].keys)
  <2>. HIDE DEF rt, ht
  <2>. QED
    BY <1>1, PendingSizes
<1>4. MaxItems(h[a]) = kMaxLeafKeys
  BY <1>2 DEF MaxItems
<1>5. Len(h[a].keys) = kMaxLeafKeys \/ Len(h[a].keys) < MaxItems(h[a])
  BY <1>3, <1>4, CapacityAssumption
<1>6. path \in Steps /\ Len(path) \in Nat /\ Len(path) >= 1
  BY <1>1, <1>3 DEF On, Steps
<1>7. up # <<>> <=> Len(path) > 1
  BY <1>6, AboveEmpty
<1>8. \/ Len(h[a].keys) < MaxItems(h[a]) /\ Return(RoomLeaf(h, path, x))
      \/ /\ Len(h[a].keys) = MaxItems(h[a]) /\ up # <<>> /\ res.done
         /\ Return(IncreaseSubtreeCounts([res.nodes EXCEPT ![res.node] = LeafInsert(@, res.insert_pos, x)], up, 1))
      \/ Len(h[a].keys) = MaxItems(h[a]) /\ SplitInto(h, path, t)
  <2>1. CASE Len(h[a].keys) = kMaxLeafKeys
    BY <1>4, <2>1 DEF InsertAt, InsertToFullLeaf, NumItems
  <2>2. CASE Len(h[a].keys) < MaxItems(h[a])
    <3>1. Len(h[a].keys) # kMaxLeafKeys
      BY <2>2, <1>3, <1>4
    <3>. QED
      BY <2>2, <3>1 DEF InsertAt, NumItems, RoomLeaf
  <2>. QED
    BY <1>5, <2>1, <2>2
<1>. HIDE DEF res, s, t, rt, ht, up
<1>9. Pending(D, h, root, height, lv, lo, hi, M, path, x, c)
  OBVIOUS
<1>10. CASE Len(h[a].keys) < MaxItems(h[a]) /\ Return(RoomLeaf(h, path, x))
  BY <1>2, <1>9, <1>10, RoomStep
<1>11. CASE /\ Len(h[a].keys) = MaxItems(h[a]) /\ up # <<>> /\ res.done
            /\ Return(IncreaseSubtreeCounts([res.nodes EXCEPT ![res.node] = LeafInsert(@, res.insert_pos, x)], up, 1))
  <2>1. Len(path) > 1 /\ res = RebalanceChild(h, LastNode(Above(path)), LastPos(Above(path)), LastPos(path))
    BY <1>7, <1>11 DEF up, res
  <2>2. HelpReturns(h, path, x, c, a, res)
    BY <1>2, <1>11 DEF up, HelpReturns
  <2>. QED
    BY <1>9, <1>11, <2>1, <2>2, HelpStep
<1>12. CASE Len(h[a].keys) = MaxItems(h[a]) /\ SplitInto(h, path, t)
  <2>1. Same(s, t)
    <3>. DEFINE n == h[a]
    <3>1. n \in NodeSet /\ n.leaf /\ Whole(n) /\ Len(n.keys) >= 1 /\ pos \in 0..Len(n.keys) /\ c \in Int /\ x \in Int
      BY <1>2, <1>3, <1>12
    <3>2. t = IF pos <= NumItems(Split(h, n).left)
              THEN [Split(h, n) EXCEPT !.left = LeafInsert(@, pos, x)]
              ELSE [Split(h, n) EXCEPT !.right = LeafInsert(@, pos - NumItems(Split(h, n).left) - 1, x)]
      BY DEF t
    <3>3. s = SplitWith(h, n, pos, x, c)
      BY DEF s
    <3>. HIDE DEF n, pos, s, t
    <3>. QED
      BY <3>1, <3>2, <3>3, SplitWithLeaf
  <2>2. s = SplitWith(h, h[LastNode(path)], LastPos(path), x, c)
        /\ Len(h[LastNode(path)].keys) = MaxItems(h[LastNode(path)])
    BY <1>12 DEF s
  <2>. QED
    BY <1>9, <1>12, <2>1, <2>2, SplitStep
<1>. QED
  BY <1>8, <1>10, <1>11, <1>12

-----------------------------------------------------------------------------
(* The items of a tree that a call is changing.                             *)
\* x is a key of a node of S.
Keyed(h, S, x) == \E b \in S : x \in Ext!Range(h[b].keys)

\* The items of some nodes.
LEMMA KeyedFacts ==
  ASSUME NEW h, NEW S
  PROVE  \A x : x \in KeysOf(h, S) <=> Keyed(h, S, x)
BY DEF KeysOf, Keyed

\* Nodes with the same keys.
LEMMA SameKeys ==
  ASSUME NEW h, NEW g, NEW S, \A b \in S : g[b].keys = h[b].keys
  PROVE  KeysOf(g, S) = KeysOf(h, S)
<1>1. \A x : Keyed(g, S, x) <=> Keyed(h, S, x)
  BY DEF Keyed
<1>. QED
  BY <1>1, KeyedFacts

\* The members of a sequence.
LEMMA RangeNumbers ==
  ASSUME NEW s \in Numbers
  PROVE  \A x : x \in Ext!Range(s) <=> \E i \in 1..Len(s) : s[i] = x
<1>1. DOMAIN s = 1..Len(s)
  BY NumbersFacts
<1>. QED
  BY <1>1 DEF Ext!Range

\* A number inserted is a member more.
LEMMA InsertRange ==
  ASSUME NEW s \in Numbers, NEW i \in 1..(Len(s) + 1), NEW x \in Int
  PROVE  \A y : y \in Ext!Range(Ext!InsertAt(s, i, x)) <=> y \in Ext!Range(s) \/ y = x
<1>. DEFINE t == Ext!InsertAt(s, i, x)
            m == Len(s)
<1>1. /\ t \in Numbers /\ Len(t) = m + 1 /\ m \in Nat
      /\ \A k \in 1..(i - 1) : t[k] = s[k]
      /\ t[i] = x
      /\ \A k \in (i + 1)..(m + 1) : t[k] = s[k - 1]
  BY InsertNumber, NumbersFacts
<1>2. i \in 1..(m + 1)
  OBVIOUS
<1>. HIDE DEF t, m
<1>3. ASSUME NEW k \in 1..(m + 1) PROVE t[k] = x \/ \E n \in 1..m : s[n] = t[k]
  <2>1. CASE k < i
    <3>1. k \in 1..(i - 1) /\ k \in 1..m
      BY <2>1, <1>1, <1>2
    <3>. QED
      BY <3>1, <1>1
  <2>2. CASE k = i
    BY <2>2, <1>1
  <2>3. CASE k > i
    <3>1. k \in (i + 1)..(m + 1) /\ k - 1 \in 1..m
      BY <2>3, <1>1, <1>2
    <3>. QED
      BY <3>1, <1>1
  <2>. QED
    BY <2>1, <2>2, <2>3, <1>1, <1>2
<1>4. ASSUME NEW n \in 1..m PROVE \E k \in 1..(m + 1) : t[k] = s[n]
  <2>1. CASE n < i
    <3>1. n \in 1..(i - 1) /\ n \in 1..(m + 1)
      BY <2>1, <1>1, <1>2
    <3>. QED
      BY <3>1, <1>1
  <2>2. CASE n >= i
    <3>. DEFINE k == n + 1
    <3>1. k \in (i + 1)..(m + 1) /\ k \in 1..(m + 1) /\ k - 1 = n
      BY <2>2, <1>1, <1>2
    <3>. HIDE DEF k
    <3>2. t[k] = s[k - 1]
      BY <3>1, <1>1
    <3>. QED
      BY <3>1, <3>2
  <2>. QED
    BY <2>1, <2>2, <1>1, <1>2
<1>5. \A y : y \in Ext!Range(t) <=> \E k \in 1..(m + 1) : t[k] = y
  <2>1. \A y : y \in Ext!Range(t) <=> \E k \in 1..Len(t) : t[k] = y
    BY <1>1, RangeNumbers
  <2>. QED
    BY <2>1, <1>1
<1>6. \A y : y \in Ext!Range(s) <=> \E n \in 1..m : s[n] = y
  BY RangeNumbers DEF m
<1>7. \A y : y \in Ext!Range(t) <=> y \in Ext!Range(s) \/ y = x
  BY <1>1, <1>2, <1>3, <1>4, <1>5, <1>6
<1>. QED
  BY <1>7 DEF t

\* A running insertion's items.
LEMMA PendingKeys ==
  ASSUME NEW D, NEW h, NEW rt, NEW ht, NEW lv, NEW lo, NEW hi, NEW M, NEW path, NEW x, NEW c,
         Pending(D, h, rt, ht, lv, lo, hi, M, path, x, c)
  PROVE  KeysOf(h, D) \cup {x} = M \ {Top}
<1>. DEFINE V == With(h, path, x, c)
            a == LastNode(path)
            i == LastPos(path)
<1>0. V = With(h, path, x, c)
  OBVIOUS
<1>. HIDE DEF V
<1>1. /\ h \in [D -> NodeSet] /\ x \in Int /\ Form(D, V, rt, ht, lv, lo, hi, M)
      /\ a \in D /\ h[a] \in NodeSet /\ i \in 0..Len(h[a].keys)
      /\ Extended(D, h, V, path, x, c)
  BY <1>0, PendingFacts
<1>2. KeysOf(V, D) = M \ {Top}
  BY <1>1, KeysAll
<1>3. /\ V[a].keys = Ext!InsertAt(h[a].keys, i + 1, x)
      /\ \A b \in D : b # a => V[b].keys = h[b].keys
  BY <1>1 DEF Extended, Putting
<1>4. h[a].keys \in Numbers /\ i + 1 \in 1..(Len(h[a].keys) + 1)
  BY <1>1, NodeFacts
<1>. HIDE DEF a, i
<1>5. \A y : y \in Ext!Range(V[a].keys) <=> y \in Ext!Range(h[a].keys) \/ y = x
  BY <1>1, <1>3, <1>4, InsertRange
<1>6. \A y : Keyed(V, D, y) <=> Keyed(h, D, y) \/ y = x
  BY <1>1, <1>3, <1>5 DEF Keyed
<1>7. \A y : y \in KeysOf(V, D) <=> y \in KeysOf(h, D) \/ y = x
  BY <1>6, KeyedFacts
<1>. QED
  BY <1>2, <1>7

\* A running deletion's items.
LEMMA OwingKeys ==
  ASSUME NEW D, NEW h, NEW rt, NEW ht, NEW lv, NEW lo, NEW hi, NEW M, NEW q,
         Owing(D, h, rt, ht, lv, lo, hi, M, q)
  PROVE  KeysOf(h, D) = M \ {Top}
<1>. DEFINE V == Paid(h, q)
<1>0. V = Paid(h, q)
  OBVIOUS
<1>. HIDE DEF V
<1>1. Form(D, V, rt, ht, lv, lo, hi, M) /\ OwingNodes(D, h, V, q)
  BY <1>0, OwingFacts
<1>2. KeysOf(V, D) = M \ {Top}
  BY <1>1, KeysAll
<1>3. \A b \in D : V[b].keys = h[b].keys
  BY <1>1 DEF OwingNodes
<1>4. KeysOf(V, D) = KeysOf(h, D)
  BY <1>3, SameKeys
<1>. QED
  BY <1>2, <1>4

\* The items of two halves without a root.
LEMMA ToppedKeys ==
  ASSUME NEW h, NEW D, D = DOMAIN h, NEW new, new \notin D, NEW y, NEW l, NEW r, NEW ht, NEW M,
         Crowned(D \cup {new}, Topped(h, new, y, l, r), new, ht, M)
  PROVE  KeysOf(h, D) \cup {y} = M \ {Top}
<1>. DEFINE V == Topped(h, new, y, l, r)
            E == D \cup {new}
<1>1. KeysOf(V, E) = M \ {Top}
  <2>. HIDE DEF V, E
  <2>1. PICK lv, lo, hi : Form(E, V, new, ht + 1, lv, lo, hi, M)
    BY DEF Crowned, V, E
  <2>. DEFINE H == ht + 1
  <2>. HIDE DEF H
  <2>2. Form(E, V, new, H, lv, lo, hi, M)
    BY <2>1 DEF H
  <2>. QED
    BY <2>2, KeysAll
<1>2. V[new].keys = <<y>> /\ \A b \in D : V[b] = h[b]
  BY DEF Topped, Store, Inner
<1>3. \A x : x \in Ext!Range(<<y>>) <=> x = y
  BY DEF Ext!Range
<1>. HIDE DEF V
<1>4. \A x : Keyed(V, E, x) <=> Keyed(h, D, x) \/ x = y
  BY <1>2, <1>3 DEF Keyed
<1>5. \A x : x \in KeysOf(V, E) <=> x \in KeysOf(h, D) \/ x = y
  BY <1>4, KeyedFacts
<1>. QED
  BY <1>1, <1>5

-----------------------------------------------------------------------------
(* The items are renumbered before a call.                                  *)
Numbered(M) == [x \in 0..Top |-> IF x = Top THEN Top ELSE 2 * Upto(M)[x]]
Spaced(n) == {2 * k : k \in 1..n} \cup {Top}

\* M is n items and Top.
Sets(M, n) == M \subseteq 1..Top /\ Top \in M /\ n \in 0..MaxCount /\ Cardinality(M) = n + 1

\* The items and their ranks.
LEMMA SetsFacts ==
  ASSUME NEW M, NEW n, Sets(M, n)
  PROVE  /\ n \in Nat /\ n <= MaxCount /\ Upto(M)[Top] = n + 1 /\ Upto(M)[0] = 0
         /\ Top = 2 * MaxCount + 2 /\ MaxCount \in Nat
         /\ \A x \in 0..Top : Upto(M)[x] \in Nat
         /\ \A x \in 0..(Top - 1) : Upto(M)[x] <= n
         /\ \A x \in M : 1 <= Upto(M)[x]
         /\ \A x \in M \cup {0} : \A y \in M : x < y => Upto(M)[x] + 1 <= Upto(M)[y]
<1>1. M \subseteq 1..Top /\ Top \in M /\ n \in 0..MaxCount /\ Cardinality(M) = n + 1
  BY DEF Sets
<1>2. MaxCount \in Nat /\ Top = 2 * MaxCount + 2
  BY CapacityAssumption DEF Top
<1>3. Upto(M)[Top] = n + 1 /\ Upto(M)[0] = 0
  BY <1>1, MFinite
<1>4. \A x \in 0..Top : Upto(M)[x] \in Nat
  BY <1>1, UptoType
<1>5. Top \in 0..Top /\ 0 \in 0..Top /\ \A x \in M \cup {0} : x \in 0..Top
  BY <1>1, <1>2
<1>6. ASSUME NEW x \in 0..(Top - 1) PROVE Upto(M)[x] <= n
  <2>1. x \in 0..Top /\ x < Top
    BY <1>2
  <2>2. Upto(M)[x] + 1 <= Upto(M)[Top]
    BY <1>1, <1>5, <2>1, UptoStep
  <2>. QED
    BY <2>1, <2>2, <1>3, <1>4, <1>1
<1>7. ASSUME NEW x \in M \cup {0}, NEW y \in M, x < y PROVE Upto(M)[x] + 1 <= Upto(M)[y]
  BY <1>1, <1>5, <1>7, UptoStep
<1>8. ASSUME NEW x \in M PROVE 1 <= Upto(M)[x]
  <2>1. 0 < x /\ 0 \in M \cup {0}
    BY <1>1
  <2>2. Upto(M)[0] + 1 <= Upto(M)[x]
    BY <2>1, <1>7
  <2>. QED
    BY <2>2, <1>3
<1>. QED
  BY <1>1, <1>2, <1>3, <1>4, <1>6, <1>7, <1>8

\* Every number up to that of the items is some item's.
LEMMA RankReached ==
  ASSUME NEW M, NEW n, Sets(M, n), NEW k \in 1..n
  PROVE  \E x \in M \ {Top} : Upto(M)[x] = k
<1>1. M \subseteq 1..Top /\ Top \in M /\ n \in 0..MaxCount /\ Cardinality(M) = n + 1 /\ n \in Nat
  BY CapacityAssumption DEF Sets
<1>2. Top \in Nat /\ Top + 1 \in Nat /\ (Top + 1) - 1 = Top
  BY TopType
<1>3. M \in SUBSET (0..((Top + 1) - 1))
  BY <1>1, <1>2
<1>4. k - 1 \in 0..(Cardinality(M) - 1) /\ k \in Nat
  BY <1>1
<1>. DEFINE T == Top + 1
            j == k - 1
<1>. HIDE DEF T, j
<1>5. T \in Nat /\ M \in SUBSET (0..(T - 1)) /\ j \in 0..(Cardinality(M) - 1)
  BY <1>2, <1>3, <1>4 DEF T, j
<1>6. PICK x \in M : Cardinality(Below(M, x)) = j
  BY <1>5, RankExists
<1>7. IsFiniteSet(M) /\ x \in Nat /\ x \in 1..Top
  <2>1. x \in 1..Top
    BY <1>1
  <2>2. x \in Nat
    BY <2>1, <1>2
  <2>. QED
    BY <1>1, <2>1, <2>2, MFinite
<1>8. M \cap (1..x) = Below(M, x) \cup {x} /\ x \notin Below(M, x) /\ Below(M, x) \subseteq M
  <2>1. \A z \in M : z \in Int /\ 1 <= z
    BY <1>1, <1>2
  <2>2. \A z \in M : z \in 1..x <=> z < x \/ z = x
    BY <2>1, <1>7
  <2>3. ~ (x < x)
    BY <1>7
  <2>4. \A z : z \in Below(M, x) <=> z \in M /\ z < x
    BY DEF Below
  <2>5. \A z : z \in M \cap (1..x) <=> z \in Below(M, x) \cup {x}
    BY <2>2, <2>4
  <2>. QED
    BY <2>3, <2>4, <2>5
<1>9. IsFiniteSet(Below(M, x))
  BY <1>7, <1>8, FS_Subset
<1>10. Cardinality(Below(M, x) \cup {x}) = j + 1
  BY <1>6, <1>8, <1>9, FS_AddElement
<1>11. Upto(M)[x] = k
  <2>1. Upto(M)[x] = Cardinality(M \cap (1..x))
    BY <1>7, <1>2 DEF Upto
  <2>. QED
    BY <2>1, <1>8, <1>10, <1>4 DEF j
<1>12. Upto(M)[Top] = n + 1
  BY SetsFacts
<1>13. k # n + 1
  BY <1>1
<1>14. x # Top
  BY <1>11, <1>12, <1>13
<1>. QED
  BY <1>11, <1>14

\* Renumbering keeps the order of the items.
LEMMA NumberedRename ==
  ASSUME NEW M, NEW n, Sets(M, n)
  PROVE  Rename(Numbered(M), M) /\ Image(Numbered(M), M) = Spaced(n)
<1>. DEFINE f == Numbered(M)
            U == Upto(M)
<1>1. M \subseteq 1..Top /\ Top \in M
  BY DEF Sets
<1>2. /\ n \in Nat /\ n <= MaxCount /\ U[Top] = n + 1 /\ U[0] = 0
      /\ Top = 2 * MaxCount + 2 /\ MaxCount \in Nat
      /\ \A x \in 0..Top : U[x] \in Nat
      /\ \A x \in 0..(Top - 1) : U[x] <= n
      /\ \A x \in M : 1 <= U[x]
      /\ \A x \in M \cup {0} : \A y \in M : x < y => U[x] + 1 <= U[y]
  BY SetsFacts
<1>3. f = [x \in 0..Top |-> IF x = Top THEN Top ELSE 2 * U[x]]
  BY DEF Numbered
<1>. HIDE DEF f, U
<1>4. \A x \in 0..(Top - 1) : x # Top /\ x \in 0..Top
  BY <1>2
<1>5. \A x \in 0..(Top - 1) : f[x] = 2 * U[x]
  BY <1>3, <1>4
<1>6. f[Top] = Top
  BY <1>2, <1>3
<1>7. ASSUME NEW x \in 0..(Top - 1) PROVE f[x] \in 0..(Top - 1)
  <2>1. U[x] \in Nat /\ U[x] <= n /\ f[x] = 2 * U[x]
    BY <1>2, <1>4, <1>5
  <2>. QED
    BY <2>1, <1>2
<1>8. \A x \in 0..Top : x = Top \/ x \in 0..(Top - 1)
  BY <1>2
<1>9. f \in [0..Top -> 0..Top]
  <2>1. \A x \in 0..Top : f[x] \in 0..Top
    BY <1>4, <1>6, <1>7, <1>8
  <2>. QED
    BY <2>1, <1>3
<1>10. f[0] = 0
  <2>1. 0 \in 0..(Top - 1)
    BY <1>2
  <2>. QED
    BY <2>1, <1>5, <1>2
<1>11. \A x \in M \cup {0} : x \in 0..Top
  BY <1>1, <1>2
<1>12. ASSUME NEW x \in M \cup {0}, NEW y \in M \cup {0}, x < y PROVE f[x] < f[y]
  <2>0. x \in 0..Top /\ y \in 0..Top
    BY <1>11
  <2>1. x \in 0..(Top - 1) /\ y \in M
    BY <2>0, <1>12, <1>2
  <2>2. CASE y = Top
    <3>1. f[x] \in 0..(Top - 1)
      BY <2>1, <1>7
    <3>. QED
      BY <3>1, <2>2, <1>6, <1>2
  <2>3. CASE y # Top
    <3>1. y \in 0..(Top - 1)
      BY <2>0, <2>3, <1>8
    <3>2. U[x] + 1 <= U[y]
      BY <2>1, <1>2, <1>12
    <3>3. f[x] = 2 * U[x] /\ f[y] = 2 * U[y] /\ U[x] \in Nat /\ U[y] \in Nat
      BY <2>0, <2>1, <3>1, <1>5, <1>2
    <3>. QED
      BY <3>2, <3>3
  <2>. QED
    BY <2>2, <2>3
<1>13. Rename(f, M)
  BY <1>9, <1>10, <1>6, <1>12 DEF Rename
<1>14. ASSUME NEW x \in M PROVE f[x] \in Spaced(n)
  <2>1. CASE x = Top
    BY <2>1, <1>6 DEF Spaced
  <2>2. CASE x # Top
    <3>1. x \in 0..(Top - 1)
      BY <2>2, <1>8, <1>11
    <3>2. f[x] = 2 * U[x] /\ U[x] \in Nat /\ U[x] <= n /\ 1 <= U[x]
      BY <3>1, <1>5, <1>2, <1>11
    <3>3. U[x] \in 1..n
      BY <3>2, <1>2
    <3>. QED
      BY <3>2, <3>3 DEF Spaced
  <2>. QED
    BY <2>1, <2>2
<1>15. ASSUME NEW y \in Spaced(n) PROVE \E x \in M : f[x] = y
  <2>1. CASE y = Top
    BY <2>1, <1>1, <1>6
  <2>2. CASE y # Top
    <3>1. PICK k \in 1..n : y = 2 * k
      BY <2>2 DEF Spaced
    <3>2. PICK x \in M \ {Top} : U[x] = k
      BY RankReached DEF U
    <3>3. x \in 0..(Top - 1)
      BY <3>2, <1>8, <1>11
    <3>. QED
      BY <3>1, <3>2, <3>3, <1>5
  <2>. QED
    BY <2>1, <2>2
<1>16. Image(f, M) = Spaced(n)
  BY <1>14, <1>15 DEF Image
<1>. QED
  BY <1>13, <1>16 DEF f

-----------------------------------------------------------------------------

\* How full the nodes are depends on the lengths only.
LEMMA SameFill ==
  ASSUME NEW D, NEW H \in [D -> NodeSet], NEW W \in [D -> NodeSet], NEW rt, NEW over, NEW under,
         \A b \in D : (W[b].leaf <=> H[b].leaf) /\ Len(W[b].keys) = Len(H[b].keys),
         Fill(D, H, rt, over, under)
  PROVE  Fill(D, W, rt, over, under)
<1>1. ASSUME NEW b \in D PROVE /\ MaxItems(W[b]) = MaxItems(H[b])
                                /\ LeastItems(W[b]) = LeastItems(H[b])
                                /\ Len(W[b].keys) = Len(H[b].keys)
  <2>1. H[b] \in NodeSet /\ W[b] \in NodeSet
    OBVIOUS
  <2>2. H[b].leaf \in BOOLEAN /\ W[b].leaf \in BOOLEAN /\ (W[b].leaf <=> H[b].leaf)
    BY <2>1, NodeFacts
  <2>. QED
    BY <2>2, SameSize
<1>. QED
  BY <1>1 DEF Fill

\* n with the keys g.
Rekeyed(n, g) == [n EXCEPT !.keys = <<>> \o [i \in 1..Len(n.keys) |-> g[i]]]

\* A node with other items.
LEMMA MappedKeys ==
  ASSUME NEW n \in NodeSet, NEW g, \A i \in 1..Len(n.keys) : g[i] \in Int,
         NEW m, m = Rekeyed(n, g)
  PROVE  /\ m \in NodeSet /\ (m.leaf <=> n.leaf) /\ m.children = n.children
         /\ TreeCount(m) = IF n.leaf THEN Len(m.keys) ELSE TreeCount(n)
         /\ Len(m.keys) = Len(n.keys)
         /\ \A i \in 1..Len(n.keys) : m.keys[i] = g[i]
<1>. DEFINE k == Len(n.keys)
            s == [i \in 1..k |-> g[i]]
<1>1. k \in Nat /\ n.leaf \in BOOLEAN /\ n.children \in Numbers /\ n.cnt \in Int
  BY NodeFacts
<1>2. s \in Seq(Int)
  BY <1>1, IsASeq
<1>3. Len(s) = k /\ \A i \in 1..k : s[i] = g[i]
  BY <1>1, <1>2, LenProperties
<1>4. <<>> \o s = s
  BY <1>2, ConcatEmptySeq
<1>5. m.keys = <<>> \o s /\ m.leaf = n.leaf /\ m.children = n.children /\ m.cnt = n.cnt
  BY DEF NodeSet, Rekeyed
<1>6. m = [leaf |-> m.leaf, keys |-> m.keys, children |-> m.children, cnt |-> m.cnt]
  BY DEF NodeSet, Rekeyed
<1>. HIDE DEF s
<1>7. m.keys \in Numbers /\ Len(m.keys) = k /\ \A i \in 1..k : m.keys[i] = g[i]
  BY <1>2, <1>3, <1>4, <1>5 DEF Numbers
<1>8. m \in NodeSet
  BY <1>1, <1>5, <1>6, <1>7 DEF NodeSet
<1>9. TreeCount(m) = IF n.leaf THEN Len(m.keys) ELSE TreeCount(n)
  BY <1>5 DEF TreeCount, NumItems
<1>. QED
  BY <1>5, <1>7, <1>8, <1>9

-----------------------------------------------------------------------------
(* The invariant of the tree: M is its items, and Top.                      *)
TreeInv(M) ==
  /\ Sets(M, count)
  /\ num_nodes = Cardinality(DOMAIN nodes)
  /\ \/ Growing(nodes, root, height, M, job)
     \/ Settling(nodes, root, height, M, job)

\* The kinds of job.
LEMMA JobFacts ==
  /\ Idle.op = "idle"
  /\ \A path : Fixing(path).op = "fix" /\ Fixing(path).path = path
  /\ \A path, y, new : LET j == Adding(path, y, new) IN
       j.op = "add" /\ j.path = path /\ j.median = y /\ j.right = new
BY DEF Idle, Fixing, Adding

\* The nodes of a tree hold its items.
LEMMA TidyKeys ==
  ASSUME NEW h, NEW rt, NEW ht, NEW M, Tidy(h, rt, ht, M)
  PROVE  KeysOf(h, DOMAIN h) = M \ {Top}
<1>1. CASE rt = Null /\ DOMAIN h = {} /\ ht = 0 /\ M = {Top}
  BY <1>1 DEF KeysOf
<1>2. CASE rt # Null /\ \E lv : Complete(DOMAIN h, h, rt, ht, lv, M)
  <2>. DEFINE D == DOMAIN h
  <2>1. PICK lv, lo, hi : Form(D, h, rt, ht, lv, lo, hi, M)
    BY <1>2 DEF Complete
  <2>. HIDE DEF D
  <2>2. KeysOf(h, D) = M \ {Top}
    BY <2>1, KeysAll
  <2>. QED
    BY <2>2 DEF D
<1>. QED
  BY <1>1, <1>2 DEF Tidy

\* The nodes of a tree that is being mended hold its items.
LEMMA FixableKeys ==
  ASSUME NEW h, NEW rt, NEW ht, NEW M, NEW path, Fixable(h, rt, ht, M, path)
  PROVE  KeysOf(h, DOMAIN h) = M \ {Top}
<1>. DEFINE D == DOMAIN h
<1>1. PICK lv, lo, hi, q : Owing(D, h, rt, ht, lv, lo, hi, M, q)
  BY DEF Fixable
<1>. HIDE DEF D
<1>2. KeysOf(h, D) = M \ {Top}
  BY <1>1, OwingKeys
<1>. QED
  BY <1>2 DEF D

\* The nodes of a tree that is being added to hold its items but the one
\* awaited.
LEMMA AddableKeys ==
  ASSUME NEW h, NEW rt, NEW ht, NEW M, NEW path, NEW y, NEW new, IsFiniteSet(DOMAIN h),
         Addable(h, rt, ht, M, path, y, new)
  PROVE  KeysOf(h, DOMAIN h) \cup {y} = M \ {Top}
<1>. DEFINE D == DOMAIN h
            a == Fresh(h)
<1>1. CASE path # <<>>
  <2>1. PICK lv, lo, hi : Pending(D, h, rt, ht, lv, lo, hi, M, path, y, new)
    BY <1>1 DEF Addable
  <2>. HIDE DEF D
  <2>2. KeysOf(h, D) \cup {y} = M \ {Top}
    BY <2>1, PendingKeys
  <2>. QED
    BY <2>2 DEF D
<1>2. CASE path = <<>>
  <2>1. Crowned(D \cup {a}, Topped(h, a, y, rt, new), a, ht, M)
    BY <1>2 DEF Addable
  <2>2. D = DOMAIN h /\ a = Fresh(h) /\ IsFiniteSet(D)
    OBVIOUS
  <2>. HIDE DEF D, a
  <2>3. a \notin D
    BY <2>2, FreshFacts
  <2>4. KeysOf(h, D) \cup {y} = M \ {Top}
    BY <2>1, <2>2, <2>3, ToppedKeys
  <2>. QED
    BY <2>4 DEF D
<1>. QED
  BY <1>1, <1>2

-----------------------------------------------------------------------------

\* A tree that is being added to has finitely many nodes.
LEMMA AddableFinite ==
  ASSUME NEW h, NEW rt, NEW ht, NEW M, NEW path, NEW y, NEW new,
         Addable(h, rt, ht, M, path, y, new)
  PROVE  IsFiniteSet(DOMAIN h)
<1>. DEFINE D == DOMAIN h
            a == Fresh(h)
<1>1. CASE path # <<>>
  <2>1. PICK lv, lo, hi : Pending(D, h, rt, ht, lv, lo, hi, M, path, y, new)
    BY <1>1 DEF Addable
  <2>. QED
    BY <2>1 DEF Pending, Form, Typed
<1>2. CASE path = <<>>
  <2>1. Crowned(D \cup {a}, Topped(h, a, y, rt, new), a, ht, M)
    BY <1>2 DEF Addable
  <2>. HIDE DEF D, a
  <2>2. IsFiniteSet(D \cup {a}) /\ D \subseteq D \cup {a}
    BY <2>1 DEF Crowned, Form, Typed
  <2>3. IsFiniteSet(D)
    BY <2>2, FS_Subset
  <2>. QED
    BY <2>3 DEF D
<1>. QED
  BY <1>1, <1>2

\* The items of the tree, between two calls and in the middle of one.
LEMMA TreeItems ==
  ASSUME NEW M, TreeInv(M)
  PROVE  ItemSet = M \ {Top}
<1>1. CASE job = Idle /\ Tidy(nodes, root, height, M)
  <2>1. KeysOf(nodes, DOMAIN nodes) = M \ {Top}
    BY <1>1, TidyKeys
  <2>2. job.op # "add"
    BY <1>1, JobFacts
  <2>. QED
    BY <2>1, <2>2 DEF ItemSet
<1>2. ASSUME NEW path, job = Fixing(path), Fixable(nodes, root, height, M, path)
      PROVE  ItemSet = M \ {Top}
  <2>1. KeysOf(nodes, DOMAIN nodes) = M \ {Top}
    BY <1>2, FixableKeys
  <2>2. job.op # "add"
    BY <1>2, JobFacts
  <2>. QED
    BY <2>1, <2>2 DEF ItemSet
<1>3. ASSUME NEW path, NEW y, NEW new, job = Adding(path, y, new),
             Addable(nodes, root, height, M, path, y, new)
      PROVE  ItemSet = M \ {Top}
  <2>0. IsFiniteSet(DOMAIN nodes)
    BY <1>3, AddableFinite
  <2>1. KeysOf(nodes, DOMAIN nodes) \cup {y} = M \ {Top}
    BY <1>3, <2>0, AddableKeys
  <2>2. job.op = "add" /\ job.median = y
    BY <1>3, JobFacts
  <2>. QED
    BY <2>1, <2>2 DEF ItemSet
<1>. QED
  BY <1>1, <1>2, <1>3 DEF TreeInv, Growing, Settling

\* Between two calls.
LEMMA TreeIdle ==
  ASSUME NEW M, TreeInv(M), job = Idle
  PROVE  Tidy(nodes, root, height, M) /\ Sets(M, count) /\ num_nodes = Cardinality(DOMAIN nodes)
<1>1. \A path : Idle # Fixing(path)
  BY JobFacts
<1>2. \A path, y, new : Idle # Adding(path, y, new)
  BY JobFacts
<1>. QED
  BY <1>1, <1>2 DEF TreeInv, Growing, Settling

-----------------------------------------------------------------------------
\* The number an item gets.
LEMMA NumberOf ==
  ASSUME NEW M, NEW n, Sets(M, n), NEW S, S = M \ {Top}, NEW x \in S
  PROVE  Abstract!Renumbered(S, x) = Numbered(M)[x] /\ Numbered(M)[x] \in Int
<1>1. M \subseteq 1..Top /\ Top \in M
  BY DEF Sets
<1>2. x \in 1..Top /\ x # Top /\ Top \in Nat
  BY <1>1, TopType
<1>3. ~ (Top \in 1..x) /\ x \in 0..Top
  BY <1>2
<1>4. S \cap (1..x) = M \cap (1..x)
  BY <1>3
<1>5. Upto(M)[x] = Cardinality(M \cap (1..x)) /\ Upto(M)[x] \in Nat
  BY <1>1, <1>3, UptoType DEF Upto
<1>6. Numbered(M)[x] = 2 * Upto(M)[x]
  BY <1>2, <1>3 DEF Numbered
<1>7. Abstract!Renumbered(S, x) = 2 * Cardinality(S \cap (1..x))
  BY DEF Abstract!Renumbered, Abstract!Cardinality, Cardinality
<1>. QED
  BY <1>4, <1>5, <1>6, <1>7

\* Renumber renames the items of every node.
LEMMA RenumberRenames ==
  ASSUME NEW D, D = DOMAIN nodes, NEW M, NEW n, Sets(M, n), ItemSet = M \ {Top}, nodes \in [D -> NodeSet],
         \A b \in D : \A i \in 1..Len(nodes[b].keys) : nodes[b].keys[i] \in ItemSet
  PROVE  DOMAIN Renumber = D /\ Renamed(D, nodes, Renumber, Numbered(M))
<1>. DEFINE S == ItemSet
            f == Numbered(M)
            number == [x \in S |-> Abstract!Renumbered(S, x)]
            W == Renumber
            K(b) == [i \in 1..Len(nodes[b].keys) |-> number[nodes[b].keys[i]]]
<1>1. /\ DOMAIN W = D
      /\ \A b \in D : W[b] = [nodes[b] EXCEPT !.keys =
             <<>> \o [i \in 1..Len(nodes[b].keys) |-> number[nodes[b].keys[i]]]]
      /\ W = [b \in D |-> W[b]]
  BY DEF Renumber
<1>2. ASSUME NEW x \in S PROVE number[x] = f[x] /\ f[x] \in Int
  <2>1. Abstract!Renumbered(S, x) = f[x] /\ f[x] \in Int
    BY NumberOf
  <2>. HIDE DEF f, S
  <2>. QED
    BY <2>1
<1>. HIDE DEF W, number, f
<1>3. ASSUME NEW b \in D
      PROVE  /\ W[b] \in NodeSet /\ (W[b].leaf <=> nodes[b].leaf) /\ W[b].children = nodes[b].children
             /\ TreeCount(W[b]) = TreeCount(nodes[b])
             /\ Len(W[b].keys) = Len(nodes[b].keys)
             /\ \A i \in 1..Len(nodes[b].keys) : W[b].keys[i] = f[nodes[b].keys[i]]
  <2>. DEFINE g == [i \in 1..Len(nodes[b].keys) |-> number[nodes[b].keys[i]]]
              m == W[b]
              k == nodes[b]
  <2>1. k \in NodeSet /\ Len(k.keys) \in Nat
    BY NodeFacts
  <2>2. \A i \in 1..Len(k.keys) : g[i] = f[k.keys[i]] /\ g[i] \in Int
    BY <1>2
  <2>3. m = Rekeyed(k, g)
    BY <1>1 DEF Rekeyed
  <2>. HIDE DEF g, m, k
  <2>4. /\ m \in NodeSet /\ (m.leaf <=> k.leaf) /\ m.children = k.children
        /\ TreeCount(m) = IF k.leaf THEN Len(m.keys) ELSE TreeCount(k)
        /\ Len(m.keys) = Len(k.keys)
        /\ \A i \in 1..Len(k.keys) : m.keys[i] = g[i]
    BY <2>1, <2>2, <2>3, MappedKeys
  <2>5. k.leaf => TreeCount(k) = Len(k.keys)
    BY DEF TreeCount, NumItems
  <2>. QED
    BY <2>2, <2>4, <2>5 DEF m, k
<1>4. W \in [D -> NodeSet]
  BY <1>1, <1>3
<1>. QED
  BY <1>1, <1>3, <1>4 DEF Renamed, W, f

\* The tree with its items renumbered is as tidy.
LEMMA RenumberTidy ==
  ASSUME NEW M, TreeInv(M), job = Idle
  PROVE  /\ DOMAIN Renumber = DOMAIN nodes
         /\ Tidy(Renumber, root, height, Spaced(count))
         /\ Sets(Spaced(count), count)
<1>. DEFINE D == DOMAIN nodes
            f == Numbered(M)
            W == Renumber
            N == Spaced(count)
            rt == root
            ht == height
<1>1. Tidy(nodes, rt, ht, M) /\ Sets(M, count)
  BY TreeIdle
<1>2. Rename(f, M) /\ Image(f, M) = N
  BY <1>1, NumberedRename
<1>3. ItemSet = M \ {Top}
  BY TreeItems
<1>4. M \subseteq 1..Top /\ Top \in M /\ count \in Nat /\ Cardinality(M) = count + 1 /\ count \in 0..MaxCount
  BY <1>1, CapacityAssumption DEF Sets
<1>5. Sets(N, count)
  <2>1. N \subseteq 1..Top /\ Top \in N
    BY <1>2, <1>4, ImageType
  <2>0. f[Top] = Top /\ Top \in M \cup {0}
    BY <1>2, <1>4 DEF Rename
  <2>2. Upto(Image(f, M))[f[Top]] = Upto(M)[Top]
    <3>. HIDE DEF f
    <3>. QED
      BY <1>2, <1>4, <2>0, ImageUpto
  <2>3. Upto(N)[Top] = Cardinality(N) /\ Upto(M)[Top] = Cardinality(M)
    BY <2>1, <1>4, MFinite
  <2>. QED
    BY <2>0, <2>1, <2>2, <2>3, <1>2, <1>4 DEF Sets
<1>6. CASE rt = Null /\ DOMAIN nodes = {} /\ ht = 0 /\ M = {Top}
  <2>1. DOMAIN W = D
    BY DEF Renumber
  <2>2. N = {Top}
    BY <1>6, <1>2 DEF Image, Rename
  <2>. QED
    BY <1>5, <1>6, <2>1, <2>2 DEF Tidy
<1>7. CASE rt # Null /\ \E lv : Complete(D, nodes, rt, ht, lv, M)
  <2>1. PICK lv : Complete(D, nodes, rt, ht, lv, M)
    BY <1>7
  <2>2. Fill(D, nodes, rt, Null, Null) /\ \E lo, hi : Form(D, nodes, rt, ht, lv, lo, hi, M)
    BY <2>1 DEF Complete
  <2>3. PICK lo, hi : Form(D, nodes, rt, ht, lv, lo, hi, M)
    BY <2>2
  <2>4. nodes \in [D -> NodeSet]
    BY <2>3 DEF Form, Typed
  <2>5. ASSUME NEW b \in D, NEW i \in 1..Len(nodes[b].keys) PROVE nodes[b].keys[i] \in ItemSet
    <3>. HIDE DEF D
    <3>1. nodes[b].keys[i] \in M /\ nodes[b].keys[i] < hi[b] /\ hi[b] <= Top /\ hi[b] \in Int
          /\ nodes[b].keys[i] \in Int
      BY <2>3, FormNode
    <3>2. nodes[b].keys[i] # Top
      BY <3>1, TopType
    <3>. QED
      BY <3>1, <3>2, <1>3
  <2>6. D = DOMAIN nodes
    OBVIOUS
  <2>. HIDE DEF D, rt, ht
  <2>7. DOMAIN W = D /\ Renamed(D, nodes, W, f)
    BY <1>1, <1>3, <2>4, <2>5, <2>6, RenumberRenames
  <2>. HIDE DEF W, f
  <2>8. \E lo2, hi2 : Form(D, W, rt, ht, lv, lo2, hi2, Image(f, M))
    BY <2>3, <2>7, <1>2, Relabel
  <2>9. W \in [D -> NodeSet] /\ \A b \in D : (W[b].leaf <=> nodes[b].leaf) /\ Len(W[b].keys) = Len(nodes[b].keys)
    BY <2>7 DEF Renamed
  <2>10. Fill(D, W, rt, Null, Null)
    BY <2>2, <2>4, <2>9, SameFill
  <2>11. Complete(D, W, rt, ht, lv, N)
    BY <2>8, <2>10, <1>2 DEF Complete
  <2>12. Tidy(W, rt, ht, N)
    BY <1>7, <2>7, <2>11 DEF Tidy
  <2>. QED
    BY <2>12, <2>7, <2>6, <1>5 DEF W, rt, ht
<1>. QED
  BY <1>1, <1>6, <1>7 DEF Tidy

-----------------------------------------------------------------------------
(* The binary search.                                                       *)
\* f[i] is what i rounds of next make of base.
Iterates(f, base, N, next) == f[0] = base /\ \A n \in 1..N : f[n] = next[f[n - 1]]

\* N rounds of a loop have a trace.
LEMMA LoopIterates ==
  ASSUME NEW A, NEW base, base \in A, NEW N, N \in Nat, NEW next, next \in [A -> A]
  PROVE  \E f \in [0..N -> A] : Iterates(f, base, N, next)
<1>. DEFINE step == [n \in 1..N |-> next]
<1>1. step \in [1..N -> [A -> A]]
  OBVIOUS
<1>2. \A n \in 1..N : step[n] = next
  OBVIOUS
<1>. HIDE DEF step
<1>3. PICK g \in [0..N -> A] : g[0] = base /\ \A n \in 1..N : g[n] = step[n][g[n - 1]]
  BY <1>1, LoopRuns
<1>. QED
  BY <1>2, <1>3 DEF Iterates

\* A round, and the rounds, of the loop of BSearch.
Halving(n, q, s) ==
  LET mid == (s.lo + s.hi) \div 2 IN
  CASE s.lo >= s.hi -> s
    [] s.lo < s.hi /\ q = Key(n, mid) -> [lo |-> mid, hi |-> mid]
    [] s.lo < s.hi /\ q < Key(n, mid) -> [lo |-> s.lo, hi |-> mid]
    [] OTHER -> [lo |-> mid + 1, hi |-> s.hi]

Search(n, q) ==
  LET last == NumItems(n) - 1
      search[i \in 0..last] ==
        IF i = 0 THEN [lo |-> 0, hi |-> last] ELSE Halving(n, q, search[i - 1])
  IN search

\* BSearch by the state of its loop.
LEMMA SearchUsed ==
  ASSUME NEW n, NEW q
  PROVE  BSearch(n, q) =
           LET last == NumItems(n) - 1
               hi == Search(n, q)[last].hi
           IN IF q > Key(n, last) THEN [index |-> NumItems(n), found |-> FALSE]
              ELSE IF q = Key(n, last) THEN [index |-> last, found |-> TRUE]
              ELSE [index |-> hi, found |-> q = Key(n, hi)]
BY DEF BSearch, Search, Halving

\* q is behind the keys before lo, and not behind the one at hi.
Bracket(n, q, s) ==
  /\ s.lo \in Nat /\ s.hi \in Nat /\ s.lo <= s.hi /\ s.hi <= Len(n.keys) - 1
  /\ \A k \in 1..s.lo : n.keys[k] < q
  /\ q <= n.keys[s.hi + 1]

Rising(n) == \A i, j \in 1..Len(n.keys) : i < j => n.keys[i] < n.keys[j]

\* A round keeps the bracket and halves it.
Halves2(s, t) == t.lo = t.hi \/ t.hi - t.lo < s.hi - s.lo

\* A round of the loop of BSearch keeps the item between lo and hi, and
\* brings them together.
LEMMA HalvingFacts ==
  ASSUME NEW n \in NodeSet, Rising(n), NEW q \in Int, NEW s, Bracket(n, q, s),
         NEW t, t = Halving(n, q, s)
  PROVE  Bracket(n, q, t) /\ Halves2(s, t)
<1>. DEFINE lo == s.lo
            hi == s.hi
            m == Len(n.keys)
            mid == (lo + hi) \div 2
            k == n.keys
<1>1. /\ lo \in Nat /\ hi \in Nat /\ lo <= hi /\ hi <= m - 1 /\ m \in Nat
      /\ \A i \in 1..lo : k[i] < q
      /\ q <= k[hi + 1]
      /\ \A i \in 1..m : k[i] \in Int
      /\ \A i, j \in 1..m : i < j => k[i] < k[j]
  BY NodeFacts DEF Bracket, Rising
<1>2. t = CASE lo >= hi -> s
            [] lo < hi /\ q = k[mid + 1] -> [lo |-> mid, hi |-> mid]
            [] lo < hi /\ q < k[mid + 1] -> [lo |-> lo, hi |-> mid]
            [] OTHER -> [lo |-> mid + 1, hi |-> hi]
  BY DEF Halving, Key
<1>3. Bracket(n, q, t) <=> /\ t.lo \in Nat /\ t.hi \in Nat /\ t.lo <= t.hi /\ t.hi <= m - 1
                           /\ \A i \in 1..t.lo : k[i] < q
                           /\ q <= k[t.hi + 1]
  BY DEF Bracket
<1>. HIDE DEF lo, hi, m, mid, k
<1>4. CASE lo >= hi
  <2>1. t = s
    BY <1>1, <1>2, <1>4
  <2>2. t.lo = t.hi
    BY <2>1, <1>1, <1>4 DEF lo, hi
  <2>. QED
    BY <2>1, <2>2 DEF Halves2
<1>5. CASE lo < hi
  <2>1. mid \in Nat /\ lo <= mid /\ mid < hi /\ mid + 1 \in 1..m /\ mid \in 0..m
    BY <1>1, <1>5 DEF mid
  <2>2. ~ (lo >= hi)
    BY <1>1, <1>5
  <2>3. CASE q = k[mid + 1]
    <3>1. t.lo = mid /\ t.hi = mid
      BY <1>2, <1>5, <2>2, <2>3
    <3>2. \A i \in 1..mid : i \in 1..m /\ i < mid + 1
      BY <2>1, <1>1
    <3>3. \A i \in 1..mid : k[i] < q
      BY <3>2, <2>1, <2>3, <1>1
    <3>4. mid <= m - 1 /\ q <= k[mid + 1]
      BY <2>1, <2>3, <1>1
    <3>. QED
      BY <3>1, <3>3, <3>4, <2>1, <1>3 DEF Halves2
  <2>4. CASE q < k[mid + 1]
    <3>1. t.lo = lo /\ t.hi = mid
      BY <1>1, <1>2, <1>5, <2>1, <2>2, <2>4
    <3>2. mid <= m - 1 /\ q <= k[mid + 1] /\ mid - lo < hi - lo
      BY <2>1, <2>4, <1>1
    <3>. QED
      BY <3>1, <3>2, <2>1, <1>1, <1>3 DEF Halves2, lo, hi
  <2>5. CASE ~ (q = k[mid + 1]) /\ ~ (q < k[mid + 1])
    <3>1. t.lo = mid + 1 /\ t.hi = hi
      BY <1>2, <2>2, <2>5
    <3>2. k[mid + 1] < q
      BY <2>1, <2>5, <1>1
    <3>3. \A i \in 1..(mid + 1) : i \in 1..m /\ (i < mid + 1 \/ i = mid + 1)
      BY <2>1, <1>1
    <3>4. ASSUME NEW i \in 1..(mid + 1) PROVE k[i] < q
      <4>1. i \in 1..m /\ (k[i] < k[mid + 1] \/ i = mid + 1) /\ k[i] \in Int /\ k[mid + 1] \in Int
        BY <3>3, <2>1, <1>1
      <4>. QED
        BY <4>1, <3>2
    <3>5. mid + 1 <= hi /\ hi - (mid + 1) < hi - lo /\ mid + 1 \in Nat
      BY <2>1, <1>1
    <3>. QED
      BY <3>1, <3>4, <3>5, <1>1, <1>3 DEF Halves2, lo, hi
  <2>. QED
    BY <2>3, <2>4, <2>5
<1>. QED
  BY <1>1, <1>4, <1>5

-----------------------------------------------------------------------------

\* The state of the loop is a pair of numbers.
LEMMA HalvingRecord ==
  ASSUME NEW n, NEW q, NEW s \in [lo : Int, hi : Int]
  PROVE  Halving(n, q, s) \in [lo : Int, hi : Int]
<1>. DEFINE mid == (s.lo + s.hi) \div 2
            X == [lo |-> mid, hi |-> mid]
            Y == [lo |-> s.lo, hi |-> mid]
            Z == [lo |-> mid + 1, hi |-> s.hi]
            R == [lo : Int, hi : Int]
<1>1. mid \in Int /\ s.lo \in Int /\ s.hi \in Int
  OBVIOUS
<1>2. X \in R /\ Y \in R /\ Z \in R /\ s \in R
  BY <1>1
<1>3. Halving(n, q, s) = CASE s.lo >= s.hi -> s
                           [] s.lo < s.hi /\ q = Key(n, mid) -> X
                           [] s.lo < s.hi /\ q < Key(n, mid) -> Y
                           [] OTHER -> Z
  BY DEF Halving
<1>. HIDE DEF mid, X, Y, Z, R
<1>4. Halving(n, q, s) = s \/ Halving(n, q, s) = X \/ Halving(n, q, s) = Y \/ Halving(n, q, s) = Z
  BY <1>3
<1>. QED
  BY <1>2, <1>4 DEF R

\* What the rounds do.
LEMMA SearchRounds ==
  ASSUME NEW n \in NodeSet, Rising(n), Len(n.keys) >= 1, NEW q \in Int, q <= n.keys[Len(n.keys)],
         NEW N, N = Len(n.keys) - 1
  PROVE  LET s == Search(n, q)[N] IN Bracket(n, q, s) /\ s.lo = s.hi
<1>. DEFINE R == [lo : Int, hi : Int]
            A == {s \in R : Bracket(n, q, s)}
            base == [lo |-> 0, hi |-> N]
            next == [s \in A |-> Halving(n, q, s)]
            Is(f) == f = [i \in 0..N |-> IF i = 0 THEN base ELSE Halving(n, q, f[i - 1])]
            F == Search(n, q)
<1>0. N \in Nat /\ N + 1 = Len(n.keys)
  BY NodeFacts
<1>1. base \in A
  <2>1. base \in R /\ base.lo = 0 /\ base.hi = N
    BY <1>0
  <2>. HIDE DEF base
  <2>2. \A k \in 1..base.lo : n.keys[k] < q
    BY <2>1
  <2>3. Bracket(n, q, base)
    BY <1>0, <2>1, <2>2 DEF Bracket
  <2>. QED
    BY <2>1, <2>3
<1>2. ASSUME NEW s \in A PROVE Halving(n, q, s) \in A /\ Halves2(s, Halving(n, q, s))
  <2>1. s \in R /\ Bracket(n, q, s)
    OBVIOUS
  <2>2. Halving(n, q, s) \in R
    BY <2>1, HalvingRecord
  <2>3. Bracket(n, q, Halving(n, q, s)) /\ Halves2(s, Halving(n, q, s))
    BY <2>1, HalvingFacts
  <2>. QED
    BY <2>2, <2>3
<1>3. next \in [A -> A] /\ \A s \in A : next[s] = Halving(n, q, s)
  <2>. HIDE DEF A
  <2>. QED
    BY <1>2
<1>4. \A s \in A : s.lo \in Nat /\ s.hi \in Nat /\ s.lo <= s.hi /\ Bracket(n, q, s)
  BY DEF Bracket
<1>5. base.lo = 0 /\ base.hi = N
  OBVIOUS
<1>. HIDE DEF next, A, base
<1>6. PICK g \in [0..N -> A] : Iterates(g, base, N, next)
  <2>1. N \in Nat /\ base \in A /\ next \in [A -> A]
    BY <1>0, <1>1, <1>3
  <2>. QED
    BY <2>1, LoopIterates
<1>7. \A i \in 1..N : g[i] = Halving(n, q, g[i - 1])
  <2>. SUFFICES ASSUME NEW i \in 1..N PROVE g[i] = Halving(n, q, g[i - 1])
    OBVIOUS
  <2>1. i - 1 \in 0..N
    BY <1>0
  <2>. QED
    BY <1>3, <1>6, <2>1 DEF Iterates
<1>8. Is(g)
  <2>1. \A i \in 0..N : g[i] = IF i = 0 THEN base ELSE Halving(n, q, g[i - 1])
    BY <1>0, <1>6, <1>7 DEF Iterates
  <2>. QED
    BY <2>1
<1>9. F = CHOOSE f : Is(f)
  BY DEF Search, NumItems, base
<1>10. Is(F)
  BY <1>8, <1>9
<1>. HIDE DEF F
<1>11. \A i \in 0..N : F[i] = IF i = 0 THEN base ELSE Halving(n, q, F[i - 1])
  BY <1>10
<1>12. F[0] = base /\ \A i \in 1..N : F[i] = Halving(n, q, F[i - 1])
  BY <1>0, <1>11
<1>13. \A i \in 0..N : F[i] \in A
  <2>1. F[0] \in A
    BY <1>1, <1>12
  <2>2. ASSUME NEW i \in 1..N, F[i - 1] \in A PROVE F[i] \in A
    BY <2>2, <1>2, <1>12
  <2>. QED
    BY <1>0, <2>1, <2>2, LoopStates
<1>. DEFINE Near(i) == F[i].lo = F[i].hi \/ F[i].hi - F[i].lo <= N - i
            S == {i \in Nat : i <= N => Near(i)}
<1>14. 0 \in S
  BY <1>12, <1>5, <1>0
<1>15. ASSUME NEW i \in Nat, i \in S PROVE i + 1 \in S
  <2>. SUFFICES ASSUME i + 1 <= N PROVE Near(i + 1)
    OBVIOUS
  <2>. DEFINE s == F[i]
              t == F[i + 1]
  <2>1. i \in 0..N /\ i + 1 \in 1..N /\ i + 1 \in 0..N /\ (i + 1) - 1 = i
    BY <1>0
  <2>2. s \in A /\ t = Halving(n, q, s) /\ t \in A
    BY <2>1, <1>12, <1>13
  <2>3. Halves2(s, t)
    BY <2>2, <1>2
  <2>4. s.lo = s.hi \/ s.hi - s.lo <= N - i
    BY <2>1, <1>15
  <2>5. s.lo \in Nat /\ s.hi \in Nat /\ t.lo \in Nat /\ t.hi \in Nat /\ t.lo <= t.hi
    BY <2>2, <1>4
  <2>6. t.lo = t.hi \/ t.hi - t.lo < s.hi - s.lo
    BY <2>3 DEF Halves2
  <2>. HIDE DEF s, t
  <2>7. t.lo = t.hi \/ t.hi - t.lo <= N - (i + 1)
    BY <2>4, <2>5, <2>6, <1>0
  <2>. QED
    BY <2>7 DEF t
<1>16. N \in S
  <2>. HIDE DEF S
  <2>1. Nat \subseteq S
    BY <1>14, <1>15, NatSetInduction
  <2>. QED
    BY <2>1, <1>0
<1>17. Near(N) /\ F[N] \in A
  BY <1>16, <1>0, <1>13
<1>. DEFINE z == F[N]
<1>18. z.lo \in Nat /\ z.hi \in Nat /\ z.lo <= z.hi /\ Bracket(n, q, z) /\ (z.lo = z.hi \/ z.hi - z.lo <= N - N)
  BY <1>17, <1>4
<1>. HIDE DEF z
<1>19. z.lo = z.hi
  BY <1>18, <1>0
<1>. QED
  BY <1>18, <1>19 DEF z, F

-----------------------------------------------------------------------------
\* The first key of n that is not below q.
Searched(n, q, r) ==
  /\ r.index \in 0..Len(n.keys)
  /\ \A k \in 1..r.index : n.keys[k] < q
  /\ r.index < Len(n.keys) => q <= n.keys[r.index + 1]
  /\ r.found <=> (r.index < Len(n.keys) /\ n.keys[r.index + 1] = q)

\* BSearch returns the first item that is not smaller, and whether it is the
\* one asked for.
LEMMA BSearchFacts ==
  ASSUME NEW n \in NodeSet, Rising(n), Len(n.keys) >= 1, NEW q \in Int
  PROVE  Searched(n, q, BSearch(n, q))
<1>. DEFINE m == Len(n.keys)
            N == m - 1
            k == n.keys
            r == BSearch(n, q)
            hi == Search(n, q)[N].hi
<1>1. /\ m \in Nat /\ m >= 1 /\ N \in Nat /\ N + 1 = m
      /\ \A i \in 1..m : k[i] \in Int
      /\ \A i, j \in 1..m : i < j => k[i] < k[j]
  BY NodeFacts DEF Rising
<1>2. r = IF q > k[N + 1] THEN [index |-> m, found |-> FALSE]
          ELSE IF q = k[N + 1] THEN [index |-> N, found |-> TRUE]
          ELSE [index |-> hi, found |-> q = k[hi + 1]]
  BY SearchUsed DEF Key, NumItems
<1>3. m \in 1..m /\ \A i \in 1..m : i < m \/ i = m
  BY <1>1
<1>4. Searched(n, q, r) <=> /\ r.index \in 0..m
                            /\ \A i \in 1..r.index : k[i] < q
                            /\ r.index < m => q <= k[r.index + 1]
                            /\ r.found <=> (r.index < m /\ k[r.index + 1] = q)
  BY DEF Searched
<1>0. N = Len(n.keys) - 1
  OBVIOUS
<1>. HIDE DEF N, r, hi
<1>5. CASE q > k[m]
  <2>1. r.index = m /\ r.found = FALSE
    BY <1>1, <1>2, <1>5
  <2>2. ASSUME NEW i \in 1..m PROVE k[i] < q
    <3>1. k[i] \in Int /\ k[m] \in Int /\ (k[i] < k[m] \/ k[i] = k[m])
      BY <1>1, <1>3
    <3>. QED
      BY <3>1, <1>5
  <2>3. ~ r.found /\ ~ (r.index < m) /\ r.index \in 0..m
    BY <2>1, <1>1
  <2>4. \A i \in 1..r.index : k[i] < q
    BY <2>1, <2>2
  <2>. HIDE DEF k, m
  <2>. QED
    BY <2>3, <2>4, <1>4 DEF r
<1>6. CASE q = k[m]
  <2>1. r.index = N /\ r.found = TRUE
    BY <1>1, <1>2, <1>6
  <2>2. \A i \in 1..N : i \in 1..m /\ i < m
    BY <1>1
  <2>3. \A i \in 1..N : k[i] < q
    BY <2>2, <1>1, <1>3, <1>6
  <2>4. N \in 0..m /\ N < m
    BY <1>1
  <2>5. q <= q /\ k[N + 1] = q
    BY <1>1, <1>6, <1>3
  <2>6. r.found /\ r.index < m /\ k[r.index + 1] = q /\ q <= k[r.index + 1] /\ r.index \in 0..m
    BY <2>1, <2>4, <2>5
  <2>7. \A i \in 1..r.index : k[i] < q
    BY <2>1, <2>3
  <2>. HIDE DEF k, m
  <2>. QED
    BY <2>6, <2>7, <1>4 DEF r
<1>7. CASE q < k[m]
  <2>1. q <= k[m]
    BY <1>1, <1>3, <1>7
  <2>2. LET s == Search(n, q)[N] IN Bracket(n, q, s) /\ s.lo = s.hi
    BY <1>0, <2>1, SearchRounds
  <2>3. /\ hi \in Nat /\ hi <= m - 1
        /\ \A i \in 1..hi : k[i] < q
        /\ q <= k[hi + 1]
    BY <2>2 DEF Bracket, hi
  <2>4. r.index = hi /\ r.found = (q = k[hi + 1])
    <3>1. ~ (q > k[m]) /\ ~ (q = k[m])
      BY <1>1, <1>3, <1>7
    <3>. HIDE DEF k, m
    <3>. QED
      BY <3>1, <1>1, <1>2
  <2>5. hi \in 0..m /\ hi < m
    BY <2>3, <1>1
  <2>6. r.found <=> (r.index < m /\ k[r.index + 1] = q)
    BY <2>4, <2>5
  <2>7. r.index \in 0..m /\ (\A i \in 1..r.index : k[i] < q) /\ q <= k[r.index + 1]
    BY <2>3, <2>4, <2>5
  <2>. HIDE DEF k, m
  <2>. QED
    BY <2>6, <2>7, <1>4 DEF r
<1>. QED
  BY <1>1, <1>3, <1>5, <1>6, <1>7

-----------------------------------------------------------------------------
(* The way down to an item.                                                 *)
\* No node is empty.
LEMMA FillPositive ==
  ASSUME NEW D, NEW V \in [D -> NodeSet], NEW rt, Fill(D, V, rt, Null, Null), NEW b \in D, Null \notin D
  PROVE  Len(V[b].keys) \in Nat /\ Len(V[b].keys) >= 1
<1>1. V[b] \in NodeSet /\ Len(V[b].keys) \in Nat /\ V[b].leaf \in BOOLEAN
  BY NodeFacts
<1>2. Sized(V[b])
  BY <1>1, SizeFacts
<1>3. LeastItems(V[b]) \in Nat /\ 1 <= LeastItems(V[b])
  BY <1>2 DEF Sized
<1>4. b # Null
  OBVIOUS
<1>5. LeastItems(V[b]) <= Len(V[b].keys) \/ 1 <= Len(V[b].keys)
  BY <1>4 DEF Fill
<1>. QED
  BY <1>1, <1>3, <1>5

\* The items of a node are in order.
LEMMA FormRising ==
  ASSUME NEW D, NEW H, NEW rt, NEW ht, NEW lv, NEW lo, NEW hi, NEW M,
         Form(D, H, rt, ht, lv, lo, hi, M), NEW a \in D
  PROVE  Rising(H[a]) /\ H[a] \in NodeSet /\ Null \notin D /\ H \in [D -> NodeSet] /\ ht \in Nat
<1>1. \A i, j \in 1..Len(H[a].keys) : i < j => H[a].keys[i] < H[a].keys[j]
  BY FormNode
<1>2. D \subseteq Nat \ {0} /\ H \in [D -> NodeSet] /\ ht \in Nat
  BY DEF Form, Typed
<1>. QED
  BY <1>1, <1>2 DEF Rising, Null

\* Where q would be, it stands between two neighbours.
LEMMA SearchedEdges ==
  ASSUME NEW n \in NodeSet, NEW q \in Int, NEW r, Searched(n, q, r), ~ r.found,
         NEW l \in Int, NEW u \in Int, l < q, q < u, NEW i, i = r.index
  PROVE  /\ i \in 0..Len(n.keys)
         /\ Edge(n, l, u, i) < q /\ q < Edge(n, l, u, i + 1)
<1>. DEFINE m == Len(n.keys)
            k == n.keys
<1>1. m \in Nat /\ \A j \in 1..m : k[j] \in Int
  BY NodeFacts
<1>2. /\ i \in 0..m
      /\ \A j \in 1..i : k[j] < q
      /\ i < m => q <= k[i + 1]
      /\ ~ (i < m /\ k[i + 1] = q)
  BY DEF Searched
<1>3. \A j : Edge(n, l, u, j) = IF j = 0 THEN l ELSE IF j = m + 1 THEN u ELSE k[j]
  BY DEF Edge
<1>. HIDE DEF m, k
<1>4. Edge(n, l, u, i) < q
  <2>1. CASE i = 0
    BY <2>1, <1>3
  <2>2. CASE i # 0
    <3>1. i \in 1..i /\ i # m + 1
      BY <2>2, <1>1, <1>2
    <3>. QED
      BY <3>1, <2>2, <1>2, <1>3
  <2>. QED
    BY <2>1, <2>2
<1>5. q < Edge(n, l, u, i + 1)
  <2>0. i + 1 # 0
    BY <1>1, <1>2
  <2>1. CASE i = m
    BY <2>0, <2>1, <1>3
  <2>2. CASE i # m
    <3>1. i < m /\ i + 1 \in 1..m /\ i + 1 # m + 1
      BY <2>2, <1>1, <1>2
    <3>2. q <= k[i + 1] /\ k[i + 1] # q /\ k[i + 1] \in Int
      BY <3>1, <1>1, <1>2
    <3>3. q < k[i + 1]
      BY <3>2
    <3>. QED
      BY <3>1, <3>3, <2>0, <1>3
  <2>. QED
    BY <2>1, <2>2
<1>. QED
  BY <1>2, <1>4, <1>5 DEF m

\* The bounds of a child are its neighbours in the parent.
LEMMA ChildEdges ==
  ASSUME NEW D, NEW H, NEW rt, NEW ht, NEW lv, NEW lo, NEW hi, NEW M,
         Form(D, H, rt, ht, lv, lo, hi, M), NEW a \in D, NEW i \in 1..Len(H[a].children),
         NEW c, c = H[a].children[i], NEW j, j = i - 1
  PROVE  lo[c] = Edge(H[a], lo[a], hi[a], j) /\ hi[c] = Edge(H[a], lo[a], hi[a], j + 1)
<1>1. Linked(D, H, lv, lo, hi)
  BY DEF Form
<1>2. j + 1 = i
  OBVIOUS
<1>. QED
  BY <1>1, <1>2 DEF Linked

-----------------------------------------------------------------------------
\* A path on the way to q: q lies between the bounds of its last node, and the
\* last position is where the search ended.
Tracked(D, h, rt, ht, lv, lo, hi, q, p) ==
  /\ On(D, h, rt, ht, lv, p)
  /\ lo[LastNode(p)] < q /\ q < hi[LastNode(p)]
  /\ LastPos(p) = BSearch(h[LastNode(p)], q).index
  /\ Searched(h[LastNode(p)], q, BSearch(h[LastNode(p)], q))

Ended(h, q, p) == BSearch(h[LastNode(p)], q).found \/ h[LastNode(p)].leaf

PushSearch(h, q, p, a) == Push(p, a, BSearch(h[a], q).index)

\* Locate starts at the root.
LEMMA TrackedRoot ==
  ASSUME NEW D, NEW h, NEW rt, NEW ht, NEW lv, NEW lo, NEW hi, NEW M,
         Form(D, h, rt, ht, lv, lo, hi, M), Fill(D, h, rt, Null, Null),
         NEW q \in Int, 0 < q, q < Top, NEW p, p = PushSearch(h, q, <<>>, rt)
  PROVE  Tracked(D, h, rt, ht, lv, lo, hi, q, p) /\ Len(p) = 1
<1>. DEFINE n == h[rt]
            i == BSearch(n, q).index
<1>1. rt \in D /\ lv[rt] = ht /\ lo[rt] = 0 /\ hi[rt] = Top
  BY DEF Form, Rooted
<1>2. Rising(n) /\ n \in NodeSet /\ Null \notin D /\ h \in [D -> NodeSet] /\ ht \in Nat
  BY <1>1, FormRising
<1>3. Len(n.keys) \in Nat /\ Len(n.keys) >= 1
  BY <1>1, <1>2, FillPositive
<1>4. Searched(n, q, BSearch(n, q))
  BY <1>2, <1>3, BSearchFacts
<1>5. i \in 0..Len(n.keys) /\ i \in Int
  BY <1>3, <1>4 DEF Searched
<1>6. rt \in Int /\ lv[rt] >= 1 /\ lv[rt] <= ht
  BY <1>1, FormNode
<1>. HIDE DEF i, n
<1>. DEFINE e == <<>>
<1>7. e \in Steps /\ Len(e) = 0
  BY DEF Steps
<1>8. p = Push(e, rt, i)
  BY DEF PushSearch, i, n
<1>. HIDE DEF e
<1>9. /\ p \in Steps /\ Len(p) = Len(e) + 1
      /\ LastNode(p) = rt /\ LastPos(p) = i
      /\ p[Len(e) + 1].node = rt /\ p[Len(e) + 1].pos = i
  <2>0. e \in Steps /\ rt \in Int /\ i \in Int
    BY <1>5, <1>6, <1>7
  <2>1. LET w == Push(e, rt, i) IN
        /\ w \in Steps /\ Len(w) = Len(e) + 1
        /\ LastNode(w) = rt /\ LastPos(w) = i
        /\ w[Len(e) + 1].node = rt /\ w[Len(e) + 1].pos = i
    BY <2>0, PushFacts
  <2>. QED
    BY <2>1, <1>8
<1>10. Len(p) = 1 /\ p[1].node = rt /\ p[1].pos = i
  <2>. DEFINE m == Len(e) + 1
  <2>1. m = 1
    BY <1>7
  <2>. HIDE DEF m
  <2>2. Len(p) = m /\ p[m].node = rt /\ p[m].pos = i
    BY <1>9 DEF m
  <2>. QED
    BY <2>1, <2>2
<1>11. \A k \in 1..1 : k = 1 /\ (ht - k) + 1 = ht
  BY <1>2
<1>12. \A k \in 1..(1 - 1) : FALSE
  OBVIOUS
<1>13. 1 \in 1..ht
  <2>1. ht \in Nat /\ ht >= 1
    BY <1>1, <1>2, <1>6
  <2>. QED
    BY <2>1
<1>14. On(D, h, rt, ht, lv, p)
  BY <1>1, <1>5, <1>9, <1>10, <1>11, <1>12, <1>13 DEF On, n
<1>. QED
  BY <1>1, <1>4, <1>9, <1>10, <1>14 DEF Tracked, i, n

\* A round of Locate goes to the child whose bounds hold the item.
LEMMA TrackedPush ==
  ASSUME NEW D, NEW h, NEW rt, NEW ht, NEW lv, NEW lo, NEW hi, NEW M,
         Form(D, h, rt, ht, lv, lo, hi, M), Fill(D, h, rt, Null, Null),
         NEW q \in Int, NEW p, Tracked(D, h, rt, ht, lv, lo, hi, q, p), ~ Ended(h, q, p),
         NEW t, t = PushSearch(h, q, p, ChildBelow(h, p))
  PROVE  Tracked(D, h, rt, ht, lv, lo, hi, q, t) /\ Len(t) = Len(p) + 1
<1>. DEFINE a == LastNode(p)
            j == LastPos(p)
            c == ChildBelow(h, p)
            n == h[c]
            i == BSearch(n, q).index
<1>1. /\ On(D, h, rt, ht, lv, p) /\ lo[a] < q /\ q < hi[a]
      /\ j = BSearch(h[a], q).index /\ Searched(h[a], q, BSearch(h[a], q))
      /\ ~ BSearch(h[a], q).found /\ ~ h[a].leaf
  BY DEF Tracked, Ended
<1>2. ht \in Nat
  BY DEF Form, Typed
<1>3. a \in D /\ j \in 0..Len(h[a].keys) /\ p \in Steps /\ Len(p) \in Nat
  BY <1>1, <1>2, OnLast
<1>4. h[a] \in NodeSet /\ lo[a] \in Int /\ hi[a] \in Int /\ lv[a] # 1 /\ Len(h[a].keys) \in Nat
      /\ Len(h[a].children) = IF lv[a] = 1 THEN 0 ELSE Len(h[a].keys) + 1
  BY <1>1, <1>3, FormNode
<1>5. j + 1 \in 1..Len(h[a].children) /\ c = h[a].children[j + 1] /\ j = (j + 1) - 1
  <2>1. c = h[a].children[j + 1]
    BY DEF ChildBelow, Child
  <2>. DEFINE m == Len(h[a].keys)
              w == Len(h[a].children)
  <2>2. m \in Nat /\ w = m + 1 /\ j \in 0..m
    BY <1>3, <1>4
  <2>. HIDE DEF m, j
  <2>3. j + 1 \in 1..w /\ j = (j + 1) - 1
    BY <2>2
  <2>. QED
    BY <2>1, <2>3
<1>6. c \in D
  <2>. HIDE DEF c, j, a
  <2>1. Linked(D, h, lv, lo, hi)
    BY DEF Form
  <2>. QED
    BY <2>1, <1>3, <1>5 DEF Linked
<1>7. Rising(n) /\ n \in NodeSet /\ Null \notin D /\ h \in [D -> NodeSet]
  BY <1>6, FormRising
<1>8. Len(n.keys) \in Nat /\ Len(n.keys) >= 1
  BY <1>6, <1>7, FillPositive
<1>9. Searched(n, q, BSearch(n, q))
  BY <1>7, <1>8, BSearchFacts
<1>10. i \in 0..Len(n.keys) /\ i \in Int
  BY <1>8, <1>9 DEF Searched
<1>11. Edge(h[a], lo[a], hi[a], j) < q /\ q < Edge(h[a], lo[a], hi[a], j + 1)
  <2>. DEFINE r == BSearch(h[a], q)
  <2>. HIDE DEF r, a, j
  <2>. QED
    BY <1>1, <1>4, SearchedEdges DEF r
<1>12. lo[c] < q /\ q < hi[c]
  <2>. HIDE DEF c, j, a
  <2>. DEFINE k == j + 1
  <2>1. k \in 1..Len(h[a].children) /\ c = h[a].children[k] /\ j = k - 1
    BY <1>5
  <2>. HIDE DEF k
  <2>2. lo[c] = Edge(h[a], lo[a], hi[a], j) /\ hi[c] = Edge(h[a], lo[a], hi[a], j + 1)
    BY <1>3, <2>1, ChildEdges
  <2>. QED
    BY <2>2, <1>11
<1>13. On(D, h, rt, ht, lv, Push(p, c, i))
  <2>. HIDE DEF i
  <2>1. LET e == ChildBelow(h, p) IN On(D, h, rt, ht, lv, Push(p, e, i))
    BY <1>1, <1>4, <1>10, OnPush
  <2>. QED
    BY <2>1
<1>14. c \in Int
  BY <1>6, FormNode
<1>15. t = Push(p, c, i)
  BY DEF PushSearch
<1>. HIDE DEF a, j, c, i
<1>16. Len(t) = Len(p) + 1 /\ LastNode(t) = c /\ LastPos(t) = i
  BY <1>3, <1>10, <1>14, <1>15, PushFacts
<1>. QED
  BY <1>9, <1>12, <1>13, <1>15, <1>16 DEF Tracked, i

-----------------------------------------------------------------------------
\* A round, and the rounds, of Locate.
PushOn(h, q, p) ==
  IF BSearch(h[LastNode(p)], q).found \/ h[LastNode(p)].leaf THEN p
  ELSE PushSearch(h, q, p, ChildBelow(h, p))

Locating(h, q) ==
  LET down[i \in 0..height] ==
        IF i = 0 THEN PushSearch(h, q, <<>>, root) ELSE PushOn(h, q, down[i - 1])
  IN down

\* Locate by the state of its loop.
LEMMA LocateUsed ==
  ASSUME NEW h, NEW q
  PROVE  Locate(h, q) = Locating(h, q)[height]
BY DEF Locate, Locating, PushOn, PushSearch

\* Where q is or would be.
Spotted(D, h, rt, ht, lv, lo, hi, q, p) ==
  Tracked(D, h, rt, ht, lv, lo, hi, q, p) /\ Ended(h, q, p)

\* A round of Locate, or none when it has ended.
LEMMA PushOnFacts ==
  ASSUME NEW D, NEW h, NEW rt, NEW ht, NEW lv, NEW lo, NEW hi, NEW M,
         Form(D, h, rt, ht, lv, lo, hi, M), Fill(D, h, rt, Null, Null),
         NEW q \in Int, NEW p, Tracked(D, h, rt, ht, lv, lo, hi, q, p),
         NEW t, t = PushOn(h, q, p)
  PROVE  /\ Tracked(D, h, rt, ht, lv, lo, hi, q, t)
         /\ Ended(h, q, p) => t = p
         /\ ~ Ended(h, q, p) => Len(t) = Len(p) + 1
<1>1. CASE Ended(h, q, p)
  BY <1>1 DEF PushOn, Ended
<1>2. CASE ~ Ended(h, q, p)
  <2>1. t = PushSearch(h, q, p, ChildBelow(h, p))
    BY <1>2 DEF PushOn, Ended
  <2>2. Tracked(D, h, rt, ht, lv, lo, hi, q, t) /\ Len(t) = Len(p) + 1
    BY <1>2, <2>1, TrackedPush
  <2>. QED
    BY <1>2, <2>2
<1>. QED
  BY <1>1, <1>2

\* Locate finds the item, or the place in a leaf where it would be.
LEMMA LocateFacts ==
  ASSUME NEW D, NEW h, NEW lv, NEW lo, NEW hi, NEW M,
         Form(D, h, root, height, lv, lo, hi, M), Fill(D, h, root, Null, Null),
         NEW q \in Int, 0 < q, q < Top
  PROVE  Spotted(D, h, root, height, lv, lo, hi, q, Locate(h, q))
<1>. DEFINE rt == root
            N == height
            T(p) == Tracked(D, h, rt, N, lv, lo, hi, q, p)
            A == {p \in Steps : T(p)}
            base == PushSearch(h, q, <<>>, rt)
            next == [p \in A |-> PushOn(h, q, p)]
            Is(f) == f = [i \in 0..N |-> IF i = 0 THEN base ELSE PushOn(h, q, f[i - 1])]
            F == Locating(h, q)
<1>0. N \in Nat /\ Form(D, h, rt, N, lv, lo, hi, M) /\ Fill(D, h, rt, Null, Null)
  BY DEF Form, Typed
<1>9. F = CHOOSE f : Is(f)
  BY DEF Locating
<1>20. Locate(h, q) = F[N]
  BY LocateUsed
<1>. HIDE DEF rt, N
<1>1. base \in A /\ Len(base) = 1
  <2>. HIDE DEF base
  <2>1. T(base) /\ Len(base) = 1
    BY <1>0, TrackedRoot DEF base
  <2>2. base \in Steps
    BY <2>1 DEF Tracked, On
  <2>. QED
    BY <2>1, <2>2
<1>2. ASSUME NEW p \in A
      PROVE  /\ PushOn(h, q, p) \in A
             /\ Ended(h, q, p) => PushOn(h, q, p) = p
             /\ ~ Ended(h, q, p) => Len(PushOn(h, q, p)) = Len(p) + 1
  <2>. DEFINE t == PushOn(h, q, p)
  <2>0. t = PushOn(h, q, p)
    OBVIOUS
  <2>1. Tracked(D, h, rt, N, lv, lo, hi, q, p)
    OBVIOUS
  <2>. HIDE DEF t
  <2>2. /\ Tracked(D, h, rt, N, lv, lo, hi, q, t)
        /\ Ended(h, q, p) => t = p
        /\ ~ Ended(h, q, p) => Len(t) = Len(p) + 1
    BY <1>0, <2>0, <2>1, PushOnFacts
  <2>3. t \in Steps
    BY <2>2 DEF Tracked, On
  <2>. QED
    BY <2>2, <2>3 DEF t
<1>3. next \in [A -> A] /\ \A p \in A : next[p] = PushOn(h, q, p)
  <2>. HIDE DEF A
  <2>. QED
    BY <1>2
<1>4. \A p \in A : T(p) /\ Len(p) \in Nat /\ Len(p) <= N
  BY DEF Tracked, On
<1>. HIDE DEF next, A, base, T
<1>6. PICK g \in [0..N -> A] : Iterates(g, base, N, next)
  BY <1>0, <1>1, <1>3, LoopIterates
<1>7. \A i \in 1..N : g[i] = PushOn(h, q, g[i - 1])
  <2>. SUFFICES ASSUME NEW i \in 1..N PROVE g[i] = PushOn(h, q, g[i - 1])
    OBVIOUS
  <2>1. i - 1 \in 0..N
    BY <1>0
  <2>. QED
    BY <1>3, <1>6, <2>1 DEF Iterates
<1>8. Is(g)
  <2>1. \A i \in 0..N : g[i] = IF i = 0 THEN base ELSE PushOn(h, q, g[i - 1])
    BY <1>0, <1>6, <1>7 DEF Iterates
  <2>. QED
    BY <2>1
<1>10. Is(F)
  BY <1>8, <1>9
<1>. HIDE DEF F
<1>11. \A i \in 0..N : F[i] = IF i = 0 THEN base ELSE PushOn(h, q, F[i - 1])
  BY <1>10
<1>12. F[0] = base /\ \A i \in 1..N : F[i] = PushOn(h, q, F[i - 1])
  BY <1>0, <1>11
<1>13. \A i \in 0..N : F[i] \in A
  <2>1. F[0] \in A
    BY <1>1, <1>12
  <2>2. ASSUME NEW i \in 1..N, F[i - 1] \in A PROVE F[i] \in A
    BY <2>2, <1>2, <1>12
  <2>. QED
    BY <1>0, <2>1, <2>2, LoopStates
<1>. DEFINE Deep(i) == Ended(h, q, F[i]) \/ Len(F[i]) = i + 1
            S == {i \in Nat : i <= N => Deep(i)}
<1>14. 0 \in S
  BY <1>12, <1>1
<1>15. ASSUME NEW i \in Nat, i \in S PROVE i + 1 \in S
  <2>. SUFFICES ASSUME i + 1 <= N PROVE Deep(i + 1)
    OBVIOUS
  <2>1. i \in 0..N /\ i + 1 \in 1..N /\ (i + 1) - 1 = i
    BY <1>0
  <2>. DEFINE p == F[i]
              t == F[i + 1]
  <2>2. p \in A /\ t = PushOn(h, q, p)
    BY <2>1, <1>12, <1>13
  <2>3. Ended(h, q, p) \/ Len(p) = i + 1
    BY <2>1, <1>15
  <2>. HIDE DEF p, t
  <2>4. CASE Ended(h, q, p)
    <3>1. t = p
      BY <2>2, <2>4, <1>2
    <3>. QED
      BY <3>1, <2>4 DEF t
  <2>5. CASE ~ Ended(h, q, p)
    <3>1. Len(t) = Len(p) + 1
      BY <2>2, <2>5, <1>2
    <3>2. Len(t) = (i + 1) + 1
      BY <2>3, <2>5, <3>1
    <3>. QED
      BY <3>2 DEF t
  <2>. QED
    BY <2>4, <2>5
<1>16. N \in S
  <2>. HIDE DEF S
  <2>1. Nat \subseteq S
    BY <1>14, <1>15, NatSetInduction
  <2>. QED
    BY <2>1, <1>0
<1>17. Deep(N) /\ F[N] \in A
  BY <1>16, <1>0, <1>13
<1>18. T(F[N]) /\ Len(F[N]) \in Nat /\ Len(F[N]) <= N
  BY <1>17, <1>4
<1>19. Ended(h, q, F[N])
  <2>1. ~ (Len(F[N]) = N + 1)
    BY <1>18, <1>0
  <2>. QED
    BY <2>1, <1>17
<1>. QED
  BY <1>18, <1>19, <1>20 DEF Spotted, T, rt, N

-----------------------------------------------------------------------------
(* Insert and Delete.                                                       *)
\* The node that gets an item may have one too many.
LEMMA FillWith ==
  ASSUME NEW D, NEW h \in [D -> NodeSet], NEW rt, NEW V, NEW path, NEW x, NEW c,
         Extended(D, h, V, path, x, c), Fill(D, h, rt, Null, Null), NEW a, a = LastNode(path),
         Null \notin D
  PROVE  Fill(D, V, rt, a, Null)
<1>. SUFFICES ASSUME NEW b \in D
              PROVE  /\ b # a => Len(V[b].keys) <= MaxItems(V[b])
                     /\ Len(V[b].keys) <= MaxItems(V[b]) + 1
                     /\ b # rt /\ b # Null => LeastItems(V[b]) <= Len(V[b].keys)
                     /\ b # rt => LeastItems(V[b]) - 1 <= Len(V[b].keys)
                     /\ b = rt /\ b # Null => 1 <= Len(V[b].keys)
  BY DEF Fill
<1>1. /\ V \in [D -> NodeSet]
      /\ (V[b].leaf <=> h[b].leaf)
      /\ b # a => Len(V[b].keys) = Len(h[b].keys)
      /\ b = a => Len(V[b].keys) = Len(h[b].keys) + 1
  BY DEF Extended, Putting
<1>2. h[b] \in NodeSet /\ V[b] \in NodeSet
  BY <1>1
<1>3. h[b].leaf \in BOOLEAN /\ V[b].leaf \in BOOLEAN /\ Len(h[b].keys) \in Nat
  BY <1>2, NodeFacts
<1>4. MaxItems(V[b]) = MaxItems(h[b]) /\ LeastItems(V[b]) = LeastItems(h[b])
  BY <1>1, <1>3, SameSize
<1>5. Sized(h[b])
  BY <1>3, SizeFacts
<1>. DEFINE mx == MaxItems(h[b])
            ls == LeastItems(h[b])
            m == Len(h[b].keys)
            w == Len(V[b].keys)
<1>6. mx \in Nat /\ ls \in Nat /\ m \in Nat
  BY <1>3, <1>5 DEF Sized
<1>7. /\ m <= mx
      /\ b # rt => ls <= m
      /\ b = rt => 1 <= m
  <2>1. b # Null
    OBVIOUS
  <2>. QED
    BY <2>1 DEF Fill
<1>8. (b # a => w = m) /\ (b = a => w = m + 1)
  BY <1>1
<1>. HIDE DEF mx, ls, m, w
<1>9. /\ b # a => w <= mx
      /\ w <= mx + 1
      /\ b # rt => ls <= w
      /\ b # rt => ls - 1 <= w
      /\ b = rt => 1 <= w
  BY <1>6, <1>7, <1>8
<1>. QED
  BY <1>9, <1>4 DEF mx, ls, m, w

\* The place for a new item in a leaf.
LEMMA SpotPending ==
  ASSUME NEW D, NEW h, NEW rt, NEW ht, NEW lv, NEW lo, NEW hi, NEW M,
         Form(D, h, rt, ht, lv, lo, hi, M), Fill(D, h, rt, Null, Null),
         NEW q \in Int, NEW p, Spotted(D, h, rt, ht, lv, lo, hi, q, p), ~ Found(h, p, q),
         NEW c \in Int
  PROVE  /\ q \notin M /\ q \in 1..Top /\ h[LastNode(p)].leaf
         /\ Pending(D, h, rt, ht, lv, lo, hi, M \cup {q}, p, q, c)
<1>. DEFINE a == LastNode(p)
            i == LastPos(p)
            r == BSearch(h[a], q)
<1>1. /\ On(D, h, rt, ht, lv, p) /\ lo[a] < q /\ q < hi[a]
      /\ i = r.index /\ Searched(h[a], q, r) /\ ~ r.found /\ h[a].leaf
  BY DEF Spotted, Tracked, Ended, Found
<1>2. ht \in Nat /\ h \in [D -> NodeSet]
  BY DEF Form, Typed
<1>3. a \in D /\ i \in 0..Len(h[a].keys)
  BY <1>1, <1>2, OnLast
<1>4. h[a] \in NodeSet /\ lo[a] \in Int /\ hi[a] \in Int /\ lv[a] = 1 /\ Whole(h[a]) /\ Null \notin D
  BY <1>1, <1>3, FormNode, FormWhole, FormRising
<1>5. Edge(h[a], lo[a], hi[a], i) < q /\ q < Edge(h[a], lo[a], hi[a], i + 1)
  <2>. HIDE DEF r, a, i
  <2>. QED
    BY <1>1, <1>4, SearchedEdges
<1>. DEFINE V == With(h, p, q, c)
<1>6. Form(D, V, rt, ht, lv, lo, hi, M \cup {q}) /\ q \notin M /\ q \in 1..Top
  BY <1>1, <1>4, <1>5, LeafAdded
<1>7. V = With(h, p, q, c)
  OBVIOUS
<1>. HIDE DEF V
<1>8. Extended(D, h, V, p, q, c)
  BY <1>1, <1>2, <1>4, <1>7, WithFacts
<1>9. Fill(D, V, rt, a, Null)
  BY <1>2, <1>4, <1>8, FillWith
<1>. QED
  BY <1>1, <1>2, <1>4, <1>6, <1>9 DEF Pending, V

-----------------------------------------------------------------------------
\* A tree of one leaf with one item.
LEMMA SoleLeaf ==
  ASSUME NEW a \in Nat, a # 0, NEW x \in 1..(Top - 1), NEW H, DOMAIN H = {a}, H = [b \in {a} |-> H[b]],
         H[a] = Leaf(<<x>>)
  PROVE  \E lv : Complete({a}, H, a, 1, lv, {x, Top})
<1>. DEFINE D == {a}
            M == {x, Top}
            lv == [b \in D |-> 1]
            lo == [b \in D |-> 0]
            hi == [b \in D |-> Top]
            n == H[a]
<1>1. Top \in Nat /\ Top >= 2 /\ x \in Int /\ 0 < x /\ x < Top /\ x \in 1..Top /\ x # Top
  BY TopType
<1>2. n.leaf = TRUE /\ n.keys = <<x>> /\ n.children = <<>> /\ n.cnt = 0
  BY DEF Leaf
<1>3. <<x>> \in Numbers /\ Len(<<x>>) = 1 /\ <<x>>[1] = x /\ <<>> \in Numbers /\ Len(<<>>) = 0
  BY <1>1, OneNumber, NoNumbers
<1>4. n \in NodeSet
  <2>. DEFINE ks == <<x>>
              cs == <<>>
  <2>1. ks \in Numbers /\ cs \in Numbers
    BY <1>3
  <2>2. n = [leaf |-> TRUE, keys |-> ks, children |-> cs, cnt |-> 0]
    BY DEF Leaf
  <2>. HIDE DEF ks, cs, n
  <2>. QED
    BY <2>1, <2>2 DEF NodeSet
<1>5. lv[a] = 1 /\ lo[a] = 0 /\ hi[a] = Top /\ a \in D /\ \A b \in D : b = a
  OBVIOUS
<1>6. Len(n.keys) = 1 /\ n.keys[1] = x /\ Len(n.children) = 0
  BY <1>2, <1>3
<1>7. M \subseteq 1..Top /\ Top \in M /\ x \in M
  BY <1>1
<1>8. IsFiniteSet(D) /\ D \subseteq Nat \ {0}
  BY FS_Singleton
<1>8a. IsFiniteSet(M) /\ Cardinality(M) = 2
  <2>1. M = {x} \cup {Top} /\ Top \notin {x}
    BY <1>1
  <2>2. IsFiniteSet({x}) /\ Cardinality({x}) = 1
    BY FS_Singleton
  <2>3. IsFiniteSet({x} \cup {Top}) /\ Cardinality({x} \cup {Top}) = Cardinality({x}) + 1
    BY <2>1, <2>2, FS_AddElement
  <2>. QED
    BY <2>1, <2>2, <2>3
<1>9. H \in [D -> NodeSet]
  <2>1. \A b \in D : H[b] \in NodeSet
    BY <1>4, <1>5
  <2>. QED
    BY <2>1
<1>10. lv \in [D -> Nat] /\ lo \in [D -> 0..Top] /\ hi \in [D -> 0..Top]
  BY <1>1
<1>11. Edge(n, 0, Top, 0) = 0 /\ Edge(n, 0, Top, 1) = x /\ Edge(n, 0, Top, 2) = Top
  BY <1>6 DEF Edge
<1>12. Upto(M)[Top] = 2 /\ Upto(M)[0] = 0
  <2>. HIDE DEF M
  <2>. QED
    BY <1>7, <1>8a, MFinite
<1>13. TreeCount(n) = 1
  BY <1>2, <1>6 DEF TreeCount, NumItems
<1>. HIDE DEF n, lv, lo, hi, M
<1>14. Typed(D, H, 1, lv, lo, hi, M)
  BY <1>7, <1>8, <1>9, <1>10 DEF Typed
<1>15. Rooted(D, a, 1, lv, lo, hi)
  BY <1>5 DEF Rooted
<1>16. Leveled(D, H, 1, lv)
  <2>1. lv[a] \in 1..1 /\ n.leaf /\ lv[a] = 1 /\ Len(n.children) = 0
    BY <1>2, <1>5, <1>6
  <2>. QED
    BY <2>1, <1>5 DEF Leveled, n
<1>17. Ordered(D, H, lo, hi, M)
  <2>1. lo[a] \in M \cup {0} /\ hi[a] \in M
    BY <1>5, <1>7
  <2>2. \A i \in 1..Len(n.keys) : n.keys[i] \in M
    <3>1. \A i \in 1..1 : i = 1
      OBVIOUS
    <3>. QED
      BY <3>1, <1>6, <1>7
  <2>3. ASSUME NEW i \in 0..(Len(n.keys) + 1), NEW j \in 0..(Len(n.keys) + 1), i < j
        PROVE  Edge(n, lo[a], hi[a], i) < Edge(n, lo[a], hi[a], j)
    <3>1. (i = 0 /\ j = 1) \/ (i = 0 /\ j = 2) \/ (i = 1 /\ j = 2)
      BY <1>6, <2>3
    <3>. QED
      BY <3>1, <1>1, <1>5, <1>11
  <2>. QED
    BY <2>1, <2>2, <2>3, <1>5 DEF Ordered, n
<1>18. Linked(D, H, lv, lo, hi)
  <2>1. \A i \in 1..0 : FALSE
    OBVIOUS
  <2>. QED
    BY <2>1, <1>5, <1>6 DEF Linked, n
<1>19. Apart(D, lv, lo, hi)
  BY <1>5 DEF Apart
<1>20. Counted(D, H, lo, hi, M)
  <2>1. TreeCount(n) = Upto(M)[hi[a]] - Upto(M)[lo[a]] - 1
    BY <1>5, <1>12, <1>13
  <2>. QED
    BY <2>1, <1>5 DEF Counted, n
<1>21. Form(D, H, a, 1, lv, lo, hi, M)
  BY <1>14, <1>15, <1>16, <1>17, <1>18, <1>19, <1>20 DEF Form
<1>22. MaxItems(n) \in Nat /\ MaxItems(n) >= 3
  BY <1>2, CapacityAssumption DEF MaxItems
<1>23. Fill(D, H, a, Null, Null)
  <2>1. 1 <= MaxItems(n) /\ 1 <= MaxItems(n) + 1 /\ 1 <= 1
    BY <1>22
  <2>. QED
    BY <2>1, <1>5, <1>6 DEF Fill, n
<1>. QED
  BY <1>21, <1>23 DEF Complete, M

-----------------------------------------------------------------------------
\* One element more, or less.
LEMMA SetsMore ==
  ASSUME NEW M, NEW n, Sets(M, n), n < MaxCount, NEW x \in 1..Top, x \notin M
  PROVE  Sets(M \cup {x}, n + 1)
<1>1. M \subseteq 1..Top /\ Top \in M /\ n \in 0..MaxCount /\ Cardinality(M) = n + 1 /\ MaxCount \in Nat
  BY CapacityAssumption DEF Sets
<1>2. IsFiniteSet(M)
  BY <1>1, MFinite
<1>3. Cardinality(M \cup {x}) = Cardinality(M) + 1
  BY <1>2, FS_AddElement
<1>4. n + 1 \in 0..MaxCount
  BY <1>1
<1>. QED
  BY <1>1, <1>3, <1>4 DEF Sets

\* An item less.
LEMMA SetsLess ==
  ASSUME NEW M, NEW n, Sets(M, n), NEW x \in M, x # Top
  PROVE  Sets(M \ {x}, n - 1)
<1>1. M \subseteq 1..Top /\ Top \in M /\ n \in 0..MaxCount /\ Cardinality(M) = n + 1 /\ MaxCount \in Nat
  BY CapacityAssumption DEF Sets
<1>2. IsFiniteSet(M)
  BY <1>1, MFinite
<1>3. Cardinality(M \ {x}) = Cardinality(M) - 1 /\ IsFiniteSet(M \ {x})
  BY <1>2, FS_RemoveElement
<1>4. Cardinality(M \ {x}) \in Nat
  BY <1>3, FS_CardinalityType
<1>5. Cardinality(M \ {x}) # 0
  BY <1>3, <1>1, FS_EmptySet
<1>6. n - 1 \in 0..MaxCount /\ Cardinality(M \ {x}) = (n - 1) + 1
  BY <1>1, <1>3, <1>4, <1>5
<1>. QED
  BY <1>1, <1>6 DEF Sets

\* The first item of a tree.
LEMMA InsertFirst ==
  ASSUME NEW h, DOMAIN h = {}, NEW x \in 1..(Top - 1), root' = Fresh(h), height' = 1,
         nodes' = Store(h, Fresh(h), Leaf(<<x>>))
  PROVE  /\ DOMAIN nodes' = {Fresh(h)}
         /\ Tidy(nodes', root', height', {x, Top})
<1>. DEFINE a == Fresh(h)
            H == nodes'
            D == DOMAIN h
            M == {x, Top}
<1>1. a \in Nat /\ a # 0
  <2>1. IsFiniteSet(D) /\ D = DOMAIN h /\ a = Fresh(h)
    BY FS_EmptySet
  <2>. HIDE DEF D, a
  <2>. QED
    BY <2>1, FreshFacts
<1>2. DOMAIN H = {a} /\ H[a] = Leaf(<<x>>) /\ H = [b \in {a} |-> H[b]]
  BY DEF Store
<1>3. root' = a /\ height' = 1
  OBVIOUS
<1>. HIDE DEF a, H, M
<1>4. \E lv : Complete({a}, H, a, 1, lv, {x, Top})
  BY <1>1, <1>2, SoleLeaf
<1>5. Tidy(H, a, 1, M)
  BY <1>1, <1>2, <1>4 DEF Tidy, Null, M
<1>. QED
  BY <1>2, <1>3, <1>5 DEF H, M, a

\* The form of a tree.
LEMMA TidyForm ==
  ASSUME NEW h, NEW rt, NEW ht, NEW M, Tidy(h, rt, ht, M), rt # Null, NEW D, D = DOMAIN h
  PROVE  \E lv, lo, hi : Form(D, h, rt, ht, lv, lo, hi, M) /\ Fill(D, h, rt, Null, Null)
BY DEF Tidy, Complete

\* An empty tree has no nodes.
LEMMA TidyNone ==
  ASSUME NEW h, NEW rt, NEW ht, NEW M, Tidy(h, rt, ht, M), rt = Null
  PROVE  DOMAIN h = {} /\ ht = 0 /\ M = {Top}
BY DEF Tidy

\* A call of Insert, up to its first change of the structure above a leaf.
LEMMA InsertStep ==
  ASSUME NEW N, NEW h, Tidy(h, root, height, N), Sets(N, count), job = Idle,
         num_nodes = Cardinality(DOMAIN h), NEW item \in 1..(Top - 1), count < MaxCount,
         Insert(h, item, Locate(h, item))
  PROVE  /\ item \notin N /\ Sets(N \cup {item}, count')
         /\ num_nodes' = Cardinality(DOMAIN nodes')
         /\ Growing(nodes', root', height', N \cup {item}, job')
<1>. DEFINE at == Locate(h, item)
<1>0. /\ item \in Int /\ 0 < item /\ item < Top /\ item \in 1..Top /\ item # Top
      /\ count \in Nat /\ Cardinality(N) = count + 1
  BY TopType, CapacityAssumption DEF Sets
<1>1. CASE root = Null
  <2>1. DOMAIN h = {} /\ height = 0 /\ N = {Top}
    BY <1>1, TidyNone
  <2>2. Cardinality({Top}) = 1
    BY FS_Singleton
  <2>3. count = 0
    BY <1>0, <2>1, <2>2
  <2>4. /\ nodes' = Store(h, Fresh(h), Leaf(<<item>>)) /\ root' = Fresh(h)
        /\ count' = 1 /\ height' = 1 /\ num_nodes' = num_nodes + 1 /\ job' = job
    BY <1>1 DEF Insert
  <2>5. DOMAIN nodes' = {Fresh(h)} /\ Tidy(nodes', root', height', {item, Top})
    BY <2>1, <2>4, InsertFirst
  <2>6. N \cup {item} = {item, Top} /\ item \notin N
    BY <2>1, <1>0
  <2>7. Sets(N \cup {item}, count + 1) /\ count + 1 = count'
    BY <1>0, <2>3, <2>4, <2>6, SetsMore
  <2>8. Cardinality({Fresh(h)}) = 1 /\ Cardinality({}) = 0
    BY FS_Singleton, FS_EmptySet
  <2>9. num_nodes' = Cardinality(DOMAIN nodes')
    <3>1. num_nodes = 0
      BY <2>1, <2>8
    <3>2. num_nodes' = 1
      BY <3>1, <2>4
    <3>. QED
      BY <3>2, <2>5, <2>8
  <2>10. Tidy(nodes', root', height', N \cup {item}) /\ job' = Idle
    BY <2>4, <2>5, <2>6
  <2>. QED
    BY <2>6, <2>7, <2>9, <2>10 DEF Growing
<1>2. CASE root # Null
  <2>. DEFINE D == DOMAIN h
              c == LastNode(at)
              M == N \cup {item}
  <2>1. ~ Found(h, at, item) /\ InsertAt(h, item, at) /\ count' = count + 1
    BY <1>2 DEF Insert
  <2>2. D = DOMAIN h /\ num_nodes = Cardinality(D)
    OBVIOUS
  <2>3. at = Locate(h, item)
    OBVIOUS
  <2>. HIDE DEF D, at
  <2>4. PICK lv, lo, hi : Form(D, h, root, height, lv, lo, hi, N) /\ Fill(D, h, root, Null, Null)
    BY <1>2, <2>2, TidyForm
  <2>5. Spotted(D, h, root, height, lv, lo, hi, item, at)
    BY <1>0, <2>3, <2>4, LocateFacts
  <2>6. c \in Int
    <3>1. On(D, h, root, height, lv, at) /\ height \in Nat
      BY <2>4, <2>5 DEF Spotted, Tracked, Form, Typed
    <3>. DEFINE ht == height
                rt == root
    <3>2. ht \in Nat /\ On(D, h, rt, ht, lv, at)
      BY <3>1
    <3>. HIDE DEF ht, rt
    <3>. QED
      BY <3>2, OnLast
  <2>. HIDE DEF c
  <2>7. /\ item \notin N /\ item \in 1..Top /\ h[LastNode(at)].leaf
        /\ Pending(D, h, root, height, lv, lo, hi, N \cup {item}, at, item, c)
    <3>. DEFINE ht == height
                rt == root
    <3>1. /\ Form(D, h, rt, ht, lv, lo, hi, N) /\ Fill(D, h, rt, Null, Null)
          /\ Spotted(D, h, rt, ht, lv, lo, hi, item, at)
      BY <2>4, <2>5
    <3>. HIDE DEF ht, rt
    <3>2. /\ item \notin N /\ item \in 1..Top /\ h[LastNode(at)].leaf
          /\ Pending(D, h, rt, ht, lv, lo, hi, N \cup {item}, at, item, c)
      BY <1>0, <2>1, <2>6, <3>1, SpotPending
    <3>. QED
      BY <3>2 DEF ht, rt
  <2>. HIDE DEF M
  <2>8. Pending(D, h, root, height, lv, lo, hi, M, at, item, c)
    BY <2>7 DEF M
  <2>9. num_nodes' = Cardinality(DOMAIN nodes') /\ Growing(nodes', root', height', M, job')
    BY <2>1, <2>2, <2>7, <2>8, LeafStep
  <2>10. Sets(N \cup {item}, count + 1)
    BY <2>7, SetsMore
  <2>. QED
    BY <2>1, <2>7, <2>9, <2>10 DEF M
<1>. QED
  BY <1>1, <1>2

-----------------------------------------------------------------------------
(* Delete. *)
\* g is h with the item at the end of path taken out of its leaf.
TakenOut(D, h, g, path) ==
  LET a == LastNode(path) IN
  /\ g \in [D -> NodeSet]
  /\ g[a].keys = Ext!RemoveAt(h[a].keys, LastPos(path) + 1)
  /\ Len(g[a].keys) = Len(h[a].keys) - 1
  /\ \A b \in D : /\ g[b].children = h[b].children
                  /\ g[b].leaf <=> h[b].leaf
                  /\ b # a => g[b] = h[b]

\* An item is removed from a leaf.
LEMMA TakenFacts ==
  ASSUME NEW D, NEW h \in [D -> NodeSet], NEW path, NEW a, a = LastNode(path), a \in D,
         NEW i, i = LastPos(path), i \in Nat, i < Len(h[a].keys), h[a].leaf,
         NEW g, g = [h EXCEPT ![a] = ShiftLeft(@, i)]
  PROVE  TakenOut(D, h, g, path)
<1>. DEFINE n == ShiftLeft(h[a], i)
            k == i + 1
<1>1. h[a] \in NodeSet /\ Len(h[a].keys) \in Nat /\ h[a].keys \in Numbers /\ h[a].children \in Numbers
  BY NodeFacts
<1>2. k \in 1..Len(h[a].keys)
  <2>. DEFINE m == Len(h[a].keys)
  <2>1. m \in Nat /\ i \in Nat /\ i < m
    BY <1>1
  <2>. HIDE DEF m
  <2>2. i + 1 \in 1..m
    BY <2>1
  <2>. QED
    BY <2>2 DEF m
<1>3. n = [h[a] EXCEPT !.keys = Ext!RemoveAt(h[a].keys, k), !.children = h[a].children]
  BY DEF ShiftLeft
<1>4. g = [h EXCEPT ![a] = n]
  OBVIOUS
<1>. HIDE DEF k, n
<1>5. Ext!RemoveAt(h[a].keys, k) \in Numbers /\ Len(Ext!RemoveAt(h[a].keys, k)) = Len(h[a].keys) - 1
  BY <1>1, <1>2, RemoveNumber
<1>6. n \in NodeSet /\ n.leaf /\ n.children = h[a].children /\ n.keys = Ext!RemoveAt(h[a].keys, k)
  BY <1>1, <1>3, <1>5 DEF NodeSet
<1>7. g[a] = n /\ g \in [D -> NodeSet] /\ \A b \in D : b # a => g[b] = h[b]
  BY <1>4, <1>6
<1>8. \A b \in D : g[b].children = h[b].children /\ (g[b].leaf <=> h[b].leaf)
  BY <1>6, <1>7
<1>9. g[a].keys = Ext!RemoveAt(h[a].keys, i + 1) /\ Len(g[a].keys) = Len(h[a].keys) - 1
  BY <1>5, <1>6, <1>7 DEF k
<1>. QED
  BY <1>7, <1>8, <1>9 DEF TakenOut

\* The path leads to the same leaf.
LEMMA TakenOn ==
  ASSUME NEW D, NEW h \in [D -> NodeSet], NEW rt, NEW ht \in Nat, NEW lv, NEW path,
         On(D, h, rt, ht, lv, path), NEW g, TakenOut(D, h, g, path),
         LastPos(path) < Len(h[LastNode(path)].keys)
  PROVE  On(D, g, rt, ht, lv, path)
<1>. DEFINE a == LastNode(path)
            L == Len(path)
<1>1. /\ L \in Nat /\ L >= 1 /\ a = path[L].node /\ LastPos(path) = path[L].pos /\ a \in D
      /\ LastPos(path) \in 0..Len(h[a].keys)
  BY OnLast
<1>2. Len(g[a].keys) = Len(h[a].keys) - 1 /\ \A b \in D : g[b].children = h[b].children /\ (b # a => g[b] = h[b])
  BY DEF TakenOut
<1>3. \A k \in 1..L : /\ path[k].node \in D
                      /\ lv[path[k].node] = (ht - k) + 1
                      /\ path[k].pos \in 0..Len(h[path[k].node].keys)
  BY DEF On
<1>4. \A k \in 1..(L - 1) : path[k + 1].node = h[path[k].node].children[path[k].pos + 1]
  BY DEF On
<1>5. path \in Steps /\ L \in 1..ht /\ path[1].node = rt
  BY DEF On
<1>6. LastPos(path) \in 0..Len(g[a].keys)
  <2>. DEFINE m == Len(h[a].keys)
              m2 == Len(g[a].keys)
              i == LastPos(path)
  <2>1. m \in Nat /\ m2 = m - 1 /\ i \in 0..m /\ i < m
    BY <1>1, <1>2, NodeFacts
  <2>. HIDE DEF m, m2, i
  <2>2. i \in 0..m2
    BY <2>1
  <2>. QED
    BY <2>2 DEF m2, i
<1>7. \A k \in 1..L : path[k].pos \in 0..Len(g[path[k].node].keys)
  <2>. SUFFICES ASSUME NEW k \in 1..L PROVE path[k].pos \in 0..Len(g[path[k].node].keys)
    OBVIOUS
  <2>1. CASE path[k].node = a
    <3>1. L \in 1..L
      BY <1>1
    <3>2. k = L
      <4>. DEFINE kk == L
      <4>0. kk \in 1..Len(path) /\ path[k].node = path[kk].node
        BY <3>1, <2>1, <1>1
      <4>. HIDE DEF kk
      <4>1. k = kk
        BY <4>0, OnDistinct
      <4>. QED
        BY <4>1 DEF kk
    <3>. QED
      BY <3>2, <1>1, <1>6, <2>1
  <2>2. CASE path[k].node # a
    BY <2>2, <1>2, <1>3
  <2>. QED
    BY <2>1, <2>2
<1>8. \A k \in 1..(L - 1) : path[k + 1].node = g[path[k].node].children[path[k].pos + 1]
  <2>. SUFFICES ASSUME NEW k \in 1..(L - 1)
                PROVE path[k + 1].node = g[path[k].node].children[path[k].pos + 1]
    OBVIOUS
  <2>1. k \in 1..L
    BY <1>1
  <2>. QED
    BY <2>1, <1>2, <1>3, <1>4
<1>. HIDE DEF a
<1>. QED
  BY <1>3, <1>5, <1>7, <1>8 DEF On

\* The leaf may have an item too few now.
LEMMA LeafOwing ==
  ASSUME NEW D, NEW h, NEW rt, NEW ht, NEW lv, NEW lo, NEW hi, NEW M,
         Form(D, h, rt, ht, lv, lo, hi, M), Fill(D, h, rt, Null, Null), Null \notin D,
         NEW path, On(D, h, rt, ht, lv, path), lv[LastNode(path)] = 1,
         LastPos(path) < Len(h[LastNode(path)].keys), NEW x, x = Terminal(h, path),
         NEW g, g = TakeOut(h, path)
  PROVE  /\ TakenOut(D, h, g, path)
         /\ Owing(D, g, rt, ht, lv, lo, hi, M \ {x}, path)
<1>. DEFINE a == LastNode(path)
            i == LastPos(path)
            W == Paid(g, path)
<1>1. ht \in Nat /\ h \in [D -> NodeSet]
  BY DEF Form, Typed
<1>2. a \in D /\ i \in 0..Len(h[a].keys)
  BY <1>1, OnLast
<1>3. h[a].leaf /\ i \in Nat /\ h[a] \in NodeSet /\ Len(h[a].keys) \in Nat
  BY <1>2, FormNode
<1>4. TakenOut(D, h, g, path)
  <2>1. /\ a = LastNode(path) /\ i = LastPos(path) /\ i < Len(h[a].keys)
        /\ g = [h EXCEPT ![a] = ShiftLeft(@, i)]
    BY DEF TakeOut
  <2>. HIDE DEF a, i
  <2>. QED
    BY <1>1, <1>2, <1>3, <2>1, TakenFacts
<1>5. On(D, g, rt, ht, lv, path)
  BY <1>1, <1>4, TakenOn
<1>6. W = Paid(TakeOut(h, path), path)
  OBVIOUS
<1>. HIDE DEF W
<1>7. /\ Form(D, W, rt, ht, lv, lo, hi, M \ {x}) /\ W[a].leaf
      /\ W[a].keys = Ext!RemoveAt(h[a].keys, i + 1)
      /\ \A b \in D : (W[b].leaf <=> h[b].leaf) /\ (b # a => W[b].keys = h[b].keys)
  <2>1. Form(D, W, rt, ht, lv, lo, hi, M \ {x}) /\ LeafWithout(D, h, W, path)
    BY <1>6, LeafTaken
  <2>. QED
    BY <2>1 DEF LeafWithout
<1>8. g[a].keys = Ext!RemoveAt(h[a].keys, i + 1) /\ Len(g[a].keys) = Len(h[a].keys) - 1
  BY <1>4 DEF TakenOut
<1>. HIDE DEF a, i
<1>9. W \in [D -> NodeSet]
  BY <1>7 DEF Form, Typed
<1>10. Len(W[a].keys) = Len(h[a].keys) - 1
  BY <1>7, <1>8
<1>11. Fill(D, W, rt, Null, a)
  <2>. SUFFICES ASSUME NEW b \in D
       PROVE /\ Len(W[b].keys) <= MaxItems(W[b])
             /\ Len(W[b].keys) <= MaxItems(W[b]) + 1
             /\ b # rt /\ b # a => LeastItems(W[b]) <= Len(W[b].keys)
             /\ b # rt => LeastItems(W[b]) - 1 <= Len(W[b].keys)
             /\ b = rt /\ b # a => 1 <= Len(W[b].keys)
    BY DEF Fill
  <2>1. W[b].leaf \in BOOLEAN /\ h[b].leaf \in BOOLEAN /\ (W[b].leaf <=> h[b].leaf)
        /\ h[b] \in NodeSet
    BY <1>1, <1>7, <1>9, NodeFacts
  <2>2. MaxItems(W[b]) = MaxItems(h[b]) /\ LeastItems(W[b]) = LeastItems(h[b])
    <3>. DEFINE nn == W[b]
                mm == h[b]
    <3>. HIDE DEF nn, mm
    <3>1. nn.leaf \in BOOLEAN /\ mm.leaf \in BOOLEAN /\ (nn.leaf <=> mm.leaf)
      BY <2>1 DEF nn, mm
    <3>2. MaxItems(nn) = MaxItems(mm) /\ LeastItems(nn) = LeastItems(mm)
      BY <3>1, SameSize
    <3>. QED
      BY <3>2 DEF nn, mm
  <2>3. /\ Len(h[b].keys) <= MaxItems(h[b])
        /\ b # rt => LeastItems(h[b]) <= Len(h[b].keys)
        /\ b = rt => 1 <= Len(h[b].keys)
    BY DEF Fill
  <2>4. MaxItems(h[b]) \in Nat /\ LeastItems(h[b]) \in Nat /\ Len(h[b].keys) \in Nat
    <3>1. Sized(h[b])
      BY <2>1, SizeFacts
    <3>. QED
      BY <3>1, <2>1, NodeFacts DEF Sized
  <2>. DEFINE k == Len(h[b].keys)
              k2 == Len(W[b].keys)
              mx == MaxItems(h[b])
              le == LeastItems(h[b])
  <2>5. k \in Nat /\ mx \in Nat /\ le \in Nat /\ k <= mx /\ (b # rt => le <= k) /\ (b = rt => 1 <= k)
    BY <2>3, <2>4
  <2>6. IF b = a THEN k2 = k - 1 ELSE k2 = k
    BY <1>7, <1>10
  <2>7. MaxItems(W[b]) = mx /\ LeastItems(W[b]) = le
    BY <2>2
  <2>. HIDE DEF k, k2, mx, le
  <2>8. /\ k2 <= mx /\ k2 <= mx + 1
        /\ b # rt /\ b # a => le <= k2
        /\ b # rt => le - 1 <= k2
        /\ b = rt /\ b # a => 1 <= k2
    BY <2>5, <2>6
  <2>. QED
    BY <2>7, <2>8 DEF k2
<1>12. g \in [D -> NodeSet]
  BY <1>4 DEF TakenOut
<1>. QED
  BY <1>4, <1>5, <1>7, <1>11, <1>12 DEF Owing, a, W

-----------------------------------------------------------------------------
(* Down to the last item below a node. *)
\* A round, and the rounds, of DigRightFrom.
LastOf(n) == IF n.leaf THEN NumItems(n) - 1 ELSE NumItems(n)

PushLast(h, p, a) == Push(p, a, LastOf(h[a]))

DigOn(h, p) == IF h[LastNode(p)].leaf THEN p ELSE PushLast(h, p, ChildBelow(h, p))

Digging(h, path, a) ==
  LET dig[i \in 0..height] == IF i = 0 THEN PushLast(h, path, a) ELSE DigOn(h, dig[i - 1])
  IN dig

\* DigRight by the state of its loop.
LEMMA DigUsed ==
  ASSUME NEW h, NEW path, NEW a
  PROVE  DigRightFrom(h, path, a) = Digging(h, path, a)[height]
BY DEF DigRightFrom, Digging, DigOn, PushLast, LastOf

\* t is p and the child below it at position i.
Lower(D, h, rt, ht, lv, lo, hi, p, i, t) ==
  LET a == LastNode(p)
      j == LastPos(p)
      c == ChildBelow(h, p)
  IN /\ On(D, h, rt, ht, lv, t) /\ c \in D
     /\ LastNode(t) = c /\ LastPos(t) = i /\ Len(t) = Len(p) + 1
     /\ lo[c] = Edge(h[a], lo[a], hi[a], j) /\ hi[c] = Edge(h[a], lo[a], hi[a], j + 1)

\* One level further down.
LEMMA DownFacts ==
  ASSUME NEW D, NEW h, NEW rt, NEW ht, NEW lv, NEW lo, NEW hi, NEW M,
         Form(D, h, rt, ht, lv, lo, hi, M), NEW p, On(D, h, rt, ht, lv, p),
         ~ h[LastNode(p)].leaf, NEW c, c = ChildBelow(h, p), NEW i \in 0..Len(h[c].keys),
         NEW t, t = Push(p, c, i)
  PROVE  Lower(D, h, rt, ht, lv, lo, hi, p, i, t)
<1>. DEFINE a == LastNode(p)
            j == LastPos(p)
<1>0. a = LastNode(p) /\ j = LastPos(p)
  OBVIOUS
<1>1. ht \in Nat
  BY DEF Form, Typed
<1>2. a \in D /\ p \in Steps
  BY <1>1, OnLast
<1>3. lv[LastNode(p)] # 1
  BY <1>2, FormNode
<1>4. /\ On(D, h, rt, ht, lv, t) /\ c \in D
      /\ j + 1 \in 1..Len(h[a].children) /\ c = h[a].children[j + 1]
  BY <1>3, OnPush
<1>5. c \in Int /\ i \in Int /\ j \in Int
  <2>1. c \in Nat
    BY <1>4, FormNode
  <2>2. h[c] \in NodeSet
    BY <1>4, FormNode
  <2>3. Len(h[c].keys) \in Nat
    BY <2>2, NodeFacts
  <2>4. j \in Int
    BY <1>1, <1>2, OnLast, AboveFacts
  <2>. QED
    BY <2>1, <2>3, <2>4
<1>6. LastNode(t) = c /\ LastPos(t) = i /\ Len(t) = Len(p) + 1
  BY <1>2, <1>5, PushFacts
<1>7. lo[c] = Edge(h[a], lo[a], hi[a], j) /\ hi[c] = Edge(h[a], lo[a], hi[a], j + 1)
  <2>. DEFINE k == j + 1
  <2>1. k \in 1..Len(h[a].children) /\ c = h[a].children[k] /\ j = k - 1
    BY <1>4, <1>5
  <2>. HIDE DEF k
  <2>2. lo[c] = Edge(h[a], lo[a], hi[a], j) /\ hi[c] = Edge(h[a], lo[a], hi[a], j + 1)
    BY <1>2, <2>1, ChildEdges
  <2>. QED
    BY <2>2
<1>. QED
  BY <1>4, <1>6, <1>7 DEF Lower

\* The path is at the last place of a node whose items end below u.
AtLast(D, h, rt, ht, lv, hi, u, p) ==
  /\ On(D, h, rt, ht, lv, p)
  /\ hi[LastNode(p)] = u
  /\ LastPos(p) = LastOf(h[LastNode(p)])

\* A node has a last item, and an inner node a child behind it.
LEMMA LastOfFacts ==
  ASSUME NEW D, NEW h, NEW rt, NEW ht, NEW lv, NEW lo, NEW hi, NEW M,
         Form(D, h, rt, ht, lv, lo, hi, M), Fill(D, h, rt, Null, Null), NEW c \in D
  PROVE  /\ LastOf(h[c]) \in 0..Len(h[c].keys) /\ Len(h[c].keys) \in Nat /\ LastOf(h[c]) \in Nat
         /\ h[c].leaf => LastOf(h[c]) = Len(h[c].keys) - 1 /\ LastOf(h[c]) < Len(h[c].keys)
         /\ ~ h[c].leaf => LastOf(h[c]) = Len(h[c].keys)
<1>1. h[c] \in NodeSet /\ Null \notin D /\ h \in [D -> NodeSet]
  BY FormRising
<1>2. Len(h[c].keys) \in Nat /\ Len(h[c].keys) >= 1
  BY <1>1, FillPositive
<1>3. LastOf(h[c]) = IF h[c].leaf THEN Len(h[c].keys) - 1 ELSE Len(h[c].keys)
  BY DEF LastOf, NumItems
<1>. DEFINE m == Len(h[c].keys)
            k == LastOf(h[c])
<1>4. m \in Nat /\ m >= 1 /\ k = IF h[c].leaf THEN m - 1 ELSE m
  BY <1>2, <1>3
<1>. HIDE DEF m, k
<1>5. k \in 0..m /\ k \in Nat /\ (h[c].leaf => k = m - 1 /\ k < m) /\ (~ h[c].leaf => k = m)
  BY <1>4
<1>. QED
  BY <1>4, <1>5 DEF m, k

\* A round of DigRight goes to the last child.
LEMMA DigStep ==
  ASSUME NEW D, NEW h, NEW rt, NEW ht, NEW lv, NEW lo, NEW hi, NEW M,
         Form(D, h, rt, ht, lv, lo, hi, M), Fill(D, h, rt, Null, Null),
         NEW u, NEW p, AtLast(D, h, rt, ht, lv, hi, u, p), NEW t, t = DigOn(h, p)
  PROVE  /\ AtLast(D, h, rt, ht, lv, hi, u, t)
         /\ h[LastNode(p)].leaf => t = p
         /\ ~ h[LastNode(p)].leaf => Len(t) = Len(p) + 1
<1>1. CASE h[LastNode(p)].leaf
  BY <1>1 DEF DigOn
<1>2. CASE ~ h[LastNode(p)].leaf
  <2>. DEFINE a == LastNode(p)
              j == LastPos(p)
              c == ChildBelow(h, p)
              i == LastOf(h[c])
  <2>0. a = LastNode(p) /\ j = LastPos(p) /\ c = ChildBelow(h, p)
    OBVIOUS
  <2>1. t = Push(p, c, i)
    BY <1>2 DEF DigOn, PushLast
  <2>2. On(D, h, rt, ht, lv, p) /\ hi[a] = u /\ j = LastOf(h[a]) /\ ht \in Nat
    BY DEF AtLast, Form, Typed
  <2>3. a \in D
    BY <2>2, OnLast
  <2>4. j = Len(h[a].keys) /\ Len(h[a].keys) \in Nat
    BY <1>2, <2>2, <2>3, LastOfFacts
  <2>5. c \in D
    <3>1. lv[LastNode(p)] # 1
      BY <1>2, <2>3, FormNode
    <3>2. j + 1 \in 1..Len(h[a].children) /\ c = h[a].children[j + 1]
      <4>1. Len(h[a].children) = Len(h[a].keys) + 1
        BY <2>3, <3>1, FormNode
      <4>. DEFINE m == Len(h[a].keys)
                  w == Len(h[a].children)
      <4>2. m \in Nat /\ w = m + 1 /\ j = m
        BY <2>4, <4>1
      <4>. HIDE DEF m, w, j
      <4>3. j + 1 \in 1..w
        BY <4>2
      <4>. QED
        BY <4>3 DEF ChildBelow, Child, w, j
    <3>. HIDE DEF a, c, j
    <3>3. Linked(D, h, lv, lo, hi)
      BY DEF Form
    <3>. QED
      BY <3>2, <3>3, <2>3 DEF Linked
  <2>6. i \in 0..Len(h[c].keys)
    BY <2>5, LastOfFacts
  <2>. HIDE DEF a, j, c, i
  <2>7. /\ On(D, h, rt, ht, lv, t)
        /\ LastNode(t) = c /\ LastPos(t) = i /\ Len(t) = Len(p) + 1
        /\ hi[c] = Edge(h[a], lo[a], hi[a], j + 1)
    <3>1. ~ h[LastNode(p)].leaf
      BY <1>2
    <3>2. Lower(D, h, rt, ht, lv, lo, hi, p, i, t)
      BY <2>0, <2>1, <2>2, <2>6, <3>1, DownFacts
    <3>. QED
      BY <2>0, <3>2 DEF Lower
  <2>8. hi[c] = u
    <3>1. j + 1 = Len(h[a].keys) + 1 /\ j + 1 # 0
      BY <2>4
    <3>. QED
      BY <3>1, <2>2, <2>7 DEF Edge
  <2>. QED
    BY <1>2, <2>7, <2>8 DEF AtLast, i
<1>. QED
  BY <1>1, <1>2

\* The way ends at the last item of a leaf.
LEMMA DigFacts ==
  ASSUME NEW D, NEW h, NEW lv, NEW lo, NEW hi, NEW M,
         Form(D, h, root, height, lv, lo, hi, M), Fill(D, h, root, Null, Null),
         NEW u, NEW path, NEW a, NEW b, b = PushLast(h, path, a),
         AtLast(D, h, root, height, lv, hi, u, b), NEW z, z = DigRightFrom(h, path, a)
  PROVE  AtLast(D, h, root, height, lv, hi, u, z) /\ h[LastNode(z)].leaf
<1>. DEFINE rt == root
            N == height
            T(p) == AtLast(D, h, rt, N, lv, hi, u, p)
            A == {p \in Steps : T(p)}
            base == PushLast(h, path, a)
            next == [p \in A |-> DigOn(h, p)]
            Is(f) == f = [i \in 0..N |-> IF i = 0 THEN base ELSE DigOn(h, f[i - 1])]
            F == Digging(h, path, a)
<1>0. N \in Nat /\ Form(D, h, rt, N, lv, lo, hi, M) /\ Fill(D, h, rt, Null, Null) /\ T(b) /\ b = base
  BY DEF Form, Typed
<1>9. F = CHOOSE f : Is(f)
  BY DEF Digging
<1>20. z = F[N]
  BY DigUsed
<1>. HIDE DEF rt, N
<1>4. \A p \in A : T(p) /\ Len(p) \in Nat /\ Len(p) <= N /\ 1 <= Len(p)
  <2>. SUFFICES ASSUME NEW p \in A PROVE T(p) /\ Len(p) \in Nat /\ Len(p) <= N /\ 1 <= Len(p)
    OBVIOUS
  <2>1. T(p) /\ Len(p) \in 1..N
    BY DEF AtLast, On
  <2>. QED
    BY <2>1, <1>0
<1>1. base \in A
  <2>1. base \in Steps /\ T(base)
    BY <1>0 DEF AtLast, On
  <2>. QED
    BY <2>1
<1>2. ASSUME NEW p \in A
      PROVE  /\ DigOn(h, p) \in A
             /\ h[LastNode(p)].leaf => DigOn(h, p) = p
             /\ ~ h[LastNode(p)].leaf => Len(DigOn(h, p)) = Len(p) + 1
  <2>. DEFINE t == DigOn(h, p)
  <2>0. t = DigOn(h, p) /\ AtLast(D, h, rt, N, lv, hi, u, p)
    OBVIOUS
  <2>. HIDE DEF t
  <2>2. /\ AtLast(D, h, rt, N, lv, hi, u, t)
        /\ h[LastNode(p)].leaf => t = p
        /\ ~ h[LastNode(p)].leaf => Len(t) = Len(p) + 1
    BY <1>0, <2>0, DigStep
  <2>3. t \in Steps
    BY <2>2 DEF AtLast, On
  <2>. QED
    BY <2>2, <2>3 DEF t
<1>3. next \in [A -> A] /\ \A p \in A : next[p] = DigOn(h, p)
  <2>. HIDE DEF A
  <2>. QED
    BY <1>2
<1>. HIDE DEF next, A, base, T
<1>6. PICK g \in [0..N -> A] : Iterates(g, base, N, next)
  BY <1>0, <1>1, <1>3, LoopIterates
<1>7. \A i \in 1..N : g[i] = DigOn(h, g[i - 1])
  <2>. SUFFICES ASSUME NEW i \in 1..N PROVE g[i] = DigOn(h, g[i - 1])
    OBVIOUS
  <2>1. i - 1 \in 0..N
    BY <1>0
  <2>. QED
    BY <1>3, <1>6, <2>1 DEF Iterates
<1>8. Is(g)
  <2>1. \A i \in 0..N : g[i] = IF i = 0 THEN base ELSE DigOn(h, g[i - 1])
    BY <1>0, <1>6, <1>7 DEF Iterates
  <2>. QED
    BY <2>1
<1>10. Is(F)
  BY <1>8, <1>9
<1>. HIDE DEF F
<1>11. \A i \in 0..N : F[i] = IF i = 0 THEN base ELSE DigOn(h, F[i - 1])
  BY <1>10
<1>12. F[0] = base /\ \A i \in 1..N : F[i] = DigOn(h, F[i - 1])
  BY <1>0, <1>11
<1>13. \A i \in 0..N : F[i] \in A
  <2>1. F[0] \in A
    BY <1>1, <1>12
  <2>2. ASSUME NEW i \in 1..N, F[i - 1] \in A PROVE F[i] \in A
    BY <2>2, <1>2, <1>12
  <2>. QED
    BY <1>0, <2>1, <2>2, LoopStates
<1>. DEFINE E(p) == h[LastNode(p)].leaf
            Deep(i) == E(F[i]) \/ Len(F[i]) >= i + 1
            S == {i \in Nat : i <= N => Deep(i)}
<1>14. 0 \in S
  BY <1>12, <1>1, <1>4
<1>15. ASSUME NEW i \in Nat, i \in S PROVE i + 1 \in S
  <2>. SUFFICES ASSUME i + 1 <= N PROVE Deep(i + 1)
    OBVIOUS
  <2>1. i \in 0..N /\ i + 1 \in 1..N /\ (i + 1) - 1 = i
    BY <1>0
  <2>. DEFINE p == F[i]
              t == F[i + 1]
  <2>2. p \in A /\ t = DigOn(h, p) /\ Len(p) \in Nat
    BY <2>1, <1>12, <1>13, <1>4
  <2>3. E(p) \/ Len(p) >= i + 1
    BY <2>1, <1>15
  <2>. HIDE DEF p, t
  <2>4. CASE E(p)
    <3>1. t = p
      BY <2>2, <2>4, <1>2
    <3>. QED
      BY <3>1, <2>4 DEF t
  <2>5. CASE ~ E(p)
    <3>1. Len(t) = Len(p) + 1
      BY <2>2, <2>5, <1>2
    <3>2. Len(t) >= (i + 1) + 1
      BY <2>2, <2>3, <2>5, <3>1
    <3>. QED
      BY <3>2 DEF t
  <2>. QED
    BY <2>4, <2>5
<1>16. N \in S
  <2>. HIDE DEF S
  <2>1. Nat \subseteq S
    BY <1>14, <1>15, NatSetInduction
  <2>. QED
    BY <2>1, <1>0
<1>17. Deep(N) /\ F[N] \in A
  BY <1>16, <1>0, <1>13
<1>18. T(F[N]) /\ Len(F[N]) \in Nat /\ Len(F[N]) <= N
  BY <1>17, <1>4
<1>19. E(F[N])
  <2>1. ~ (Len(F[N]) >= N + 1)
    BY <1>18, <1>0
  <2>. QED
    BY <2>1, <1>17
<1>. QED
  BY <1>18, <1>19, <1>20 DEF T, rt, N

-----------------------------------------------------------------------------
(* An item of an inner node gives way to its predecessor. *)
\* An item is the key of one node, and one of its keys only.
LEMMA UniqueKey ==
  ASSUME NEW D, NEW H, NEW rt, NEW ht, NEW lv, NEW lo, NEW hi, NEW M,
         Form(D, H, rt, ht, lv, lo, hi, M), NEW a \in D, NEW b \in D,
         NEW i \in 1..Len(H[a].keys), NEW k \in 1..Len(H[b].keys),
         H[a].keys[i] = H[b].keys[k]
  PROVE  a = b /\ i = k
<1>1. /\ lv[a] \in Int /\ lv[b] \in Int /\ Len(H[a].keys) \in Nat /\ Len(H[b].keys) \in Nat
      /\ H[a].keys[i] \in Int /\ lo[a] < H[a].keys[i] /\ H[a].keys[i] < hi[a]
      /\ H[b].keys[k] \in Int /\ lo[b] < H[b].keys[k] /\ H[b].keys[k] < hi[b]
      /\ \A m, n \in 1..Len(H[a].keys) : m < n => H[a].keys[m] < H[a].keys[n]
  <2>1. /\ lv[a] \in Nat /\ Len(H[a].keys) \in Nat
        /\ H[a].keys[i] \in Int /\ lo[a] < H[a].keys[i] /\ H[a].keys[i] < hi[a]
    BY FormNode
  <2>2. /\ lv[b] \in Nat /\ Len(H[b].keys) \in Nat
        /\ H[b].keys[k] \in Int /\ lo[b] < H[b].keys[k] /\ H[b].keys[k] < hi[b]
    BY FormNode
  <2>3. \A m, n \in 1..Len(H[a].keys) : m < n => H[a].keys[m] < H[a].keys[n]
    BY FormNode
  <2>. QED
    BY <2>1, <2>2, <2>3
<1>2. a = b
  <2>. DEFINE x == H[a].keys[i]
  <2>0. x \in Int /\ lo[a] < x /\ x < hi[a] /\ lo[b] < x /\ x < hi[b]
        /\ H[b].keys[k] = x /\ H[a].keys[i] = x
    BY <1>1
  <2>. HIDE DEF x
  <2>1. CASE lv[a] <= lv[b]
    BY <2>0, <2>1, KeysOutside
  <2>2. CASE lv[b] <= lv[a]
    BY <2>0, <2>2, KeysOutside
  <2>. QED
    BY <1>1, <2>1, <2>2
<1>3. i = k
  <2>1. ~ (i < k) /\ ~ (k < i)
    BY <1>1, <1>2
  <2>. QED
    BY <2>1, <1>1, <1>2
<1>. QED
  BY <1>2, <1>3

\* y is the last item below x.
Precedes(M, y, x) ==
  /\ y \in M /\ x \in M /\ y \in Int /\ x \in Int /\ y < x
  /\ \A z \in M : z < x => z <= y

\* The item before a leaf's upper bound is the leaf's last.
LEMMA LastPrecedes ==
  ASSUME NEW D, NEW H, NEW rt, NEW ht, NEW lv, NEW lo, NEW hi, NEW M,
         Form(D, H, rt, ht, lv, lo, hi, M), NEW a \in D, lv[a] = 1,
         NEW m, m = Len(H[a].keys), m >= 1, NEW y, y = H[a].keys[m], NEW x, x = hi[a]
  PROVE  Precedes(M, y, x)
<1>1. m \in Nat /\ x \in Int /\ x \in 0..Top /\ M \subseteq 1..Top /\ x \in M
  <2>1. hi \in [D -> 0..Top] /\ M \subseteq 1..Top
    BY DEF Form, Typed
  <2>2. hi[a] \in M
    BY DEF Form, Ordered
  <2>. QED
    BY <2>1, <2>2, TopType, FormNode
<1>2. m \in 1..m
  BY <1>1
<1>3. y \in Int /\ y \in M /\ y < x
  BY <1>2, FormNode
<1>4. LeafRanks(H, lo, hi, M, a)
  BY LeafFull
<1>5. Edge(H[a], lo[a], hi[a], m) = y /\ Edge(H[a], lo[a], hi[a], m + 1) = x
  BY <1>1 DEF Edge
<1>6. Upto(M)[y] = Upto(M)[lo[a]] + m /\ Upto(M)[x] = Upto(M)[lo[a]] + (m + 1)
  <2>1. m \in 0..(m + 1) /\ m + 1 \in 0..(m + 1)
    BY <1>1
  <2>. QED
    BY <1>4, <1>5, <2>1 DEF LeafRanks
<1>7. \A z \in 0..Top : Upto(M)[z] \in Nat
  BY <1>1, UptoType
<1>8. lo[a] \in 0..Top /\ y \in 0..Top
  BY <1>1, <1>3 DEF Form, Typed
<1>9. ASSUME NEW z \in M, z < x, ~ (z <= y) PROVE FALSE
  <2>1. z \in 0..Top /\ z \in Int /\ y < z
    BY <1>1, <1>3, <1>9
  <2>2. Upto(M)[y] + 1 <= Upto(M)[z] /\ Upto(M)[z] + 1 <= Upto(M)[x]
    BY <1>1, <1>8, <1>9, <2>1, UptoStep
  <2>. DEFINE uy == Upto(M)[y]
              uz == Upto(M)[z]
              ux == Upto(M)[x]
              ul == Upto(M)[lo[a]]
  <2>3. uy \in Nat /\ uz \in Nat /\ ux \in Nat /\ ul \in Nat
    BY <1>1, <1>7, <1>8, <2>1
  <2>4. uy = ul + m /\ ux = ul + (m + 1) /\ uy + 1 <= uz /\ uz + 1 <= ux
    BY <1>6, <2>2
  <2>. HIDE DEF uy, uz, ux, ul
  <2>. QED
    BY <2>3, <2>4, <1>1
<1>. QED
  BY <1>1, <1>3, <1>9 DEF Precedes

\* x takes the place of y.
Swap(y, x) == [z \in 0..Top |-> IF z = x THEN y ELSE z]

\* The predecessor takes the place of the removed item.
LEMMA SwapRenames ==
  ASSUME NEW M, M \subseteq 1..Top, Top \in M, NEW y, NEW x, Precedes(M, y, x), x # Top
  PROVE  Rename(Swap(y, x), M \ {y}) /\ Image(Swap(y, x), M \ {y}) = M \ {x}
<1>. DEFINE f == Swap(y, x)
            K == M \ {y}
<1>1. y \in M /\ x \in M /\ y \in Int /\ x \in Int /\ y < x /\ \A z \in M : z < x => z <= y
  BY DEF Precedes
<1>2. y \in 0..Top /\ x \in 0..Top /\ 0 \in 0..Top /\ Top \in 0..Top /\ x # 0 /\ y # 0 /\ 0 < y
  <2>1. Top \in Nat
    BY TopType
  <2>. HIDE DEF Top
  <2>. QED
    BY <1>1, <2>1
<1>3. \A z \in 0..Top : f[z] = IF z = x THEN y ELSE z
  BY DEF Swap
<1>4. f \in [0..Top -> 0..Top]
  BY <1>2 DEF Swap
<1>. HIDE DEF f
<1>5. f[0] = 0 /\ f[Top] = Top
  BY <1>2, <1>3
<1>6. \A z \in M : z \in 0..Top /\ z \in Int /\ 0 < z
  <2>1. Top \in Nat
    BY TopType
  <2>. HIDE DEF Top
  <2>. QED
    BY <2>1
<1>7. \A z, w \in K \cup {0} : z < w => f[z] < f[w]
  <2>. SUFFICES ASSUME NEW z \in K \cup {0}, NEW w \in K \cup {0}, z < w PROVE f[z] < f[w]
    OBVIOUS
  <2>1. z \in 0..Top /\ w \in 0..Top /\ z \in Int /\ w \in Int
    BY <1>2, <1>6
  <2>2. CASE z = x
    BY <1>1, <1>3, <2>1, <2>2
  <2>3. CASE z # x /\ w = x
    <3>1. z # y
      BY <1>2
    <3>2. z < y
      <4>1. CASE z = 0
        BY <4>1, <1>2
      <4>2. CASE z # 0
        <5>1. z \in M /\ z < x
          BY <2>3, <4>2
        <5>. QED
          BY <5>1, <3>1, <1>1, <2>1
      <4>. QED
        BY <4>1, <4>2
    <3>. QED
      BY <3>2, <1>3, <2>1, <2>3
  <2>4. CASE z # x /\ w # x
    BY <1>3, <2>1, <2>4
  <2>. QED
    BY <2>2, <2>3, <2>4
<1>8. Image(f, K) = M \ {x}
  <2>1. ASSUME NEW z \in K PROVE f[z] \in M \ {x}
    <3>1. f[z] = IF z = x THEN y ELSE z
      BY <1>3, <1>6
    <3>. QED
      BY <3>1, <1>1
  <2>2. ASSUME NEW w \in M \ {x} PROVE \E z \in K : f[z] = w
    <3>1. CASE w = y
      <4>1. x \in K /\ f[x] = y
        BY <1>1, <1>2, <1>3
      <4>. QED
        BY <4>1, <3>1
    <3>2. CASE w # y
      <4>1. w \in K /\ f[w] = w
        BY <3>2, <1>3, <1>6
      <4>. QED
        BY <4>1
    <3>. QED
      BY <3>1, <3>2
  <2>. QED
    BY <2>1, <2>2 DEF Image
<1>. QED
  BY <1>4, <1>5, <1>7, <1>8 DEF Rename, f

-----------------------------------------------------------------------------
\* w is g with y for the key at k of p.
KeyPut(D, g, w, p, k, y) ==
  /\ w \in [D -> NodeSet]
  /\ \A b \in D : /\ w[b].leaf <=> g[b].leaf
                  /\ w[b].children = g[b].children /\ w[b].cnt = g[b].cnt
                  /\ Len(w[b].keys) = Len(g[b].keys)
                  /\ b # p => w[b] = g[b]
  /\ \A i \in 1..Len(g[p].keys) : w[p].keys[i] = IF i = k THEN y ELSE g[p].keys[i]

\* An item of a node is replaced.
LEMMA KeyPutFacts ==
  ASSUME NEW D, NEW g \in [D -> NodeSet], NEW p \in D, NEW k \in 1..Len(g[p].keys), NEW y \in Int,
         NEW w, DOMAIN w = D, w = [b \in D |-> w[b]], \A b \in D : b # p => w[b] = g[b],
         w[p] = [g[p] EXCEPT !.keys[k] = y]
  PROVE  KeyPut(D, g, w, p, k, y)
<1>. DEFINE n == g[p]
            s == [n.keys EXCEPT ![k] = y]
<1>1. n \in NodeSet /\ n.keys \in Numbers /\ Len(n.keys) \in Nat /\ n.keys \in [1..Len(n.keys) -> Int]
  BY NodeFacts, NumbersFacts
<1>2. w[p] = [n EXCEPT !.keys = s]
  BY <1>1 DEF NodeSet
<1>3. s \in Numbers /\ Len(s) = Len(n.keys) /\ \A i \in 1..Len(n.keys) : s[i] = IF i = k THEN y ELSE n.keys[i]
  BY <1>1 DEF Numbers
<1>. HIDE DEF s
<1>4. w[p] \in NodeSet /\ w[p].keys = s /\ w[p].leaf = n.leaf /\ w[p].children = n.children /\ w[p].cnt = n.cnt
  BY <1>1, <1>2, <1>3 DEF NodeSet
<1>5. \A b \in D : w[b] \in NodeSet
  BY <1>4
<1>. QED
  BY <1>3, <1>4, <1>5 DEF KeyPut

\* Nodes with a key replaced and the counts above put right.
LEMMA PaidNodes ==
  ASSUME NEW D, NEW h \in [D -> NodeSet], NEW q, NEW V, V = Paid(h, q), NEW b \in D
  PROVE  /\ V[b] \in NodeSet /\ V \in [D -> NodeSet]
         /\ V[b].leaf <=> h[b].leaf
         /\ V[b].keys = h[b].keys /\ V[b].children = h[b].children
         /\ TreeCount(V[b]) =
              IF OnPath(Above(q), b) /\ ~ h[b].leaf THEN TreeCount(h[b]) - 1 ELSE TreeCount(h[b])
<1>. DEFINE d == -1
            u == Above(q)
<1>0. d \in Int /\ V = IncreaseSubtreeCounts(h, u, d)
  BY DEF Paid
<1>. HIDE DEF d, u
<1>1. Raised(D, h, V, u, d)
  BY <1>0, RaiseFacts
<1>2. /\ V \in [D -> NodeSet] /\ (V[b].leaf <=> h[b].leaf) /\ V[b].keys = h[b].keys
      /\ V[b].children = h[b].children
      /\ OnPath(u, b) => V[b] = IncreaseTreeCount(h[b], d)
      /\ ~ OnPath(u, b) => V[b] = h[b]
  BY <1>1 DEF Raised
<1>3. h[b] \in NodeSet
  OBVIOUS
<1>4. ASSUME OnPath(u, b) PROVE Bumped(h[b], V[b], d)
  <2>. DEFINE n == h[b]
              m == V[b]
  <2>1. m = IncreaseTreeCount(n, d) /\ n \in NodeSet
    BY <1>2, <1>3, <1>4
  <2>. HIDE DEF n, m
  <2>2. Bumped(n, m, d)
    BY <1>0, <2>1, BumpDone
  <2>. QED
    BY <2>2 DEF n, m
<1>5. TreeCount(h[b]) \in Int
  BY <1>3, TreeCountType
<1>6. TreeCount(V[b]) = IF OnPath(u, b) /\ ~ h[b].leaf THEN TreeCount(h[b]) - 1 ELSE TreeCount(h[b])
  <2>1. CASE OnPath(u, b) /\ ~ h[b].leaf
    <3>1. TreeCount(V[b]) = TreeCount(h[b]) + d
      BY <2>1, <1>4 DEF Bumped
    <3>. QED
      BY <2>1, <3>1, <1>5 DEF d
  <2>2. CASE OnPath(u, b) /\ h[b].leaf
    BY <2>2, <1>4 DEF Bumped
  <2>3. CASE ~ OnPath(u, b)
    BY <2>3, <1>2
  <2>. QED
    BY <2>1, <2>2, <2>3
<1>. QED
  BY <1>2, <1>6 DEF u

\* The item x of p, which is not on the path's end, gives way to y.
LEMMA SwapOwing ==
  ASSUME NEW D, NEW g, NEW rt, NEW ht, NEW lv, NEW lo, NEW hi, NEW M, NEW q, NEW y, NEW x,
         Owing(D, g, rt, ht, lv, lo, hi, M \ {y}, q), M \subseteq 1..Top, Top \in M,
         Precedes(M, y, x), x # Top,
         NEW p \in D, NEW k \in 1..Len(g[p].keys), g[p].keys[k] = x, ~ g[p].leaf,
         NEW w, KeyPut(D, g, w, p, k, y)
  PROVE  \E lo2, hi2 : Owing(D, w, rt, ht, lv, lo2, hi2, M \ {x}, q)
<1>. DEFINE V == Paid(g, q)
            W == Paid(w, q)
            K == M \ {y}
            f == Swap(y, x)
<1>1. /\ g \in [D -> NodeSet] /\ On(D, g, rt, ht, lv, q) /\ Form(D, V, rt, ht, lv, lo, hi, K)
      /\ Fill(D, V, rt, Null, LastNode(q))
  BY DEF Owing
<1>2. /\ w \in [D -> NodeSet]
      /\ \A b \in D : /\ w[b].leaf <=> g[b].leaf
                      /\ w[b].children = g[b].children /\ w[b].cnt = g[b].cnt
                      /\ Len(w[b].keys) = Len(g[b].keys)
                      /\ b # p => w[b] = g[b]
      /\ \A i \in 1..Len(g[p].keys) : w[p].keys[i] = IF i = k THEN y ELSE g[p].keys[i]
  BY DEF KeyPut
<1>3. Rename(f, K) /\ Image(f, K) = M \ {x}
  BY SwapRenames
<1>4. \A b \in D : /\ V[b] \in NodeSet
                   /\ V[b].leaf <=> g[b].leaf
                   /\ V[b].keys = g[b].keys /\ V[b].children = g[b].children
                   /\ TreeCount(V[b]) =
                        IF OnPath(Above(q), b) /\ ~ g[b].leaf THEN TreeCount(g[b]) - 1 ELSE TreeCount(g[b])
  BY <1>1, PaidNodes
<1>5. \A b \in D : /\ W[b] \in NodeSet
                   /\ W[b].leaf <=> w[b].leaf
                   /\ W[b].keys = w[b].keys /\ W[b].children = w[b].children
                   /\ TreeCount(W[b]) =
                        IF OnPath(Above(q), b) /\ ~ w[b].leaf THEN TreeCount(w[b]) - 1 ELSE TreeCount(w[b])
  BY <1>2, PaidNodes
<1>6. V \in [D -> NodeSet] /\ W \in [D -> NodeSet]
  BY <1>1, <1>2, PaidNodes
<1>. HIDE DEF V, W
<1>7. \A b \in D : TreeCount(w[b]) = TreeCount(g[b])
  <2>. SUFFICES ASSUME NEW b \in D PROVE TreeCount(w[b]) = TreeCount(g[b])
    OBVIOUS
  <2>1. CASE b = p
    <3>1. ~ w[b].leaf /\ ~ g[b].leaf /\ w[b].cnt = g[b].cnt
      BY <1>2, <2>1
    <3>. QED
      BY <3>1 DEF TreeCount
  <2>2. CASE b # p
    BY <1>2, <2>2
  <2>. QED
    BY <2>1, <2>2
<1>8. ASSUME NEW b \in D
      PROVE  /\ W[b].leaf <=> V[b].leaf
             /\ W[b].children = V[b].children
             /\ TreeCount(W[b]) = TreeCount(V[b])
             /\ Len(W[b].keys) = Len(V[b].keys)
  BY <1>2, <1>4, <1>5, <1>7
<1>9. x \in 0..Top /\ y \in 0..Top /\ x \in M /\ y < x
  BY DEF Precedes
<1>10. ASSUME NEW b \in D, NEW i \in 1..Len(V[b].keys)
       PROVE  W[b].keys[i] = f[V[b].keys[i]]
  <2>1. V[b].keys[i] \in 0..Top
    <3>1. V[b].keys[i] \in K
      BY <1>1, FormNode
    <3>2. \A z \in M : z \in 0..Top
      <4>1. \A z \in 1..Top : z \in 0..Top
        BY TopType
      <4>. QED
        BY <4>1
    <3>. QED
      BY <3>1, <3>2
  <2>2. f[V[b].keys[i]] = IF V[b].keys[i] = x THEN y ELSE V[b].keys[i]
    BY <2>1 DEF Swap
  <2>3. V[p].keys = g[p].keys /\ k \in 1..Len(V[p].keys) /\ V[p].keys[k] = x
    BY <1>4
  <2>4. CASE V[b].keys[i] = x
    <3>1. V[b].keys[i] = V[p].keys[k]
      BY <2>3, <2>4
    <3>2. b = p /\ i = k
      BY <1>1, <2>3, <3>1, UniqueKey
    <3>3. W[b].keys[i] = y
      BY <1>2, <1>5, <2>3, <3>2
    <3>. QED
      BY <3>3, <2>2, <2>4
  <2>5. CASE V[b].keys[i] # x
    <3>1. W[b].keys[i] = V[b].keys[i]
      <4>1. CASE b # p
        BY <4>1, <1>2, <1>4, <1>5
      <4>2. CASE b = p
        <5>1. i # k /\ i \in 1..Len(g[p].keys)
          BY <2>3, <2>5, <4>2, <1>4
        <5>. QED
          BY <5>1, <4>2, <1>2, <1>4, <1>5
      <4>. QED
        BY <4>1, <4>2
    <3>. QED
      BY <3>1, <2>2, <2>5
  <2>. QED
    BY <2>4, <2>5
<1>. HIDE DEF f, K
<1>11. Renamed(D, V, W, f)
  BY <1>6, <1>8, <1>10 DEF Renamed
<1>12. PICK lo2, hi2 : Form(D, W, rt, ht, lv, lo2, hi2, Image(f, K))
  BY <1>1, <1>3, <1>11, Relabel
<1>13. Fill(D, W, rt, Null, LastNode(q))
  BY <1>1, <1>6, <1>8, SameFill
<1>14. On(D, w, rt, ht, lv, q)
  <2>1. \A i \in 1..Len(q) : q[i].node \in D
    BY <1>1 DEF On
  <2>2. Alike(D, D, g, w, lv, lv, q)
    BY <2>1, <1>2 DEF Alike
  <2>. QED
    BY <2>2, <1>1, OnAgain
<1>. QED
  BY <1>2, <1>3, <1>12, <1>13, <1>14 DEF Owing, W

-----------------------------------------------------------------------------
\* The item found at the end of the path.
LEMMA SpotFound ==
  ASSUME NEW D, NEW h, NEW rt, NEW ht, NEW lv, NEW lo, NEW hi, NEW M,
         Form(D, h, rt, ht, lv, lo, hi, M), NEW q \in Int, NEW p,
         Spotted(D, h, rt, ht, lv, lo, hi, q, p), Found(h, p, q),
         NEW a, a = LastNode(p), NEW j, j = LastPos(p)
  PROVE  /\ On(D, h, rt, ht, lv, p) /\ a \in D /\ j \in Nat /\ j < Len(h[a].keys)
         /\ Len(h[a].keys) \in Nat
         /\ h[a].keys[j + 1] = q /\ Terminal(h, p) = q /\ q \in M
<1>. DEFINE r == BSearch(h[a], q)
<1>1. /\ On(D, h, rt, ht, lv, p) /\ j = r.index /\ Searched(h[a], q, r) /\ r.found
  BY DEF Spotted, Tracked, Found
<1>. HIDE DEF r
<1>2. ht \in Nat
  BY DEF Form, Typed
<1>3. a \in D
  BY <1>1, <1>2, OnLast
<1>4. Len(h[a].keys) \in Nat
  BY <1>3, FormNode
<1>5. j \in 0..Len(h[a].keys) /\ j < Len(h[a].keys) /\ h[a].keys[j + 1] = q
  BY <1>1 DEF Searched
<1>6. j \in Nat /\ j + 1 \in 1..Len(h[a].keys)
  <2>. DEFINE m == Len(h[a].keys)
  <2>1. m \in Nat /\ j \in 0..m /\ j < m
    BY <1>4, <1>5
  <2>. HIDE DEF m
  <2>2. j \in Nat /\ j + 1 \in 1..m
    BY <2>1
  <2>. QED
    BY <2>2 DEF m
<1>7. q \in M
  <2>. DEFINE k == j + 1
  <2>1. k \in 1..Len(h[a].keys) /\ h[a].keys[k] = q
    BY <1>5, <1>6
  <2>. HIDE DEF k
  <2>2. h[a].keys[k] \in M
    BY <1>3, <2>1, FormNode
  <2>. QED
    BY <2>1, <2>2
<1>8. Terminal(h, p) = q
  BY <1>5 DEF Terminal, Key
<1>. QED
  BY <1>1, <1>3, <1>4, <1>5, <1>6, <1>7, <1>8

\* What RemoveItem makes of a tree whose item is in an inner node.
DugOut(h, path, dig) ==
  [h EXCEPT
     ![LastNode(path)] = [@ EXCEPT !.keys[LastPos(path) + 1] = Terminal(h, dig)],
     ![LastNode(dig)] = ShiftLeft(@, LastPos(dig))]

\* An item of an inner node is replaced by its predecessor, which is owed by
\* its leaf.
LEMMA InnerRemoved ==
  ASSUME NEW D, NEW h, D = DOMAIN h, NEW lv, NEW lo, NEW hi, NEW M,
         Form(D, h, root, height, lv, lo, hi, M), Fill(D, h, root, Null, Null), Null \notin D,
         NEW x \in Int, x # Top, NEW at, Spotted(D, h, root, height, lv, lo, hi, x, at),
         Found(h, at, x), ~ h[LastNode(at)].leaf, NEW dig, dig = DigRight(h, at),
         NEW w, w = DugOut(h, at, dig)
  PROVE  DOMAIN w = D /\ x \in M /\ Fixable(w, root, height, M \ {x}, dig)
<1>. DEFINE rt == root
            ht == height
            p == LastNode(at)
            j == LastPos(at)
            c == ChildBelow(h, at)
            b == PushLast(h, at, c)
            a == LastNode(dig)
            m == Len(h[a].keys)
            y == Terminal(h, dig)
            g == TakeOut(h, dig)
            k == j + 1
<1>0. Form(D, h, rt, ht, lv, lo, hi, M) /\ Fill(D, h, rt, Null, Null)
      /\ Spotted(D, h, rt, ht, lv, lo, hi, x, at) /\ ~ h[p].leaf
  OBVIOUS
<1>9. dig = DigRightFrom(h, at, c) /\ b = PushLast(h, at, c)
  BY DEF DigRight
<1>. HIDE DEF rt, ht
<1>1. /\ On(D, h, rt, ht, lv, at) /\ p \in D /\ j \in Nat /\ j < Len(h[p].keys)
      /\ Len(h[p].keys) \in Nat /\ h[p].keys[k] = x /\ x \in M
  BY <1>0, SpotFound
<1>2. ht \in Nat /\ h \in [D -> NodeSet] /\ M \subseteq 1..Top /\ Top \in M
  BY <1>0 DEF Form, Typed
<1>3. lv[p] # 1
  BY <1>0, <1>1, FormNode
<1>4. k \in 1..Len(h[p].keys) /\ k # 0 /\ k # Len(h[p].keys) + 1
  <2>. DEFINE mm == Len(h[p].keys)
  <2>1. mm \in Nat /\ j \in Nat /\ j < mm
    BY <1>1
  <2>. HIDE DEF mm, j
  <2>2. j + 1 \in 1..mm /\ j + 1 # 0 /\ j + 1 # mm + 1
    BY <2>1
  <2>. QED
    BY <2>2 DEF mm, j
<1>5. AtLast(D, h, rt, ht, lv, hi, x, b)
  <2>1. c \in D
    <3>1. Len(h[p].children) = Len(h[p].keys) + 1
      BY <1>0, <1>1, <1>3, FormNode
    <3>2. k \in 1..Len(h[p].children) /\ c = h[p].children[k]
      <4>. DEFINE mm == Len(h[p].keys)
                  ww == Len(h[p].children)
      <4>1. mm \in Nat /\ ww = mm + 1 /\ k \in 1..mm
        BY <1>1, <1>4, <3>1
      <4>. HIDE DEF mm, ww, k
      <4>2. k \in 1..ww
        BY <4>1
      <4>. QED
        BY <4>2 DEF ww, ChildBelow, Child, k
    <3>. HIDE DEF c, k, p
    <3>3. Linked(D, h, lv, lo, hi)
      BY <1>0 DEF Form
    <3>. QED
      BY <3>2, <3>3, <1>1 DEF Linked
  <2>. DEFINE i == LastOf(h[c])
  <2>2. i \in 0..Len(h[c].keys)
    BY <1>0, <2>1, LastOfFacts
  <2>3. b = Push(at, c, i) /\ c = ChildBelow(h, at) /\ ~ h[LastNode(at)].leaf
    BY DEF PushLast
  <2>. HIDE DEF b, c, i
  <2>4. Lower(D, h, rt, ht, lv, lo, hi, at, i, b)
    BY <1>0, <1>1, <2>2, <2>3, DownFacts
  <2>5. /\ On(D, h, rt, ht, lv, b) /\ LastNode(b) = c /\ LastPos(b) = i
        /\ hi[c] = Edge(h[p], lo[p], hi[p], k)
    BY <2>3, <2>4 DEF Lower
  <2>6. hi[c] = x
    BY <2>5, <1>1, <1>4 DEF Edge
  <2>. QED
    BY <2>5, <2>6 DEF AtLast, i
<1>6. AtLast(D, h, rt, ht, lv, hi, x, dig) /\ h[a].leaf
  <2>1. AtLast(D, h, root, height, lv, hi, x, b)
    BY <1>5 DEF rt, ht
  <2>. HIDE DEF b
  <2>2. AtLast(D, h, root, height, lv, hi, x, dig) /\ h[LastNode(dig)].leaf
    BY <1>9, <2>1, DigFacts
  <2>. QED
    BY <2>2 DEF rt, ht
<1>7. /\ On(D, h, rt, ht, lv, dig) /\ hi[a] = x /\ LastPos(dig) = LastOf(h[a]) /\ a \in D
      /\ dig # <<>>
  <2>1. On(D, h, rt, ht, lv, dig) /\ hi[a] = x /\ LastPos(dig) = LastOf(h[a])
    BY <1>6 DEF AtLast
  <2>2. a \in D /\ dig \in Steps /\ Len(dig) >= 1
    BY <2>1, <1>2, OnLast
  <2>3. dig # <<>>
    BY <2>2, StepsFacts
  <2>. QED
    BY <2>1, <2>2, <2>3
<1>8. lv[a] = 1 /\ LastPos(dig) = m - 1 /\ m \in Nat /\ LastPos(dig) < m /\ m >= 1
  <2>1. lv[a] = 1
    BY <1>0, <1>6, <1>7, FormNode
  <2>2. LastPos(dig) = m - 1 /\ LastPos(dig) < m /\ m \in Nat /\ LastPos(dig) \in Nat
    BY <1>0, <1>6, <1>7, LastOfFacts
  <2>. DEFINE ii == LastPos(dig)
  <2>3. m \in Nat /\ ii \in Nat /\ ii < m
    BY <2>2
  <2>. HIDE DEF m, ii
  <2>4. m >= 1
    BY <2>3
  <2>. QED
    BY <2>1, <2>2, <2>4
<1>10. y = h[a].keys[m]
  <2>1. (m - 1) + 1 = m
    BY <1>8
  <2>. QED
    BY <1>8, <2>1 DEF Terminal, Key
<1>11. Precedes(M, y, x)
  <2>1. m = Len(h[a].keys) /\ x = hi[a]
    BY <1>7
  <2>. HIDE DEF y, m, a
  <2>. QED
    BY <2>1, <1>0, <1>7, <1>8, <1>10, LastPrecedes
<1>12. TakenOut(D, h, g, dig) /\ Owing(D, g, rt, ht, lv, lo, hi, M \ {y}, dig)
  <2>1. y = Terminal(h, dig) /\ g = TakeOut(h, dig) /\ lv[LastNode(dig)] = 1
        /\ LastPos(dig) < Len(h[LastNode(dig)].keys)
    BY <1>8
  <2>. HIDE DEF y, g
  <2>. QED
    BY <2>1, <1>0, <1>7, LeafOwing
<1>13. p # a /\ y \in Int
  BY <1>3, <1>8, <1>11 DEF Precedes
<1>14. g[p] = h[p] /\ g \in [D -> NodeSet]
  <2>. HIDE DEF p, g
  <2>. QED
    BY <1>1, <1>12, <1>13 DEF TakenOut
<1>15. /\ DOMAIN w = D /\ w = [e \in D |-> w[e]] /\ \A e \in D : e # p => w[e] = g[e]
       /\ w[p] = [g[p] EXCEPT !.keys[k] = y]
  <2>. DEFINE n == ShiftLeft(h[a], LastPos(dig))
              o == [h[p] EXCEPT !.keys[k] = y]
  <2>1. w = [h EXCEPT ![p] = o, ![a] = n] /\ g = [h EXCEPT ![a] = n]
    <3>1. g = [h EXCEPT ![a] = n]
      BY DEF TakeOut
    <3>2. w = [h EXCEPT ![p] = o, ![a] = n]
      BY <1>13 DEF DugOut
    <3>. QED
      BY <3>1, <3>2
  <2>2. o = [g[p] EXCEPT !.keys[k] = y]
    BY <1>14
  <2>. HIDE DEF n, o, p, a, g, k, y
  <2>. QED
    BY <2>1, <2>2, <1>1, <1>2, <1>7, <1>13
<1>16. k \in 1..Len(g[p].keys) /\ g[p].keys[k] = x /\ ~ g[p].leaf
  BY <1>0, <1>1, <1>4, <1>14
<1>. HIDE DEF p, k, y, g, a, m
<1>17. KeyPut(D, g, w, p, k, y)
  BY <1>1, <1>13, <1>14, <1>15, <1>16, KeyPutFacts
<1>18. \E lo2, hi2 : Owing(D, w, rt, ht, lv, lo2, hi2, M \ {x}, dig)
  BY <1>1, <1>2, <1>11, <1>12, <1>16, <1>17, SwapOwing
<1>. QED
  BY <1>1, <1>7, <1>15, <1>18 DEF rt, ht, Fixable

-----------------------------------------------------------------------------
\* x has been taken out, and a leaf is to be repaired.
Removed(D, r, rt, ht, M, x) ==
  DOMAIN r.nodes = D /\ x \in M /\ Fixable(r.nodes, rt, ht, M \ {x}, r.path)

\* What RemoveItem does leaves a leaf to be repaired.
LEMMA RemovedFixable ==
  ASSUME NEW D, NEW h, D = DOMAIN h, NEW lv, NEW lo, NEW hi, NEW M,
         Form(D, h, root, height, lv, lo, hi, M), Fill(D, h, root, Null, Null), Null \notin D,
         NEW x \in Int, x # Top, NEW at, Spotted(D, h, root, height, lv, lo, hi, x, at),
         Found(h, at, x), NEW r, r = RemoveItem(h, at)
  PROVE  Removed(D, r, root, height, M, x)
<1>. DEFINE rt == root
            ht == height
            g == TakeOut(h, at)
            dig == DigRight(h, at)
            w == DugOut(h, at, dig)
<1>0. Form(D, h, rt, ht, lv, lo, hi, M) /\ Fill(D, h, rt, Null, Null)
      /\ Spotted(D, h, rt, ht, lv, lo, hi, x, at)
  OBVIOUS
<1>1. IF h[LastNode(at)].leaf THEN r = [path |-> at, nodes |-> g] ELSE r = [path |-> dig, nodes |-> w]
  <2>1. CASE h[LastNode(at)].leaf
    BY <2>1 DEF RemoveItem, TakeOut
  <2>2. CASE ~ h[LastNode(at)].leaf
    BY <2>2 DEF RemoveItem, DugOut
  <2>. QED
    BY <2>1, <2>2
<1>2. g = TakeOut(h, at) /\ dig = DigRight(h, at) /\ w = DugOut(h, at, dig)
  OBVIOUS
<1>3. DOMAIN g = DOMAIN h
  BY DEF TakeOut
<1>. HIDE DEF g, dig, w
<1>4. CASE h[LastNode(at)].leaf
  <2>. HIDE DEF rt, ht
  <2>. DEFINE a == LastNode(at)
              j == LastPos(at)
              q == at
  <2>1. r.path = at /\ r.nodes = g
    BY <1>1, <1>4
  <2>2. /\ On(D, h, rt, ht, lv, at) /\ a \in D /\ j < Len(h[a].keys) /\ Terminal(h, at) = x /\ x \in M
    BY <1>0, SpotFound
  <2>3. lv[a] = 1
    BY <1>0, <1>4, <2>2, FormNode
  <2>4. Owing(D, g, rt, ht, lv, lo, hi, M \ {x}, at)
    BY <1>0, <1>2, <2>2, <2>3, LeafOwing
  <2>5. at # <<>>
    <3>1. ht \in Nat
      BY <1>0 DEF Form, Typed
    <3>2. at \in Steps /\ Len(at) >= 1 /\ Len(at) \in Nat
      BY <2>2, <3>1, OnLast
    <3>. QED
      BY <3>2, StepsFacts
  <2>6. DOMAIN g = D
    BY <1>3
  <2>7. Fixable(g, rt, ht, M \ {x}, at)
    BY <2>4, <2>5, <2>6 DEF Fixable
  <2>. QED
    BY <2>1, <2>2, <2>6, <2>7 DEF rt, ht, Removed
<1>5. CASE ~ h[LastNode(at)].leaf
  <2>1. r.path = dig /\ r.nodes = w
    BY <1>1, <1>5
  <2>2. DOMAIN w = D /\ x \in M /\ Fixable(w, root, height, M \ {x}, dig)
    BY <1>2, <1>5, InnerRemoved
  <2>. QED
    BY <2>1, <2>2 DEF Removed
<1>. QED
  BY <1>4, <1>5

\* A call of Delete, up to the first change above the leaf.
LEMMA DeleteStep ==
  ASSUME NEW N, NEW h, Tidy(h, root, height, N), Sets(N, count), job = Idle,
         num_nodes = Cardinality(DOMAIN h), NEW item \in 1..(Top - 1),
         Delete(h, item, Locate(h, item))
  PROVE  /\ item \in N /\ Sets(N \ {item}, count')
         /\ num_nodes' = Cardinality(DOMAIN nodes')
         /\ Settling(nodes', root', height', N \ {item}, job')
<1>. DEFINE at == Locate(h, item)
            D == DOMAIN h
            r == RemoveItem(h, at)
            g == r.nodes
            path == r.path
<1>0. item \in Int /\ 0 < item /\ item < Top /\ item # Top
  BY TopType
<1>1. root # Null /\ Found(h, at, item) /\ FixUnderflow(g, path) /\ count' = count - 1
  BY DEF Delete
<1>2. D = DOMAIN h /\ num_nodes = Cardinality(D) /\ at = Locate(h, item) /\ r = RemoveItem(h, at)
  OBVIOUS
<1>. HIDE DEF D, at, r
<1>3. PICK lv, lo, hi : Form(D, h, root, height, lv, lo, hi, N) /\ Fill(D, h, root, Null, Null)
  BY <1>1, <1>2, TidyForm
<1>4. Spotted(D, h, root, height, lv, lo, hi, item, at)
  BY <1>0, <1>2, <1>3, LocateFacts
<1>5. Null \notin D
  <2>1. D \subseteq Nat \ {0}
    BY <1>3 DEF Form, Typed
  <2>. QED
    BY <2>1 DEF Null
<1>6. DOMAIN g = D /\ item \in N /\ Fixable(g, root, height, N \ {item}, path)
  <2>. DEFINE x == item
  <2>1. x \in Int /\ x # Top /\ Spotted(D, h, root, height, lv, lo, hi, x, at) /\ Found(h, at, x)
    BY <1>0, <1>1, <1>4
  <2>. HIDE DEF x
  <2>2. Removed(D, r, root, height, N, x)
    BY <2>1, <1>2, <1>3, <1>5, RemovedFixable
  <2>. QED
    BY <2>2 DEF x, Removed
<1>7. num_nodes' = Cardinality(DOMAIN nodes') /\ Settling(nodes', root', height', N \ {item}, job')
  <2>. DEFINE K == N \ {item}
  <2>1. Fixable(g, root, height, K, path) /\ num_nodes = Cardinality(DOMAIN g)
    BY <1>2, <1>6
  <2>. HIDE DEF K, g, path
  <2>2. num_nodes' = Cardinality(DOMAIN nodes') /\ Settling(nodes', root', height', K, job')
    BY <2>1, <1>1, FixStep
  <2>. QED
    BY <2>2 DEF K
<1>8. Sets(N \ {item}, count - 1)
  BY <1>0, <1>6, SetsLess
<1>. QED
  BY <1>1, <1>6, <1>7, <1>8

-----------------------------------------------------------------------------
\* Clear destroys all nodes.
LEMMA ClearStep ==
  ASSUME NEW M, TreeInv(M), job = Idle, Clear
  PROVE  TreeInv({Top})'
<1>. DEFINE D == DOMAIN nodes
            visited == IF root = Null THEN {} ELSE Under(nodes, root)
<1>0. D = DOMAIN nodes
  OBVIOUS
<1>1. Tidy(nodes, root, height, M) /\ Sets(M, count) /\ num_nodes = Cardinality(D)
  BY TreeIdle
<1>2. /\ nodes' = Destroy(nodes, visited)
      /\ num_nodes' = num_nodes - Cardinality(visited)
      /\ root' = Null /\ height' = 0 /\ count' = 0 /\ job' = Idle
  BY DEF Clear
<1>3. visited = D
  <2>1. CASE root = Null
    BY <2>1, <1>1, TidyNone
  <2>2. CASE root # Null
    <3>. HIDE DEF D
    <3>1. PICK lv, lo, hi : Form(D, nodes, root, height, lv, lo, hi, M)
      BY <2>2, <1>0, <1>1, TidyForm
    <3>2. Under(nodes, root) = {b \in D : Within(lv, lo, hi, root, b)}
      <4>. DEFINE rt == root
                  ht == height
      <4>1. Form(D, nodes, rt, ht, lv, lo, hi, M) /\ height \in Nat /\ ht <= height /\ rt \in D
        BY <3>1 DEF Form, Typed, Rooted
      <4>. HIDE DEF rt, ht
      <4>2. Under(nodes, rt) = {b \in D : Within(lv, lo, hi, rt, b)}
        BY <4>1, UnderExact
      <4>. QED
        BY <4>2 DEF rt
    <3>3. \A b \in D : Within(lv, lo, hi, root, b)
      <4>. SUFFICES ASSUME NEW b \in D PROVE Within(lv, lo, hi, root, b)
        OBVIOUS
      <4>1. lv[root] = height /\ lo[root] = 0 /\ hi[root] = Top
        BY <3>1 DEF Form, Rooted
      <4>. DEFINE rt == root
                  ht == height
      <4>2. Form(D, nodes, rt, ht, lv, lo, hi, M)
        BY <3>1
      <4>. HIDE DEF rt, ht
      <4>3. lv[b] <= ht /\ 0 <= lo[b] /\ hi[b] <= Top
        BY <4>2, FormNode
      <4>. QED
        BY <4>1, <4>3 DEF Within, ht
    <3>. QED
      BY <2>2, <3>2, <3>3
  <2>. QED
    BY <2>1, <2>2
<1>. HIDE DEF visited
<1>4. DOMAIN nodes' = {}
  <2>. DEFINE h == nodes
  <2>1. nodes' = Destroy(h, D) /\ DOMAIN h = D
    BY <1>2, <1>3
  <2>. HIDE DEF h
  <2>2. DOMAIN Destroy(h, D) = DOMAIN h \ D
    BY DestroyDomain
  <2>. QED
    BY <2>1, <2>2
<1>5. num_nodes' = 0
  <2>1. IsFiniteSet(D)
    <3>1. CASE root = Null
      <4>1. D = {}
        BY <3>1, <1>1, TidyNone
      <4>. QED
        BY <4>1, FS_EmptySet
    <3>2. CASE root # Null
      <4>. HIDE DEF D
      <4>1. PICK lv, lo, hi : Form(D, nodes, root, height, lv, lo, hi, M)
        BY <3>2, <1>0, <1>1, TidyForm
      <4>. QED
        BY <4>1 DEF Form, Typed
    <3>. QED
      BY <3>1, <3>2
  <2>2. Cardinality(D) \in Nat
    BY <2>1, FS_CardinalityType
  <2>. QED
    BY <1>1, <1>2, <1>3, <2>2
<1>6. Sets({Top}, 0)
  <2>1. Cardinality({Top}) = 1
    BY FS_Singleton
  <2>. QED
    BY <2>1, TopType, CapacityAssumption DEF Sets
<1>7. Cardinality(DOMAIN nodes') = 0
  BY <1>4, FS_EmptySet
<1>8. Settling(nodes', root', height', {Top}, job')
  BY <1>2, <1>4 DEF Settling, Tidy
<1>. QED
  BY <1>2, <1>5, <1>6, <1>7, <1>8 DEF TreeInv

-----------------------------------------------------------------------------
(* The invariant is kept by every step. *)
LEMMA PlaceBounds ==
  ASSUME NEW n \in Nat, n <= MaxCount, NEW i, i \in Abstract!Places(n)
  PROVE  i \in Int /\ 1 <= i /\ i <= 2 * n + 1 /\ i < Top /\ i \in 1..(Top - 1)
<1>1. i \in 1..(2 * n + 1)
  BY DEF Abstract!Places
<1>2. MaxCount \in Nat
  BY CapacityAssumption
<1>. QED
  BY <1>1, <1>2 DEF Top

\* Insert keeps the invariant and adds its item.
LEMMA InsertInv ==
  ASSUME NEW M, TreeInv(M), job = Idle, count < MaxCount,
         NEW i, i \in Abstract!Places(count), Insert(Renumber, i, Locate(Renumber, i)),
         NEW K, K = Spaced(count)
  PROVE  i \notin K /\ TreeInv(K \cup {i})'
<1>. DEFINE h == Renumber
            n == count
<1>1. /\ DOMAIN h = DOMAIN nodes /\ Tidy(h, root, height, K) /\ Sets(K, count)
      /\ num_nodes = Cardinality(DOMAIN h)
  BY RenumberTidy, TreeIdle
<1>2. i \in 1..(Top - 1)
  <2>1. n \in Nat /\ n <= MaxCount /\ i \in Abstract!Places(n)
    BY <1>1, SetsFacts
  <2>. HIDE DEF n
  <2>. QED
    BY <2>1, PlaceBounds
<1>3. Insert(h, i, Locate(h, i))
  OBVIOUS
<1>. HIDE DEF h
<1>4. /\ i \notin K /\ Sets(K \cup {i}, count')
      /\ num_nodes' = Cardinality(DOMAIN nodes')
      /\ Growing(nodes', root', height', K \cup {i}, job')
  BY <1>1, <1>2, <1>3, InsertStep
<1>. QED
  BY <1>4 DEF TreeInv

\* Delete keeps the invariant and removes its item.
LEMMA DeleteInv ==
  ASSUME NEW M, TreeInv(M), job = Idle,
         NEW i, i \in Abstract!Places(count), Delete(Renumber, i, Locate(Renumber, i)),
         NEW K, K = Spaced(count)
  PROVE  i \in K /\ TreeInv(K \ {i})'
<1>. DEFINE h == Renumber
            n == count
<1>1. /\ DOMAIN h = DOMAIN nodes /\ Tidy(h, root, height, K) /\ Sets(K, count)
      /\ num_nodes = Cardinality(DOMAIN h)
  BY RenumberTidy, TreeIdle
<1>2. i \in 1..(Top - 1)
  <2>1. n \in Nat /\ n <= MaxCount /\ i \in Abstract!Places(n)
    BY <1>1, SetsFacts
  <2>. HIDE DEF n
  <2>. QED
    BY <2>1, PlaceBounds
<1>3. Delete(h, i, Locate(h, i))
  OBVIOUS
<1>. HIDE DEF h
<1>4. /\ i \in K /\ Sets(K \ {i}, count')
      /\ num_nodes' = Cardinality(DOMAIN nodes')
      /\ Settling(nodes', root', height', K \ {i}, job')
  BY <1>1, <1>2, <1>3, DeleteStep
<1>. QED
  BY <1>4 DEF TreeInv

\* A round of a running call keeps the invariant, and the items.
LEMMA ContinueInv ==
  ASSUME NEW M, TreeInv(M), Continue
  PROVE  TreeInv(M)'
<1>1. Sets(M, count') /\ num_nodes = Cardinality(DOMAIN nodes)
  BY DEF TreeInv, Continue
<1>2. Growing(nodes, root, height, M, job) \/ Settling(nodes, root, height, M, job)
  BY DEF TreeInv
<1>3. job # Idle
  BY JobFacts DEF Continue
<1>4. \/ \E path, y, new : job = Adding(path, y, new) /\ Addable(nodes, root, height, M, path, y, new)
      \/ \E path : job = Fixing(path) /\ Fixable(nodes, root, height, M, path)
  BY <1>2, <1>3 DEF Growing, Settling
<1>5. \/ job.op = "add" /\ job.path # <<>> /\ AddToParent(job.path, job.median, job.right)
      \/ job.op = "add" /\ job.path = <<>> /\ NewRoot(job.median, job.right)
      \/ job.op = "fix" /\ FixUnderflow(nodes, job.path)
  BY DEF Continue
<1>6. ASSUME NEW path, NEW y, NEW new,
             job = Adding(path, y, new), Addable(nodes, root, height, M, path, y, new)
      PROVE  num_nodes' = Cardinality(DOMAIN nodes') /\ Growing(nodes', root', height', M, job')
  <2>1. job.op = "add" /\ job.path = path /\ job.median = y /\ job.right = new
    BY <1>6, JobFacts
  <2>2. CASE path # <<>>
    <3>1. AddToParent(path, y, new)
      BY <2>1, <2>2, <1>5
    <3>. QED
      BY <3>1, <2>2, <1>1, <1>6, AddStep
  <2>3. CASE path = <<>>
    <3>1. NewRoot(y, new)
      BY <2>1, <2>3, <1>5
    <3>. QED
      BY <3>1, <2>3, <1>1, <1>6, RootStep
  <2>. QED
    BY <2>2, <2>3
<1>7. ASSUME NEW path, job = Fixing(path), Fixable(nodes, root, height, M, path)
      PROVE  num_nodes' = Cardinality(DOMAIN nodes') /\ Settling(nodes', root', height', M, job')
  <2>1. job.op = "fix" /\ job.path = path
    BY <1>7, JobFacts
  <2>2. FixUnderflow(nodes, path)
    BY <2>1, <1>5
  <2>. DEFINE h == nodes
  <2>3. Fixable(h, root, height, M, path) /\ num_nodes = Cardinality(DOMAIN h) /\ FixUnderflow(h, path)
    BY <2>2, <1>1, <1>7
  <2>. HIDE DEF h
  <2>. QED
    BY <2>3, FixStep
<1>. QED
  BY <1>1, <1>4, <1>6, <1>7 DEF TreeInv

-----------------------------------------------------------------------------
\* The invariant.
IndInv == \E M : TreeInv(M)

\* The empty tree.
LEMMA InitInv == Init => TreeInv({Top})
<1>. SUFFICES ASSUME Init PROVE TreeInv({Top})
  OBVIOUS
<1>1. DOMAIN nodes = {} /\ root = Null /\ count = 0 /\ height = 0 /\ num_nodes = 0 /\ job = Idle
  BY DEF Init
<1>2. Cardinality({}) = 0 /\ Cardinality({Top}) = 1
  BY FS_EmptySet, FS_Singleton
<1>3. Sets({Top}, 0)
  BY <1>2, TopType, CapacityAssumption DEF Sets
<1>4. Tidy(nodes, root, height, {Top})
  BY <1>1 DEF Tidy
<1>. QED
  BY <1>1, <1>2, <1>3, <1>4 DEF TreeInv, Growing

\* The kinds of steps.
LEMMA NextKinds ==
  ASSUME Next
  PROVE  \/ job = Idle /\ \E i \in Abstract!Places(count) :
              count < MaxCount /\ Insert(Renumber, i, Locate(Renumber, i))
         \/ job = Idle /\ \E i \in Abstract!Places(count) : Delete(Renumber, i, Locate(Renumber, i))
         \/ job = Idle /\ Clear
         \/ Continue
BY DEF Next

\* Every step keeps the invariant.
LEMMA NextInv ==
  ASSUME NEW M, TreeInv(M), Next
  PROVE  \E K : TreeInv(K)'
<1>1. CASE job = Idle /\ \E i \in Abstract!Places(count) :
              count < MaxCount /\ Insert(Renumber, i, Locate(Renumber, i))
  <2>1. \A K2 : K2 = Spaced(count) => \E i : TreeInv(K2 \cup {i})'
    BY <1>1, InsertInv
  <2>. QED
    BY <2>1
<1>2. CASE job = Idle /\ \E i \in Abstract!Places(count) : Delete(Renumber, i, Locate(Renumber, i))
  <2>1. \A K2 : K2 = Spaced(count) => \E i : TreeInv(K2 \ {i})'
    BY <1>2, DeleteInv
  <2>. QED
    BY <2>1
<1>3. CASE job = Idle /\ Clear
  BY <1>3, ClearStep
<1>4. CASE Continue
  BY <1>4, ContinueInv
<1>. QED
  BY <1>1, <1>2, <1>3, <1>4, NextKinds

\* In every reachable state the tree is in order, or is so but for the one
\* item its running insertion awaits or the one its running deletion owes:
\* the inductive invariant of the tree.
THEOREM TreeInvariant == Spec => []IndInv
<1>1. Init => IndInv
  BY InitInv DEF IndInv
<1>2. IndInv /\ [Next]_vars => IndInv'
  <2>. SUFFICES ASSUME IndInv, [Next]_vars PROVE IndInv'
    OBVIOUS
  <2>1. PICK M : TreeInv(M)
    BY DEF IndInv
  <2>2. CASE Next
    BY <2>1, <2>2, NextInv DEF IndInv
  <2>3. CASE UNCHANGED vars
    <3>1. TreeInv(M)'
      BY <2>1, <2>3 DEF TreeInv, vars
    <3>. QED
      BY <3>1 DEF IndInv
  <2>. QED
    BY <2>2, <2>3
<1>. QED
  BY <1>1, <1>2, PTL DEF Spec

-----------------------------------------------------------------------------
(* What the invariant says between two calls. *)
\* The tree has nodes.
Grown(D, h, rt, ht, lv, lo, hi, M) ==
  /\ Form(D, h, rt, ht, lv, lo, hi, M) /\ Fill(D, h, rt, Null, Null)
  /\ rt \in D /\ ht \in Nat /\ ht >= 1
  /\ Closed(h, D)

\* The tree between two calls.
LEMMA GrownTree ==
  ASSUME NEW M, TreeInv(M), job = Idle, root # Null, NEW D, D = DOMAIN nodes
  PROVE  \E lv, lo, hi : Grown(D, nodes, root, height, lv, lo, hi, M)
<1>. DEFINE h == nodes
            rt == root
            ht == height
<1>1. Tidy(h, rt, ht, M) /\ rt # Null /\ D = DOMAIN h
  BY TreeIdle
<1>. HIDE DEF h, rt, ht
<1>2. PICK lv, lo, hi : Form(D, h, rt, ht, lv, lo, hi, M) /\ Fill(D, h, rt, Null, Null)
  BY <1>1, TidyForm
<1>3. rt \in D /\ ht \in Nat
  BY <1>2 DEF Form, Rooted, Typed
<1>4. ht >= 1
  <2>1. lv[rt] >= 1 /\ lv[rt] <= ht /\ lv[rt] \in Nat
    BY <1>2, <1>3, FormNode
  <2>. QED
    BY <2>1, <1>3
<1>5. Closed(h, D)
  BY <1>2, FormClosed
<1>6. Grown(D, h, rt, ht, lv, lo, hi, M)
  BY <1>2, <1>3, <1>4, <1>5 DEF Grown
<1>. QED
  BY <1>6 DEF h, rt, ht

\* The empty tree between two calls.
LEMMA NoTree ==
  ASSUME NEW M, TreeInv(M), job = Idle, root = Null
  PROVE  DOMAIN nodes = {} /\ count = 0 /\ height = 0 /\ M = {Top}
<1>. DEFINE h == nodes
            rt == root
            ht == height
<1>1. Tidy(h, rt, ht, M) /\ rt = Null /\ Sets(M, count)
  BY TreeIdle
<1>. HIDE DEF h, rt, ht
<1>2. DOMAIN h = {} /\ ht = 0 /\ M = {Top}
  BY <1>1, TidyNone
<1>3. count = 0
  <2>1. Cardinality({Top}) = 1
    BY FS_Singleton
  <2>2. count \in Nat /\ Cardinality(M) = count + 1
    BY <1>1, CapacityAssumption DEF Sets
  <2>. QED
    BY <1>2, <2>1, <2>2
<1>. QED
  BY <1>2, <1>3 DEF h, ht

\* count is the number of items.
LEMMA ItemCount ==
  ASSUME NEW M, TreeInv(M)
  PROVE  count = Cardinality(ItemSet) /\ count \in Nat
<1>1. Sets(M, count) /\ ItemSet = M \ {Top}
  BY TreeItems DEF TreeInv
<1>2. M \subseteq 1..Top /\ Top \in M /\ count \in Nat /\ Cardinality(M) = count + 1
  BY <1>1, CapacityAssumption DEF Sets
<1>3. IsFiniteSet(M)
  BY <1>2, MFinite
<1>4. Cardinality(M \ {Top}) = Cardinality(M) - 1
  BY <1>2, <1>3, FS_RemoveElement
<1>. QED
  BY <1>1, <1>2, <1>4

\* The counts of the tree.
LEMMA InvCounts == IndInv => CountsExact
<1>. SUFFICES ASSUME NEW M, TreeInv(M), job = Idle
     PROVE  /\ count = Cardinality(ItemSet)
            /\ \A a \in DOMAIN nodes :
                 TreeCount(nodes[a]) = Cardinality(KeysOf(nodes, Under(nodes, a)))
  BY DEF IndInv, CountsExact
<1>1. count = Cardinality(ItemSet)
  BY ItemCount
<1>. DEFINE D == DOMAIN nodes
<1>2. ASSUME NEW a \in D
      PROVE  TreeCount(nodes[a]) = Cardinality(KeysOf(nodes, Under(nodes, a)))
  <2>1. root # Null
    BY <1>2, NoTree
  <2>2. PICK lv, lo, hi : Grown(D, nodes, root, height, lv, lo, hi, M)
    BY <2>1, GrownTree
  <2>. DEFINE h == nodes
              rt == root
              ht == height
  <2>3. Form(D, h, rt, ht, lv, lo, hi, M) /\ height \in Nat /\ ht <= height
    BY <2>2 DEF Grown
  <2>. HIDE DEF h, rt, ht, D
  <2>4. TreeCount(h[a]) = Cardinality(KeysOf(h, Under(h, a)))
    BY <2>3, <1>2, UnderCount
  <2>. QED
    BY <2>4 DEF h
<1>. QED
  BY <1>1, <1>2

\* The order of the items.
LEMMA InvSorted == IndInv => Sorted
<1>. SUFFICES ASSUME NEW M, TreeInv(M), job = Idle, NEW a \in DOMAIN nodes
     PROVE  LET n == nodes[a]
                Items(i) == KeysOf(nodes, Under(nodes, n.children[i]))
            IN /\ \A i, j \in DOMAIN n.keys : i < j => n.keys[i] < n.keys[j]
               /\ ~ n.leaf => \A i \in DOMAIN n.keys :
                    /\ \A x \in Items(i) : x < n.keys[i]
                    /\ \A x \in Items(i + 1) : x > n.keys[i]
  BY DEF IndInv, Sorted
<1>. DEFINE D == DOMAIN nodes
            h == nodes
            rt == root
            ht == height
            n == h[a]
            Items(c) == KeysOf(h, Under(h, c))
<1>0. a \in D
  OBVIOUS
<1>1. root # Null
  BY NoTree
<1>2. PICK lv, lo, hi : Grown(D, h, rt, ht, lv, lo, hi, M)
  BY <1>1, GrownTree
<1>3. Form(D, h, rt, ht, lv, lo, hi, M) /\ height \in Nat /\ ht <= height
  BY <1>2 DEF Grown
<1>. HIDE DEF D, h, rt, ht
<1>4. /\ n \in NodeSet /\ n.keys \in Numbers /\ Len(n.keys) \in Nat
      /\ \A i, j \in 1..Len(n.keys) : i < j => n.keys[i] < n.keys[j]
      /\ \A i \in 1..Len(n.keys) : n.keys[i] \in Int
      /\ n.leaf <=> lv[a] = 1
      /\ Len(n.children) = IF lv[a] = 1 THEN 0 ELSE Len(n.keys) + 1
  BY <1>0, <1>3, FormNode
<1>5. DOMAIN n.keys = 1..Len(n.keys)
  BY <1>4, NumbersFacts
<1>6. ASSUME ~ n.leaf, NEW i \in 1..Len(n.keys)
      PROVE  /\ \A x \in Items(n.children[i]) : x < n.keys[i]
             /\ \A x \in Items(n.children[i + 1]) : x > n.keys[i]
  <2>. DEFINE c == n.children[i]
              k == i + 1
              d == n.children[k]
              m == Len(n.keys)
              w == Len(n.children)
  <2>1. m \in Nat /\ w = m + 1 /\ i \in 1..m
    BY <1>4, <1>6
  <2>. HIDE DEF m, w
  <2>2. i \in 1..w /\ k \in 1..w /\ i # m + 1 /\ k # 1 /\ k - 1 = i
    BY <2>1
  <2>3. c \in D /\ hi[c] = n.keys[i]
    <3>1. LET e == h[a].children[i] IN
          e \in D /\ hi[e] = IF i = Len(h[a].keys) + 1 THEN hi[a] ELSE h[a].keys[i]
      BY <1>0, <1>3, <2>2, FormChild DEF w
    <3>. QED
      BY <3>1, <2>2 DEF m
  <2>4. d \in D /\ lo[d] = n.keys[i]
    <3>0. k \in 1..Len(h[a].children)
      BY <2>2 DEF w
    <3>. HIDE DEF k
    <3>1. LET e == h[a].children[k] IN
          e \in D /\ lo[e] = IF k = 1 THEN lo[a] ELSE h[a].keys[k - 1]
      BY <1>0, <1>3, <3>0, FormChild
    <3>. QED
      BY <3>1, <2>2
  <2>. HIDE DEF c, d
  <2>5. Items(c) = {x \in M : lo[c] < x /\ x < hi[c]} /\ Items(d) = {x \in M : lo[d] < x /\ x < hi[d]}
    BY <1>3, <2>3, <2>4, KeysUnder
  <2>6. (\A x \in Items(c) : x < n.keys[i]) /\ (\A x \in Items(d) : x > n.keys[i])
    <3>1. M \subseteq 1..Top /\ Top \in Nat
      BY <1>3, TopType DEF Form, Typed
    <3>2. \A x \in M : x \in Int
      BY <3>1
    <3>3. n.keys[i] \in Int
      BY <1>4, <1>6
    <3>4. \A x \in Items(d) : x \in Int /\ n.keys[i] < x
      BY <2>4, <2>5, <3>2
    <3>. QED
      BY <2>3, <2>5, <3>3, <3>4
  <2>. QED
    BY <2>6 DEF c, d, k
<1>. QED
  BY <1>4, <1>5, <1>6 DEF h

\* The form of the tree.
LEMMA InvShape == IndInv => Shape
<1>. SUFFICES ASSUME NEW M, TreeInv(M), job = Idle
     PROVE  /\ num_nodes = Cardinality(DOMAIN nodes)
            /\ root = Null => DOMAIN nodes = {} /\ count = 0 /\ height = 0
            /\ root # Null =>
                 LET layer == Layers(nodes, root) IN
                 /\ DOMAIN nodes = UNION {layer[d] : d \in 0..(height - 1)}
                 /\ \A d \in 0..(height - 1), a \in DOMAIN nodes :
                      a \in layer[d] => (nodes[a].leaf <=> d = height - 1)
                 /\ NumItems(nodes[root]) >= 1
                 /\ \A a \in DOMAIN nodes :
                      LET n == nodes[a] IN
                      /\ Len(n.children) = IF n.leaf THEN 0 ELSE NumItems(n) + 1
                      /\ NumItems(n) <= MaxItems(n)
                      /\ a # root => NumItems(n) >= LeastItems(n)
                 /\ \A a, b \in DOMAIN nodes :
                      \A i \in DOMAIN nodes[a].children, j \in DOMAIN nodes[b].children :
                        nodes[a].children[i] = nodes[b].children[j] => a = b /\ i = j
  BY DEF IndInv, Shape
<1>1. num_nodes = Cardinality(DOMAIN nodes)
  BY DEF TreeInv
<1>2. root = Null => DOMAIN nodes = {} /\ count = 0 /\ height = 0
  BY NoTree
<1>. SUFFICES ASSUME root # Null
     PROVE  LET layer == Layers(nodes, root) IN
                 /\ DOMAIN nodes = UNION {layer[d] : d \in 0..(height - 1)}
                 /\ \A d \in 0..(height - 1), a \in DOMAIN nodes :
                      a \in layer[d] => (nodes[a].leaf <=> d = height - 1)
                 /\ NumItems(nodes[root]) >= 1
                 /\ \A a \in DOMAIN nodes :
                      LET n == nodes[a] IN
                      /\ Len(n.children) = IF n.leaf THEN 0 ELSE NumItems(n) + 1
                      /\ NumItems(n) <= MaxItems(n)
                      /\ a # root => NumItems(n) >= LeastItems(n)
                 /\ \A a, b \in DOMAIN nodes :
                      \A i \in DOMAIN nodes[a].children, j \in DOMAIN nodes[b].children :
                        nodes[a].children[i] = nodes[b].children[j] => a = b /\ i = j
  BY <1>1, <1>2
<1>. DEFINE D == DOMAIN nodes
            h == nodes
            rt == root
            ht == height
            layer == Layers(h, rt)
<1>3. PICK lv, lo, hi : Grown(D, h, rt, ht, lv, lo, hi, M)
  BY GrownTree
<1>4. /\ Form(D, h, rt, ht, lv, lo, hi, M) /\ Fill(D, h, rt, Null, Null) /\ rt \in D
      /\ ht \in Nat /\ ht >= 1 /\ Closed(h, D) /\ height = ht /\ lv[rt] = ht /\ lo[rt] = 0 /\ hi[rt] = Top
  BY <1>3 DEF Grown, Form, Rooted
<1>. HIDE DEF D, h, rt, ht
<1>5. \A a \in D : /\ h[a] \in NodeSet /\ Len(h[a].keys) \in Nat
                   /\ h[a].children \in Numbers
                   /\ lv[a] \in Nat /\ lv[a] >= 1 /\ lv[a] <= ht /\ lo[a] >= 0 /\ hi[a] <= Top
                   /\ h[a].leaf <=> lv[a] = 1
                   /\ Len(h[a].children) = IF lv[a] = 1 THEN 0 ELSE Len(h[a].keys) + 1
  <2>. SUFFICES ASSUME NEW a \in D
                PROVE  /\ h[a] \in NodeSet /\ Len(h[a].keys) \in Nat
                       /\ h[a].children \in Numbers
                       /\ lv[a] \in Nat /\ lv[a] >= 1 /\ lv[a] <= ht /\ lo[a] >= 0 /\ hi[a] <= Top
                       /\ h[a].leaf <=> lv[a] = 1
                       /\ Len(h[a].children) = IF lv[a] = 1 THEN 0 ELSE Len(h[a].keys) + 1
    OBVIOUS
  <2>. QED
    BY <1>4, FormNode
<1>6. \A a \in D : Within(lv, lo, hi, rt, a)
  BY <1>4, <1>5 DEF Within
<1>7. \A d \in 0..ht : \A b \in D : b \in layer[d] <=> lv[b] = ht - d
  <2>1. height \in Nat
    BY <1>4
  <2>2. \A d \in 0..height : \A b \in D :
           b \in Layers(h, rt)[d] <=> lv[b] = lv[rt] - d /\ Within(lv, lo, hi, rt, b)
    BY <1>4, <2>1, LayersExact
  <2>. QED
    BY <2>2, <1>4, <1>6
<1>8. \A d \in 0..ht : layer[d] \subseteq D
  <2>1. height \in Nat /\ \A b \in D : h[b].children \in Numbers
    BY <1>4, <1>5
  <2>2. layer \in [0..height -> SUBSET D]
    BY <1>4, <2>1, LayersFacts
  <2>. QED
    BY <2>2, <1>4
<1>. HIDE DEF layer
<1>9. D = UNION {layer[d] : d \in 0..(ht - 1)}
  <2>1. ASSUME NEW b \in D PROVE \E d \in 0..(ht - 1) : b \in layer[d]
    <3>. DEFINE d == ht - lv[b]
    <3>1. d \in 0..(ht - 1) /\ d \in 0..ht /\ lv[b] = ht - d
      BY <1>4, <1>5
    <3>. HIDE DEF d
    <3>. QED
      BY <3>1, <1>7
  <2>2. \A d \in 0..(ht - 1) : d \in 0..ht
    BY <1>4
  <2>3. \A d \in 0..(ht - 1) : layer[d] \subseteq D
    BY <1>8, <2>2
  <2>. QED
    BY <2>1, <2>3
<1>10. \A d \in 0..(ht - 1), a \in D : a \in layer[d] => (h[a].leaf <=> d = ht - 1)
  <2>. SUFFICES ASSUME NEW d \in 0..(ht - 1), NEW a \in D, a \in layer[d]
                PROVE  h[a].leaf <=> d = ht - 1
    OBVIOUS
  <2>1. d \in 0..ht /\ d \in Int
    BY <1>4
  <2>2. lv[a] = ht - d
    BY <1>7, <2>1
  <2>. QED
    BY <1>4, <1>5, <2>1, <2>2
<1>11. Null \notin D
  <2>1. D \subseteq Nat \ {0}
    BY <1>4 DEF Form, Typed
  <2>. QED
    BY <2>1 DEF Null
<1>12. NumItems(h[rt]) >= 1
  <2>1. h \in [D -> NodeSet]
    BY <1>4 DEF Form, Typed
  <2>2. Len(h[rt].keys) >= 1
    BY <1>4, <1>11, <2>1, FillPositive
  <2>. QED
    BY <2>2 DEF NumItems
<1>13. ASSUME NEW a \in D
       PROVE  /\ Len(h[a].children) = IF h[a].leaf THEN 0 ELSE NumItems(h[a]) + 1
              /\ NumItems(h[a]) <= MaxItems(h[a])
              /\ a # rt => NumItems(h[a]) >= LeastItems(h[a])
  <2>1. a # Null
    BY <1>11, <1>13
  <2>2. Len(h[a].keys) <= MaxItems(h[a]) /\ (a # rt => LeastItems(h[a]) <= Len(h[a].keys))
    BY <1>4, <1>13, <2>1 DEF Fill
  <2>3. Sized(h[a])
    BY <1>5, <1>13, NodeFacts, SizeFacts
  <2>4. LeastItems(h[a]) \in Nat
    BY <2>3 DEF Sized
  <2>. QED
    BY <1>5, <1>13, <2>2, <2>4 DEF NumItems
<1>14. ASSUME NEW a \in D, NEW b \in D, NEW i \in DOMAIN h[a].children, NEW j \in DOMAIN h[b].children,
              h[a].children[i] = h[b].children[j]
       PROVE  a = b /\ i = j
  <2>1. i \in 1..Len(h[a].children) /\ j \in 1..Len(h[b].children)
    BY <1>5, NumbersFacts
  <2>. QED
    BY <1>4, <1>14, <2>1, OneParent
<1>. QED
  BY <1>9, <1>10, <1>12, <1>13, <1>14 DEF D, h, rt, ht, layer

-----------------------------------------------------------------------------
\* The tree has its form.
THEOREM ShapeKept == Spec => []Shape
BY TreeInvariant, InvShape, PTL

\* Between two calls every inner node counts the items below it, and count
\* all of them, for every maximal number of items and every size of node:
\* what GetRank and ToRank rely on (bplustree.hpp).
THEOREM CountsKept == Spec => []CountsExact
BY TreeInvariant, InvCounts, PTL

\* Between two calls the items are sorted within every node, and those of a
\* child lie between the items around it.
THEOREM OrderKept == Spec => []Sorted
BY TreeInvariant, InvSorted, PTL

-----------------------------------------------------------------------------
(* The tree implements the ordered set. *)
ItemsKnown == \A M : TreeInv(M) => ItemSet = M \ {Top}

\* The items the invariant speaks of are those of the tree.
LEMMA ItemsHere == ItemsKnown
BY TreeItems DEF ItemsKnown

\* The same in the next state.
LEMMA ItemsNext == ItemsKnown'
BY ItemsHere, PTL

\* The renumbered items.
LEMMA SpreadFacts ==
  ASSUME NEW M, TreeInv(M), job = Idle, NEW K, K = Spaced(count)
  PROVE  /\ ImplementsSet!Spread(ItemSet) = K \ {Top}
         /\ ImplementsSet!Cardinality(ImplementsSet!Spread(ItemSet)) = count
<1>. DEFINE S == K \ {Top}
            n == count
<1>1. Cardinality(ItemSet) = n
  BY ItemCount
<1>2. Sets(K, n)
  BY RenumberTidy
<1>3. K \subseteq 1..Top /\ Top \in K /\ n \in Nat /\ n <= MaxCount /\ Cardinality(K) = n + 1
  BY <1>2, CapacityAssumption DEF Sets
<1>4. Cardinality(S) = n
  <2>1. IsFiniteSet(K)
    BY <1>3, MFinite
  <2>2. Cardinality(S) = Cardinality(K) - 1
    BY <1>3, <2>1, FS_RemoveElement
  <2>. QED
    BY <1>3, <2>2
<1>5. {2 * k : k \in 1..n} = S
  <2>1. \A k \in 1..n : 2 * k # Top
    BY <1>3, CapacityAssumption DEF Top
  <2>2. K = {2 * k : k \in 1..n} \cup {Top}
    BY DEF Spaced
  <2>. HIDE DEF n
  <2>3. Top \notin {2 * k : k \in 1..n}
    BY <2>1
  <2>. QED
    BY <2>2, <2>3
<1>6. ImplementsSet!Spread(ItemSet) = {2 * k : k \in 1..Cardinality(ItemSet)}
  BY DEF ImplementsSet!Spread, ImplementsSet!Cardinality, Cardinality
<1>7. ImplementsSet!Spread(ItemSet) = S
  BY <1>1, <1>5, <1>6
<1>8. ImplementsSet!Cardinality(S) = Cardinality(S)
  BY DEF ImplementsSet!Cardinality, Cardinality
<1>. QED
  BY <1>4, <1>7, <1>8

\* Insert puts the item into the set.
LEMMA RefinedInsert ==
  ASSUME NEW M, TreeInv(M), job = Idle, count < MaxCount,
         NEW i, i \in Abstract!Places(count), Insert(Renumber, i, Locate(Renumber, i))
  PROVE  ImplementsSet!Next
<1>. DEFINE S == ImplementsSet!Spread(ItemSet)
<1>1. PICK K : K = Spaced(count)
  OBVIOUS
<1>2. i \notin K /\ TreeInv(K \cup {i})'
  BY <1>1, InsertInv
<1>3. S = K \ {Top} /\ ImplementsSet!Cardinality(S) = count
  BY <1>1, SpreadFacts
<1>4. ItemSet' = (K \cup {i}) \ {Top}
  BY <1>2, ItemsNext DEF ItemsKnown
<1>5. i # Top
  <2>. DEFINE n == count
  <2>1. n \in Nat /\ n <= MaxCount /\ i \in Abstract!Places(n)
    BY SetsFacts DEF TreeInv
  <2>. HIDE DEF n
  <2>2. i \in Int /\ i < Top
    BY <2>1, PlaceBounds
  <2>. QED
    BY <2>2
<1>6. call' = <<"Insert", i>>
  BY DEF Insert
<1>7. i \in ImplementsSet!Places(ImplementsSet!Cardinality(S))
  <2>1. i \in 1..(2 * count + 1)
    BY DEF Abstract!Places
  <2>. QED
    BY <2>1, <1>3 DEF ImplementsSet!Places
<1>. HIDE DEF S
<1>8. ImplementsSet!Insert(S, i)
  <2>1. i \notin S /\ ItemSet' = S \cup {i}
    BY <1>2, <1>3, <1>4, <1>5
  <2>. QED
    BY <2>1, <1>6 DEF ImplementsSet!Insert
<1>. QED
  BY <1>7, <1>8 DEF ImplementsSet!Next, S

\* Delete takes the item out of the set.
LEMMA RefinedDelete ==
  ASSUME NEW M, TreeInv(M), job = Idle,
         NEW i, i \in Abstract!Places(count), Delete(Renumber, i, Locate(Renumber, i))
  PROVE  ImplementsSet!Next
<1>. DEFINE S == ImplementsSet!Spread(ItemSet)
<1>1. PICK K : K = Spaced(count)
  OBVIOUS
<1>2. i \in K /\ TreeInv(K \ {i})'
  BY <1>1, DeleteInv
<1>3. S = K \ {Top} /\ ImplementsSet!Cardinality(S) = count
  BY <1>1, SpreadFacts
<1>4. ItemSet' = (K \ {i}) \ {Top}
  BY <1>2, ItemsNext DEF ItemsKnown
<1>5. i # Top
  <2>. DEFINE n == count
  <2>1. n \in Nat /\ n <= MaxCount /\ i \in Abstract!Places(n)
    BY SetsFacts DEF TreeInv
  <2>. HIDE DEF n
  <2>2. i \in Int /\ i < Top
    BY <2>1, PlaceBounds
  <2>. QED
    BY <2>2
<1>6. call' = <<"Delete", i>>
  BY DEF Delete
<1>7. i \in ImplementsSet!Places(ImplementsSet!Cardinality(S))
  <2>1. i \in 1..(2 * count + 1)
    BY DEF Abstract!Places
  <2>. QED
    BY <2>1, <1>3 DEF ImplementsSet!Places
<1>. HIDE DEF S
<1>8. ImplementsSet!Delete(S, i)
  <2>1. i \in S /\ ItemSet' = S \ {i}
    BY <1>2, <1>3, <1>4, <1>5
  <2>. QED
    BY <2>1, <1>6 DEF ImplementsSet!Delete
<1>. QED
  BY <1>7, <1>8 DEF ImplementsSet!Next, S

\* Clear empties the set.
LEMMA RefinedClear ==
  ASSUME NEW M, TreeInv(M), job = Idle, Clear
  PROVE  ImplementsSet!Next
<1>1. TreeInv({Top})'
  BY ClearStep
<1>2. ItemSet' = {}
  <2>1. ItemSet' = {Top} \ {Top}
    BY <1>1, ItemsNext DEF ItemsKnown
  <2>. QED
    BY <2>1
<1>. QED
  BY <1>2 DEF Clear, ImplementsSet!Next, ImplementsSet!Clear

\* What a running call does after its first step leaves the set alone.
LEMMA RefinedContinue ==
  ASSUME NEW M, TreeInv(M), Continue
  PROVE  UNCHANGED <<ItemSet, call>>
<1>1. TreeInv(M)'
  BY ContinueInv
<1>2. ItemSet' = M \ {Top} /\ ItemSet = M \ {Top}
  BY <1>1, ItemsHere, ItemsNext DEF ItemsKnown
<1>. QED
  BY <1>2 DEF Continue

\* Insert adds its item, Delete takes out its item and no other, Clear
\* everything, and the further rounds of a call change nothing.
THEOREM TreeImplementsSet == Spec => SetRefined
<1>1. Init => ImplementsSet!Init
  <2>. SUFFICES ASSUME Init PROVE ImplementsSet!Init
    OBVIOUS
  <2>1. ItemSet = {Top} \ {Top}
    BY InitInv, ItemsHere DEF ItemsKnown
  <2>. QED
    BY <2>1 DEF Init, ImplementsSet!Init
<1>2. IndInv /\ [Next]_vars => [ImplementsSet!Next]_<<ItemSet, call>>
  <2>. SUFFICES ASSUME IndInv, [Next]_vars PROVE [ImplementsSet!Next]_<<ItemSet, call>>
    OBVIOUS
  <2>1. PICK M : TreeInv(M)
    BY DEF IndInv
  <2>2. CASE job = Idle /\ \E i \in Abstract!Places(count) :
              count < MaxCount /\ Insert(Renumber, i, Locate(Renumber, i))
    BY <2>1, <2>2, RefinedInsert
  <2>3. CASE job = Idle /\ \E i \in Abstract!Places(count) : Delete(Renumber, i, Locate(Renumber, i))
    BY <2>1, <2>3, RefinedDelete
  <2>4. CASE job = Idle /\ Clear
    BY <2>1, <2>4, RefinedClear
  <2>5. CASE Continue
    BY <2>1, <2>5, RefinedContinue
  <2>6. CASE UNCHANGED vars
    BY <2>6 DEF vars, ItemSet, KeysOf
  <2>. QED
    BY <2>2, <2>3, <2>4, <2>5, <2>6, NextKinds
<1>. QED
  BY <1>1, <1>2, TreeInvariant, PTL DEF Spec, SetRefined, ImplementsSet!Spec

-----------------------------------------------------------------------------
(* From an item to the next one: the nodes that are left.                   *)

\* The larger of 0 and the numbers of a set.
LEMMA MostFacts ==
  ASSUME NEW n \in Nat, NEW S, S \subseteq 1..n, NEW m, m = Ext!Max(S \cup {0})
  PROVE  m \in 0..n /\ m \in S \cup {0} /\ \A k \in S : k <= m
<1>. DEFINE P == {j \in Nat : j <= n /\ n - j \in S \cup {0}}
<1>1. n \in P /\ P \in SUBSET Nat
  OBVIOUS
<1>. HIDE DEF P
<1>2. PICK j \in P : \A i \in P : j <= i
  BY <1>1, LeastExists
<1>3. j \in Nat /\ j <= n /\ n - j \in S \cup {0}
  BY <1>2 DEF P
<1>4. ASSUME NEW k \in S \cup {0} PROVE n - j >= k
  <2>1. k \in Nat /\ k <= n
    OBVIOUS
  <2>2. n - k \in Nat /\ n - k <= n /\ n - (n - k) = k
    BY <2>1
  <2>3. n - k \in P
    BY <2>2 DEF P
  <2>4. j <= n - k
    BY <1>2, <2>3
  <2>. QED
    BY <2>1, <2>4, <1>3
<1>5. \E x \in S \cup {0} : \A y \in S \cup {0} : x >= y
  BY <1>3, <1>4
<1>6. m \in S \cup {0} /\ \A y \in S \cup {0} : m >= y
  BY <1>5 DEF Ext!Max
<1>7. \A k \in S \cup {0} : k \in 0..n
  OBVIOUS
<1>. QED
  BY <1>6, <1>7

\* The first steps of a path.
LEMMA PrefixFacts ==
  ASSUME NEW path \in Steps, NEW m \in 0..Len(path), NEW r, r = SubSeq(path, 1, m)
  PROVE  r \in Steps /\ Len(r) = m /\ \A k \in 1..m : r[k] = path[k]
<1>. DEFINE S == [node : Int, pos : Int]
            n == Len(path)
<1>1. n \in Nat /\ path \in Seq(S)
  BY DEF Steps
<1>2. m \in Nat /\ m <= n /\ m - 1 + 1 = m
  BY <1>1
<1>. HIDE DEF S
<1>3. \A k \in 1..m : path[k] \in S
  <2>1. \A k \in 1..m : k \in 1..n
    BY <1>1, <1>2
  <2>. QED
    BY <2>1, <1>1, ElementOfSeq
<1>. HIDE DEF n
<1>4. /\ r \in Seq(S)
      /\ Len(r) = IF 1 <= m THEN m - 1 + 1 ELSE 0
      /\ \A k \in 1..(m - 1 + 1) : r[k] = path[1 + k - 1]
  BY <1>2, <1>3, SubSeqProperties
<1>5. Len(r) = m
  BY <1>2, <1>4
<1>6. \A k \in 1..m : k \in 1..(m - 1 + 1) /\ 1 + k - 1 = k
  BY <1>2
<1>. QED
  BY <1>4, <1>5, <1>6 DEF S, Steps

\* It is a path of the tree.
LEMMA OnPrefix ==
  ASSUME NEW D, NEW H, NEW rt, NEW ht \in Nat, NEW lv, NEW path, On(D, H, rt, ht, lv, path),
         NEW m \in 1..Len(path), NEW r, r = SubSeq(path, 1, m)
  PROVE  /\ On(D, H, rt, ht, lv, r)
         /\ Len(r) = m /\ LastNode(r) = path[m].node /\ LastPos(r) = path[m].pos
<1>. DEFINE n == Len(path)
<1>1. path \in Steps /\ n \in Nat /\ n >= 1 /\ n <= ht
  BY OnLast
<1>2. m \in 0..n /\ m \in 1..m /\ 1 \in 1..m /\ m \in 1..ht /\ m <= n /\ m \in Nat /\ m >= 1
  BY <1>1
<1>3. r \in Steps /\ Len(r) = m /\ \A k \in 1..m : r[k] = path[k]
  BY <1>1, <1>2, PrefixFacts
<1>4. \A k \in 1..m : k \in 1..n
  BY <1>1, <1>2
<1>5. \A k \in 1..(m - 1) : k \in 1..m /\ k + 1 \in 1..m /\ k \in 1..(n - 1)
  BY <1>1, <1>2
<1>6. \A k \in 1..(n - 1) : path[k + 1].node = H[path[k].node].children[path[k].pos + 1]
  BY DEF On
<1>7. path[1].node = rt /\ \A k \in 1..n :
       /\ path[k].node \in D
       /\ lv[path[k].node] = (ht - k) + 1
       /\ path[k].pos \in 0..Len(H[path[k].node].keys)
  BY DEF On
<1>8. LastNode(r) = r[m].node /\ LastPos(r) = r[m].pos
  BY <1>3 DEF LastNode, LastPos
<1>. HIDE DEF n
<1>9. On(D, H, rt, ht, lv, r)
  <2>1. r[1].node = rt
    BY <1>2, <1>3, <1>7
  <2>2. \A k \in 1..Len(r) :
       /\ r[k].node \in D
       /\ lv[r[k].node] = (ht - k) + 1
       /\ r[k].pos \in 0..Len(H[r[k].node].keys)
    BY <1>3, <1>4, <1>7
  <2>3. \A k \in 1..(Len(r) - 1) : r[k + 1].node = H[r[k].node].children[r[k].pos + 1]
    BY <1>3, <1>5, <1>6
  <2>. QED
    BY <1>2, <1>3, <2>1, <2>2, <2>3 DEF On
<1>. QED
  BY <1>2, <1>3, <1>8, <1>9

\* The last step is at another item of the same node.
LEMMA OnBump ==
  ASSUME NEW D, NEW H, NEW rt, NEW ht \in Nat, NEW lv, NEW path, On(D, H, rt, ht, lv, path),
         NEW d \in Int, NEW i, i = LastPos(path) + d, i \in 0..Len(H[LastNode(path)].keys),
         NEW r, r = Bump(path, d)
  PROVE  /\ On(D, H, rt, ht, lv, r)
         /\ Len(r) = Len(path) /\ LastNode(r) = LastNode(path) /\ LastPos(r) = i
<1>. DEFINE n == Len(path)
            a == LastNode(path)
            up == Above(path)
<1>1. path \in Steps /\ n \in Nat /\ n >= 1 /\ n <= ht /\ a = path[n].node /\ a \in D /\ a \in Int
      /\ LastPos(path) \in 0..Len(H[a].keys)
  BY OnLast
<1>2. up \in Steps /\ Len(up) = n - 1 /\ \A k \in 1..(n - 1) : up[k] = path[k]
  BY <1>1, AboveFacts
<1>3. i \in Int /\ r = Push(up, a, i)
  BY <1>1 DEF Bump
<1>. HIDE DEF up, a
<1>4. /\ r \in Steps /\ Len(r) = (n - 1) + 1 /\ \A k \in 1..(n - 1) : r[k] = up[k]
      /\ LastNode(r) = a /\ LastPos(r) = i /\ r[(n - 1) + 1].node = a /\ r[(n - 1) + 1].pos = i
  BY <1>1, <1>2, <1>3, PushFacts
<1>. HIDE DEF n
<1>5. (n - 1) + 1 = n /\ n \in 1..n /\ n \in 1..ht
  BY <1>1
<1>6. Len(r) = n /\ r[n].node = a /\ r[n].pos = i /\ \A k \in 1..(n - 1) : r[k] = path[k]
  BY <1>2, <1>4, <1>5
<1>7. path[1].node = rt /\ \A k \in 1..n :
       /\ path[k].node \in D
       /\ lv[path[k].node] = (ht - k) + 1
       /\ path[k].pos \in 0..Len(H[path[k].node].keys)
  BY DEF On, n
<1>8. \A k \in 1..(n - 1) : path[k + 1].node = H[path[k].node].children[path[k].pos + 1]
  BY DEF On, n
<1>9. \A k \in 1..n : k = n \/ k \in 1..(n - 1)
  BY <1>1
<1>10. \A k \in 1..n : r[k].node = path[k].node
  BY <1>1, <1>6, <1>9
<1>11. \A k \in 1..(n - 1) : k \in 1..n /\ k + 1 \in 1..n
  BY <1>1
<1>12. 1 \in 1..n
  BY <1>1
<1>13. \A k \in 1..n : r[k].pos \in 0..Len(H[r[k].node].keys)
  <2>. SUFFICES ASSUME NEW k \in 1..n PROVE r[k].pos \in 0..Len(H[r[k].node].keys)
    OBVIOUS
  <2>1. CASE k = n
    BY <2>1, <1>6 DEF a
  <2>2. CASE k \in 1..(n - 1)
    BY <2>2, <1>6, <1>7
  <2>. QED
    BY <2>1, <2>2, <1>9
<1>14. On(D, H, rt, ht, lv, r)
  <2>1. r[1].node = rt
    BY <1>7, <1>10, <1>12
  <2>2. \A k \in 1..(n - 1) : r[k + 1].node = H[r[k].node].children[r[k].pos + 1]
    BY <1>6, <1>8, <1>10, <1>11
  <2>. QED
    BY <1>4, <1>5, <1>6, <1>7, <1>10, <1>13, <2>1, <2>2, Zenon DEF On
<1>. QED
  BY <1>4, <1>6, <1>14 DEF n, a

\* What no step changes is the same at the end.
LEMMA Steady ==
  ASSUME NEW m \in Nat, NEW n \in Nat, m <= n, NEW g, \A k \in m..(n - 1) : g[k + 1] = g[k]
  PROVE  g[n] = g[m]
<1>. DEFINE S == {j \in Nat : m + j <= n => g[m + j] = g[m]}
<1>1. 0 \in S
  OBVIOUS
<1>2. ASSUME NEW j \in Nat, j \in S PROVE j + 1 \in S
  <2>. SUFFICES ASSUME m + (j + 1) <= n PROVE g[m + (j + 1)] = g[m]
    OBVIOUS
  <2>1. m + j \in m..(n - 1) /\ (m + j) + 1 = m + (j + 1) /\ m + j <= n
    OBVIOUS
  <2>2. g[(m + j) + 1] = g[m + j]
    BY <2>1
  <2>. QED
    BY <1>2, <2>1, <2>2
<1>. HIDE DEF S
<1>3. Nat \subseteq S
  BY <1>1, <1>2, NatSetInduction
<1>4. n - m \in S
  BY <1>3
<1>5. m + (n - m) = n
  OBVIOUS
<1>. QED
  BY <1>4, <1>5 DEF S

=============================================================================
