-------------------------- MODULE BPlusTreeLemmas ---------------------------
(***************************************************************************)
(* The tree in order, for any number of items, any number of levels and    *)
(* any capacity of the nodes: what the invariants of the B+ tree rest on.  *)
(*                                                                         *)
(* Form says that nodes are a tree in order: every node has a level and    *)
(* two bounds between which its items lie, each child lies between the     *)
(* items around it, and an inner node counts the items between its bounds. *)
(* Fill says how many items the nodes have. Both are stated with at most   *)
(* one node that has an item too many or too few, so that they speak of    *)
(* the tree in the middle of a call as well: Pending is the tree with one  *)
(* item still to be added behind a path, Owing the tree whose last node on *)
(* a path has lost one. The lemmas follow the helpers of                   *)
(* bplustree_internal.hpp: an item put into a node, a node split, items    *)
(* moved to a neighbour.                                                   *)
(***************************************************************************)
EXTENDS BPlusTree, FiniteSetTheorems, SequenceTheorems, WellFoundedInduction, TLAPS

-----------------------------------------------------------------------------
(* Loops and induction over numbers. *)

\* A set of natural numbers that is not empty has a least element.
LEMMA LeastExists ==
  ASSUME NEW P \in SUBSET Nat, P # {}
  PROVE  \E x \in P : \A y \in P : x <= y
<1>. DEFINE R == OpToRel(<, Nat)
<1>1. IsWellFoundedOn(R, Nat)
  BY NatLessThanWellFounded
<1>. HIDE DEF R
<1>2. PICK x \in P : \A y \in P : ~ (<<y, x>> \in R)
  BY <1>1, WFMin
<1>3. ASSUME NEW y \in P PROVE x <= y
  <2>1. x \in Nat /\ y \in Nat
    OBVIOUS
  <2>2. ~ (y < x)
    BY <2>1, <1>2 DEF R, OpToRel
  <2>. QED
    BY <2>1, <2>2
<1>. QED
  BY <1>3

\* A set that holds 0 and, with each natural number, the next one holds all of
\* them: otherwise the numbers it lacks have a least one.
LEMMA NatSetInduction ==
  ASSUME NEW S, 0 \in S, \A n \in Nat : n \in S => n + 1 \in S
  PROVE  Nat \subseteq S
<1>. DEFINE T == Nat \ S
<1>. SUFFICES ASSUME T # {} PROVE FALSE
  OBVIOUS
<1>1. T \in SUBSET Nat
  OBVIOUS
<1>. HIDE DEF T
<1>2. PICK x \in T : \A y \in T : x <= y
  BY <1>1, LeastExists
<1>3. x \in Nat /\ x \notin S
  BY <1>2 DEF T
<1>4. x # 0 /\ x - 1 \in Nat /\ (x - 1) + 1 = x /\ ~(x <= x - 1)
  BY <1>3
<1>5. x - 1 \in S
  BY <1>2, <1>4 DEF T
<1>. QED
  BY <1>3, <1>4, <1>5

\* The same with one function per iteration.
LEMMA LoopRuns ==
  ASSUME NEW A, NEW base \in A, NEW N \in Nat,
         NEW step \in [1..N -> [A -> A]]
  PROVE  \E f \in [0..N -> A] :
           /\ f[0] = base
           /\ \A n \in 1..N : f[n] = step[n][f[n - 1]]
<1>. DEFINE Trace(m) == {f \in [0..m -> A] :
                           /\ f[0] = base
                           /\ \A n \in 1..m : f[n] = step[n][f[n - 1]]}
            S == {m \in Nat : m <= N => Trace(m) # {}}
<1>1. 0 \in S
  <2>1. [i \in 0..0 |-> base] \in Trace(0)
    OBVIOUS
  <2>. QED
    BY <2>1
<1>2. ASSUME NEW m \in Nat, m \in S PROVE m + 1 \in S
  <2>. SUFFICES ASSUME m + 1 <= N PROVE Trace(m + 1) # {}
    OBVIOUS
  <2>1. PICK f : f \in Trace(m)
    BY <1>2
  <2>. DEFINE g == [i \in 0..(m + 1) |->
                      IF i <= m THEN f[i] ELSE step[m + 1][f[m]]]
  <2>2. f[m] \in A /\ m + 1 \in 1..N
    BY <2>1
  <2>3. step[m + 1][f[m]] \in A
    BY <2>2
  <2>4. g \in [0..(m + 1) -> A] /\ g[0] = base
    BY <2>1, <2>3
  <2>5. ASSUME NEW n \in 1..(m + 1) PROVE g[n] = step[n][g[n - 1]]
    <3>1. n - 1 \in 0..m /\ g[n - 1] = f[n - 1]
      OBVIOUS
    <3>2. CASE n <= m
      BY <3>1, <3>2, <2>1
    <3>3. CASE n = m + 1
      BY <3>1, <3>3
    <3>. QED
      BY <3>2, <3>3
  <2>. QED
    BY <2>4, <2>5
<1>3. N \in S
  <2>. HIDE DEF S
  <2>. QED
    BY <1>1, <1>2, NatSetInduction
<1>. QED
  BY <1>3

\* The states a loop goes through, when every iteration leads from a state to
\* a state.
LEMMA LoopStates ==
  ASSUME NEW A, NEW N \in Nat, NEW f, f[0] \in A,
         \A n \in 1..N : f[n - 1] \in A => f[n] \in A
  PROVE  \A n \in 0..N : f[n] \in A
<1>. DEFINE S == {n \in Nat : n <= N => f[n] \in A}
<1>1. 0 \in S
  OBVIOUS
<1>2. ASSUME NEW n \in Nat, n \in S PROVE n + 1 \in S
  <2>. SUFFICES ASSUME n + 1 <= N PROVE f[n + 1] \in A
    OBVIOUS
  <2>1. f[n] \in A /\ n + 1 \in 1..N /\ (n + 1) - 1 = n
    BY <1>2
  <2>. QED
    BY <2>1
<1>. HIDE DEF S
<1>3. Nat \subseteq S
  BY <1>1, <1>2, NatSetInduction
<1>. QED
  BY <1>3 DEF S

\* The elements of P below p: as many as the rank of p in P.
Below(P, p) == {q \in P : q < p}

\* Every rank below the cardinality is some element's.
LEMMA RankExists ==
  ASSUME NEW n \in Nat, NEW P \in SUBSET (0..(n - 1))
  PROVE  /\ IsFiniteSet(P)
         /\ Cardinality(P) \in Nat
         /\ \A k \in 0..(Cardinality(P) - 1) :
              \E p \in P : Cardinality(Below(P, p)) = k
<1>1. ASSUME NEW m \in Nat, NEW Q \in SUBSET (0..(m - 1))
      PROVE  IsFiniteSet(Q) /\ Cardinality(Q) \in Nat
  <2>1. 0 \in Int /\ m - 1 \in Int
    OBVIOUS
  <2>2. IsFiniteSet(0..(m - 1))
    BY <2>1, FS_Interval
  <2>3. IsFiniteSet(Q)
    BY <2>2, FS_Subset
  <2>. QED
    BY <2>3, FS_CardinalityType
<1>. DEFINE Ranked(Q) == \A k \in 0..(Cardinality(Q) - 1) :
                           \E p \in Q : Cardinality(Below(Q, p)) = k
            S == {m \in Nat : \A Q \in SUBSET (0..(m - 1)) : Ranked(Q)}
<1>2. 0 \in S
  <2>1. \A Q \in SUBSET (0..(0 - 1)) : Q = {}
    OBVIOUS
  <2>2. Ranked({})
    BY FS_EmptySet
  <2>. QED
    BY <2>1, <2>2
<1>3. ASSUME NEW m \in Nat, m \in S PROVE m + 1 \in S
  <2>. SUFFICES ASSUME NEW Q \in SUBSET (0..((m + 1) - 1)) PROVE Ranked(Q)
    OBVIOUS
  <2>. DEFINE T == Q \ {m}
  <2>0. \A q \in T : q \in Int /\ q < m
    OBVIOUS
  <2>1. T \in SUBSET (0..(m - 1))
    OBVIOUS
  <2>2. Ranked(T) /\ IsFiniteSet(T) /\ Cardinality(T) \in Nat
    BY <2>1, <1>1, <1>3
  <2>3. CASE m \notin Q
    <3>1. T = Q
      BY <2>3
    <3>. QED
      BY <3>1, <2>2
  <2>4. CASE m \in Q
    <3>1. Q = T \cup {m} /\ m \notin T
      BY <2>4
    <3>. HIDE DEF T
    <3>2. Cardinality(Q) = Cardinality(T) + 1
      BY <3>1, <2>2, FS_AddElement
    <3>3. \A p \in T : Below(Q, p) = Below(T, p)
      BY <3>1, <2>0 DEF Below
    <3>4. Below(Q, m) = T
      <4>1. ~ (m < m)
        OBVIOUS
      <4>. QED
        BY <3>1, <2>0, <4>1 DEF Below
    <3>. SUFFICES ASSUME NEW k \in 0..(Cardinality(Q) - 1)
                  PROVE  \E p \in Q : Cardinality(Below(Q, p)) = k
      OBVIOUS
    <3>5. CASE k = Cardinality(T)
      BY <3>4, <3>5, <2>4
    <3>6. CASE k \in 0..(Cardinality(T) - 1)
      BY <3>1, <3>3, <3>6, <2>2
    <3>. QED
      BY <3>2, <3>5, <3>6, <2>2
  <2>. QED
    BY <2>3, <2>4
<1>4. n \in S
  <2>. HIDE DEF S
  <2>. QED
    BY <1>2, <1>3, NatSetInduction
<1>. QED
  BY <1>1, <1>4

-----------------------------------------------------------------------------
(* Sequences of numbers: the keys and the children of a node. *)

Numbers == Seq(Int)

\* What a sequence of numbers is.
LEMMA NumbersFacts ==
  ASSUME NEW s \in Numbers
  PROVE  /\ Len(s) \in Nat /\ s \in [1..Len(s) -> Int] /\ DOMAIN s = 1..Len(s)
         /\ \A i \in 1..Len(s) : s[i] \in Int
<1>1. s \in Seq(Int)
  BY DEF Numbers
<1>. QED
  BY <1>1, LenProperties, ElementOfSeq

\* Two sequences of one length with the same elements are equal.
LEMMA SameNumbers ==
  ASSUME NEW s \in Numbers, NEW t \in Numbers, Len(s) = Len(t),
         \A i \in 1..Len(s) : s[i] = t[i]
  PROVE  s = t
<1>1. s \in Seq(Int) /\ t \in Seq(Int)
  BY DEF Numbers
<1>. QED
  BY <1>1, SeqEqual

\* The empty sequence.
LEMMA NoNumbers == <<>> \in Numbers /\ Len(<<>>) = 0
BY EmptySeq DEF Numbers

\* A sequence of one number.
LEMMA OneNumber ==
  ASSUME NEW x \in Int
  PROVE  <<x>> \in Numbers /\ Len(<<x>>) = 1 /\ <<x>>[1] = x
BY DEF Numbers

\* A sequence of two numbers.
LEMMA TwoNumbers ==
  ASSUME NEW x \in Int, NEW y \in Int
  PROVE  <<x, y>> \in Numbers /\ Len(<<x, y>>) = 2 /\ <<x, y>>[1] = x /\ <<x, y>>[2] = y
BY DEF Numbers

\* A part of a sequence: the halves of a split, what a neighbour gives away.
LEMMA SpanNumbers ==
  ASSUME NEW s \in Numbers, NEW i \in Int, NEW j \in Int,
         1 <= i, i - 1 <= j, j <= Len(s)
  PROVE  /\ SubSeq(s, i, j) \in Numbers
         /\ Len(SubSeq(s, i, j)) = (j - i) + 1
         /\ \A k \in 1..((j - i) + 1) : SubSeq(s, i, j)[k] = s[i + k - 1]
<1>. DEFINE b == SubSeq(s, i, j)
<1>0. Len(s) \in Nat
  BY NumbersFacts
<1>1. \A k \in i..j : s[k] \in Int
  BY <1>0, NumbersFacts
<1>2. /\ b \in Seq(Int)
      /\ Len(b) = IF i <= j THEN j - i + 1 ELSE 0
      /\ \A k \in 1..(j - i + 1) : b[k] = s[i + k - 1]
  BY <1>1, SubSeqProperties
<1>. HIDE DEF b
<1>3. Len(b) = (j - i) + 1
  BY <1>2
<1>. QED
  BY <1>2, <1>3 DEF b, Numbers

\* Two sequences joined.
LEMMA JoinNumbers ==
  ASSUME NEW s \in Numbers, NEW t \in Numbers
  PROVE  /\ s \o t \in Numbers
         /\ Len(s \o t) = Len(s) + Len(t)
         /\ \A k \in 1..Len(s) : (s \o t)[k] = s[k]
         /\ \A k \in (Len(s) + 1)..(Len(s) + Len(t)) : (s \o t)[k] = t[k - Len(s)]
<1>. DEFINE c == s \o t
<1>1. Len(s) \in Nat /\ Len(t) \in Nat
  BY NumbersFacts
<1>2. /\ c \in Seq(Int) /\ Len(c) = Len(s) + Len(t)
      /\ \A k \in 1..(Len(s) + Len(t)) :
           c[k] = IF k <= Len(s) THEN s[k] ELSE t[k - Len(s)]
  <2>1. s \in Seq(Int) /\ t \in Seq(Int)
    BY DEF Numbers
  <2>. QED
    BY <2>1, ConcatProperties
<1>. HIDE DEF c
<1>3. \A k \in (Len(s) + 1)..(Len(s) + Len(t)) : c[k] = t[k - Len(s)]
  <2>. SUFFICES ASSUME NEW k \in (Len(s) + 1)..(Len(s) + Len(t))
                PROVE  c[k] = t[k - Len(s)]
    OBVIOUS
  <2>1. k \in 1..(Len(s) + Len(t)) /\ ~ (k <= Len(s))
    BY <1>1
  <2>. QED
    BY <2>1, <1>2
<1>4. \A k \in 1..Len(s) : c[k] = s[k]
  BY <1>1, <1>2
<1>. QED
  BY <1>2, <1>3, <1>4 DEF c, Numbers

\* x between s and t.
Link(s, x, t) == s \o <<x>> \o t

\* Two sequences joined through a number between them.
LEMMA LinkNumbers ==
  ASSUME NEW s \in Numbers, NEW x \in Int, NEW t \in Numbers
  PROVE  /\ Link(s, x, t) \in Numbers
         /\ Len(Link(s, x, t)) = Len(s) + 1 + Len(t)
         /\ \A k \in 1..Len(s) : Link(s, x, t)[k] = s[k]
         /\ Link(s, x, t)[Len(s) + 1] = x
         /\ \A k \in (Len(s) + 2)..(Len(s) + 1 + Len(t)) :
              Link(s, x, t)[k] = t[k - (Len(s) + 1)]
<1>. DEFINE a == s \o <<x>>
            c == a \o t
<1>1. Len(s) \in Nat /\ Len(t) \in Nat
  BY NumbersFacts
<1>2. <<x>> \in Numbers /\ Len(<<x>>) = 1 /\ <<x>>[1] = x
  BY OneNumber
<1>3. /\ a \in Numbers /\ Len(a) = Len(s) + 1
      /\ \A k \in 1..Len(s) : a[k] = s[k]
      /\ a[Len(s) + 1] = x
  BY <1>1, <1>2, JoinNumbers
<1>. HIDE DEF a
<1>4. /\ c \in Numbers /\ Len(c) = Len(a) + Len(t)
      /\ \A k \in 1..Len(a) : c[k] = a[k]
      /\ \A k \in (Len(a) + 1)..(Len(a) + Len(t)) : c[k] = t[k - Len(a)]
  BY <1>3, JoinNumbers
<1>5. c = Link(s, x, t)
  BY DEF a, Link
<1>. HIDE DEF c
<1>6. \A k \in 1..Len(s) : c[k] = s[k]
  BY <1>1, <1>3, <1>4
<1>7. c[Len(s) + 1] = x
  BY <1>1, <1>3, <1>4
<1>8. \A k \in (Len(s) + 2)..(Len(s) + 1 + Len(t)) : c[k] = t[k - (Len(s) + 1)]
  BY <1>1, <1>3, <1>4
<1>. QED
  BY <1>1, <1>3, <1>4, <1>5, <1>6, <1>7, <1>8

\* A number inserted: std::move_backward and the assignment behind it.
LEMMA InsertNumber ==
  ASSUME NEW s \in Numbers, NEW i \in 1..(Len(s) + 1), NEW x \in Int
  PROVE  /\ Ext!InsertAt(s, i, x) \in Numbers
         /\ Len(Ext!InsertAt(s, i, x)) = Len(s) + 1
         /\ \A k \in 1..(i - 1) : Ext!InsertAt(s, i, x)[k] = s[k]
         /\ Ext!InsertAt(s, i, x)[i] = x
         /\ \A k \in (i + 1)..(Len(s) + 1) : Ext!InsertAt(s, i, x)[k] = s[k - 1]
<1>. DEFINE a == SubSeq(s, 1, i - 1)
            b == SubSeq(s, i, Len(s))
            r == Ext!InsertAt(s, i, x)
<1>1. Len(s) \in Nat /\ i - 1 \in Nat /\ i - 1 <= Len(s) /\ (i - 1) + 1 = i
  BY NumbersFacts
<1>2. a \in Numbers /\ Len(a) = i - 1 /\ \A k \in 1..(i - 1) : a[k] = s[k]
  <2>1. /\ a \in Numbers /\ Len(a) = ((i - 1) - 1) + 1
        /\ \A k \in 1..(((i - 1) - 1) + 1) : a[k] = s[1 + k - 1]
    BY <1>1, SpanNumbers
  <2>. QED
    BY <2>1, <1>1
<1>3. /\ b \in Numbers /\ Len(b) = Len(s) - (i - 1)
      /\ \A k \in 1..(Len(s) - (i - 1)) : b[k] = s[(i - 1) + k]
  <2>1. /\ b \in Numbers /\ Len(b) = (Len(s) - i) + 1
        /\ \A k \in 1..((Len(s) - i) + 1) : b[k] = s[i + k - 1]
    BY <1>1, SpanNumbers
  <2>2. Len(b) = Len(s) - (i - 1)
    BY <2>1, <1>1
  <2>3. ASSUME NEW k \in 1..(Len(s) - (i - 1)) PROVE b[k] = s[(i - 1) + k]
    <3>1. k \in 1..((Len(s) - i) + 1) /\ i + k - 1 = (i - 1) + k
      BY <1>1
    <3>. QED
      BY <2>1, <3>1
  <2>. QED
    BY <2>1, <2>2, <2>3
<1>4. r = Link(a, x, b) /\ a \in Numbers /\ b \in Numbers
  BY <1>2, <1>3 DEF Ext!InsertAt, Link
<1>. HIDE DEF a, b, r
<1>5. /\ r \in Numbers /\ Len(r) = Len(a) + 1 + Len(b)
      /\ \A k \in 1..Len(a) : r[k] = a[k]
      /\ r[Len(a) + 1] = x
      /\ \A k \in (Len(a) + 2)..(Len(a) + 1 + Len(b)) : r[k] = b[k - (Len(a) + 1)]
  BY <1>4, LinkNumbers
<1>6. Len(r) = Len(s) + 1
  BY <1>1, <1>2, <1>3, <1>5
<1>7. \A k \in 1..(i - 1) : r[k] = s[k]
  BY <1>1, <1>2, <1>5
<1>8. r[i] = x
  BY <1>1, <1>2, <1>5
<1>9. ASSUME NEW k \in (i + 1)..(Len(s) + 1) PROVE r[k] = s[k - 1]
  <2>1. k \in (Len(a) + 2)..(Len(a) + 1 + Len(b)) /\ k - (Len(a) + 1) = k - i
    BY <1>1, <1>2, <1>3
  <2>2. k - i \in 1..(Len(s) - (i - 1)) /\ (i - 1) + (k - i) = k - 1
    BY <1>1
  <2>. QED
    BY <2>1, <2>2, <1>3, <1>5
<1>. QED
  BY <1>5, <1>6, <1>7, <1>8, <1>9 DEF r

\* A number removed: std::move over its place.
LEMMA RemoveNumber ==
  ASSUME NEW s \in Numbers, NEW i \in 1..Len(s)
  PROVE  /\ Ext!RemoveAt(s, i) \in Numbers
         /\ Len(Ext!RemoveAt(s, i)) = Len(s) - 1
         /\ \A k \in 1..(i - 1) : Ext!RemoveAt(s, i)[k] = s[k]
         /\ \A k \in i..(Len(s) - 1) : Ext!RemoveAt(s, i)[k] = s[k + 1]
<1>. DEFINE a == SubSeq(s, 1, i - 1)
            b == SubSeq(s, i + 1, Len(s))
            r == Ext!RemoveAt(s, i)
<1>1. Len(s) \in Nat /\ i - 1 \in Nat /\ i - 1 <= Len(s) /\ (i - 1) + 1 = i
      /\ i \in Nat /\ i <= Len(s)
  BY NumbersFacts
<1>2. a \in Numbers /\ Len(a) = i - 1 /\ \A k \in 1..(i - 1) : a[k] = s[k]
  <2>1. /\ a \in Numbers /\ Len(a) = ((i - 1) - 1) + 1
        /\ \A k \in 1..(((i - 1) - 1) + 1) : a[k] = s[1 + k - 1]
    BY <1>1, SpanNumbers
  <2>. QED
    BY <2>1, <1>1
<1>3. /\ b \in Numbers /\ Len(b) = Len(s) - i
      /\ \A k \in 1..(Len(s) - i) : b[k] = s[i + k]
  <2>1. /\ b \in Numbers /\ Len(b) = (Len(s) - (i + 1)) + 1
        /\ \A k \in 1..((Len(s) - (i + 1)) + 1) : b[k] = s[(i + 1) + k - 1]
    BY <1>1, SpanNumbers
  <2>2. Len(b) = Len(s) - i
    BY <2>1, <1>1
  <2>3. ASSUME NEW k \in 1..(Len(s) - i) PROVE b[k] = s[i + k]
    <3>1. k \in 1..((Len(s) - (i + 1)) + 1) /\ (i + 1) + k - 1 = i + k
      BY <1>1
    <3>. QED
      BY <2>1, <3>1
  <2>. QED
    BY <2>1, <2>2, <2>3
<1>4. r = a \o b /\ a \in Numbers /\ b \in Numbers
  BY <1>2, <1>3 DEF Ext!RemoveAt
<1>. HIDE DEF a, b, r
<1>5. /\ r \in Numbers /\ Len(r) = Len(a) + Len(b)
      /\ \A k \in 1..Len(a) : r[k] = a[k]
      /\ \A k \in (Len(a) + 1)..(Len(a) + Len(b)) : r[k] = b[k - Len(a)]
  BY <1>4, JoinNumbers
<1>6. Len(r) = Len(s) - 1
  BY <1>1, <1>2, <1>3, <1>5
<1>7. \A k \in 1..(i - 1) : r[k] = s[k]
  BY <1>1, <1>2, <1>5
<1>8. ASSUME NEW k \in i..(Len(s) - 1) PROVE r[k] = s[k + 1]
  <2>1. k \in (Len(a) + 1)..(Len(a) + Len(b)) /\ k - Len(a) = k - (i - 1)
    BY <1>1, <1>2, <1>3
  <2>2. k - (i - 1) \in 1..(Len(s) - i) /\ i + (k - (i - 1)) = k + 1
    BY <1>1
  <2>. QED
    BY <2>1, <2>2, <1>3, <1>5
<1>. QED
  BY <1>5, <1>6, <1>7, <1>8 DEF r

\* Inserting before or behind what is appended.
LEMMA InsertThenJoin ==
  ASSUME NEW s \in Numbers, NEW t \in Numbers, NEW i \in 1..(Len(s) + 1), NEW x \in Int
  PROVE  Ext!InsertAt(s, i, x) \o t = Ext!InsertAt(s \o t, i, x)
<1>. DEFINE a == Ext!InsertAt(s, i, x)
            c == s \o t
            l == a \o t
            r == Ext!InsertAt(c, i, x)
<1>0. Len(s) \in Nat /\ Len(t) \in Nat
  BY NumbersFacts
<1>1. /\ a \in Numbers /\ Len(a) = Len(s) + 1
      /\ \A k \in 1..(i - 1) : a[k] = s[k]
      /\ a[i] = x
      /\ \A k \in (i + 1)..(Len(s) + 1) : a[k] = s[k - 1]
  BY InsertNumber
<1>2. /\ c \in Numbers /\ Len(c) = Len(s) + Len(t)
      /\ \A k \in 1..Len(s) : c[k] = s[k]
      /\ \A k \in (Len(s) + 1)..(Len(s) + Len(t)) : c[k] = t[k - Len(s)]
  BY JoinNumbers
<1>. HIDE DEF a, c
<1>3. /\ l \in Numbers /\ Len(l) = Len(a) + Len(t)
      /\ \A k \in 1..Len(a) : l[k] = a[k]
      /\ \A k \in (Len(a) + 1)..(Len(a) + Len(t)) : l[k] = t[k - Len(a)]
  BY <1>0, <1>1, JoinNumbers
<1>4. c \in Numbers /\ i \in 1..(Len(c) + 1)
  BY <1>0, <1>2
<1>5. /\ r \in Numbers /\ Len(r) = Len(c) + 1
      /\ \A k \in 1..(i - 1) : r[k] = c[k]
      /\ r[i] = x
      /\ \A k \in (i + 1)..(Len(c) + 1) : r[k] = c[k - 1]
  BY <1>4, InsertNumber
<1>. HIDE DEF l, r
<1>6. Len(l) = Len(s) + Len(t) + 1 /\ Len(r) = Len(s) + Len(t) + 1
  BY <1>0, <1>1, <1>2, <1>3, <1>5
<1>7. ASSUME NEW k \in 1..(Len(s) + Len(t) + 1) PROVE l[k] = r[k]
  <2>1. CASE k < i
    BY <2>1, <1>0, <1>1, <1>2, <1>3, <1>5
  <2>2. CASE k = i
    BY <2>2, <1>0, <1>1, <1>2, <1>3, <1>5
  <2>3. CASE k > i /\ k <= Len(s) + 1
    <3>1. l[k] = a[k] /\ a[k] = s[k - 1]
      BY <2>3, <1>0, <1>1, <1>3
    <3>2. r[k] = c[k - 1]
      BY <2>3, <1>0, <1>2, <1>5
    <3>3. c[k - 1] = s[k - 1]
      BY <2>3, <1>0, <1>2
    <3>. QED
      BY <3>1, <3>2, <3>3
  <2>4. CASE k > Len(s) + 1
    <3>1. l[k] = t[k - (Len(s) + 1)]
      BY <2>4, <1>0, <1>1, <1>3
    <3>2. r[k] = c[k - 1]
      BY <2>4, <1>0, <1>2, <1>5
    <3>3. c[k - 1] = t[(k - 1) - Len(s)] /\ (k - 1) - Len(s) = k - (Len(s) + 1)
      BY <2>4, <1>0, <1>2
    <3>. QED
      BY <3>1, <3>2, <3>3
  <2>. QED
    BY <2>1, <2>2, <2>3, <2>4, <1>0
<1>8. l = r
  BY <1>3, <1>5, <1>6, <1>7, SameNumbers
<1>. QED
  BY <1>8 DEF l, r, a, c

\* A number is put into the second of two joined sequences.
LEMMA JoinThenInsert ==
  ASSUME NEW s \in Numbers, NEW t \in Numbers, NEW i \in 1..(Len(t) + 1), NEW x \in Int
  PROVE  s \o Ext!InsertAt(t, i, x) = Ext!InsertAt(s \o t, Len(s) + i, x)
<1>. DEFINE a == Ext!InsertAt(t, i, x)
            c == s \o t
            l == s \o a
            m == Len(s) + i
            r == Ext!InsertAt(c, m, x)
<1>0. Len(s) \in Nat /\ Len(t) \in Nat
  BY NumbersFacts
<1>1. /\ a \in Numbers /\ Len(a) = Len(t) + 1
      /\ \A k \in 1..(i - 1) : a[k] = t[k]
      /\ a[i] = x
      /\ \A k \in (i + 1)..(Len(t) + 1) : a[k] = t[k - 1]
  BY InsertNumber
<1>2. /\ c \in Numbers /\ Len(c) = Len(s) + Len(t)
      /\ \A k \in 1..Len(s) : c[k] = s[k]
      /\ \A k \in (Len(s) + 1)..(Len(s) + Len(t)) : c[k] = t[k - Len(s)]
  BY JoinNumbers
<1>. HIDE DEF a, c
<1>3. /\ l \in Numbers /\ Len(l) = Len(s) + Len(a)
      /\ \A k \in 1..Len(s) : l[k] = s[k]
      /\ \A k \in (Len(s) + 1)..(Len(s) + Len(a)) : l[k] = a[k - Len(s)]
  BY <1>0, <1>1, JoinNumbers
<1>4. c \in Numbers /\ m \in 1..(Len(c) + 1)
  BY <1>0, <1>2
<1>. HIDE DEF m
<1>5. /\ r \in Numbers /\ Len(r) = Len(c) + 1
      /\ \A k \in 1..(m - 1) : r[k] = c[k]
      /\ r[m] = x
      /\ \A k \in (m + 1)..(Len(c) + 1) : r[k] = c[k - 1]
  BY <1>4, InsertNumber
<1>. USE DEF m
<1>. HIDE DEF l, r
<1>6. Len(l) = Len(s) + Len(t) + 1 /\ Len(r) = Len(s) + Len(t) + 1
  BY <1>0, <1>1, <1>2, <1>3, <1>5
<1>7. ASSUME NEW k \in 1..(Len(s) + Len(t) + 1) PROVE l[k] = r[k]
  <2>1. CASE k <= Len(s)
    <3>1. k \in 1..(m - 1)
      BY <2>1, <1>0
    <3>2. r[k] = c[k]
      BY <3>1, <1>5
    <3>. QED
      BY <2>1, <3>2, <1>0, <1>2, <1>3
  <2>2. CASE k > Len(s) /\ k < m
    <3>1. l[k] = a[k - Len(s)]
      BY <2>2, <1>0, <1>1, <1>3
    <3>2. a[k - Len(s)] = t[k - Len(s)]
      BY <2>2, <1>0, <1>1
    <3>3. k \in 1..(m - 1)
      BY <2>2, <1>0
    <3>4. r[k] = c[k]
      BY <3>3, <1>5
    <3>5. c[k] = t[k - Len(s)]
      BY <2>2, <1>0, <1>2
    <3>. QED
      BY <3>1, <3>2, <3>4, <3>5
  <2>3. CASE k = m
    BY <2>3, <1>0, <1>1, <1>2, <1>3, <1>5
  <2>4. CASE k > m
    <3>1. l[k] = a[k - Len(s)] /\ r[k] = c[k - 1]
      BY <2>4, <1>0, <1>1, <1>2, <1>3, <1>5
    <3>2. a[k - Len(s)] = t[(k - Len(s)) - 1]
      BY <2>4, <1>0, <1>1
    <3>3. c[k - 1] = t[(k - 1) - Len(s)]
      BY <2>4, <1>0, <1>2
    <3>. QED
      BY <3>1, <3>2, <3>3, <1>0
  <2>. QED
    BY <2>1, <2>2, <2>3, <2>4, <1>0
<1>8. l = r
  BY <1>3, <1>5, <1>6, <1>7, SameNumbers
<1>. QED
  BY <1>8 DEF l, r, a, c

\* Joining is associative.
LEMMA JoinAssociative ==
  ASSUME NEW s \in Numbers, NEW t \in Numbers, NEW u \in Numbers
  PROVE  (s \o t) \o u = s \o (t \o u)
<1>1. s \in Seq(Int) /\ t \in Seq(Int) /\ u \in Seq(Int)
  BY DEF Numbers
<1>. QED
  BY <1>1, ConcatAssociative

\* A sequence is its first m elements and the others.
LEMMA CutNumbers ==
  ASSUME NEW s \in Numbers, NEW m \in 0..Len(s)
  PROVE  SubSeq(s, 1, m) \o SubSeq(s, m + 1, Len(s)) = s
<1>0. s \in Seq(Int) /\ Len(s) \in Nat
  BY NumbersFacts DEF Numbers
<1>1. 1 \in 1..(Len(s) + 1) /\ m \in (1 - 1)..Len(s) /\ Len(s) \in m..Len(s)
  BY <1>0
<1>2. SubSeq(s, 1, m) \o SubSeq(s, m + 1, Len(s)) = SubSeq(s, 1, Len(s))
  BY <1>0, <1>1, ConcatAdjacentSubSeq
<1>. QED
  BY <1>0, <1>2, SubSeqFull

\* The elements before, at and behind position m + 1.
LEMMA CutNumbersAt ==
  ASSUME NEW s \in Numbers, NEW m \in 0..(Len(s) - 1)
  PROVE  Link(SubSeq(s, 1, m), s[m + 1], SubSeq(s, m + 2, Len(s))) = s
<1>0. s \in Seq(Int) /\ Len(s) \in Nat
  BY NumbersFacts DEF Numbers
<1>1. m + 1 \in 1..Len(s) /\ Len(s) \in (m + 1)..Len(s) /\ (m + 1) + 1 = m + 2
      /\ m \in 0..Len(s) /\ m \in Nat /\ m + 1 <= Len(s) /\ m + 1 \in Nat
  BY <1>0
<1>2. SubSeq(s, m + 1, Len(s)) = <<s[m + 1]>> \o SubSeq(s, m + 2, Len(s))
  <2>1. SubSeq(s, m + 1, Len(s)) = <<s[m + 1]>> \o SubSeq(s, (m + 1) + 1, Len(s))
    BY <1>0, <1>1, SubSeqRecursiveFirst
  <2>. QED
    BY <2>1, <1>1
<1>3. SubSeq(s, 1, m) \o SubSeq(s, m + 1, Len(s)) = s
  BY <1>1, CutNumbers
<1>4. SubSeq(s, 1, m) \in Numbers
  BY <1>0, <1>1, SpanNumbers
<1>5. SubSeq(s, m + 2, Len(s)) \in Numbers
  <2>. DEFINE j == m + 2
  <2>1. j \in Int /\ 1 <= j /\ j - 1 <= Len(s) /\ Len(s) \in Int /\ Len(s) <= Len(s)
    BY <1>0, <1>1
  <2>. HIDE DEF j
  <2>2. SubSeq(s, j, Len(s)) \in Numbers
    BY <2>1, SpanNumbers
  <2>. QED
    BY <2>2 DEF j
<1>6. s[m + 1] \in Int
  BY <1>1, NumbersFacts
<1>7. <<s[m + 1]>> \in Numbers
  BY <1>6, OneNumber
<1>. DEFINE a == SubSeq(s, 1, m)
            b == SubSeq(s, m + 2, Len(s))
            x == <<s[m + 1]>>
<1>8. a \in Numbers /\ b \in Numbers /\ x \in Numbers
  BY <1>4, <1>5, <1>7
<1>9. a \o (x \o b) = s
  BY <1>2, <1>3
<1>. HIDE DEF a, b, x
<1>10. (a \o x) \o b = s
  BY <1>8, <1>9, JoinAssociative
<1>. QED
  BY <1>10 DEF Link, a, b, x

-----------------------------------------------------------------------------
(* Total: the sum of a sequence of numbers. *)

\* The function of Total's definition.
Summed(s) ==
  LET sum[i \in 0..Len(s)] == IF i = 0 THEN 0 ELSE sum[i - 1] + s[i]
  IN sum

\* The running sums of a sequence.
LEMMA SummedFacts ==
  ASSUME NEW s \in Numbers
  PROVE  /\ Summed(s) \in [0..Len(s) -> Int]
         /\ Summed(s)[0] = 0
         /\ \A i \in 1..Len(s) : Summed(s)[i] = Summed(s)[i - 1] + s[i]
         /\ Total(s) = Summed(s)[Len(s)]
<1>0. Len(s) \in Nat /\ \A i \in 1..Len(s) : s[i] \in Int
  BY NumbersFacts
<1>. DEFINE N == Len(s)
            A == Int
            base == 0
            step == [n \in 1..N |-> [x \in A |-> x + s[n]]]
            Sum(f) == f = [i \in 0..N |-> IF i = 0 THEN 0 ELSE f[i - 1] + s[i]]
            F == Summed(s)
<1>1. step \in [1..N -> [A -> A]] /\ base \in A /\ N \in Nat
  BY <1>0
<1>2. \A x \in A, n \in 1..N : step[n][x] = x + s[n]
  BY <1>0
<1>. HIDE DEF step, A, base, N
<1>3. PICK g \in [0..N -> A] :
        g[0] = base /\ \A n \in 1..N : g[n] = step[n][g[n - 1]]
  BY <1>1, LoopRuns
<1>4. \A n \in 1..N : g[n] = g[n - 1] + s[n]
  BY <1>1, <1>2, <1>3
<1>5. Sum(g)
  <2>1. \A i \in 0..N : g[i] = IF i = 0 THEN 0 ELSE g[i - 1] + s[i]
    BY <1>1, <1>3, <1>4 DEF base
  <2>. QED
    BY <2>1
<1>6. F = CHOOSE f : Sum(f)
  BY DEF Summed, N
<1>7. Sum(F)
  BY <1>5, <1>6
<1>. HIDE DEF F
<1>8. DOMAIN F = 0..N /\ \A i \in 0..N : F[i] = IF i = 0 THEN 0 ELSE F[i - 1] + s[i]
  BY <1>7
<1>9. F[0] = 0 /\ \A n \in 1..N : F[n] = F[n - 1] + s[n]
  BY <1>1, <1>8
<1>11. \A n \in 0..N : F[n] \in A
  <2>1. F[0] \in A
    BY <1>9 DEF A
  <2>2. ASSUME NEW n \in 1..N, F[n - 1] \in A PROVE F[n] \in A
    BY <2>2, <1>0, <1>9 DEF A, N
  <2>. QED
    BY <1>1, <2>1, <2>2, LoopStates
<1>12. F \in [0..N -> A]
  BY <1>7, <1>11
<1>13. Total(s) = F[N]
  BY DEF Total, Summed, F, N
<1>. QED
  BY <1>9, <1>13, <1>12 DEF A, base, N, F

\* The sum of numbers is a number.
LEMMA TotalNumber ==
  ASSUME NEW s \in Numbers
  PROVE  Total(s) \in Int
BY SummedFacts, NumbersFacts

\* The sum of no numbers.
LEMMA TotalNone == Total(<<>>) = 0
BY SummedFacts, NoNumbers

\* The sum of what is joined.
LEMMA TotalJoin ==
  ASSUME NEW s \in Numbers, NEW t \in Numbers
  PROVE  Total(s \o t) = Total(s) + Total(t)
<1>. DEFINE c == s \o t
            m == Len(s)
            n == Len(t)
            F == Summed(s)
            G == Summed(t)
            H == Summed(c)
<1>1. m \in Nat /\ n \in Nat
  BY NumbersFacts
<1>2. /\ c \in Numbers /\ Len(c) = m + n
      /\ \A k \in 1..m : c[k] = s[k]
      /\ \A k \in (m + 1)..(m + n) : c[k] = t[k - m]
  BY JoinNumbers
<1>. HIDE DEF c
<1>3. /\ F \in [0..m -> Int] /\ F[0] = 0 /\ Total(s) = F[m]
      /\ \A i \in 1..m : F[i] = F[i - 1] + s[i]
  BY SummedFacts
<1>4. /\ G \in [0..n -> Int] /\ G[0] = 0 /\ Total(t) = G[n]
      /\ \A i \in 1..n : G[i] = G[i - 1] + t[i]
  BY SummedFacts
<1>5. /\ H \in [0..(m + n) -> Int] /\ H[0] = 0 /\ Total(c) = H[m + n]
      /\ \A i \in 1..(m + n) : H[i] = H[i - 1] + c[i]
  BY <1>2, SummedFacts
<1>. HIDE DEF m, n, F, G, H
<1>6. H[m] = F[m]
  <2>. DEFINE S == {i \in Nat : i <= m => H[i] = F[i]}
  <2>1. 0 \in S
    BY <1>3, <1>5
  <2>2. ASSUME NEW i \in Nat, i \in S PROVE i + 1 \in S
    <3>. SUFFICES ASSUME i + 1 <= m PROVE H[i + 1] = F[i + 1]
      OBVIOUS
    <3>1. H[i] = F[i]
      BY <2>2, <1>1
    <3>2. i + 1 \in 1..m /\ i + 1 \in 1..(m + n) /\ (i + 1) - 1 = i
      BY <1>1
    <3>3. H[i + 1] = H[i] + c[i + 1] /\ F[i + 1] = F[i] + s[i + 1] /\ c[i + 1] = s[i + 1]
      BY <3>2, <1>2, <1>3, <1>5
    <3>. QED
      BY <3>1, <3>3
  <2>. HIDE DEF S
  <2>3. Nat \subseteq S
    BY <2>1, <2>2, NatSetInduction
  <2>. QED
    BY <2>3, <1>1 DEF S
<1>7. H[m + n] = F[m] + G[n]
  <2>. DEFINE S == {i \in Nat : i <= n => H[m + i] = F[m] + G[i]}
  <2>1. 0 \in S
    BY <1>1, <1>3, <1>4, <1>6
  <2>2. ASSUME NEW i \in Nat, i \in S PROVE i + 1 \in S
    <3>. SUFFICES ASSUME i + 1 <= n PROVE H[m + (i + 1)] = F[m] + G[i + 1]
      OBVIOUS
    <3>1. H[m + i] = F[m] + G[i]
      BY <2>2, <1>1
    <3>2. /\ i + 1 \in 1..n /\ (i + 1) - 1 = i
          /\ m + (i + 1) \in 1..(m + n) /\ (m + (i + 1)) - 1 = m + i
          /\ m + (i + 1) \in (m + 1)..(m + n) /\ (m + (i + 1)) - m = i + 1
      BY <1>1
    <3>3. G[i + 1] = G[i] + t[i + 1]
      BY <3>2, <1>4
    <3>4. H[m + (i + 1)] = H[m + i] + t[i + 1]
      BY <3>2, <1>2, <1>5
    <3>5. F[m] \in Int /\ G[i] \in Int
      BY <1>1, <1>3, <1>4
    <3>6. t[i + 1] \in Int
      BY <3>2, NumbersFacts DEF n
    <3>. QED
      BY <3>1, <3>3, <3>4, <3>5, <3>6
  <2>. HIDE DEF S
  <2>3. Nat \subseteq S
    BY <2>1, <2>2, NatSetInduction
  <2>. QED
    BY <2>3, <1>1 DEF S
<1>. QED
  BY <1>3, <1>4, <1>5, <1>7 DEF c

\* The sum of one number.
LEMMA TotalOne ==
  ASSUME NEW x \in Int
  PROVE  Total(<<x>>) = x
<1>. DEFINE s == <<x>>
<1>1. s \in Numbers /\ Len(s) = 1 /\ s[1] = x
  BY OneNumber
<1>. HIDE DEF s
<1>2. /\ Summed(s)[0] = 0 /\ Total(s) = Summed(s)[1]
      /\ \A i \in 1..1 : Summed(s)[i] = Summed(s)[i - 1] + s[i]
  BY <1>1, SummedFacts
<1>3. Summed(s)[1] = Summed(s)[1 - 1] + s[1]
  BY <1>2
<1>. QED
  BY <1>1, <1>2, <1>3 DEF s

\* A number more adds itself to the sum.
LEMMA TotalInsert ==
  ASSUME NEW s \in Numbers, NEW i \in 1..(Len(s) + 1), NEW x \in Int
  PROVE  Total(Ext!InsertAt(s, i, x)) = Total(s) + x
<1>. DEFINE a == SubSeq(s, 1, i - 1)
            b == SubSeq(s, i, Len(s))
            y == <<x>>
<1>1. Len(s) \in Nat /\ i - 1 \in 0..Len(s) /\ (i - 1) + 1 = i
  BY NumbersFacts
<1>2. a \o b = s
  BY <1>1, CutNumbers
<1>3. a \in Numbers
  BY <1>1, SpanNumbers
<1>4. b \in Numbers
  BY <1>1, SpanNumbers
<1>5. y \in Numbers /\ Total(y) = x
  BY OneNumber, TotalOne
<1>6. Ext!InsertAt(s, i, x) = (a \o y) \o b
  BY DEF Ext!InsertAt
<1>. HIDE DEF a, b, y
<1>7. a \o y \in Numbers /\ Total(a \o y) = Total(a) + Total(y)
  BY <1>3, <1>5, JoinNumbers, TotalJoin
<1>8. Total((a \o y) \o b) = Total(a \o y) + Total(b)
  BY <1>4, <1>7, TotalJoin
<1>9. Total(s) = Total(a) + Total(b)
  BY <1>2, <1>3, <1>4, TotalJoin
<1>10. Total(a) \in Int /\ Total(b) \in Int
  BY <1>3, <1>4, TotalNumber
<1>. QED
  BY <1>5, <1>6, <1>7, <1>8, <1>9, <1>10

-----------------------------------------------------------------------------
(* A tree in order.  Every node a has a level lv[a], 1 for the leaves, and  *)
(* bounds lo[a] and hi[a] its items lie between: items of the nodes above  *)
(* it, or 0 and Top.  M is the set of the items, with Top.                 *)

Top == 2 * MaxCount + 2

NodeSet == [leaf : BOOLEAN, keys : Numbers, children : Numbers, cnt : Int]

\* The items of n with its bounds before and behind them.
Edge(n, l, u, i) ==
  IF i = 0 THEN l ELSE IF i = Len(n.keys) + 1 THEN u ELSE n.keys[i]

\* How many elements of M are not above x.
Upto(M) == [x \in 0..Top |-> Cardinality(M \cap (1..x))]

Typed(D, H, ht, lv, lo, hi, M) ==
  /\ D \subseteq Nat \ {0} /\ IsFiniteSet(D)
  /\ H \in [D -> NodeSet]
  /\ ht \in Nat /\ lv \in [D -> Nat]
  /\ lo \in [D -> 0..Top] /\ hi \in [D -> 0..Top]
  /\ M \subseteq 1..Top /\ Top \in M

Rooted(D, rt, ht, lv, lo, hi) ==
  rt \in D /\ lv[rt] = ht /\ lo[rt] = 0 /\ hi[rt] = Top

Leveled(D, H, ht, lv) ==
  \A a \in D :
    /\ lv[a] \in 1..ht
    /\ H[a].leaf <=> lv[a] = 1
    /\ H[a].leaf => Len(H[a].children) = 0
    /\ ~ H[a].leaf => Len(H[a].children) = Len(H[a].keys) + 1

Ordered(D, H, lo, hi, M) ==
  \A a \in D :
    /\ lo[a] \in M \cup {0} /\ hi[a] \in M
    /\ \A i \in 1..Len(H[a].keys) : H[a].keys[i] \in M
    /\ \A i, j \in 0..(Len(H[a].keys) + 1) :
         i < j => Edge(H[a], lo[a], hi[a], i) < Edge(H[a], lo[a], hi[a], j)

Linked(D, H, lv, lo, hi) ==
  \A a \in D : \A i \in 1..Len(H[a].children) :
    /\ H[a].children[i] \in D
    /\ lv[H[a].children[i]] = lv[a] - 1
    /\ lo[H[a].children[i]] = Edge(H[a], lo[a], hi[a], i - 1)
    /\ hi[H[a].children[i]] = Edge(H[a], lo[a], hi[a], i)

Apart(D, lv, lo, hi) ==
  \A a, b \in D : a # b /\ lv[a] = lv[b] => hi[a] <= lo[b] \/ hi[b] <= lo[a]

Counted(D, H, lo, hi, M) ==
  \A a \in D : TreeCount(H[a]) = Upto(M)[hi[a]] - Upto(M)[lo[a]] - 1

Form(D, H, rt, ht, lv, lo, hi, M) ==
  /\ Typed(D, H, ht, lv, lo, hi, M)
  /\ Rooted(D, rt, ht, lv, lo, hi)
  /\ Leveled(D, H, ht, lv)
  /\ Ordered(D, H, lo, hi, M)
  /\ Linked(D, H, lv, lo, hi)
  /\ Apart(D, lv, lo, hi)
  /\ Counted(D, H, lo, hi, M)

\* Top lies above all items.
LEMMA TopType == Top \in Nat /\ Top >= 2
BY CapacityAssumption DEF Top

\* How many items lie up to a number is a natural number.
LEMMA UptoType ==
  ASSUME NEW M, M \subseteq 1..Top
  PROVE  Upto(M) \in [0..Top -> Nat]
<1>1. ASSUME NEW x \in 0..Top PROVE Cardinality(M \cap (1..x)) \in Nat
  <2>1. IsFiniteSet(1..x)
    BY TopType, FS_Interval
  <2>2. IsFiniteSet(M \cap (1..x))
    BY <2>1, FS_Subset
  <2>. QED
    BY <2>2, FS_CardinalityType
<1>. QED
  BY <1>1 DEF Upto

\* What a node is.
LEMMA NodeFacts ==
  ASSUME NEW n \in NodeSet
  PROVE  /\ n.leaf \in BOOLEAN /\ n.keys \in Numbers /\ n.children \in Numbers /\ n.cnt \in Int
         /\ Len(n.keys) \in Nat /\ Len(n.children) \in Nat
         /\ \A i \in 1..Len(n.keys) : n.keys[i] \in Int
         /\ \A i \in 1..Len(n.children) : n.children[i] \in Int
BY NumbersFacts DEF NodeSet

\* What a node of a tree in order keeps.
LEMMA FormNode ==
  ASSUME NEW D, NEW H, NEW rt, NEW ht, NEW lv, NEW lo, NEW hi, NEW M,
         Form(D, H, rt, ht, lv, lo, hi, M), NEW a \in D
  PROVE  /\ a \in Nat /\ a # 0 /\ H[a] \in NodeSet
         /\ Len(H[a].keys) \in Nat
         /\ H[a].keys \in Numbers /\ H[a].children \in Numbers
         /\ ht \in Nat /\ lv[a] \in Nat /\ lv[a] >= 1 /\ lv[a] <= ht
         /\ lo[a] \in Int /\ hi[a] \in Int /\ 0 <= lo[a] /\ lo[a] < hi[a] /\ hi[a] <= Top
         /\ H[a].leaf <=> lv[a] = 1
         /\ Len(H[a].children) = IF lv[a] = 1 THEN 0 ELSE Len(H[a].keys) + 1
         /\ \A i \in 1..Len(H[a].keys) :
              H[a].keys[i] \in Int /\ H[a].keys[i] \in M
              /\ lo[a] < H[a].keys[i] /\ H[a].keys[i] < hi[a]
         /\ \A i, j \in 1..Len(H[a].keys) : i < j => H[a].keys[i] < H[a].keys[j]
<1>. DEFINE n == H[a]
            E(i) == Edge(n, lo[a], hi[a], i)
<1>1. /\ a \in Nat /\ a # 0 /\ n \in NodeSet /\ ht \in Nat /\ lv[a] \in Nat
      /\ lo[a] \in 0..Top /\ hi[a] \in 0..Top
  BY DEF Form, Typed
<1>2. /\ Len(n.keys) \in Nat /\ n.keys \in Numbers /\ n.children \in Numbers
      /\ \A i \in 1..Len(n.keys) : n.keys[i] \in Int
  BY <1>1, NodeFacts
<1>3. /\ lv[a] \in 1..ht /\ (n.leaf <=> lv[a] = 1)
      /\ n.leaf => Len(n.children) = 0
      /\ ~ n.leaf => Len(n.children) = Len(n.keys) + 1
  BY DEF Form, Leveled
<1>4. /\ \A i \in 1..Len(n.keys) : n.keys[i] \in M
      /\ \A i, j \in 0..(Len(n.keys) + 1) : i < j => E(i) < E(j)
  BY DEF Form, Ordered
<1>. DEFINE m == Len(n.keys)
<1>. HIDE DEF n
<1>5. E(0) = lo[a] /\ E(m + 1) = hi[a] /\ \A i \in 1..m : E(i) = n.keys[i]
  BY <1>2 DEF Edge
<1>. HIDE DEF E
<1>6. /\ 0 \in 0..(m + 1) /\ m + 1 \in 0..(m + 1) /\ 0 < m + 1
      /\ \A i \in 1..m : i \in 0..(m + 1) /\ 0 < i /\ i < m + 1
  BY <1>2
<1>7. lo[a] < hi[a]
  BY <1>4, <1>5, <1>6
<1>8. \A i \in 1..m : lo[a] < n.keys[i] /\ n.keys[i] < hi[a]
  BY <1>4, <1>5, <1>6
<1>9. \A i, j \in 1..m : i < j => n.keys[i] < n.keys[j]
  BY <1>4, <1>5, <1>6
<1>10. Len(n.children) = IF lv[a] = 1 THEN 0 ELSE Len(n.keys) + 1
  BY <1>3
<1>11. lo[a] \in Int /\ hi[a] \in Int /\ 0 <= lo[a] /\ hi[a] <= Top
  BY <1>1, TopType
<1>. QED
  BY <1>1, <1>2, <1>3, <1>4, <1>7, <1>8, <1>9, <1>10, <1>11, TopType DEF n

\* The children of a node: one level down, between neighbouring items.
LEMMA FormChild ==
  ASSUME NEW D, NEW H, NEW rt, NEW ht, NEW lv, NEW lo, NEW hi, NEW M,
         Form(D, H, rt, ht, lv, lo, hi, M), NEW a \in D,
         NEW i \in 1..Len(H[a].children)
  PROVE  LET c == H[a].children[i] IN
         /\ c \in D /\ lv[c] = lv[a] - 1 /\ lv[a] > 1 /\ ~ H[a].leaf
         /\ lo[c] = IF i = 1 THEN lo[a] ELSE H[a].keys[i - 1]
         /\ hi[c] = IF i = Len(H[a].keys) + 1 THEN hi[a] ELSE H[a].keys[i]
         /\ lo[a] <= lo[c] /\ hi[c] <= hi[a]
<1>. DEFINE c == H[a].children[i]
            m == Len(H[a].keys)
<1>1. /\ m \in Nat /\ lv[a] \in Nat /\ lv[a] >= 1 /\ (H[a].leaf <=> lv[a] = 1)
      /\ Len(H[a].children) = IF lv[a] = 1 THEN 0 ELSE m + 1
      /\ lo[a] \in Int /\ hi[a] \in Int /\ lo[a] < hi[a]
      /\ \A k \in 1..m : H[a].keys[k] \in Int /\ lo[a] < H[a].keys[k] /\ H[a].keys[k] < hi[a]
  BY FormNode
<1>2. /\ c \in D /\ lv[c] = lv[a] - 1
      /\ lo[c] = Edge(H[a], lo[a], hi[a], i - 1) /\ hi[c] = Edge(H[a], lo[a], hi[a], i)
  BY DEF Form, Linked
<1>3. lv[a] # 1 /\ i \in 1..(m + 1)
  BY <1>1
<1>. HIDE DEF c, m
<1>4. lo[c] = IF i = 1 THEN lo[a] ELSE H[a].keys[i - 1]
  <2>1. i - 1 # m + 1 /\ (i - 1 = 0 <=> i = 1)
    BY <1>1, <1>3
  <2>. QED
    BY <1>2, <2>1 DEF Edge, m
<1>5. hi[c] = IF i = m + 1 THEN hi[a] ELSE H[a].keys[i]
  <2>1. i # 0
    BY <1>3, <1>1
  <2>. QED
    BY <1>2, <2>1 DEF Edge, m
<1>6. lo[a] <= lo[c]
  <2>1. CASE i = 1
    BY <2>1, <1>1, <1>4
  <2>2. CASE i # 1
    <3>1. i - 1 \in 1..m
      BY <2>2, <1>1, <1>3
    <3>. QED
      BY <2>2, <3>1, <1>1, <1>4
  <2>. QED
    BY <2>1, <2>2
<1>7. hi[c] <= hi[a]
  <2>1. CASE i = m + 1
    BY <2>1, <1>1, <1>5
  <2>2. CASE i # m + 1
    <3>1. i \in 1..m
      BY <2>2, <1>1, <1>3
    <3>. QED
      BY <2>2, <3>1, <1>1, <1>5
  <2>. QED
    BY <2>1, <2>2
<1>. QED
  BY <1>1, <1>2, <1>3, <1>4, <1>5, <1>6, <1>7 DEF c, m

-----------------------------------------------------------------------------
(* Joining two neighbours, and cutting a node in two.                       *)

\* t is s without its element at j.
Without(s, t, j) ==
  /\ Len(s) = Len(t) + 1
  /\ \A k \in 1..(j - 1) : t[k] = s[k]
  /\ \A k \in j..Len(t) : t[k] = s[k + 1]

\* N is W with the children L and R of p, and item j of p between them, joined
\* into one node.
Joined(D, W, N, p, j, L, R) ==
  /\ p \in D /\ L \in D /\ R \in D /\ p # L /\ p # R /\ L # R
  /\ W \in [D -> NodeSet] /\ N \in [D \ {R} -> NodeSet]
  /\ \A b \in D \ {p, L, R} : N[b] = W[b]
  /\ j \in 1..Len(W[p].keys) /\ W[p].children[j] = L /\ W[p].children[j + 1] = R
  /\ Len(W[p].children) = Len(W[p].keys) + 1
  /\ ~ N[p].leaf /\ ~ W[p].leaf /\ N[p].cnt = W[p].cnt
  /\ Without(W[p].keys, N[p].keys, j) /\ Without(W[p].children, N[p].children, j + 1)
  /\ (N[L].leaf <=> W[L].leaf) /\ (W[R].leaf <=> W[L].leaf)
  /\ N[L].keys = Link(W[L].keys, W[p].keys[j], W[R].keys)
  /\ N[L].children = W[L].children \o W[R].children
  /\ TreeCount(N[L]) = TreeCount(W[L]) + TreeCount(W[R]) + 1

Off(D, R, f) == [a \in D \ {R} |-> f[a]]
Over(D, L, R, f) == [a \in D \ {R} |-> IF a = L THEN f[R] ELSE f[a]]

\* The items of p with its bounds, before and after.
Shrunk(W, N, p, j, l, u) ==
  LET m == Len(N[p].keys) IN
  /\ m \in Nat /\ Len(W[p].keys) = m + 1 /\ j \in 1..(m + 1)
  /\ Len(N[p].children) = m + 1 /\ Len(W[p].children) = m + 2
  /\ \A i \in 0..(j - 1) : Edge(N[p], l, u, i) = Edge(W[p], l, u, i)
  /\ \A i \in j..(m + 1) : Edge(N[p], l, u, i) = Edge(W[p], l, u, i + 1)
  /\ \A i \in 1..j : N[p].children[i] = W[p].children[i]
  /\ \A i \in (j + 1)..(m + 1) : N[p].children[i] = W[p].children[i + 1]

\* The parent of two joined nodes has the item between them no more.
LEMMA JoinedParent ==
  ASSUME NEW D, NEW W, NEW N, NEW p, NEW j, NEW L, NEW R,
         Joined(D, W, N, p, j, L, R), NEW l \in Int, NEW u \in Int
  PROVE  Shrunk(W, N, p, j, l, u)
<1>. DEFINE m == Len(N[p].keys)
            s == W[p].keys
            t == N[p].keys
<1>1. p \in D \ {R} /\ N[p] \in NodeSet /\ W[p] \in NodeSet
  BY DEF Joined
<1>2. m \in Nat
  BY <1>1, NodeFacts
<1>3. /\ Len(s) = m + 1 /\ j \in 1..Len(s)
      /\ \A k \in 1..(j - 1) : t[k] = s[k]
      /\ \A k \in j..m : t[k] = s[k + 1]
  BY DEF Joined, Without
<1>4. /\ Len(W[p].children) = Len(N[p].children) + 1 /\ Len(W[p].children) = Len(s) + 1
      /\ \A k \in 1..((j + 1) - 1) : N[p].children[k] = W[p].children[k]
      /\ \A k \in (j + 1)..Len(N[p].children) : N[p].children[k] = W[p].children[k + 1]
  BY DEF Joined, Without
<1>10. Len(N[p].children) \in Nat
  BY <1>1, NodeFacts
<1>11. Len(s) = m + 1 /\ j \in Nat /\ 1 <= j /\ j <= m + 1
  BY <1>2, <1>3
<1>5. Len(N[p].children) = m + 1 /\ Len(W[p].children) = m + 2
  BY <1>2, <1>11, <1>4, <1>10
<1>6. ASSUME NEW i \in 0..(j - 1) PROVE Edge(N[p], l, u, i) = Edge(W[p], l, u, i)
  <2>1. CASE i = 0
    BY <2>1 DEF Edge
  <2>2. CASE i # 0
    <3>1. i \in 1..(j - 1) /\ i # m + 1 /\ i # Len(s) + 1
      BY <2>2, <1>2, <1>3
    <3>2. t[i] = s[i]
      BY <3>1, <1>3
    <3>. QED
      BY <2>2, <3>1, <3>2 DEF Edge
  <2>. QED
    BY <2>1, <2>2
<1>7. ASSUME NEW i \in j..(m + 1) PROVE Edge(N[p], l, u, i) = Edge(W[p], l, u, i + 1)
  <2>1. i # 0 /\ i + 1 # 0 /\ (i = m + 1 <=> i + 1 = Len(s) + 1)
    BY <1>2, <1>11
  <2>2. CASE i = m + 1
    BY <2>1, <2>2 DEF Edge
  <2>3. CASE i # m + 1
    <3>1. i \in j..m
      BY <2>3, <1>2, <1>3
    <3>2. t[i] = s[i + 1]
      BY <3>1, <1>3
    <3>. QED
      BY <2>1, <2>3, <3>2 DEF Edge
  <2>. QED
    BY <2>2, <2>3
<1>8. \A i \in 1..j : N[p].children[i] = W[p].children[i]
  BY <1>3, <1>4
<1>9. \A i \in (j + 1)..(m + 1) : N[p].children[i] = W[p].children[i + 1]
  BY <1>4, <1>5
<1>. QED
  BY <1>2, <1>3, <1>5, <1>6, <1>7, <1>8, <1>9 DEF Shrunk

\* The items of the joined node with its bounds, and of its halves.
Halves(W, N, p, j, L, R, l, u) ==
  LET a == Len(W[L].keys)
      b == Len(W[R].keys)
      x == W[p].keys[j]
      c == Len(W[L].children)
      d == Len(W[R].children)
  IN /\ a \in Nat /\ b \in Nat /\ c \in Nat /\ d \in Nat /\ x \in Int
     /\ Len(N[L].keys) = a + 1 + b /\ Len(N[L].children) = c + d
     /\ \A i \in 0..(a + 1) : Edge(N[L], l, u, i) = Edge(W[L], l, x, i)
     /\ \A i \in (a + 1)..(a + 1 + b + 1) :
          Edge(N[L], l, u, i) = Edge(W[R], x, u, i - (a + 1))
     /\ \A i \in 1..c : N[L].children[i] = W[L].children[i]
     /\ \A i \in (c + 1)..(c + d) : N[L].children[i] = W[R].children[i - c]

\* The bounds of two nodes meet at the item between them.
LEMMA JoinedChild ==
  ASSUME NEW D, NEW W, NEW N, NEW p, NEW j, NEW L, NEW R,
         Joined(D, W, N, p, j, L, R), NEW l \in Int, NEW u \in Int
  PROVE  Halves(W, N, p, j, L, R, l, u)
<1>. DEFINE a == Len(W[L].keys)
            b == Len(W[R].keys)
            x == W[p].keys[j]
            c == Len(W[L].children)
            d == Len(W[R].children)
            s == W[L].keys
            t == W[R].keys
            k == N[L].keys
<1>1. /\ L \in D \ {R} /\ N[L] \in NodeSet /\ W[L] \in NodeSet /\ W[R] \in NodeSet
      /\ W[p] \in NodeSet /\ j \in 1..Len(W[p].keys)
  BY DEF Joined
<1>2. /\ a \in Nat /\ b \in Nat /\ c \in Nat /\ d \in Nat /\ x \in Int
      /\ s \in Numbers /\ t \in Numbers
      /\ W[L].children \in Numbers /\ W[R].children \in Numbers
  BY <1>1, NodeFacts
<1>. DEFINE e == W[L].children
            f == W[R].children
            g == N[L].children
<1>3. k = Link(s, x, t) /\ g = e \o f /\ s \in Numbers /\ t \in Numbers /\ x \in Int
      /\ e \in Numbers /\ f \in Numbers
  BY <1>2 DEF Joined
<1>. HIDE DEF x, s, t, k, e, f, g
<1>4. /\ Len(k) = a + 1 + b
      /\ \A i \in 1..a : k[i] = s[i]
      /\ k[a + 1] = x
      /\ \A i \in (a + 2)..(a + 1 + b) : k[i] = t[i - (a + 1)]
  <2>1. a = Len(s) /\ b = Len(t)
    BY DEF a, b, s, t
  <2>. HIDE DEF a, b
  <2>2. /\ Len(k) = Len(s) + 1 + Len(t)
        /\ \A i \in 1..Len(s) : k[i] = s[i]
        /\ k[Len(s) + 1] = x
        /\ \A i \in (Len(s) + 2)..(Len(s) + 1 + Len(t)) : k[i] = t[i - (Len(s) + 1)]
    BY <1>3, LinkNumbers
  <2>. QED
    BY <2>1, <2>2
<1>5. /\ Len(g) = c + d
      /\ \A i \in 1..c : g[i] = e[i]
      /\ \A i \in (c + 1)..(c + d) : g[i] = f[i - c]
  BY <1>3, JoinNumbers DEF c, d, e, f
<1>. HIDE DEF a, b, c, d
<1>10. a \in Nat /\ b \in Nat
  BY <1>2
<1>6. ASSUME NEW i \in 0..(a + 1) PROVE Edge(N[L], l, u, i) = Edge(W[L], l, x, i)
  <2>1. CASE i = 0
    BY <2>1 DEF Edge
  <2>2. CASE i \in 1..a
    <3>1. i # 0 /\ i # Len(k) + 1 /\ i # a + 1 /\ k[i] = s[i]
      BY <2>2, <1>10, <1>4
    <3>. QED
      BY <3>1 DEF Edge, a, k, s
  <2>3. CASE i = a + 1
    <3>1. i # 0 /\ i # Len(k) + 1 /\ k[i] = x
      BY <2>3, <1>10, <1>4
    <3>. QED
      BY <2>3, <3>1 DEF Edge, a, k, s
  <2>. QED
    BY <2>1, <2>2, <2>3, <1>10
<1>7. ASSUME NEW i \in (a + 1)..(a + 1 + b + 1)
      PROVE  Edge(N[L], l, u, i) = Edge(W[R], x, u, i - (a + 1))
  <2>. DEFINE h == i - (a + 1)
  <2>0. h \in 0..(b + 1) /\ i # 0
    BY <1>10
  <2>1. CASE i = a + 1
    <3>1. h = 0 /\ i # Len(k) + 1 /\ k[i] = x
      BY <2>1, <1>10, <1>4
    <3>. QED
      BY <2>0, <3>1 DEF Edge, k
  <2>2. CASE i \in (a + 2)..(a + 1 + b)
    <3>1. h # 0 /\ i # Len(k) + 1 /\ h # b + 1 /\ k[i] = t[h]
      BY <2>2, <1>10, <1>4
    <3>. QED
      BY <2>0, <3>1 DEF Edge, b, k, t
  <2>3. CASE i = a + 1 + b + 1
    <3>1. h # 0 /\ i = Len(k) + 1 /\ h = b + 1
      BY <2>3, <1>10, <1>4
    <3>. QED
      BY <2>0, <3>1 DEF Edge, b, k, t
  <2>. QED
    BY <2>1, <2>2, <2>3, <1>10
<1>. QED
  BY <1>2, <1>4, <1>5, <1>6, <1>7 DEF Halves, a, b, c, d, x, k, s, t, e, f, g

\* A node other than the root has one parent and one place there.
LEMMA OneParent ==
  ASSUME NEW D, NEW H, NEW rt, NEW ht, NEW lv, NEW lo, NEW hi, NEW M,
         Form(D, H, rt, ht, lv, lo, hi, M), NEW a \in D, NEW b \in D,
         NEW i \in 1..Len(H[a].children), NEW k \in 1..Len(H[b].children),
         H[a].children[i] = H[b].children[k]
  PROVE  a = b /\ i = k
<1>. DEFINE c == H[a].children[i]
            d == H[b].children[k]
            m == Len(H[a].keys)
<1>1. c \in D /\ lv[c] = lv[a] - 1 /\ lo[a] <= lo[c] /\ hi[c] <= hi[a]
  BY FormChild
<1>2. d \in D /\ lv[d] = lv[b] - 1 /\ lo[b] <= lo[d] /\ hi[d] <= hi[b]
  BY FormChild
<1>. HIDE DEF c, d
<1>3. lo[c] \in Int /\ hi[c] \in Int /\ lo[c] < hi[c] /\ lv[c] \in Nat
  BY <1>1, FormNode
<1>4. lv[a] \in Nat /\ lv[b] \in Nat /\ lo[a] \in Int /\ hi[a] \in Int /\ lo[b] \in Int /\ hi[b] \in Int
  BY FormNode
<1>5. a = b
  <2>1. a # b /\ lv[a] = lv[b] => hi[a] <= lo[b] \/ hi[b] <= lo[a]
    BY DEF Form, Apart
  <2>2. c = d
    BY DEF c, d
  <2>3. lv[c] = lv[b] - 1 /\ lo[b] <= lo[c] /\ hi[c] <= hi[b]
    BY <1>2, <2>2
  <2>. DEFINE x == lv[a]
              y == lv[b]
              z == lv[c]
  <2>6. x \in Nat /\ y \in Nat /\ z = x - 1 /\ z = y - 1
    BY <1>1, <2>3, <1>4
  <2>. HIDE DEF x, y, z
  <2>7. x = y
    BY <2>6
  <2>4. lv[a] = lv[b]
    BY <2>7 DEF x, y
  <2>5. ~ (hi[a] <= lo[b]) /\ ~ (hi[b] <= lo[a])
    <3>. DEFINE p == lo[a]
                q == hi[a]
                u == lo[b]
                v == hi[b]
                s == lo[c]
                w == hi[c]
    <3>1. p \in Int /\ q \in Int /\ u \in Int /\ v \in Int /\ s \in Int /\ w \in Int
      BY <1>3, <1>4
    <3>2. p <= s /\ w <= q /\ u <= s /\ w <= v /\ s < w
      BY <1>1, <1>3, <2>3
    <3>. HIDE DEF p, q, u, v, s, w
    <3>3. ~ (q <= u) /\ ~ (v <= p)
      BY <3>1, <3>2
    <3>. QED
      BY <3>3 DEF p, q, u, v
  <2>. QED
    BY <2>1, <2>4, <2>5
<1>6. ASSUME NEW g \in 1..Len(H[a].children), NEW h \in 1..Len(H[a].children), g < h
      PROVE  H[a].children[g] # H[a].children[h]
  <2>. DEFINE x == H[a].children[g]
              y == H[a].children[h]
  <2>1. m \in Nat /\ Len(H[a].children) = (IF lv[a] = 1 THEN 0 ELSE m + 1)
    BY FormNode
  <2>10. g \in Nat /\ h \in Nat /\ 1 <= g /\ g < h /\ h <= m + 1
    <3>1. CASE lv[a] = 1
      BY <1>6, <2>1, <3>1
    <3>2. CASE lv[a] # 1
      BY <1>6, <2>1, <3>2
    <3>. QED
      BY <3>1, <3>2
  <2>11. m \in Nat
    BY <2>1
  <2>. HIDE DEF m
  <2>2. g \in 1..m /\ h - 1 \in 1..m /\ g <= h - 1 /\ h # 1 /\ g # m + 1
    BY <2>10, <2>11
  <2>. USE DEF m
  <2>3. hi[x] = H[a].keys[g] /\ x \in D
    BY <2>2, FormChild
  <2>4. lo[y] = H[a].keys[h - 1] /\ y \in D
    BY <2>2, FormChild
  <2>. HIDE DEF x, y
  <2>8. /\ \A e \in 1..m : H[a].keys[e] \in Int
        /\ \A e, f \in 1..m : e < f => H[a].keys[e] < H[a].keys[f]
    BY FormNode
  <2>. HIDE DEF m
  <2>9. H[a].keys[g] <= H[a].keys[h - 1]
    <3>1. CASE g = h - 1
      BY <3>1, <2>2, <2>8
    <3>2. CASE g < h - 1
      BY <3>2, <2>2, <2>8
    <3>. QED
      BY <3>1, <3>2, <2>1, <2>2
  <2>5. hi[x] <= lo[y]
    BY <2>9, <2>3, <2>4
  <2>6. lo[x] \in Int /\ hi[x] \in Int /\ lo[x] < hi[x]
    BY <2>3, FormNode
  <2>7. x # y
    BY <2>5, <2>6
  <2>. QED
    BY <2>7 DEF x, y
<1>7. Len(H[a].children) \in Nat
  <2>1. H[a].children \in Numbers
    BY FormNode
  <2>. QED
    BY <2>1, NumbersFacts
<1>8. i = k
  <2>1. i \in 1..Len(H[a].children) /\ k \in 1..Len(H[a].children)
    BY <1>5
  <2>2. H[a].children[i] = H[a].children[k]
    BY <1>5
  <2>3. i < k \/ i = k \/ k < i
    BY <2>1, <1>7
  <2>. QED
    BY <2>1, <2>2, <2>3, <1>6
<1>. QED
  BY <1>5, <1>8

-----------------------------------------------------------------------------
\* The items of a node with its bounds are numbers.
LEMMA EdgeType ==
  ASSUME NEW n \in NodeSet, NEW l \in Int, NEW u \in Int, NEW i \in 0..(Len(n.keys) + 1)
  PROVE  Edge(n, l, u, i) \in Int
<1>1. Len(n.keys) \in Nat /\ \A k \in 1..Len(n.keys) : n.keys[k] \in Int
  BY NodeFacts
<1>2. CASE i = 0
  BY <1>2 DEF Edge
<1>3. CASE i = Len(n.keys) + 1
  BY <1>1, <1>3 DEF Edge
<1>4. CASE i \in 1..Len(n.keys)
  BY <1>1, <1>4 DEF Edge
<1>. QED
  BY <1>1, <1>2, <1>3, <1>4

\* Where two neighbours and the item between them stand.
LEMMA JoinFacts ==
  ASSUME NEW D, NEW W, NEW N, NEW rt, NEW ht, NEW lv, NEW lo, NEW hi, NEW M,
         NEW p, NEW j, NEW L, NEW R,
         Form(D, W, rt, ht, lv, lo, hi, M), Joined(D, W, N, p, j, L, R)
  PROVE  LET x == W[p].keys[j] IN
         /\ p \in D /\ L \in D /\ R \in D /\ p # L /\ p # R /\ L # R
         /\ x \in Int /\ x \in M
         /\ lv[p] \in Int /\ lv[L] = lv[p] - 1 /\ lv[R] = lv[p] - 1 /\ lv[p] <= ht
         /\ lo[p] \in Int /\ hi[p] \in Int /\ lo[L] \in Int /\ hi[R] \in Int /\ hi[R] \in 0..Top
         /\ lo[L] = Edge(W[p], lo[p], hi[p], j - 1) /\ hi[L] = x
         /\ hi[R] = Edge(W[p], lo[p], hi[p], j + 1) /\ lo[R] = x
         /\ lo[L] < x /\ x < hi[R]
         /\ \A a \in D : \A i \in 1..Len(W[a].children) :
              /\ W[a].children[i] = L => a = p /\ i = j
              /\ W[a].children[i] = R => a = p /\ i = j + 1
<1>. DEFINE x == W[p].keys[j]
            m == Len(W[p].keys)
            y == j + 1
<1>1. /\ p \in D /\ L \in D /\ R \in D /\ p # L /\ p # R /\ L # R
      /\ j \in 1..m /\ W[p].children[j] = L /\ W[p].children[y] = R
      /\ Len(W[p].children) = m + 1
  BY DEF Joined
<1>2. m \in Nat
  BY <1>1, FormNode
<1>3. /\ j \in 1..Len(W[p].children) /\ y \in 1..Len(W[p].children)
      /\ j # 0 /\ j # m + 1 /\ y # 1 /\ y - 1 = j
  <2>1. j \in Nat /\ 1 <= j /\ j <= m
    BY <1>1, <1>2
  <2>2. j \in 1..(m + 1) /\ y \in 1..(m + 1) /\ j # 0 /\ j # m + 1 /\ y # 1 /\ y - 1 = j
    BY <2>1, <1>2
  <2>. QED
    BY <2>2, <1>1
<1>. HIDE DEF y
<1>4. Edge(W[p], lo[p], hi[p], j) = x
  BY <1>3 DEF Edge
<1>5. \A i \in 1..Len(W[p].children) :
         LET c == W[p].children[i] IN
         /\ lv[c] = lv[p] - 1
         /\ lo[c] = Edge(W[p], lo[p], hi[p], i - 1)
         /\ hi[c] = Edge(W[p], lo[p], hi[p], i)
  BY <1>1 DEF Form, Linked
<1>6. lv[L] = lv[p] - 1 /\ lo[L] = Edge(W[p], lo[p], hi[p], j - 1) /\ hi[L] = x
  BY <1>1, <1>3, <1>4, <1>5
<1>7. lv[R] = lv[p] - 1 /\ hi[R] = Edge(W[p], lo[p], hi[p], y) /\ lo[R] = x
  BY <1>1, <1>3, <1>4, <1>5
<1>8. /\ x \in Int /\ x \in M /\ lv[p] \in Int /\ lo[p] \in Int /\ hi[p] \in Int /\ lv[p] <= ht
  BY <1>1, FormNode
<1>9. lo[L] \in Int /\ lo[L] < hi[L]
  BY <1>1, FormNode
<1>10. hi[R] \in Int /\ lo[R] < hi[R]
  BY <1>1, FormNode
<1>11. ASSUME NEW a \in D, NEW i \in 1..Len(W[a].children)
       PROVE  /\ W[a].children[i] = L => a = p /\ i = j
              /\ W[a].children[i] = R => a = p /\ i = y
  <2>1. ASSUME W[a].children[i] = W[p].children[j] PROVE a = p /\ i = j
    <3>1. j \in 1..Len(W[p].children) /\ p \in D
      BY <1>1, <1>3
    <3>. QED
      BY <3>1, <2>1, OneParent
  <2>2. ASSUME W[a].children[i] = W[p].children[y] PROVE a = p /\ i = y
    <3>1. y \in 1..Len(W[p].children) /\ p \in D
      BY <1>1, <1>3
    <3>. QED
      BY <3>1, <2>2, OneParent
  <2>. QED
    BY <1>1, <2>1, <2>2
<1>12. hi[R] \in 0..Top
  BY <1>1 DEF Form, Typed
<1>. QED
  BY <1>1, <1>6, <1>7, <1>8, <1>9, <1>10, <1>11, <1>12 DEF y

\* The tree with two neighbours joined is in order.
LEMMA JoinOrdered ==
  ASSUME NEW D, NEW W, NEW N, NEW rt, NEW ht, NEW lv, NEW lo, NEW hi, NEW M,
         NEW p, NEW j, NEW L, NEW R,
         Form(D, W, rt, ht, lv, lo, hi, M), Joined(D, W, N, p, j, L, R)
  PROVE  Ordered(D \ {R}, N, Off(D, R, lo), Over(D, L, R, hi), M)
<1>. DEFINE D2 == D \ {R}
            lo2 == Off(D, R, lo)
            hi2 == Over(D, L, R, hi)
            x == W[p].keys[j]
            Old(a, i) == Edge(W[a], lo[a], hi[a], i)
            New(a, i) == Edge(N[a], lo2[a], hi2[a], i)
<1>1. /\ p \in D /\ L \in D /\ R \in D /\ p # L /\ p # R /\ L # R /\ x \in M /\ x \in Int
      /\ hi[L] = x /\ lo[R] = x /\ lo[L] \in Int /\ hi[R] \in Int /\ lo[p] \in Int /\ hi[p] \in Int
  BY JoinFacts
<1>2. ASSUME NEW a \in D
      PROVE  /\ lo[a] \in M \cup {0} /\ hi[a] \in M
             /\ \A i \in 1..Len(W[a].keys) : W[a].keys[i] \in M
             /\ \A i, k \in 0..(Len(W[a].keys) + 1) : i < k => Old(a, i) < Old(a, k)
             /\ Len(W[a].keys) \in Nat
             /\ \A i \in 0..(Len(W[a].keys) + 1) : Old(a, i) \in Int
  <2>1. /\ lo[a] \in M \cup {0} /\ hi[a] \in M
        /\ \A i \in 1..Len(W[a].keys) : W[a].keys[i] \in M
        /\ \A i, k \in 0..(Len(W[a].keys) + 1) : i < k => Old(a, i) < Old(a, k)
    BY DEF Form, Ordered
  <2>2. Len(W[a].keys) \in Nat /\ W[a] \in NodeSet /\ lo[a] \in Int /\ hi[a] \in Int
    BY FormNode
  <2>3. \A i \in 0..(Len(W[a].keys) + 1) : Old(a, i) \in Int
    BY <2>2, EdgeType
  <2>. QED
    BY <2>1, <2>2, <2>3
<1>3. \A a \in D2 : lo2[a] = lo[a] /\ hi2[a] = IF a = L THEN hi[R] ELSE hi[a]
  BY DEF Off, Over
<1>. DEFINE Good(a) ==
       /\ lo2[a] \in M \cup {0} /\ hi2[a] \in M
       /\ \A i \in 1..Len(N[a].keys) : N[a].keys[i] \in M
       /\ \A i, k \in 0..(Len(N[a].keys) + 1) : i < k => New(a, i) < New(a, k)
<1>. HIDE DEF lo2, hi2, Old
<1>4. ASSUME NEW a \in D2, a # p, a # L PROVE Good(a)
  <2>1. N[a] = W[a] /\ lo2[a] = lo[a] /\ hi2[a] = hi[a]
    BY <1>3, <1>4 DEF Joined
  <2>. QED
    BY <1>2, <2>1 DEF Old
<1>5. Good(p)
  <2>. DEFINE m == Len(N[p].keys)
  <2>1. lo2[p] = lo[p] /\ hi2[p] = hi[p]
    BY <1>1, <1>3
  <2>2. /\ m \in Nat /\ Len(W[p].keys) = m + 1 /\ j \in 1..(m + 1)
        /\ \A i \in 0..(j - 1) : New(p, i) = Old(p, i)
        /\ \A i \in j..(m + 1) : New(p, i) = Old(p, i + 1)
    BY <1>1, <2>1, JoinedParent DEF Old, Shrunk
  <2>3. \A i \in 1..m : N[p].keys[i] \in M
    <3>1. /\ \A k \in 1..(j - 1) : N[p].keys[k] = W[p].keys[k]
          /\ \A k \in j..m : N[p].keys[k] = W[p].keys[k + 1]
      BY DEF Joined, Without
    <3>. SUFFICES ASSUME NEW i \in 1..m PROVE N[p].keys[i] \in M
      OBVIOUS
    <3>2. CASE i < j
      <4>1. i \in 1..(j - 1) /\ i \in 1..(m + 1)
        BY <2>2, <3>2
      <4>. QED
        BY <4>1, <3>1, <1>1, <1>2, <2>2
    <3>3. CASE i >= j
      <4>1. i \in j..m /\ i + 1 \in 1..(m + 1)
        BY <2>2, <3>3
      <4>. QED
        BY <4>1, <3>1, <1>1, <1>2, <2>2
    <3>. QED
      BY <2>2, <3>2, <3>3
  <2>4. \A i, k \in 0..((m + 1) + 1) : i < k => Old(p, i) < Old(p, k)
    BY <1>1, <1>2, <2>2
  <2>. HIDE DEF m, New
  <2>5. ASSUME NEW i \in 0..(m + 1), NEW k \in 0..(m + 1), i < k PROVE New(p, i) < New(p, k)
    <3>1. CASE k < j
      BY <2>2, <2>4, <2>5, <3>1
    <3>2. CASE i < j /\ j <= k
      BY <2>2, <2>4, <2>5, <3>2
    <3>3. CASE j <= i
      BY <2>2, <2>4, <2>5, <3>3
    <3>. QED
      BY <2>2, <3>1, <3>2, <3>3
  <2>. QED
    BY <1>1, <1>2, <2>1, <2>3, <2>5 DEF m, New
<1>6. Good(L)
  <2>. DEFINE a == Len(W[L].keys)
              b == Len(W[R].keys)
  <2>1. lo2[L] = lo[L] /\ hi2[L] = hi[R]
    BY <1>1, <1>3
  <2>2. /\ a \in Nat /\ b \in Nat /\ Len(N[L].keys) = a + 1 + b
        /\ \A i \in 0..(a + 1) : New(L, i) = Old(L, i)
        /\ \A i \in (a + 1)..(a + 1 + b + 1) : New(L, i) = Old(R, i - (a + 1))
    <3>. DEFINE l == lo[L]
                u == hi[R]
    <3>1. l \in Int /\ u \in Int
      BY <1>1
    <3>. HIDE DEF l, u
    <3>2. /\ a \in Nat /\ b \in Nat /\ Len(N[L].keys) = a + 1 + b
          /\ \A i \in 0..(a + 1) :
               Edge(N[L], l, u, i) = Edge(W[L], l, x, i)
          /\ \A i \in (a + 1)..(a + 1 + b + 1) :
               Edge(N[L], l, u, i) = Edge(W[R], x, u, i - (a + 1))
      <4>1. Halves(W, N, p, j, L, R, l, u)
        BY <3>1, JoinedChild
      <4>. QED
        BY <4>1 DEF Halves
    <3>3. hi[L] = x /\ lo[R] = x
      BY <1>1
    <3>. QED
      BY <3>2, <3>3, <2>1 DEF Old, l, u
  <2>3. /\ \A i, k \in 0..(a + 1) : i < k => Old(L, i) < Old(L, k)
        /\ \A i, k \in 0..(b + 1) : i < k => Old(R, i) < Old(R, k)
        /\ \A i \in 0..(a + 1) : Old(L, i) \in Int
        /\ \A i \in 0..(b + 1) : Old(R, i) \in Int
        /\ \A i \in 1..a : W[L].keys[i] \in M
        /\ \A i \in 1..b : W[R].keys[i] \in M
    BY <1>1, <1>2
  <2>4. \A i \in 1..Len(N[L].keys) : N[L].keys[i] \in M
    <3>1. N[L].keys = Link(W[L].keys, x, W[R].keys)
      BY DEF Joined
    <3>2. W[L].keys \in Numbers /\ W[R].keys \in Numbers
      BY <1>1, FormNode
    <3>. DEFINE s == W[L].keys
                t == W[R].keys
                u == N[L].keys
    <3>3. u = Link(s, x, t) /\ s \in Numbers /\ t \in Numbers /\ x \in Int /\ x \in M
          /\ (\A i \in 1..Len(s) : s[i] \in M) /\ (\A i \in 1..Len(t) : t[i] \in M)
      BY <3>1, <3>2, <1>1, <2>3
    <3>. HIDE DEF s, t, u, x
    <3>4. /\ Len(s) \in Nat /\ Len(t) \in Nat
      BY <3>3, NumbersFacts
    <3>5. /\ Len(u) = Len(s) + 1 + Len(t)
          /\ \A i \in 1..Len(s) : u[i] = s[i]
          /\ u[Len(s) + 1] = x
          /\ \A i \in (Len(s) + 2)..(Len(s) + 1 + Len(t)) : u[i] = t[i - (Len(s) + 1)]
      BY <3>3, LinkNumbers
    <3>6. ASSUME NEW i \in 1..Len(u) PROVE u[i] \in M
      <4>1. CASE i \in 1..Len(s)
        BY <4>1, <3>3, <3>5
      <4>2. CASE i = Len(s) + 1
        BY <4>2, <3>3, <3>5
      <4>3. CASE i \in (Len(s) + 2)..(Len(s) + 1 + Len(t))
        <5>1. i - (Len(s) + 1) \in 1..Len(t)
          BY <4>3, <3>4
        <5>. QED
          BY <4>3, <5>1, <3>3, <3>5
      <4>. QED
        BY <3>4, <3>5, <4>1, <4>2, <4>3
    <3>. QED
      BY <3>6 DEF u
  <2>. DEFINE c == a + 1
  <2>5. /\ c \in Nat /\ c >= 1 /\ Len(N[L].keys) + 1 = c + (b + 1)
        /\ \A i \in 0..c : New(L, i) = Old(L, i)
        /\ \A i \in c..(c + (b + 1)) : New(L, i) = Old(R, i - c)
        /\ \A i, k \in 0..c : i < k => Old(L, i) < Old(L, k)
    <3>1. c = a + 1
      OBVIOUS
    <3>. HIDE DEF a, b, c, New
    <3>2. c + (b + 1) = a + 1 + b + 1 /\ Len(N[L].keys) + 1 = c + (b + 1) /\ c \in Nat /\ c >= 1
      BY <2>2, <3>1
    <3>. QED
      BY <3>1, <3>2, <2>2, <2>3
  <2>. DEFINE d == b + 1
  <2>6. /\ d \in Nat /\ d >= 1 /\ (\A i, k \in 0..d : i < k => Old(R, i) < Old(R, k))
        /\ (\A i \in 0..c : Old(L, i) \in Int) /\ (\A i \in 0..d : Old(R, i) \in Int)
    BY <2>2, <2>3
  <2>. HIDE DEF c, d, New
  <2>7. Old(L, c) = x /\ Old(R, 0) = x
    <3>1. Old(L, c) = hi[L]
      BY <2>2 DEF Old, c, Edge
    <3>2. Old(R, 0) = lo[R]
      BY DEF Old, Edge
    <3>. QED
      BY <3>1, <3>2, <1>1
  <2>8. ASSUME NEW i \in 0..(c + d), NEW k \in 0..(c + d), i < k PROVE New(L, i) < New(L, k)
    <3>0. /\ \A e \in 0..c : New(L, e) = Old(L, e)
          /\ \A e \in c..(c + d) : New(L, e) = Old(R, e - c)
      BY <2>5 DEF d
    <3>1. CASE k <= c
      BY <2>5, <2>6, <3>0, <2>8, <3>1
    <3>2. CASE c <= i
      <4>1. i - c \in 0..d /\ k - c \in 0..d /\ i - c < k - c
        BY <2>5, <2>6, <2>8, <3>2
      <4>2. Old(R, i - c) < Old(R, k - c)
        BY <4>1, <2>6
      <4>. QED
        BY <4>2, <2>5, <2>6, <3>0, <2>8, <3>2
    <3>3. CASE i < c /\ c < k
      <4>1. Old(L, i) < x /\ Old(L, i) \in Int
        BY <2>5, <2>6, <2>7, <3>3
      <4>2. k - c \in 0..d /\ 0 < k - c /\ 0 \in 0..d
        BY <2>5, <2>6, <2>8, <3>3
      <4>3. x < Old(R, k - c) /\ Old(R, k - c) \in Int
        BY <4>2, <2>6, <2>7
      <4>4. New(L, i) = Old(L, i) /\ New(L, k) = Old(R, k - c)
        BY <3>0, <3>3, <2>5, <2>6
      <4>. QED
        BY <4>1, <4>3, <4>4, <1>1
    <3>. QED
      BY <2>5, <2>6, <3>1, <3>2, <3>3
  <2>9. lo2[L] \in M \cup {0} /\ hi2[L] \in M
    BY <2>1, <1>1, <1>2
  <2>10. Len(N[L].keys) + 1 = c + d
    BY <2>5 DEF d
  <2>. QED
    BY <2>4, <2>8, <2>9, <2>10 DEF New
<1>. HIDE DEF Good
<1>7. \A a \in D2 : Good(a)
  BY <1>4, <1>5, <1>6
<1>. QED
  BY <1>7 DEF Good, New, Ordered, lo2, hi2

-----------------------------------------------------------------------------

\* The tree with two neighbours joined still has each child between the
\* items around it.
LEMMA JoinLinked ==
  ASSUME NEW D, NEW W, NEW N, NEW rt, NEW ht, NEW lv, NEW lo, NEW hi, NEW M,
         NEW p, NEW j, NEW L, NEW R,
         Form(D, W, rt, ht, lv, lo, hi, M), Joined(D, W, N, p, j, L, R)
  PROVE  Linked(D \ {R}, N, Off(D, R, lv), Off(D, R, lo), Over(D, L, R, hi))
<1>. DEFINE D2 == D \ {R}
            lv2 == Off(D, R, lv)
            lo2 == Off(D, R, lo)
            hi2 == Over(D, L, R, hi)
            x == W[p].keys[j]
            Old(a, i) == Edge(W[a], lo[a], hi[a], i)
            New(a, i) == Edge(N[a], lo2[a], hi2[a], i)
<1>1. /\ p \in D /\ L \in D /\ R \in D /\ p # L /\ p # R /\ L # R /\ x \in Int
      /\ lv[p] \in Int /\ lv[L] = lv[p] - 1 /\ lv[R] = lv[p] - 1
      /\ hi[L] = x /\ lo[R] = x /\ lo[L] \in Int /\ hi[R] \in Int /\ lo[p] \in Int /\ hi[p] \in Int
      /\ lo[L] = Old(p, j - 1) /\ hi[R] = Old(p, j + 1)
  BY JoinFacts
<1>2. \A a \in D : \A i \in 1..Len(W[a].children) :
              /\ W[a].children[i] = L => a = p /\ i = j
              /\ W[a].children[i] = R => a = p /\ i = j + 1
  BY JoinFacts
<1>3. \A a \in D : \A i \in 1..Len(W[a].children) :
        LET c == W[a].children[i] IN
        /\ c \in D /\ lv[c] = lv[a] - 1 /\ lo[c] = Old(a, i - 1) /\ hi[c] = Old(a, i)
  BY DEF Form, Linked
<1>4. \A a \in D2 : lv2[a] = lv[a] /\ lo2[a] = lo[a] /\ hi2[a] = IF a = L THEN hi[R] ELSE hi[a]
  BY DEF Off, Over
<1>. DEFINE Good(a, i) ==
       LET c == N[a].children[i] IN
       /\ c \in D2 /\ lv2[c] = lv2[a] - 1 /\ lo2[c] = New(a, i - 1) /\ hi2[c] = New(a, i)
<1>. HIDE DEF lv2, lo2, hi2, Old
<1>5. ASSUME NEW a \in D2, a # p, a # L, NEW i \in 1..Len(N[a].children) PROVE Good(a, i)
  <2>1. N[a] = W[a] /\ lo2[a] = lo[a] /\ hi2[a] = hi[a] /\ lv2[a] = lv[a] /\ a \in D
    BY <1>4, <1>5 DEF Joined
  <2>. DEFINE c == W[a].children[i]
  <2>2. c \in D /\ lv[c] = lv[a] - 1 /\ lo[c] = Old(a, i - 1) /\ hi[c] = Old(a, i)
    BY <1>3, <2>1
  <2>3. c # L /\ c # R
    BY <1>2, <1>5, <2>1
  <2>4. c \in D2 /\ lv2[c] = lv[c] /\ lo2[c] = lo[c] /\ hi2[c] = hi[c]
    BY <1>4, <2>2, <2>3
  <2>. QED
    BY <2>1, <2>2, <2>4 DEF Old
<1>6. ASSUME NEW i \in 1..Len(N[p].children) PROVE Good(p, i)
  <2>. DEFINE m == Len(N[p].keys)
  <2>1. lo2[p] = lo[p] /\ hi2[p] = hi[p] /\ lv2[p] = lv[p]
    BY <1>1, <1>4
  <2>2. /\ m \in Nat /\ j \in 1..(m + 1)
        /\ Len(N[p].children) = m + 1 /\ Len(W[p].children) = m + 2
        /\ \A k \in 0..(j - 1) : New(p, k) = Old(p, k)
        /\ \A k \in j..(m + 1) : New(p, k) = Old(p, k + 1)
        /\ \A k \in 1..j : N[p].children[k] = W[p].children[k]
        /\ \A k \in (j + 1)..(m + 1) : N[p].children[k] = W[p].children[k + 1]
    <3>1. Shrunk(W, N, p, j, lo[p], hi[p])
      BY <1>1, JoinedParent
    <3>. QED
      BY <3>1, <2>1 DEF Old, Shrunk
  <2>3. i \in 1..(m + 1)
    BY <2>2
  <2>10. \A k \in 1..(m + 2) :
           LET c == W[p].children[k] IN
           /\ c \in D /\ lv[c] = lv[p] - 1 /\ lo[c] = Old(p, k - 1) /\ hi[c] = Old(p, k)
           /\ c = L => k = j
           /\ c = R => k = j + 1
    BY <1>1, <1>2, <1>3, <2>2
  <2>. HIDE DEF m, New
  <2>4. CASE i < j
    <3>. DEFINE c == W[p].children[i]
    <3>1. i \in 1..(m + 2) /\ i # j /\ i # j + 1 /\ i - 1 \in 0..(j - 1) /\ i \in 0..(j - 1)
          /\ i \in 1..j
      BY <2>2, <2>3, <2>4
    <3>2. c \in D2 /\ c # L /\ lv[c] = lv[p] - 1 /\ lo[c] = Old(p, i - 1) /\ hi[c] = Old(p, i)
      BY <2>10, <3>1
    <3>3. N[p].children[i] = c /\ New(p, i - 1) = Old(p, i - 1) /\ New(p, i) = Old(p, i)
      BY <3>1, <2>2
    <3>. QED
      BY <3>2, <3>3, <1>4, <2>1
  <2>5. CASE i = j
    <3>1. /\ i - 1 \in 0..(j - 1) /\ i \in 1..j /\ i \in j..(m + 1)
      BY <2>2, <2>3, <2>5
    <3>2. N[p].children[i] = L
      BY <3>1, <2>2, <2>5 DEF Joined
    <3>3. New(p, i - 1) = lo[L] /\ New(p, i) = hi[R]
      BY <3>1, <2>2, <2>5, <1>1
    <3>. QED
      BY <3>2, <3>3, <1>1, <1>4, <2>1
  <2>6. CASE i > j
    <3>. DEFINE k == i + 1
                c == W[p].children[k]
    <3>1. /\ k \in 1..(m + 2) /\ k # j /\ k # j + 1 /\ i - 1 \in j..(m + 1) /\ i \in j..(m + 1)
          /\ i \in (j + 1)..(m + 1) /\ k - 1 = i /\ (i - 1) + 1 = i
      BY <2>2, <2>3, <2>6
    <3>3. N[p].children[i] = c /\ New(p, i - 1) = Old(p, i) /\ New(p, i) = Old(p, k)
      BY <3>1, <2>2
    <3>. HIDE DEF k
    <3>2. c \in D2 /\ c # L /\ lv[c] = lv[p] - 1 /\ lo[c] = Old(p, i) /\ hi[c] = Old(p, k)
      BY <2>10, <3>1
    <3>. QED
      BY <3>2, <3>3, <1>4, <2>1
  <2>. QED
    BY <2>2, <2>3, <2>4, <2>5, <2>6
<1>7. ASSUME NEW i \in 1..Len(N[L].children) PROVE Good(L, i)
  <2>. DEFINE a == Len(W[L].keys)
              b == Len(W[R].keys)
              c == Len(W[L].children)
              d == Len(W[R].children)
              l == lo[L]
              u == hi[R]
  <2>1. lo2[L] = l /\ hi2[L] = u /\ lv2[L] = lv[L] /\ l \in Int /\ u \in Int
    BY <1>1, <1>4
  <2>. HIDE DEF l, u
  <2>2. Halves(W, N, p, j, L, R, l, u)
    BY <2>1, JoinedChild
  <2>3. /\ a \in Nat /\ b \in Nat /\ c \in Nat /\ d \in Nat
        /\ Len(N[L].children) = c + d
        /\ \A k \in 0..(a + 1) : New(L, k) = Old(L, k)
        /\ \A k \in (a + 1)..(a + 1 + b + 1) : New(L, k) = Old(R, k - (a + 1))
        /\ \A k \in 1..c : N[L].children[k] = W[L].children[k]
        /\ \A k \in (c + 1)..(c + d) : N[L].children[k] = W[R].children[k - c]
    BY <2>1, <2>2, <1>1 DEF Halves, Old, l, u
  <2>4. c = (IF lv[L] = 1 THEN 0 ELSE a + 1) /\ d = (IF lv[R] = 1 THEN 0 ELSE b + 1)
    BY <1>1, FormNode
  <2>5. lv[L] = lv[R]
    BY <1>1
  <2>10. \A k \in 1..c :
           LET e == W[L].children[k] IN
           /\ e \in D2 /\ e # L /\ lv[e] = lv[L] - 1 /\ lo[e] = Old(L, k - 1) /\ hi[e] = Old(L, k)
    BY <1>1, <1>2, <1>3
  <2>11. \A k \in 1..d :
           LET e == W[R].children[k] IN
           /\ e \in D2 /\ e # L /\ lv[e] = lv[R] - 1 /\ lo[e] = Old(R, k - 1) /\ hi[e] = Old(R, k)
    BY <1>1, <1>2, <1>3
  <2>. HIDE DEF a, b, c, d, New
  <2>6. c = a + 1 /\ d = b + 1
    BY <2>3, <2>4, <2>5
  <2>12. i \in 1..(c + d)
    BY <2>3
  <2>7. CASE i <= c
    <3>. DEFINE e == W[L].children[i]
    <3>1. i \in 1..c /\ i - 1 \in 0..(a + 1) /\ i \in 0..(a + 1)
      BY <2>3, <2>6, <2>7, <2>12
    <3>2. N[L].children[i] = e /\ New(L, i - 1) = Old(L, i - 1) /\ New(L, i) = Old(L, i)
      BY <3>1, <2>3
    <3>3. e \in D2 /\ e # L /\ lv[e] = lv[L] - 1 /\ lo[e] = Old(L, i - 1) /\ hi[e] = Old(L, i)
      BY <3>1, <2>10
    <3>. QED
      BY <3>2, <3>3, <1>4, <2>1
  <2>8. CASE i > c
    <3>. DEFINE k == i - c
                e == W[R].children[k]
    <3>1. /\ k \in 1..d /\ i \in (c + 1)..(c + d)
          /\ i - 1 \in (a + 1)..(a + 1 + b + 1) /\ i \in (a + 1)..(a + 1 + b + 1)
          /\ i - (a + 1) = k /\ (i - 1) - (a + 1) = k - 1
      BY <2>3, <2>6, <2>8, <2>12
    <3>2. N[L].children[i] = e /\ New(L, i - 1) = Old(R, k - 1) /\ New(L, i) = Old(R, k)
      BY <3>1, <2>3
    <3>. HIDE DEF k
    <3>3. e \in D2 /\ e # L /\ lv[e] = lv[R] - 1 /\ lo[e] = Old(R, k - 1) /\ hi[e] = Old(R, k)
      BY <3>1, <2>11
    <3>. QED
      BY <3>2, <3>3, <1>4, <2>1, <2>5
  <2>. QED
    BY <2>3, <2>12, <2>7, <2>8
<1>. HIDE DEF Good
<1>8. \A a \in D2 : \A i \in 1..Len(N[a].children) : Good(a, i)
  BY <1>5, <1>6, <1>7
<1>. QED
  BY <1>8 DEF Good, Linked, lv2, lo2, hi2

\* Two neighbouring nodes joined into one are a tree in order.
LEMMA JoinForm ==
  ASSUME NEW D, NEW W, NEW N, NEW rt, NEW ht, NEW lv, NEW lo, NEW hi, NEW M,
         NEW p, NEW j, NEW L, NEW R,
         Form(D, W, rt, ht, lv, lo, hi, M), Joined(D, W, N, p, j, L, R)
  PROVE  Form(D \ {R}, N, rt, ht, Off(D, R, lv), Off(D, R, lo), Over(D, L, R, hi), M)
<1>. DEFINE D2 == D \ {R}
            lv2 == Off(D, R, lv)
            lo2 == Off(D, R, lo)
            hi2 == Over(D, L, R, hi)
            x == W[p].keys[j]
<1>1. /\ p \in D /\ L \in D /\ R \in D /\ p # L /\ p # R /\ L # R /\ x \in Int
      /\ lv[p] \in Int /\ lv[L] = lv[p] - 1 /\ lv[R] = lv[p] - 1 /\ lv[p] <= ht
      /\ hi[L] = x /\ lo[R] = x /\ lo[L] \in Int /\ hi[R] \in Int /\ hi[R] \in 0..Top
      /\ lo[L] < x /\ x < hi[R]
  BY JoinFacts
<1>4. \A a \in D2 : lv2[a] = lv[a] /\ lo2[a] = lo[a] /\ hi2[a] = IF a = L THEN hi[R] ELSE hi[a]
  BY DEF Off, Over
<1>2. Ordered(D2, N, lo2, hi2, M)
  BY JoinOrdered
<1>3. Linked(D2, N, lv2, lo2, hi2)
  BY JoinLinked
<1>13. Typed(D, W, ht, lv, lo, hi, M)
  BY DEF Form
<1>5. Typed(D2, N, ht, lv2, lo2, hi2, M)
  <2>1. IsFiniteSet(D2) /\ D2 \subseteq Nat \ {0}
    BY <1>13, FS_Subset DEF Typed
  <2>2. N \in [D2 -> NodeSet]
    BY DEF Joined
  <2>3. lv2 \in [D2 -> Nat] /\ lo2 \in [D2 -> 0..Top]
    BY <1>13 DEF Typed, Off
  <2>4. hi2 \in [D2 -> 0..Top]
    BY <1>13, <1>1 DEF Typed, Over
  <2>. QED
    BY <2>1, <2>2, <2>3, <2>4, <1>13 DEF Typed
<1>. HIDE DEF lv2, lo2, hi2
<1>6. Rooted(D2, rt, ht, lv2, lo2, hi2)
  <2>1. rt \in D /\ lv[rt] = ht /\ lo[rt] = 0 /\ hi[rt] = Top
    BY DEF Form, Rooted
  <2>2. ht \in Int
    BY <1>13 DEF Typed
  <2>3. rt # R /\ rt # L
    BY <2>1, <2>2, <1>1
  <2>. QED
    BY <2>1, <2>3, <1>4 DEF Rooted
<1>7. Leveled(D2, N, ht, lv2)
  <2>1. \A a \in D : /\ lv[a] \in 1..ht
                     /\ W[a].leaf <=> lv[a] = 1
                     /\ W[a].leaf => Len(W[a].children) = 0
                     /\ ~ W[a].leaf => Len(W[a].children) = Len(W[a].keys) + 1
    BY DEF Form, Leveled
  <2>. DEFINE Good(a) ==
    /\ lv2[a] \in 1..ht
    /\ N[a].leaf <=> lv2[a] = 1
    /\ N[a].leaf => Len(N[a].children) = 0
    /\ ~ N[a].leaf => Len(N[a].children) = Len(N[a].keys) + 1
  <2>2. ASSUME NEW a \in D2, a # p, a # L PROVE Good(a)
    <3>1. N[a] = W[a]
      BY <2>2 DEF Joined
    <3>. QED
      BY <3>1, <2>1, <1>4
  <2>3. Good(p)
    <3>1. Len(N[p].children) = Len(N[p].keys) + 1
      <4>1. Shrunk(W, N, p, j, 0, 0)
        BY JoinedParent
      <4>. QED
        BY <4>1 DEF Shrunk
    <3>2. ~ N[p].leaf /\ ~ W[p].leaf
      BY DEF Joined
    <3>. QED
      BY <3>1, <3>2, <1>1, <1>4, <2>1
  <2>4. Good(L)
    <3>. DEFINE a == Len(W[L].keys)
                b == Len(W[R].keys)
                c == Len(W[L].children)
                d == Len(W[R].children)
    <3>1. Halves(W, N, p, j, L, R, 0, 0)
      BY JoinedChild
    <3>2. /\ a \in Nat /\ b \in Nat /\ c \in Nat /\ d \in Nat
          /\ Len(N[L].keys) = a + 1 + b /\ Len(N[L].children) = c + d
      BY <3>1 DEF Halves
    <3>3. (N[L].leaf <=> W[L].leaf) /\ (W[R].leaf <=> W[L].leaf)
      BY DEF Joined
    <3>4. /\ W[L].leaf => c = 0 /\ d = 0
          /\ ~ W[L].leaf => c = a + 1 /\ d = b + 1
      BY <3>3, <1>1, <2>1
    <3>. HIDE DEF a, b, c, d
    <3>5. /\ N[L].leaf => Len(N[L].children) = 0
          /\ ~ N[L].leaf => Len(N[L].children) = Len(N[L].keys) + 1
      BY <3>2, <3>3, <3>4
    <3>. QED
      BY <3>3, <3>5, <1>1, <1>4, <2>1
  <2>. HIDE DEF Good
  <2>5. \A a \in D2 : Good(a)
    BY <2>2, <2>3, <2>4
  <2>. QED
    BY <2>5 DEF Good, Leveled
<1>8. Apart(D2, lv2, lo2, hi2)
  <2>1. \A a, b \in D : a # b /\ lv[a] = lv[b] => hi[a] <= lo[b] \/ hi[b] <= lo[a]
    BY DEF Form, Apart
  <2>2. \A a \in D : lo[a] \in Int /\ hi[a] \in Int /\ lo[a] < hi[a]
    BY FormNode
  <2>3. ASSUME NEW b \in D2, b # L, lv[b] = lv[L] PROVE hi[R] <= lo[b] \/ hi[b] <= lo[L]
    <3>1. hi[L] <= lo[b] \/ hi[b] <= lo[L]
      BY <2>1, <2>3, <1>1
    <3>2. hi[R] <= lo[b] \/ hi[b] <= lo[R]
      BY <2>1, <2>3, <1>1
    <3>3. lo[b] \in Int /\ hi[b] \in Int /\ lo[b] < hi[b]
      BY <2>2
    <3>. QED
      BY <3>1, <3>2, <3>3, <1>1
  <2>4. ASSUME NEW a \in D2, NEW b \in D2, a # b, lv2[a] = lv2[b]
        PROVE  hi2[a] <= lo2[b] \/ hi2[b] <= lo2[a]
    <3>1. CASE a = L
      BY <3>1, <2>3, <2>4, <1>4
    <3>2. CASE b = L
      BY <3>2, <2>3, <2>4, <1>4
    <3>3. CASE a # L /\ b # L
      BY <3>3, <2>1, <2>4, <1>4
    <3>. QED
      BY <3>1, <3>2, <3>3
  <2>. QED
    BY <2>4 DEF Apart
<1>9. Counted(D2, N, lo2, hi2, M)
  <2>. DEFINE U == Upto(M)
  <2>1. \A a \in D : TreeCount(W[a]) = U[hi[a]] - U[lo[a]] - 1
    BY DEF Form, Counted
  <2>2. U \in [0..Top -> Nat] /\ lo[L] \in 0..Top /\ hi[R] \in 0..Top /\ hi[L] \in 0..Top
    BY <1>1, <1>13, UptoType DEF Typed
  <2>. HIDE DEF U
  <2>3. TreeCount(N[L]) = U[hi[R]] - U[lo[L]] - 1
    <3>1. TreeCount(N[L]) = TreeCount(W[L]) + TreeCount(W[R]) + 1
      BY DEF Joined
    <3>2. TreeCount(W[L]) = U[hi[L]] - U[lo[L]] - 1 /\ TreeCount(W[R]) = U[hi[R]] - U[lo[R]] - 1
      BY <2>1, <1>1
    <3>3. U[lo[R]] = U[hi[L]]
      BY <1>1
    <3>4. U[hi[L]] \in Int /\ U[lo[L]] \in Int /\ U[hi[R]] \in Int
      BY <2>2
    <3>. QED
      BY <3>1, <3>2, <3>3, <3>4
  <2>4. TreeCount(N[p]) = TreeCount(W[p])
    BY DEF Joined, TreeCount
  <2>5. ASSUME NEW a \in D2 PROVE TreeCount(N[a]) = U[hi2[a]] - U[lo2[a]] - 1
    <3>1. CASE a = L
      BY <3>1, <2>3, <1>4
    <3>2. CASE a = p
      BY <3>2, <2>1, <2>4, <1>1, <1>4
    <3>3. CASE a # L /\ a # p
      <4>1. N[a] = W[a]
        BY <3>3 DEF Joined
      <4>. QED
        BY <4>1, <3>3, <2>1, <1>4
    <3>. QED
      BY <3>1, <3>2, <3>3
  <2>. QED
    BY <2>5 DEF Counted, U
<1>. QED
  BY <1>2, <1>3, <1>5, <1>6, <1>7, <1>8, <1>9 DEF Form, lv2, lo2, hi2

-----------------------------------------------------------------------------
Also(D, R, f, v) == [a \in D |-> IF a = R THEN v ELSE f[a]]
Parted(D, L, R, f, v) == [a \in D |-> IF a = L THEN v ELSE IF a = R THEN f[L] ELSE f[a]]

\* Where the node stands that is cut in two, and where it is cut.
LEMMA CutFacts ==
  ASSUME NEW D, NEW W, NEW N, NEW rt, NEW ht, NEW lv, NEW lo, NEW hi, NEW M,
         NEW p, NEW j, NEW L, NEW R,
         Form(D \ {R}, N, rt, ht, lv, lo, hi, M), Joined(D, W, N, p, j, L, R)
  PROVE  LET x == W[p].keys[j] IN
         /\ p \in D /\ L \in D /\ R \in D /\ p # L /\ p # R /\ L # R
         /\ x \in Int /\ x \in M /\ x \in 0..Top
         /\ lv[p] \in Int /\ lv[L] = lv[p] - 1 /\ lv[p] <= ht
         /\ lo[p] \in Int /\ hi[p] \in Int /\ lo[L] \in Int /\ hi[L] \in Int
         /\ lo[L] = Edge(N[p], lo[p], hi[p], j - 1)
         /\ hi[L] = Edge(N[p], lo[p], hi[p], j)
         /\ lo[L] < x /\ x < hi[L]
         /\ x = Edge(N[L], lo[L], hi[L], Len(W[L].keys) + 1)
         /\ \A a \in D \ {R} : \A i \in 1..Len(N[a].children) :
              N[a].children[i] = L => a = p /\ i = j
<1>. DEFINE x == W[p].keys[j]
            m == Len(N[p].keys)
            D2 == D \ {R}
<1>1. /\ p \in D /\ L \in D /\ R \in D /\ p # L /\ p # R /\ L # R /\ W[p].children[j] = L
      /\ N[L].keys = Link(W[L].keys, x, W[R].keys)
      /\ W[L] \in NodeSet /\ W[R] \in NodeSet /\ W[p] \in NodeSet /\ j \in 1..Len(W[p].keys)
  BY DEF Joined
<1>2. x \in Int
  BY <1>1, NodeFacts
<1>3. p \in D2 /\ L \in D2
  BY <1>1
<1>4. lv[p] \in Int /\ lv[p] <= ht /\ lo[p] \in Int /\ hi[p] \in Int /\ ht \in Nat /\ N[p] \in NodeSet
  BY <1>3, FormNode
<1>5. m \in Nat /\ j \in 1..(m + 1) /\ Len(N[p].children) = m + 1 /\ N[p].children[j] = L
  <2>1. Shrunk(W, N, p, j, lo[p], hi[p])
    BY <1>4, JoinedParent
  <2>2. /\ m \in Nat /\ j \in 1..(m + 1) /\ Len(N[p].children) = m + 1
        /\ \A i \in 1..j : N[p].children[i] = W[p].children[i]
    BY <2>1 DEF Shrunk
  <2>3. j \in 1..j
    BY <2>2
  <2>. QED
    BY <2>2, <2>3, <1>1
<1>6. /\ lv[L] = lv[p] - 1
      /\ lo[L] = Edge(N[p], lo[p], hi[p], j - 1)
      /\ hi[L] = Edge(N[p], lo[p], hi[p], j)
  <2>1. \A i \in 1..Len(N[p].children) :
         LET c == N[p].children[i] IN
         /\ lv[c] = lv[p] - 1
         /\ lo[c] = Edge(N[p], lo[p], hi[p], i - 1)
         /\ hi[c] = Edge(N[p], lo[p], hi[p], i)
    BY <1>3 DEF Form, Linked
  <2>2. j \in 1..Len(N[p].children)
    BY <1>5
  <2>. QED
    BY <2>1, <2>2, <1>5
<1>7. /\ lo[L] \in Int /\ hi[L] \in Int
      /\ \A i \in 1..Len(N[L].keys) :
              N[L].keys[i] \in M /\ lo[L] < N[L].keys[i] /\ N[L].keys[i] < hi[L]
  BY <1>3, FormNode
<1>8. /\ x \in M /\ lo[L] < x /\ x < hi[L]
      /\ x = Edge(N[L], lo[L], hi[L], Len(W[L].keys) + 1)
  <2>. DEFINE s == W[L].keys
              t == W[R].keys
              k == N[L].keys
              i == Len(s) + 1
  <2>1. s \in Numbers /\ t \in Numbers
    BY <1>1, NodeFacts
  <2>2. k = Link(s, x, t)
    BY <1>1
  <2>. HIDE DEF s, t, k, x, i
  <2>3. Len(s) \in Nat /\ Len(t) \in Nat
    BY <2>1, NumbersFacts
  <2>4. Len(k) = Len(s) + 1 + Len(t) /\ k[i] = x
    BY <1>2, <2>1, <2>2, LinkNumbers DEF i
  <2>5. i \in 1..Len(k) /\ i # 0 /\ i # Len(k) + 1
    BY <2>3, <2>4 DEF i
  <2>6. x \in M /\ lo[L] < x /\ x < hi[L]
    BY <2>4, <2>5, <1>7 DEF k
  <2>7. x = Edge(N[L], lo[L], hi[L], i)
    BY <2>4, <2>5 DEF Edge, k
  <2>. QED
    BY <2>6, <2>7 DEF i, s
<1>9. ASSUME NEW a \in D \ {R}, NEW i \in 1..Len(N[a].children), N[a].children[i] = L
      PROVE a = p /\ i = j
  <2>1. N[a].children[i] = N[p].children[j] /\ a \in D2 /\ j \in 1..Len(N[p].children)
    BY <1>5, <1>9
  <2>. QED
    BY <2>1, <1>3, OneParent
<1>10. x \in 0..Top
  <2>1. M \subseteq 1..Top
    BY DEF Form, Typed
  <2>2. x \in M
    BY <1>8
  <2>. HIDE DEF x
  <2>3. x \in 1..Top
    BY <2>1, <2>2
  <2>. QED
    BY <2>3, TopType
<1>. QED
  BY <1>1, <1>2, <1>4, <1>6, <1>7, <1>8, <1>9, <1>10

\* The tree with a joined node cut in two is in order.
LEMMA CutOrdered ==
  ASSUME NEW D, NEW W, NEW N, NEW rt, NEW ht, NEW lv, NEW lo, NEW hi, NEW M,
         NEW p, NEW j, NEW L, NEW R,
         Form(D \ {R}, N, rt, ht, lv, lo, hi, M), Joined(D, W, N, p, j, L, R)
  PROVE  Ordered(D, W, Also(D, R, lo, W[p].keys[j]), Parted(D, L, R, hi, W[p].keys[j]), M)
<1>. DEFINE D2 == D \ {R}
            x == W[p].keys[j]
            lo2 == Also(D, R, lo, x)
            hi2 == Parted(D, L, R, hi, x)
            Old(a, i) == Edge(N[a], lo[a], hi[a], i)
            New(a, i) == Edge(W[a], lo2[a], hi2[a], i)
<1>1. /\ p \in D /\ L \in D /\ R \in D /\ p # L /\ p # R /\ L # R /\ x \in M /\ x \in Int
      /\ lo[L] \in Int /\ hi[L] \in Int /\ lo[p] \in Int /\ hi[p] \in Int
      /\ lo[L] = Old(p, j - 1) /\ hi[L] = Old(p, j)
      /\ lo[L] < x /\ x < hi[L] /\ x = Old(L, Len(W[L].keys) + 1)
  BY CutFacts
<1>2. ASSUME NEW a \in D2
      PROVE  /\ lo[a] \in M \cup {0} /\ hi[a] \in M
             /\ \A i \in 1..Len(N[a].keys) : Old(a, i) \in M
             /\ \A i, k \in 0..(Len(N[a].keys) + 1) : i < k => Old(a, i) < Old(a, k)
             /\ Len(N[a].keys) \in Nat
             /\ \A i \in 0..(Len(N[a].keys) + 1) : Old(a, i) \in Int
  <2>1. /\ lo[a] \in M \cup {0} /\ hi[a] \in M
        /\ \A i \in 1..Len(N[a].keys) : N[a].keys[i] \in M
        /\ \A i, k \in 0..(Len(N[a].keys) + 1) : i < k => Old(a, i) < Old(a, k)
    BY DEF Form, Ordered
  <2>2. Len(N[a].keys) \in Nat /\ N[a] \in NodeSet /\ lo[a] \in Int /\ hi[a] \in Int
    BY FormNode
  <2>3. \A i \in 0..(Len(N[a].keys) + 1) : Old(a, i) \in Int
    BY <2>2, EdgeType
  <2>4. \A i \in 1..Len(N[a].keys) : Old(a, i) \in M
    BY <2>1, <2>2 DEF Edge
  <2>. QED
    BY <2>1, <2>2, <2>3, <2>4
<1>3. \A a \in D : /\ lo2[a] = IF a = R THEN x ELSE lo[a]
                   /\ hi2[a] = IF a = L THEN x ELSE IF a = R THEN hi[L] ELSE hi[a]
  BY DEF Also, Parted
<1>. DEFINE Good(a) ==
       /\ lo2[a] \in M \cup {0} /\ hi2[a] \in M
       /\ \A i \in 1..Len(W[a].keys) : New(a, i) \in M
       /\ \A i, k \in 0..(Len(W[a].keys) + 1) : i < k => New(a, i) < New(a, k)
<1>. HIDE DEF lo2, hi2, Old
<1>4. ASSUME NEW a \in D, a # p, a # L, a # R PROVE Good(a)
  <2>1. N[a] = W[a] /\ lo2[a] = lo[a] /\ hi2[a] = hi[a] /\ a \in D2
    BY <1>3, <1>4 DEF Joined
  <2>. QED
    BY <1>2, <2>1 DEF Old
<1>5. Good(p)
  <2>. DEFINE m == Len(N[p].keys)
  <2>1. lo2[p] = lo[p] /\ hi2[p] = hi[p] /\ p \in D2
    BY <1>1, <1>3
  <2>2. /\ m \in Nat /\ Len(W[p].keys) = m + 1 /\ j \in 1..(m + 1)
        /\ \A i \in 0..(j - 1) : New(p, i) = Old(p, i)
        /\ \A i \in j..(m + 1) : New(p, i + 1) = Old(p, i)
    <3>1. Shrunk(W, N, p, j, lo[p], hi[p])
      BY <1>1, JoinedParent
    <3>. QED
      BY <3>1, <2>1 DEF Shrunk, Old
  <2>3. New(p, j) = x
    <3>1. j # 0 /\ j # Len(W[p].keys) + 1
      BY <2>2
    <3>. QED
      BY <3>1 DEF Edge
  <2>4. /\ \A i, k \in 0..(m + 1) : i < k => Old(p, i) < Old(p, k)
        /\ \A i \in 1..m : Old(p, i) \in M
        /\ \A i \in 0..(m + 1) : Old(p, i) \in Int
    BY <2>1, <1>2, <2>2
  <2>9. lo2[p] \in M \cup {0} /\ hi2[p] \in M
    BY <1>2, <2>1
  <2>. HIDE DEF m, New, x
  <2>5. ASSUME NEW i \in 1..(m + 1) PROVE New(p, i) \in M
    <3>1. CASE i < j
      BY <2>2, <2>4, <3>1
    <3>2. CASE i = j
      BY <2>3, <3>2, <1>1
    <3>3. CASE i > j
      <4>1. i - 1 \in j..(m + 1) /\ i - 1 \in 1..m /\ (i - 1) + 1 = i
        BY <2>2, <3>3
      <4>2. New(p, (i - 1) + 1) = Old(p, i - 1)
        BY <4>1, <2>2
      <4>. QED
        BY <4>1, <4>2, <2>4
    <3>. QED
      BY <2>2, <3>1, <3>2, <3>3
  <2>6. ASSUME NEW i \in 0..(m + 1 + 1), i < j
        PROVE  New(p, i) \in Int /\ New(p, i) < x /\ New(p, i) = Old(p, i) /\ i \in 0..(m + 1)
    <3>1. i \in 0..(j - 1) /\ i \in 0..(m + 1) /\ j - 1 \in 0..(m + 1) /\ (i = j - 1 \/ i < j - 1)
      BY <2>2, <2>6
    <3>2. New(p, i) = Old(p, i) /\ Old(p, i) \in Int
      BY <3>1, <2>2, <2>4
    <3>3. Old(p, i) < x
      BY <3>1, <2>4, <1>1
    <3>. QED
      BY <3>1, <3>2, <3>3
  <2>7. ASSUME NEW i \in 0..(m + 1 + 1), i > j
        PROVE  New(p, i) \in Int /\ x < New(p, i) /\ New(p, i) = Old(p, i - 1) /\ i - 1 \in 0..(m + 1)
    <3>1. i - 1 \in j..(m + 1) /\ i - 1 \in 0..(m + 1) /\ j \in 0..(m + 1) /\ (i - 1 = j \/ j < i - 1)
          /\ (i - 1) + 1 = i
      BY <2>2, <2>7
    <3>4. New(p, (i - 1) + 1) = Old(p, i - 1) /\ Old(p, i - 1) \in Int
      BY <3>1, <2>2, <2>4
    <3>3. x < Old(p, i - 1)
      BY <3>1, <2>4, <1>1
    <3>. QED
      BY <3>1, <3>4, <3>3
  <2>8. ASSUME NEW i \in 0..(m + 1 + 1), NEW k \in 0..(m + 1 + 1), i < k PROVE New(p, i) < New(p, k)
    <3>0. j \in Int /\ m \in Nat
      BY <2>2
    <3>1. CASE k < j
      <4>1. i < j
        BY <2>8, <3>0, <3>1
      <4>. QED
        BY <2>6, <2>4, <2>8, <4>1, <3>1
    <3>2. CASE i < j /\ j <= k
      <4>1. New(p, i) < x /\ New(p, i) \in Int
        BY <3>2, <2>6
      <4>2. CASE k = j
        BY <4>1, <4>2, <2>3
      <4>3. CASE j < k
        <5>1. x < New(p, k) /\ New(p, k) \in Int
          BY <4>3, <2>7
        <5>. QED
          BY <4>1, <5>1, <1>1
      <4>. QED
        BY <3>0, <3>2, <4>2, <4>3
    <3>3. CASE i = j
      <4>1. j < k
        BY <2>8, <3>3
      <4>. QED
        BY <3>3, <4>1, <2>3, <2>7
    <3>4. CASE j < i
      <4>1. j < k /\ i - 1 < k - 1
        BY <2>8, <3>0, <3>4
      <4>2. New(p, i) = Old(p, i - 1) /\ New(p, k) = Old(p, k - 1)
            /\ i - 1 \in 0..(m + 1) /\ k - 1 \in 0..(m + 1)
        BY <2>7, <3>4, <4>1
      <4>. QED
        BY <4>1, <4>2, <2>4
    <3>. QED
      BY <3>0, <3>1, <3>2, <3>3, <3>4
  <2>. QED
    BY <2>2, <2>5, <2>8, <2>9
<1>. DEFINE a == Len(W[L].keys)
            b == Len(W[R].keys)
            c == a + 1
            d == b + 1
            l == lo[L]
            u == hi[L]
<1>10. /\ lo2[L] = l /\ hi2[L] = x /\ lo2[R] = x /\ hi2[R] = u /\ L \in D2
       /\ l \in Int /\ u \in Int
  BY <1>1, <1>3
<1>. HIDE DEF l, u, x
<1>11. /\ a \in Nat /\ b \in Nat /\ Len(N[L].keys) = a + 1 + b
       /\ \A i \in 0..(a + 1) : Old(L, i) = New(L, i)
       /\ \A i \in (a + 1)..(a + 1 + b + 1) : Old(L, i) = New(R, i - (a + 1))
  <2>1. Halves(W, N, p, j, L, R, l, u)
    BY <1>10, JoinedChild
  <2>. QED
    BY <1>10, <2>1 DEF Halves, Old, l, u, x
<1>12. /\ \A i, k \in 0..(Len(N[L].keys) + 1) : i < k => Old(L, i) < Old(L, k)
       /\ \A i \in 1..Len(N[L].keys) : Old(L, i) \in M
       /\ lo[L] \in M \cup {0} /\ hi[L] \in M
  BY <1>10, <1>2
<1>. HIDE DEF a, b, New
<1>13. /\ c \in Nat /\ c >= 1 /\ d \in Nat /\ d >= 1 /\ Len(N[L].keys) + 1 = c + d
       /\ \A i \in 0..c : Old(L, i) = New(L, i)
       /\ \A i \in c..(c + d) : Old(L, i) = New(R, i - c)
       /\ \A i, k \in 0..(c + d) : i < k => Old(L, i) < Old(L, k)
       /\ \A i \in 1..(c + d - 1) : Old(L, i) \in M
  <2>1. a + 1 + b + 1 = c + d /\ a + 1 + b = c + d - 1
    BY <1>11
  <2>. QED
    BY <2>1, <1>11, <1>12
<1>. HIDE DEF c, d
<1>6. Good(L)
  <2>1. ASSUME NEW i \in 1..(c - 1) PROVE New(L, i) \in M
    <3>1. i \in 0..c /\ i \in 1..(c + d - 1)
      BY <1>13
    <3>. QED
      BY <3>1, <1>13
  <2>2. ASSUME NEW i \in 0..c, NEW k \in 0..c, i < k PROVE New(L, i) < New(L, k)
    <3>1. i \in 0..(c + d) /\ k \in 0..(c + d)
      BY <1>13
    <3>. QED
      BY <3>1, <2>2, <1>13
  <2>3. c = Len(W[L].keys) + 1 /\ c - 1 = Len(W[L].keys)
    BY <1>11 DEF c, a
  <2>. QED
    BY <2>1, <2>2, <2>3, <1>1, <1>10, <1>12 DEF l, u
<1>7. Good(R)
  <2>1. ASSUME NEW i \in 1..(d - 1) PROVE New(R, i) \in M
    <3>1. i + c \in c..(c + d) /\ i + c \in 1..(c + d - 1) /\ (i + c) - c = i
      BY <1>13
    <3>. QED
      BY <3>1, <1>13
  <2>2. ASSUME NEW i \in 0..d, NEW k \in 0..d, i < k PROVE New(R, i) < New(R, k)
    <3>1. /\ i + c \in 0..(c + d) /\ k + c \in 0..(c + d) /\ i + c < k + c
          /\ i + c \in c..(c + d) /\ k + c \in c..(c + d) /\ (i + c) - c = i /\ (k + c) - c = k
      BY <1>13, <2>2
    <3>2. Old(L, i + c) < Old(L, k + c)
      BY <3>1, <1>13
    <3>3. Old(L, i + c) = New(R, (i + c) - c) /\ Old(L, k + c) = New(R, (k + c) - c)
      BY <3>1, <1>13
    <3>. QED
      BY <3>1, <3>2, <3>3
  <2>3. d = Len(W[R].keys) + 1 /\ d - 1 = Len(W[R].keys)
    BY <1>11 DEF d, b
  <2>. QED
    BY <2>1, <2>2, <2>3, <1>1, <1>10, <1>12 DEF l, u
<1>. HIDE DEF Good
<1>8. \A e \in D : Good(e)
  BY <1>4, <1>5, <1>6, <1>7
<1>9. ASSUME NEW e \in D, NEW i \in 1..Len(W[e].keys) PROVE W[e].keys[i] \in M
  <2>1. New(e, i) \in M
    BY <1>8 DEF Good
  <2>2. Len(W[e].keys) \in Nat
    BY NodeFacts DEF Joined
  <2>3. i # 0 /\ i # Len(W[e].keys) + 1
    BY <2>2
  <2>. QED
    BY <2>1, <2>3 DEF New, Edge
<1>. QED
  BY <1>8, <1>9 DEF Good, New, Ordered, lo2, hi2, x

-----------------------------------------------------------------------------
\* The halves have the children their keys ask for.
Whole(n) ==
  /\ n.leaf => Len(n.children) = 0
  /\ ~ n.leaf => Len(n.children) = Len(n.keys) + 1

\* The tree with a joined node cut in two has each child between the items
\* around it.
LEMMA CutLinked ==
  ASSUME NEW D, NEW W, NEW N, NEW rt, NEW ht, NEW lv, NEW lo, NEW hi, NEW M,
         NEW p, NEW j, NEW L, NEW R,
         Form(D \ {R}, N, rt, ht, lv, lo, hi, M), Joined(D, W, N, p, j, L, R),
         Whole(W[L]), Whole(W[R])
  PROVE  Linked(D, W, Also(D, R, lv, lv[L]), Also(D, R, lo, W[p].keys[j]),
                Parted(D, L, R, hi, W[p].keys[j]))
<1>. DEFINE D2 == D \ {R}
            x == W[p].keys[j]
            lv2 == Also(D, R, lv, lv[L])
            lo2 == Also(D, R, lo, x)
            hi2 == Parted(D, L, R, hi, x)
            Old(a, i) == Edge(N[a], lo[a], hi[a], i)
            New(a, i) == Edge(W[a], lo2[a], hi2[a], i)
<1>1. /\ p \in D /\ L \in D /\ R \in D /\ p # L /\ p # R /\ L # R /\ x \in Int
      /\ lv[p] \in Int /\ lv[L] = lv[p] - 1
      /\ lo[L] \in Int /\ hi[L] \in Int /\ lo[p] \in Int /\ hi[p] \in Int
      /\ lo[L] = Old(p, j - 1) /\ hi[L] = Old(p, j)
  BY CutFacts
<1>2. \A a \in D2 : \A i \in 1..Len(N[a].children) : N[a].children[i] = L => a = p /\ i = j
  BY CutFacts
<1>3. \A a \in D2 : \A i \in 1..Len(N[a].children) :
        LET c == N[a].children[i] IN
        /\ c \in D2 /\ lv[c] = lv[a] - 1 /\ lo[c] = Old(a, i - 1) /\ hi[c] = Old(a, i)
  BY DEF Form, Linked
<1>4. \A a \in D : /\ lv2[a] = IF a = R THEN lv[L] ELSE lv[a]
                   /\ lo2[a] = IF a = R THEN x ELSE lo[a]
                   /\ hi2[a] = IF a = L THEN x ELSE IF a = R THEN hi[L] ELSE hi[a]
  BY DEF Also, Parted
<1>. DEFINE Good(a, i) ==
       LET c == W[a].children[i] IN
       /\ c \in D /\ lv2[c] = lv2[a] - 1 /\ lo2[c] = New(a, i - 1) /\ hi2[c] = New(a, i)
<1>. HIDE DEF lv2, lo2, hi2, Old
<1>5. ASSUME NEW a \in D, a # p, a # L, a # R, NEW i \in 1..Len(W[a].children) PROVE Good(a, i)
  <2>1. N[a] = W[a] /\ lo2[a] = lo[a] /\ hi2[a] = hi[a] /\ lv2[a] = lv[a] /\ a \in D2
    BY <1>4, <1>5 DEF Joined
  <2>. DEFINE c == W[a].children[i]
  <2>2. c \in D2 /\ lv[c] = lv[a] - 1 /\ lo[c] = Old(a, i - 1) /\ hi[c] = Old(a, i)
    BY <1>3, <2>1
  <2>3. c # L
    BY <1>2, <1>5, <2>1
  <2>4. c \in D /\ lv2[c] = lv[c] /\ lo2[c] = lo[c] /\ hi2[c] = hi[c]
    BY <1>4, <2>2, <2>3
  <2>. QED
    BY <2>1, <2>2, <2>4 DEF Old
<1>6. ASSUME NEW i \in 1..Len(W[p].children) PROVE Good(p, i)
  <2>. DEFINE m == Len(N[p].keys)
  <2>1. lo2[p] = lo[p] /\ hi2[p] = hi[p] /\ lv2[p] = lv[p] /\ p \in D2
    BY <1>1, <1>4
  <2>2. /\ m \in Nat /\ Len(W[p].keys) = m + 1 /\ j \in 1..(m + 1)
        /\ Len(N[p].children) = m + 1 /\ Len(W[p].children) = m + 2
        /\ \A k \in 0..(j - 1) : New(p, k) = Old(p, k)
        /\ \A k \in j..(m + 1) : New(p, k + 1) = Old(p, k)
        /\ \A k \in 1..j : N[p].children[k] = W[p].children[k]
        /\ \A k \in (j + 1)..(m + 1) : N[p].children[k] = W[p].children[k + 1]
    <3>1. Shrunk(W, N, p, j, lo[p], hi[p])
      BY <1>1, JoinedParent
    <3>. QED
      BY <3>1, <2>1 DEF Old, Shrunk
  <2>3. i \in 1..(m + 2)
    BY <2>2
  <2>10. \A k \in 1..(m + 1) :
           LET c == N[p].children[k] IN
           /\ c \in D2 /\ lv[c] = lv[p] - 1 /\ lo[c] = Old(p, k - 1) /\ hi[c] = Old(p, k)
           /\ c = L => k = j
    BY <2>1, <1>2, <1>3, <2>2
  <2>11. New(p, j) = x
    <3>1. j # 0 /\ j # Len(W[p].keys) + 1
      BY <2>2
    <3>. QED
      BY <3>1 DEF Edge
  <2>12. W[p].children[j] = L /\ W[p].children[j + 1] = R
    BY DEF Joined
  <2>. HIDE DEF m, New, x
  <2>4. CASE i < j
    <3>. DEFINE c == W[p].children[i]
    <3>1. i \in 1..(m + 1) /\ i # j /\ i - 1 \in 0..(j - 1) /\ i \in 0..(j - 1) /\ i \in 1..j
      BY <2>2, <2>3, <2>4
    <3>3. N[p].children[i] = c /\ New(p, i - 1) = Old(p, i - 1) /\ New(p, i) = Old(p, i)
      BY <3>1, <2>2
    <3>2. c \in D2 /\ c # L /\ lv[c] = lv[p] - 1 /\ lo[c] = Old(p, i - 1) /\ hi[c] = Old(p, i)
      BY <2>10, <3>1, <3>3
    <3>. QED
      BY <3>2, <3>3, <1>4, <2>1
  <2>5. CASE i = j
    <3>1. i - 1 \in 0..(j - 1)
      BY <2>2, <2>3, <2>5
    <3>3. New(p, i - 1) = lo[L]
      BY <3>1, <2>2, <2>5, <1>1
    <3>. QED
      BY <2>5, <2>11, <2>12, <3>3, <1>1, <1>4, <2>1
  <2>6. CASE i = j + 1
    <3>1. i - 1 = j /\ j \in j..(m + 1)
      BY <2>2, <2>3, <2>6
    <3>3. New(p, i - 1) = x /\ New(p, i) = hi[L]
      BY <3>1, <2>2, <2>6, <2>11, <1>1
    <3>. QED
      BY <2>6, <2>12, <3>3, <1>1, <1>4, <2>1
  <2>7. CASE i > j + 1
    <3>. DEFINE k == i - 1
                c == N[p].children[k]
    <3>1. /\ k \in 1..(m + 1) /\ k # j /\ k \in (j + 1)..(m + 1) /\ k \in j..(m + 1)
          /\ k - 1 \in j..(m + 1) /\ k + 1 = i /\ (k - 1) + 1 = k
      BY <2>2, <2>3, <2>7
    <3>3. /\ W[p].children[k + 1] = c /\ New(p, (k - 1) + 1) = Old(p, k - 1)
          /\ New(p, k + 1) = Old(p, k)
      BY <3>1, <2>2
    <3>. HIDE DEF k
    <3>4. i - 1 = k
      BY DEF k
    <3>2. c \in D2 /\ c # L /\ lv[c] = lv[p] - 1 /\ lo[c] = Old(p, k - 1) /\ hi[c] = Old(p, k)
      BY <2>10, <3>1
    <3>. QED
      BY <3>1, <3>2, <3>3, <3>4, <1>4, <2>1
  <2>. QED
    BY <2>2, <2>3, <2>4, <2>5, <2>6, <2>7
<1>. DEFINE a == Len(W[L].keys)
            b == Len(W[R].keys)
            c == Len(W[L].children)
            d == Len(W[R].children)
            l == lo[L]
            u == hi[L]
            v == lv[L]
<1>7. /\ lo2[L] = l /\ hi2[L] = x /\ lo2[R] = x /\ hi2[R] = u /\ L \in D2
      /\ lv2[L] = v /\ lv2[R] = v
      /\ l \in Int /\ u \in Int
  BY <1>1, <1>4
<1>. HIDE DEF l, u, x
<1>8. /\ a \in Nat /\ b \in Nat /\ c \in Nat /\ d \in Nat
      /\ Len(N[L].children) = c + d
      /\ \A i \in 0..(a + 1) : Old(L, i) = New(L, i)
      /\ \A i \in (a + 1)..(a + 1 + b + 1) : Old(L, i) = New(R, i - (a + 1))
      /\ \A k \in 1..c : N[L].children[k] = W[L].children[k]
      /\ \A k \in (c + 1)..(c + d) : N[L].children[k] = W[R].children[k - c]
  <2>1. Halves(W, N, p, j, L, R, l, u)
    BY <1>7, JoinedChild
  <2>. QED
    BY <1>7, <2>1 DEF Halves, Old, l, u, x
<1>9. (c = 0 /\ d = 0) \/ (c = a + 1 /\ d = b + 1)
  <2>1. (W[R].leaf <=> W[L].leaf)
    BY DEF Joined
  <2>. QED
    BY <2>1 DEF Whole
<1>10. \A k \in 1..(c + d) :
         LET e == N[L].children[k] IN
         /\ e \in D2 /\ e # L /\ lv[e] = lv[L] - 1 /\ lo[e] = Old(L, k - 1) /\ hi[e] = Old(L, k)
  BY <1>1, <1>2, <1>3, <1>7, <1>8
<1>. HIDE DEF a, b, c, d, New, v
<1>11. ASSUME NEW i \in 1..c PROVE Good(L, i)
  <2>. DEFINE e == W[L].children[i]
  <2>1. c = a + 1 /\ d = b + 1
    BY <1>8, <1>9
  <2>2. i \in 1..(c + d) /\ i \in 0..(a + 1) /\ i - 1 \in 0..(a + 1)
    BY <1>8, <2>1
  <2>3. e = N[L].children[i] /\ Old(L, i - 1) = New(L, i - 1) /\ Old(L, i) = New(L, i)
    BY <1>8, <2>2
  <2>4. e \in D2 /\ e # L /\ lv[e] = lv[L] - 1 /\ lo[e] = Old(L, i - 1) /\ hi[e] = Old(L, i)
    BY <1>10, <2>2, <2>3
  <2>. QED
    BY <2>3, <2>4, <1>4, <1>7 DEF v
<1>12. ASSUME NEW i \in 1..d PROVE Good(R, i)
  <2>. DEFINE k == i + c
              e == W[R].children[i]
  <2>1. c = a + 1 /\ d = b + 1
    BY <1>8, <1>9
  <2>2. /\ k \in 1..(c + d) /\ k \in (c + 1)..(c + d) /\ k - c = i
        /\ k \in (a + 1)..(a + 1 + b + 1) /\ k - 1 \in (a + 1)..(a + 1 + b + 1)
        /\ k - (a + 1) = i /\ (k - 1) - (a + 1) = i - 1
    BY <1>8, <2>1
  <2>. HIDE DEF k
  <2>3. e = N[L].children[k] /\ Old(L, k - 1) = New(R, i - 1) /\ Old(L, k) = New(R, i)
    <3>1. N[L].children[k] = W[R].children[k - c]
      BY <1>8, <2>2
    <3>2. Old(L, k - 1) = New(R, (k - 1) - (a + 1)) /\ Old(L, k) = New(R, k - (a + 1))
      BY <1>8, <2>2
    <3>. QED
      BY <3>1, <3>2, <2>2
  <2>4. e \in D2 /\ e # L /\ lv[e] = lv[L] - 1 /\ lo[e] = Old(L, k - 1) /\ hi[e] = Old(L, k)
    BY <1>10, <2>2, <2>3
  <2>. QED
    BY <2>3, <2>4, <1>4, <1>7 DEF v
<1>. HIDE DEF Good
<1>13. \A e \in D : \A i \in 1..Len(W[e].children) : Good(e, i)
  BY <1>5, <1>6, <1>11, <1>12 DEF c, d
<1>. QED
  BY <1>13 DEF Good, New, Linked, lv2, lo2, hi2, x

\* A tree in order with one of its nodes cut in two.
LEMMA CutForm ==
  ASSUME NEW D, NEW W, NEW N, NEW rt, NEW ht, NEW lv, NEW lo, NEW hi, NEW M,
         NEW p, NEW j, NEW L, NEW R,
         Form(D \ {R}, N, rt, ht, lv, lo, hi, M), Joined(D, W, N, p, j, L, R),
         Whole(W[L]), Whole(W[R]), R \in Nat, R # 0,
         TreeCount(W[L]) = Upto(M)[W[p].keys[j]] - Upto(M)[lo[L]] - 1,
         TreeCount(W[R]) \in Int
  PROVE  Form(D, W, rt, ht, Also(D, R, lv, lv[L]), Also(D, R, lo, W[p].keys[j]),
              Parted(D, L, R, hi, W[p].keys[j]), M)
<1>. DEFINE D2 == D \ {R}
            x == W[p].keys[j]
            lv2 == Also(D, R, lv, lv[L])
            lo2 == Also(D, R, lo, x)
            hi2 == Parted(D, L, R, hi, x)
<1>1. /\ p \in D /\ L \in D /\ R \in D /\ p # L /\ p # R /\ L # R /\ x \in Int
      /\ lv[p] \in Int /\ lv[L] = lv[p] - 1 /\ lv[p] <= ht
      /\ lo[L] \in Int /\ hi[L] \in Int /\ lo[L] < x /\ x < hi[L] /\ x \in 0..Top
  BY CutFacts
<1>4. \A a \in D : /\ lv2[a] = IF a = R THEN lv[L] ELSE lv[a]
                   /\ lo2[a] = IF a = R THEN x ELSE lo[a]
                   /\ hi2[a] = IF a = L THEN x ELSE IF a = R THEN hi[L] ELSE hi[a]
  BY DEF Also, Parted
<1>2. Ordered(D, W, lo2, hi2, M)
  BY CutOrdered
<1>3. Linked(D, W, lv2, lo2, hi2)
  BY CutLinked
<1>13. Typed(D2, N, ht, lv, lo, hi, M)
  BY DEF Form
<1>5. Typed(D, W, ht, lv2, lo2, hi2, M)
  <2>1. IsFiniteSet(D2) /\ D2 \subseteq Nat \ {0} /\ D = D2 \cup {R}
    BY <1>1, <1>13 DEF Typed
  <2>5. IsFiniteSet(D) /\ D \subseteq Nat \ {0}
    BY <2>1, FS_AddElement
  <2>2. W \in [D -> NodeSet]
    BY DEF Joined
  <2>3. lv2 \in [D -> Nat] /\ lo2 \in [D -> 0..Top]
    BY <1>1, <1>13 DEF Typed, Also
  <2>4. hi2 \in [D -> 0..Top]
    BY <1>13, <1>1 DEF Typed, Parted
  <2>. QED
    BY <2>5, <2>2, <2>3, <2>4, <1>13 DEF Typed
<1>. HIDE DEF lv2, lo2, hi2
<1>6. Rooted(D, rt, ht, lv2, lo2, hi2)
  <2>1. rt \in D2 /\ lv[rt] = ht /\ lo[rt] = 0 /\ hi[rt] = Top
    BY DEF Form, Rooted
  <2>2. ht \in Int
    BY <1>13 DEF Typed
  <2>3. rt # R /\ rt # L
    BY <2>1, <2>2, <1>1
  <2>. QED
    BY <2>1, <2>3, <1>4 DEF Rooted
<1>7. Leveled(D, W, ht, lv2)
  <2>1. \A a \in D2 : /\ lv[a] \in 1..ht
                      /\ N[a].leaf <=> lv[a] = 1
                      /\ Whole(N[a])
    BY DEF Form, Leveled, Whole
  <2>. DEFINE Good(a) == lv2[a] \in 1..ht /\ (W[a].leaf <=> lv2[a] = 1) /\ Whole(W[a])
  <2>2. ASSUME NEW a \in D, a # p, a # L, a # R PROVE Good(a)
    <3>1. N[a] = W[a] /\ a \in D2
      BY <2>2 DEF Joined
    <3>. QED
      BY <3>1, <2>1, <2>2, <1>4
  <2>3. Good(p)
    <3>1. Len(W[p].children) = Len(W[p].keys) + 1
      BY DEF Joined
    <3>2. ~ N[p].leaf /\ ~ W[p].leaf
      BY DEF Joined
    <3>3. Whole(W[p])
      BY <3>1, <3>2 DEF Whole
    <3>. QED
      BY <3>3, <3>2, <1>1, <1>4, <2>1
  <2>4. Good(L) /\ Good(R)
    <3>1. (N[L].leaf <=> W[L].leaf) /\ (W[R].leaf <=> W[L].leaf)
      BY DEF Joined
    <3>. QED
      BY <3>1, <1>1, <1>4, <2>1
  <2>. HIDE DEF Good
  <2>5. \A a \in D : Good(a)
    BY <2>2, <2>3, <2>4
  <2>. QED
    BY <2>5 DEF Good, Whole, Leveled
<1>8. Apart(D, lv2, lo2, hi2)
  <2>1. \A a, b \in D2 : a # b /\ lv[a] = lv[b] => hi[a] <= lo[b] \/ hi[b] <= lo[a]
    BY DEF Form, Apart
  <2>2. \A a \in D2 : lo[a] \in Int /\ hi[a] \in Int
    BY FormNode
  <2>. DEFINE Off2(a, b) == hi2[a] <= lo2[b] \/ hi2[b] <= lo2[a]
  <2>3. ASSUME NEW b \in D2, b # L, lv2[b] = lv[L] PROVE Off2(L, b) /\ Off2(R, b)
    <3>1. hi[L] <= lo[b] \/ hi[b] <= lo[L]
      BY <2>1, <2>3, <1>1, <1>4
    <3>3. lo[b] \in Int /\ hi[b] \in Int
      BY <2>2
    <3>4. lo2[b] = lo[b] /\ hi2[b] = hi[b] /\ lo2[L] = lo[L] /\ hi2[L] = x /\ lo2[R] = x /\ hi2[R] = hi[L]
      BY <1>1, <1>4, <2>3
    <3>5. x <= lo[b] \/ hi[b] <= lo[L]
      BY <3>1, <3>3, <1>1
    <3>6. hi[L] <= lo[b] \/ hi[b] <= x
      BY <3>1, <3>3, <1>1
    <3>. QED
      BY <3>4, <3>5, <3>6
  <2>6. Off2(L, R)
    BY <1>1, <1>4
  <2>4. ASSUME NEW a \in D, NEW b \in D, a # b, lv2[a] = lv2[b]
        PROVE  Off2(a, b)
    <3>1. CASE a \in {L, R} /\ b \notin {L, R}
      BY <3>1, <2>3, <2>4, <1>1, <1>4
    <3>2. CASE b \in {L, R} /\ a \notin {L, R}
      BY <3>2, <2>3, <2>4, <1>1, <1>4
    <3>3. CASE a \notin {L, R} /\ b \notin {L, R}
      BY <3>3, <2>1, <2>4, <1>4
    <3>4. CASE a \in {L, R} /\ b \in {L, R}
      BY <3>4, <2>4, <2>6
    <3>. QED
      BY <3>1, <3>2, <3>3, <3>4
  <2>. QED
    BY <2>4 DEF Apart
<1>9. Counted(D, W, lo2, hi2, M)
  <2>. DEFINE U == Upto(M)
  <2>1. \A a \in D2 : TreeCount(N[a]) = U[hi[a]] - U[lo[a]] - 1
    BY DEF Form, Counted
  <2>2. U \in [0..Top -> Nat] /\ lo[L] \in 0..Top /\ hi[L] \in 0..Top
    BY <1>1, <1>13, UptoType DEF Typed
  <2>6. TreeCount(W[L]) = U[x] - U[lo[L]] - 1
    OBVIOUS
  <2>. HIDE DEF U, x
  <2>3. TreeCount(W[R]) = U[hi[L]] - U[x] - 1
    <3>1. TreeCount(N[L]) = TreeCount(W[L]) + TreeCount(W[R]) + 1
      BY DEF Joined
    <3>2. TreeCount(N[L]) = U[hi[L]] - U[lo[L]] - 1
      BY <2>1, <1>1
    <3>4. U[x] \in Int /\ U[lo[L]] \in Int /\ U[hi[L]] \in Int
      BY <2>2, <1>1
    <3>. QED
      BY <3>1, <3>2, <3>4, <2>6
  <2>4. TreeCount(N[p]) = TreeCount(W[p])
    BY DEF Joined, TreeCount
  <2>5. ASSUME NEW a \in D PROVE TreeCount(W[a]) = U[hi2[a]] - U[lo2[a]] - 1
    <3>1. CASE a = L
      BY <3>1, <2>6, <1>1, <1>4
    <3>2. CASE a = p
      BY <3>2, <2>1, <2>4, <1>1, <1>4
    <3>4. CASE a = R
      BY <3>4, <2>3, <1>1, <1>4
    <3>3. CASE a # L /\ a # p /\ a # R
      <4>1. N[a] = W[a]
        BY <3>3 DEF Joined
      <4>. QED
        BY <4>1, <3>3, <2>1, <1>4
    <3>. QED
      BY <3>1, <3>2, <3>3, <3>4
  <2>. QED
    BY <2>5 DEF Counted, U
<1>. QED
  BY <1>2, <1>3, <1>5, <1>6, <1>7, <1>8, <1>9 DEF Form, lv2, lo2, hi2, x

-----------------------------------------------------------------------------
(* The counts of a tree in order, from the nodes' own items and children.   *)

\* Between a number and a larger one in M there is one more of M.
LEMMA UptoStep ==
  ASSUME NEW M, M \subseteq 1..Top, NEW x \in 0..Top, NEW y \in 0..Top, x < y, y \in M
  PROVE  Upto(M)[x] + 1 <= Upto(M)[y]
<1>. DEFINE A == M \cap (1..x)
            B == M \cap (1..y)
<1>1. x \in Nat /\ y \in Nat
  BY TopType
<1>2. IsFiniteSet(1..y)
  BY <1>1, FS_Interval
<1>3. IsFiniteSet(B)
  BY <1>2, FS_Subset
<1>4. A \subseteq B /\ y \in B /\ y \notin A
  BY <1>1
<1>. HIDE DEF A, B
<1>5. IsFiniteSet(A) /\ A \subseteq B \ {y} /\ IsFiniteSet(B \ {y})
  BY <1>3, <1>4, FS_Subset
<1>6. Cardinality(B \ {y}) = Cardinality(B) - 1 /\ Cardinality(B) \in Nat /\ Cardinality(A) \in Nat
  BY <1>3, <1>4, <1>5, FS_RemoveElement, FS_CardinalityType
<1>7. Cardinality(A) <= Cardinality(B \ {y})
  BY <1>5, FS_Subset
<1>8. Upto(M)[x] = Cardinality(A) /\ Upto(M)[y] = Cardinality(B)
  BY DEF Upto, A, B
<1>. QED
  BY <1>6, <1>7, <1>8

\* A larger number has no fewer items up to it.
LEMMA UptoMonotone ==
  ASSUME NEW M, M \subseteq 1..Top, NEW x \in 0..Top, NEW y \in 0..Top, x <= y
  PROVE  Upto(M)[x] <= Upto(M)[y]
<1>. DEFINE A == M \cap (1..x)
            B == M \cap (1..y)
<1>1. x \in Nat /\ y \in Nat
  BY TopType
<1>2. IsFiniteSet(1..y)
  BY <1>1, FS_Interval
<1>3. IsFiniteSet(B)
  BY <1>2, FS_Subset
<1>4. A \subseteq B
  BY <1>1
<1>5. Cardinality(A) <= Cardinality(B)
  BY <1>3, <1>4, FS_Subset
<1>. QED
  BY <1>5 DEF Upto

\* n steps that gain at least one each and n in all gain one each.
LEMMA Squeeze ==
  ASSUME NEW n \in Nat, NEW g, \A i \in 0..n : g[i] \in Int,
         \A i \in 1..n : g[i - 1] + 1 <= g[i], g[n] = g[0] + n
  PROVE  \A i \in 0..n : g[i] = g[0] + i
<1>. DEFINE S == {i \in Nat : i <= n => g[0] + i <= g[i]}
            T == {i \in Nat : i <= n => g[n - i] + i <= g[n]}
<1>0. g[0] \in Int /\ g[n] \in Int
  OBVIOUS
<1>1. Nat \subseteq S
  <2>1. 0 \in S
    BY <1>0
  <2>2. ASSUME NEW i \in Nat, i \in S PROVE i + 1 \in S
    <3>. SUFFICES ASSUME i + 1 <= n PROVE g[0] + (i + 1) <= g[i + 1]
      OBVIOUS
    <3>. DEFINE k == i + 1
    <3>1. k \in 1..n /\ k \in 0..n /\ k - 1 = i /\ i \in 0..n /\ i <= n
      OBVIOUS
    <3>. HIDE DEF k
    <3>2. g[k - 1] + 1 <= g[k] /\ g[0] + i <= g[i] /\ g[k] \in Int /\ g[i] \in Int
      BY <3>1, <2>2
    <3>3. g[0] + (i + 1) <= g[k]
      BY <3>1, <3>2, <1>0
    <3>. QED
      BY <3>3 DEF k
  <2>. QED
    BY <2>1, <2>2, NatSetInduction
<1>2. Nat \subseteq T
  <2>1. 0 \in T
    BY <1>0
  <2>2. ASSUME NEW i \in Nat, i \in T PROVE i + 1 \in T
    <3>. SUFFICES ASSUME i + 1 <= n PROVE g[n - (i + 1)] + (i + 1) <= g[n]
      OBVIOUS
    <3>. DEFINE k == n - i
                h == n - (i + 1)
    <3>1. k \in 1..n /\ k \in 0..n /\ k - 1 = h /\ h \in 0..n /\ i <= n
      OBVIOUS
    <3>2. g[k] + i <= g[n]
      BY <3>1, <2>2
    <3>. HIDE DEF k, h
    <3>3. g[k - 1] + 1 <= g[k] /\ g[k] \in Int /\ g[h] \in Int
      BY <3>1
    <3>4. g[h] + (i + 1) <= g[n]
      BY <3>1, <3>2, <3>3, <1>0
    <3>. QED
      BY <3>4 DEF h
  <2>. QED
    BY <2>1, <2>2, NatSetInduction
<1>3. ASSUME NEW i \in 0..n PROVE g[i] = g[0] + i
  <2>. DEFINE k == n - i
  <2>1. i \in Nat /\ i <= n /\ k \in Nat /\ k <= n /\ n - k = i /\ g[i] \in Int
    OBVIOUS
  <2>2. g[0] + i <= g[i]
    BY <2>1, <1>1
  <2>3. g[n - k] + k <= g[n]
    BY <2>1, <1>2
  <2>4. g[i] + k <= g[n]
    BY <2>1, <2>3
  <2>. QED
    BY <2>1, <2>2, <2>4, <1>0
<1>. QED
  BY <1>3

\* The bounds of the items of a node.
LEMMA FormEdges ==
  ASSUME NEW D, NEW H, NEW rt, NEW ht, NEW lv, NEW lo, NEW hi, NEW M,
         Form(D, H, rt, ht, lv, lo, hi, M), NEW a \in D
  PROVE  LET m == Len(H[a].keys)
             E(i) == Edge(H[a], lo[a], hi[a], i)
         IN /\ m \in Nat
            /\ E(0) = lo[a] /\ E(m + 1) = hi[a] /\ \A i \in 1..m : E(i) = H[a].keys[i]
            /\ \A i \in 0..(m + 1) : E(i) \in Int /\ E(i) \in 0..Top
            /\ \A i \in 1..(m + 1) : E(i) \in M
            /\ \A i, k \in 0..(m + 1) : i < k => E(i) < E(k)
<1>. DEFINE m == Len(H[a].keys)
            E(i) == Edge(H[a], lo[a], hi[a], i)
<1>1. m \in Nat /\ H[a] \in NodeSet
  BY FormNode
<1>2. E(0) = lo[a] /\ E(m + 1) = hi[a] /\ \A i \in 1..m : E(i) = H[a].keys[i]
  BY <1>1 DEF Edge
<1>3. /\ lo[a] \in M \cup {0} /\ hi[a] \in M
      /\ \A i \in 1..m : H[a].keys[i] \in M
      /\ \A i, k \in 0..(m + 1) : i < k => E(i) < E(k)
  BY DEF Form, Ordered
<1>4. M \subseteq 1..Top
  BY DEF Form, Typed
<1>. HIDE DEF m, E
<1>5. ASSUME NEW i \in 1..(m + 1) PROVE E(i) \in M
  <2>1. i \in 1..m \/ i = m + 1
    BY <1>1
  <2>. QED
    BY <2>1, <1>2, <1>3
<1>6. ASSUME NEW i \in 0..(m + 1) PROVE E(i) \in M \cup {0}
  <2>1. i = 0 \/ i \in 1..(m + 1)
    BY <1>1
  <2>. QED
    BY <2>1, <1>2, <1>3, <1>5
<1>7. \A y \in M \cup {0} : y \in Int /\ y \in 0..Top
  BY <1>4, TopType
<1>. QED
  BY <1>1, <1>2, <1>3, <1>5, <1>6, <1>7 DEF m, E

\* All items between the bounds of a leaf are its keys: the numbers of items
\* up to them grow by one.
LeafRanks(H, lo, hi, M, a) ==
  \A i \in 0..(Len(H[a].keys) + 1) :
    Upto(M)[Edge(H[a], lo[a], hi[a], i)] = Upto(M)[lo[a]] + i

\* A leaf holds every item between its bounds.
LEMMA LeafFull ==
  ASSUME NEW D, NEW H, NEW rt, NEW ht, NEW lv, NEW lo, NEW hi, NEW M,
         Form(D, H, rt, ht, lv, lo, hi, M), NEW a \in D, lv[a] = 1
  PROVE  LeafRanks(H, lo, hi, M, a)
<1>. DEFINE m == Len(H[a].keys)
            n == m + 1
            E(i) == Edge(H[a], lo[a], hi[a], i)
            U == Upto(M)
            g == [i \in 0..n |-> U[E(i)]]
<1>1. /\ m \in Nat
      /\ E(0) = lo[a] /\ E(n) = hi[a]
      /\ \A i \in 0..n : E(i) \in 0..Top
      /\ \A i \in 1..n : E(i) \in M
      /\ \A i, k \in 0..n : i < k => E(i) < E(k)
  BY FormEdges
<1>2. M \subseteq 1..Top /\ U \in [0..Top -> Nat]
  <2>1. M \subseteq 1..Top
    BY DEF Form, Typed
  <2>. QED
    BY <2>1, UptoType
<1>3. TreeCount(H[a]) = U[hi[a]] - U[lo[a]] - 1
  BY DEF Form, Counted
<1>4. TreeCount(H[a]) = m
  <2>1. H[a].leaf
    BY FormNode
  <2>. QED
    BY <2>1 DEF TreeCount, NumItems
<1>5. n \in Nat /\ 0 \in 0..n /\ n \in 0..n
  BY <1>1
<1>. HIDE DEF n, E
<1>6. \A i \in 0..n : g[i] = U[E(i)] /\ g[i] \in Int
  BY <1>1, <1>2
<1>7. ASSUME NEW i \in 1..n PROVE g[i - 1] + 1 <= g[i]
  <2>1. i - 1 \in 0..n /\ i \in 0..n /\ i - 1 < i
    BY <1>5
  <2>2. E(i - 1) \in 0..Top /\ E(i) \in 0..Top /\ E(i - 1) < E(i) /\ E(i) \in M
    BY <1>1, <2>1
  <2>3. U[E(i - 1)] + 1 <= U[E(i)]
    BY <1>2, <2>2, UptoStep
  <2>. QED
    BY <1>6, <2>1, <2>3
<1>8. g[n] = g[0] + n
  <2>1. g[n] = U[hi[a]] /\ g[0] = U[lo[a]] /\ g[n] \in Int /\ g[0] \in Int
    BY <1>1, <1>5, <1>6
  <2>. DEFINE y == U[hi[a]]
              z == U[lo[a]]
  <2>2. y - z - 1 = m /\ y \in Int /\ z \in Int /\ m \in Nat /\ n = m + 1
    BY <2>1, <1>1, <1>3, <1>4 DEF n
  <2>. HIDE DEF y, z, m
  <2>3. y = z + n
    BY <2>2
  <2>. QED
    BY <2>1, <2>3 DEF y, z
<1>. HIDE DEF g
<1>9. \A i \in 0..n : g[i] = g[0] + i
  BY <1>5, <1>6, <1>7, <1>8, Squeeze
<1>. QED
  BY <1>1, <1>5, <1>6, <1>9 DEF LeafRanks, n, E

\* The counts of neighbouring children.
LEMMA SpanCount ==
  ASSUME NEW D, NEW H, NEW rt, NEW ht, NEW lv, NEW lo, NEW hi, NEW M,
         Form(D, H, rt, ht, lv, lo, hi, M), NEW a \in D, lv[a] # 1,
         NEW e \in Numbers, Len(e) <= Len(H[a].keys) + 1,
         \A k \in 1..Len(e) : e[k] = H[a].children[k],
         NEW G, \A k \in 1..Len(e) : TreeCount(G[e[k]]) = TreeCount(H[e[k]])
  PROVE  /\ Counts(G, e) \in Numbers
         /\ SumCounts(G, e) = Upto(M)[Edge(H[a], lo[a], hi[a], Len(e))] - Upto(M)[lo[a]] - Len(e)
<1>. DEFINE m == Len(H[a].keys)
            n == Len(e)
            E(i) == Edge(H[a], lo[a], hi[a], i)
            U == Upto(M)
            s == Counts(G, e)
            F == Summed(s)
<1>1. /\ m \in Nat
      /\ E(0) = lo[a] /\ E(m + 1) = hi[a]
      /\ \A i \in 0..(m + 1) : E(i) \in 0..Top
  BY FormEdges
<1>2. M \subseteq 1..Top /\ U \in [0..Top -> Nat]
  <2>1. M \subseteq 1..Top
    BY DEF Form, Typed
  <2>. QED
    BY <2>1, UptoType
<1>3. n \in Nat /\ n <= m + 1 /\ \A k \in 1..n : k \in 1..Len(H[a].children)
  <2>1. n \in Nat
    BY NumbersFacts
  <2>2. Len(H[a].children) = IF lv[a] = 1 THEN 0 ELSE m + 1
    BY FormNode
  <2>. QED
    BY <2>1, <2>2, <1>1
<1>. HIDE DEF E, U
<1>4. ASSUME NEW k \in 1..n PROVE TreeCount(G[e[k]]) = U[E(k)] - U[E(k - 1)] - 1
  <2>1. k \in 1..Len(H[a].children)
    BY <1>3
  <2>2. /\ e[k] \in D /\ lo[e[k]] = E(k - 1) /\ hi[e[k]] = E(k)
    BY <2>1 DEF Form, Linked, E
  <2>3. TreeCount(H[e[k]]) = U[hi[e[k]]] - U[lo[e[k]]] - 1
    BY <2>2 DEF Form, Counted, U
  <2>. QED
    BY <2>2, <2>3
<1>5. ASSUME NEW k \in 0..n PROVE E(k) \in 0..Top /\ U[E(k)] \in Int
  <2>1. k \in 0..(m + 1)
    BY <1>1, <1>3
  <2>. QED
    BY <2>1, <1>1, <1>2
<1>6. s \in Numbers /\ Len(s) = n /\ \A k \in 1..n : s[k] = TreeCount(G[e[k]])
  <2>1. ASSUME NEW k \in 1..n PROVE TreeCount(G[e[k]]) \in Int
    <3>1. k \in 0..n /\ k - 1 \in 0..n
      BY <1>3
    <3>2. U[E(k)] \in Int /\ U[E(k - 1)] \in Int
      BY <3>1, <1>5
    <3>. QED
      BY <3>2, <1>4
  <2>2. s = [k \in 1..n |-> TreeCount(G[e[k]])]
    BY DEF Counts
  <2>. HIDE DEF s
  <2>3. s \in [1..n -> Int]
    BY <2>1, <2>2
  <2>4. s \in Seq(Int)
    BY <2>3, <1>3
  <2>5. Len(s) = n
    BY <2>3, <2>4, <1>3
  <2>. QED
    BY <2>2, <2>4, <2>5 DEF Numbers
<1>. HIDE DEF s
<1>7. /\ F \in [0..Len(s) -> Int] /\ F[0] = 0
      /\ \A i \in 1..Len(s) : F[i] = F[i - 1] + s[i]
      /\ Total(s) = F[Len(s)]
  BY <1>6, SummedFacts
<1>. HIDE DEF F, n
<1>. DEFINE S == {k \in Nat : k <= n => F[k] = U[E(k)] - U[lo[a]] - k}
<1>8. Nat \subseteq S
  <2>1. 0 \in S
    <3>1. 0 \in 0..n
      BY <1>3
    <3>2. U[E(0)] \in Int
      BY <3>1, <1>5
    <3>. QED
      BY <1>1, <1>7, <3>2
  <2>2. ASSUME NEW i \in Nat, i \in S PROVE i + 1 \in S
    <3>. SUFFICES ASSUME i + 1 <= n PROVE F[i + 1] = U[E(i + 1)] - U[lo[a]] - (i + 1)
      OBVIOUS
    <3>. DEFINE k == i + 1
    <3>1. k \in 1..n /\ k \in 0..n /\ k - 1 = i /\ i \in 0..n /\ i <= n /\ 0 \in 0..n
      BY <1>3
    <3>. HIDE DEF k
    <3>2. F[i] = U[E(i)] - U[lo[a]] - i
      BY <3>1, <2>2
    <3>3. F[k] = F[k - 1] + s[k]
      BY <3>1, <1>6, <1>7
    <3>4. s[k] = U[E(k)] - U[E(k - 1)] - 1
      BY <3>1, <1>4, <1>6
    <3>5. U[E(k)] \in Int /\ U[E(i)] \in Int /\ U[E(0)] \in Int
      BY <3>1, <1>5
    <3>. DEFINE x == U[E(k)]
                y == U[E(i)]
                z == U[lo[a]]
                f == F[i]
    <3>6. /\ x \in Int /\ y \in Int /\ z \in Int /\ f = y - z - i
          /\ F[k] = f + (x - y - 1)
      BY <3>1, <3>2, <3>3, <3>4, <3>5, <1>1
    <3>. HIDE DEF x, y, z, f
    <3>7. F[k] = x - z - (i + 1)
      BY <3>6
    <3>. QED
      BY <3>7 DEF k, x, z
  <2>. QED
    BY <2>1, <2>2, NatSetInduction
<1>9. F[n] = U[E(n)] - U[lo[a]] - n
  BY <1>3, <1>8
<1>. QED
  BY <1>6, <1>7, <1>9 DEF SumCounts, s, n, E, U

-----------------------------------------------------------------------------
\* The count of n is what its keys and the counts of its children make.
LocalCount(H, n) ==
  /\ TreeCount(n) \in Int
  /\ TreeCount(n) = Len(n.keys) + SumCounts(H, n.children)

\* A leaf has no counts to add.
LEMMA NoCounts ==
  ASSUME NEW G, NEW e \in Numbers, Len(e) = 0
  PROVE  Counts(G, e) \in Numbers /\ Len(Counts(G, e)) = 0 /\ SumCounts(G, e) = 0
<1>1. Counts(G, e) = <<>>
  <2>1. 1..Len(e) = {}
    OBVIOUS
  <2>2. Counts(G, e) = [i \in {} |-> TreeCount(G[e[i]])]
    BY <2>1 DEF Counts
  <2>3. <<>> = [i \in {} |-> TreeCount(G[e[i]])]
    OBVIOUS
  <2>. QED
    BY <2>2, <2>3
<1>. QED
  BY <1>1, NoNumbers, TotalNone DEF SumCounts

\* The counted items of a node are those between its bounds.
LEMMA FormCount ==
  ASSUME NEW D, NEW H, NEW rt, NEW ht, NEW lv, NEW lo, NEW hi, NEW M,
         Form(D, H, rt, ht, lv, lo, hi, M), NEW a \in D
  PROVE  /\ LocalCount(H, H[a])
         /\ Counts(H, H[a].children) \in Numbers
         /\ TreeCount(H[a]) = Upto(M)[hi[a]] - Upto(M)[lo[a]] - 1
         /\ Upto(M)[hi[a]] \in Int /\ Upto(M)[lo[a]] \in Int
<1>. DEFINE m == Len(H[a].keys)
            U == Upto(M)
            e == H[a].children
            x == U[lo[a]]
            y == U[hi[a]]
            z == SumCounts(H, e)
            t == TreeCount(H[a])
<1>1. m \in Nat /\ e \in Numbers /\ (H[a].leaf <=> lv[a] = 1)
      /\ Len(e) = IF lv[a] = 1 THEN 0 ELSE m + 1
  BY FormNode
<1>2. x \in Int /\ y \in Int
  <2>1. M \subseteq 1..Top /\ lo[a] \in 0..Top /\ hi[a] \in 0..Top
    BY DEF Form, Typed
  <2>2. U \in [0..Top -> Nat]
    BY <2>1, UptoType
  <2>. HIDE DEF U
  <2>. QED
    BY <2>1, <2>2
<1>3. t = y - x - 1
  BY DEF Form, Counted
<1>4. CASE lv[a] = 1
  <2>1. z = 0 /\ Counts(H, e) \in Numbers
    BY <1>1, <1>4, NoCounts
  <2>2. t = m
    BY <1>1, <1>4 DEF TreeCount, NumItems
  <2>. QED
    BY <2>1, <2>2, <1>1, <1>2, <1>3 DEF LocalCount
<1>5. CASE lv[a] # 1
  <2>1. Len(e) = m + 1
    BY <1>1, <1>5
  <2>2. /\ Counts(H, e) \in Numbers
        /\ z = U[Edge(H[a], lo[a], hi[a], Len(e))] - x - Len(e)
    <3>1. e \in Numbers /\ Len(e) <= Len(H[a].keys) + 1 /\ lv[a] # 1
      BY <2>1, <1>1, <1>5
    <3>2. /\ \A k \in 1..Len(e) : e[k] = H[a].children[k]
          /\ \A k \in 1..Len(e) : TreeCount(H[e[k]]) = TreeCount(H[e[k]])
      OBVIOUS
    <3>. HIDE DEF e
    <3>3. /\ Counts(H, e) \in Numbers
          /\ SumCounts(H, e) = Upto(M)[Edge(H[a], lo[a], hi[a], Len(e))] - Upto(M)[lo[a]] - Len(e)
      BY <3>1, <3>2, SpanCount
    <3>. QED
      BY <3>3
  <2>3. Edge(H[a], lo[a], hi[a], m + 1) = hi[a]
    BY FormEdges
  <2>4. z = y - x - (m + 1)
    BY <2>1, <2>2, <2>3
  <2>. HIDE DEF x, y, z, m, t
  <2>5. t = m + z /\ t \in Int
    BY <2>4, <1>1, <1>2, <1>3
  <2>. QED
    BY <2>2, <2>5, <1>2, <1>3 DEF LocalCount, x, y, z, m, t
<1>. QED
  BY <1>4, <1>5

\* The left half counts its items if it counts its keys and children.
LEMMA HalfCount ==
  ASSUME NEW D, NEW W, NEW N, NEW rt, NEW ht, NEW lv, NEW lo, NEW hi, NEW M,
         NEW p, NEW j, NEW L, NEW R,
         Form(D \ {R}, N, rt, ht, lv, lo, hi, M), Joined(D, W, N, p, j, L, R),
         Whole(W[L]), LocalCount(W, W[L])
  PROVE  TreeCount(W[L]) = Upto(M)[W[p].keys[j]] - Upto(M)[lo[L]] - 1
<1>. DEFINE D2 == D \ {R}
            U == Upto(M)
            a == Len(W[L].keys)
            b == Len(W[R].keys)
            e == W[L].children
            x == U[W[p].keys[j]]
            y == U[lo[L]]
            t == TreeCount(W[L])
            z == SumCounts(W, e)
<1>1. /\ p \in D2 /\ L \in D2 /\ R \in D /\ L # R /\ p # L /\ p # R
      /\ W[p].keys[j] = Edge(N[L], lo[L], hi[L], a + 1)
      /\ lo[L] \in Int /\ hi[L] \in Int /\ W[p].keys[j] \in 0..Top
      /\ lv[L] = lv[p] - 1 /\ lv[p] \in Int
  BY CutFacts
<1>2. /\ a \in Nat /\ b \in Nat /\ Len(N[L].keys) = a + 1 + b
      /\ \A k \in 1..Len(e) : N[L].children[k] = e[k]
      /\ Len(e) \in Nat /\ Len(W[R].children) \in Nat
      /\ Len(N[L].children) = Len(e) + Len(W[R].children)
  <2>1. Halves(W, N, p, j, L, R, lo[L], hi[L])
    BY <1>1, JoinedChild
  <2>. QED
    BY <2>1 DEF Halves
<1>3. (N[L].leaf <=> W[L].leaf) /\ (N[L].leaf <=> lv[L] = 1) /\ lv[L] \in Nat /\ e \in Numbers
  <2>1. (N[L].leaf <=> W[L].leaf) /\ W[L] \in NodeSet
    BY DEF Joined
  <2>2. (N[L].leaf <=> lv[L] = 1) /\ lv[L] \in Nat
    BY <1>1, FormNode
  <2>. QED
    BY <2>1, <2>2, NodeFacts
<1>4. x \in Int /\ y \in Int
  <2>1. M \subseteq 1..Top /\ lo[L] \in 0..Top
    BY <1>1 DEF Form, Typed
  <2>2. U \in [0..Top -> Nat]
    BY <2>1, UptoType
  <2>. HIDE DEF U
  <2>. QED
    BY <2>1, <2>2, <1>1
<1>5. t \in Int /\ t = a + z
  BY DEF LocalCount
<1>6. CASE lv[L] = 1
  <2>1. W[L].leaf /\ Len(e) = 0
    BY <1>3, <1>6 DEF Whole
  <2>2. t = a
    BY <2>1 DEF TreeCount, NumItems
  <2>3. LeafRanks(N, lo, hi, M, L)
    <3>1. L \in D \ {R} /\ lv[L] = 1
      BY <1>1, <1>6
    <3>. QED
      BY <3>1, LeafFull
  <2>. DEFINE h == a + 1
              g == Len(N[L].keys) + 1
  <2>8. a \in Nat /\ b \in Nat /\ Len(N[L].keys) = a + 1 + b
    BY <1>2
  <2>. HIDE DEF a, b
  <2>4. h \in 0..g
    BY <2>8
  <2>. HIDE DEF h, U
  <2>7. U[Edge(N[L], lo[L], hi[L], h)] = U[lo[L]] + h
    BY <2>3, <2>4 DEF LeafRanks, U
  <2>5. x = y + (a + 1)
    BY <2>7, <1>1 DEF h
  <2>. HIDE DEF x, y, t, a
  <2>6. t = x - y - 1
    BY <2>8, <1>4, <2>2, <2>5
  <2>. QED
    BY <2>6 DEF x, y, t, U
<1>7. CASE lv[L] # 1
  <2>1. Len(e) = a + 1
    <3>1. ~ W[L].leaf /\ Whole(W[L])
      BY <1>3, <1>7
    <3>. QED
      BY <3>1 DEF Whole
  <2>2. Len(e) <= Len(N[L].keys) + 1
    <3>1. a \in Nat /\ b \in Nat /\ Len(e) = a + 1 /\ Len(N[L].keys) = a + 1 + b
      BY <2>1, <1>2
    <3>. HIDE DEF a, b, e
    <3>. QED
      BY <3>1
  <2>3. \A k \in 1..Len(e) : TreeCount(W[e[k]]) = TreeCount(N[e[k]])
    <3>. SUFFICES ASSUME NEW k \in 1..Len(e) PROVE TreeCount(W[e[k]]) = TreeCount(N[e[k]])
      OBVIOUS
    <3>. DEFINE c == e[k]
    <3>1. k \in 1..Len(N[L].children) /\ c = N[L].children[k]
      <4>. DEFINE n == Len(e)
                  d == Len(W[R].children)
                  g == Len(N[L].children)
      <4>1. k \in 1..n /\ n \in Nat /\ d \in Nat /\ g = n + d
        BY <1>2
      <4>. HIDE DEF n, d, g
      <4>2. k \in 1..g
        BY <4>1
      <4>. QED
        BY <4>2, <1>2 DEF g
    <3>2. c \in D2 /\ lv[c] = lv[L] - 1
      BY <3>1, <1>1 DEF Form, Linked
    <3>3. c # L /\ c # p
      BY <3>2, <1>1
    <3>4. W[c] = N[c]
      BY <3>2, <3>3 DEF Joined
    <3>. QED
      BY <3>4
  <2>4. z = U[Edge(N[L], lo[L], hi[L], Len(e))] - U[lo[L]] - Len(e)
    <3>1. \A k \in 1..Len(e) : e[k] = N[L].children[k]
      BY <1>2
    <3>2. L \in D \ {R} /\ lv[L] # 1 /\ e \in Numbers
      BY <1>1, <1>3, <1>7
    <3>. HIDE DEF e
    <3>3. SumCounts(W, e) = Upto(M)[Edge(N[L], lo[L], hi[L], Len(e))] - Upto(M)[lo[L]] - Len(e)
      BY <3>1, <3>2, <2>2, <2>3, SpanCount
    <3>. QED
      BY <3>3
  <2>5. z = x - y - (a + 1)
    BY <2>1, <2>4, <1>1
  <2>. HIDE DEF x, y, z, t, a
  <2>6. t = x - y - 1
    BY <1>2, <1>4, <1>5, <2>5
  <2>. QED
    BY <2>6 DEF x, y, t
<1>. QED
  BY <1>6, <1>7

-----------------------------------------------------------------------------
JoinOf(D, W, p, j, L, R) ==
  [b \in D \ {R} |->
     IF b = p THEN [W[p] EXCEPT !.keys = Ext!RemoveAt(@, j), !.children = Ext!RemoveAt(@, j + 1)]
     ELSE IF b = L
     THEN [leaf |-> W[L].leaf, keys |-> Link(W[L].keys, W[p].keys[j], W[R].keys),
           children |-> W[L].children \o W[R].children,
           cnt |-> TreeCount(W[L]) + TreeCount(W[R]) + 1]
     ELSE W[b]]

\* A count is a number.
LEMMA TreeCountType ==
  ASSUME NEW n \in NodeSet
  PROVE  TreeCount(n) \in Int
BY NodeFacts DEF TreeCount, NumItems

\* p with the neighbours L and R at positions j and j + 1.
Neighbours(D, W, p, j, L, R) ==
  /\ p \in D /\ L \in D /\ R \in D /\ p # L /\ p # R /\ L # R
  /\ W \in [D -> NodeSet]
  /\ j \in 1..Len(W[p].keys) /\ W[p].children[j] = L /\ W[p].children[j + 1] = R
  /\ Len(W[p].children) = Len(W[p].keys) + 1
  /\ ~ W[p].leaf /\ (W[R].leaf <=> W[L].leaf)

\* t is s without its element at j.
LEMMA RemoveWithout ==
  ASSUME NEW s \in Numbers, NEW j \in 1..Len(s)
  PROVE  Ext!RemoveAt(s, j) \in Numbers /\ Without(s, Ext!RemoveAt(s, j), j)
<1>. DEFINE t == Ext!RemoveAt(s, j)
<1>1. /\ t \in Numbers /\ Len(t) = Len(s) - 1
      /\ \A k \in 1..(j - 1) : t[k] = s[k]
      /\ \A k \in j..(Len(s) - 1) : t[k] = s[k + 1]
  BY RemoveNumber
<1>2. Len(s) \in Nat
  BY NumbersFacts
<1>. HIDE DEF t
<1>3. Without(s, t, j)
  BY <1>1, <1>2 DEF Without
<1>. QED
  BY <1>1, <1>3 DEF t

\* Two neighbours can be joined.
LEMMA JoinExists ==
  ASSUME NEW D, NEW W, NEW p, NEW j, NEW L, NEW R, Neighbours(D, W, p, j, L, R)
  PROVE  Joined(D, W, JoinOf(D, W, p, j, L, R), p, j, L, R)
<1>. DEFINE N == JoinOf(D, W, p, j, L, R)
            s == W[p].keys
            t == W[p].children
            x == W[p].keys[j]
            P == [W[p] EXCEPT !.keys = Ext!RemoveAt(@, j), !.children = Ext!RemoveAt(@, j + 1)]
            Q == [leaf |-> W[L].leaf, keys |-> Link(W[L].keys, x, W[R].keys),
                  children |-> W[L].children \o W[R].children,
                  cnt |-> TreeCount(W[L]) + TreeCount(W[R]) + 1]
<1>1. /\ p \in D /\ L \in D /\ R \in D /\ p # L /\ p # R /\ L # R
      /\ W \in [D -> NodeSet] /\ j \in 1..Len(s) /\ Len(t) = Len(s) + 1
      /\ ~ W[p].leaf /\ (W[R].leaf <=> W[L].leaf)
  BY DEF Neighbours
<1>2. W[p] \in NodeSet /\ W[L] \in NodeSet /\ W[R] \in NodeSet
  BY <1>1
<1>3. /\ s \in Numbers /\ t \in Numbers /\ x \in Int /\ Len(s) \in Nat
      /\ W[L].keys \in Numbers /\ W[R].keys \in Numbers
      /\ W[L].children \in Numbers /\ W[R].children \in Numbers
      /\ W[L].leaf \in BOOLEAN
  BY <1>1, <1>2, NodeFacts
<1>4. Ext!RemoveAt(s, j) \in Numbers /\ Without(s, Ext!RemoveAt(s, j), j)
  BY <1>1, <1>3, RemoveWithout
<1>5. Ext!RemoveAt(t, j + 1) \in Numbers /\ Without(t, Ext!RemoveAt(t, j + 1), j + 1)
  <2>1. j + 1 \in 1..Len(t)
    BY <1>1, <1>3
  <2>. QED
    BY <2>1, <1>3, RemoveWithout
<1>6. P \in NodeSet /\ P.keys = Ext!RemoveAt(s, j) /\ P.children = Ext!RemoveAt(t, j + 1)
      /\ P.leaf = W[p].leaf /\ P.cnt = W[p].cnt
  BY <1>2, <1>4, <1>5 DEF NodeSet
<1>7. Link(W[L].keys, x, W[R].keys) \in Numbers
  BY <1>3, LinkNumbers
<1>8. W[L].children \o W[R].children \in Numbers
  BY <1>3, JoinNumbers
<1>9. TreeCount(W[L]) \in Int /\ TreeCount(W[R]) \in Int
  BY <1>2, TreeCountType
<1>10. Q \in NodeSet
  BY <1>3, <1>7, <1>8, <1>9 DEF NodeSet
<1>11. TreeCount(Q) = TreeCount(W[L]) + TreeCount(W[R]) + 1
  <2>1. CASE W[L].leaf
    <3>1. TreeCount(W[L]) = Len(W[L].keys) /\ TreeCount(W[R]) = Len(W[R].keys)
      BY <2>1, <1>1 DEF TreeCount, NumItems
    <3>5. (Q.leaf <=> W[L].leaf) /\ Q.keys = Link(W[L].keys, x, W[R].keys)
      OBVIOUS
    <3>. HIDE DEF Q, x
    <3>2. TreeCount(Q) = Len(Link(W[L].keys, x, W[R].keys))
      BY <2>1, <3>5 DEF TreeCount, NumItems
    <3>. DEFINE g == W[L].keys
                h == W[R].keys
    <3>3. g \in Numbers /\ h \in Numbers /\ x \in Int
      BY <1>3
    <3>. HIDE DEF g, h
    <3>4. Len(Link(g, x, h)) = Len(g) + 1 + Len(h)
      BY <3>3, LinkNumbers
    <3>6. Len(g) \in Nat /\ Len(h) \in Nat
      BY <3>3, NumbersFacts
    <3>7. TreeCount(Q) = Len(g) + 1 + Len(h)
      BY <3>2, <3>4 DEF g, h
    <3>8. TreeCount(W[L]) = Len(g) /\ TreeCount(W[R]) = Len(h)
      BY <3>1 DEF g, h
    <3>. QED
      BY <3>6, <3>7, <3>8
  <2>2. CASE ~ W[L].leaf
    BY <2>2 DEF TreeCount
  <2>. QED
    BY <2>1, <2>2
<1>12. N = [b \in D \ {R} |-> IF b = p THEN P ELSE IF b = L THEN Q ELSE W[b]]
  BY DEF JoinOf
<1>. HIDE DEF N, P, Q
<1>13. N \in [D \ {R} -> NodeSet]
  BY <1>1, <1>6, <1>10, <1>12
<1>14. N[p] = P /\ N[L] = Q /\ \A b \in D \ {p, L, R} : N[b] = W[b]
  BY <1>1, <1>12
<1>15. Q.leaf = W[L].leaf /\ Q.keys = Link(W[L].keys, x, W[R].keys)
       /\ Q.children = W[L].children \o W[R].children
  BY DEF Q
<1>16. Joined(D, W, N, p, j, L, R)
  BY <1>1, <1>4, <1>5, <1>6, <1>11, <1>13, <1>14, <1>15 DEF Joined, Neighbours
<1>. QED
  BY <1>16 DEF N

\* W is V after items have moved between the neighbours L and R, through p.
Shifted(D, V, W, p, j, L, R) ==
  /\ W \in [D -> NodeSet]
  /\ \A b \in D \ {p, L, R} : W[b] = V[b]
  /\ ~ W[p].leaf /\ W[p].cnt = V[p].cnt /\ W[p].children = V[p].children
  /\ Len(W[p].keys) = Len(V[p].keys)
  /\ \A i \in 1..Len(V[p].keys) : i # j => W[p].keys[i] = V[p].keys[i]
  /\ (W[L].leaf <=> V[L].leaf) /\ (W[R].leaf <=> V[R].leaf)
  /\ Link(W[L].keys, W[p].keys[j], W[R].keys) = Link(V[L].keys, V[p].keys[j], V[R].keys)
  /\ W[L].children \o W[R].children = V[L].children \o V[R].children
  /\ TreeCount(W[L]) + TreeCount(W[R]) = TreeCount(V[L]) + TreeCount(V[R])

\* Items moved from a node to its neighbour leave the two joined the same.
LEMMA ShiftJoins ==
  ASSUME NEW D, NEW V, NEW W, NEW N, NEW p, NEW j, NEW L, NEW R,
         Joined(D, V, N, p, j, L, R), Shifted(D, V, W, p, j, L, R)
  PROVE  Joined(D, W, N, p, j, L, R)
<1>1. Without(W[p].keys, N[p].keys, j)
  <2>. DEFINE s == V[p].keys
              t == N[p].keys
              u == W[p].keys
  <2>1. /\ Len(s) = Len(t) + 1
        /\ \A k \in 1..(j - 1) : t[k] = s[k]
        /\ \A k \in j..Len(t) : t[k] = s[k + 1]
    BY DEF Joined, Without
  <2>2. j \in 1..Len(s) /\ Len(u) = Len(s) /\ \A i \in 1..Len(s) : i # j => u[i] = s[i]
    BY DEF Joined, Shifted
  <2>3. Len(s) \in Nat /\ Len(t) \in Nat
    <3>1. V[p] \in NodeSet /\ N[p] \in NodeSet
      BY DEF Joined
    <3>. QED
      BY <3>1, NodeFacts
  <2>. HIDE DEF s, t, u
  <2>4. \A k \in 1..(j - 1) : k \in 1..Len(s) /\ k # j
    BY <2>2, <2>3
  <2>5. \A k \in j..Len(t) : k + 1 \in 1..Len(s) /\ k + 1 # j
    BY <2>1, <2>2, <2>3
  <2>6. Without(u, t, j)
    <3>1. Len(u) = Len(t) + 1
      BY <2>1, <2>2
    <3>2. \A k \in 1..(j - 1) : t[k] = u[k]
      BY <2>1, <2>2, <2>4
    <3>3. \A k \in j..Len(t) : t[k] = u[k + 1]
      <4>. SUFFICES ASSUME NEW k \in j..Len(t) PROVE t[k] = u[k + 1]
        OBVIOUS
      <4>. DEFINE h == k + 1
      <4>1. h \in 1..Len(s) /\ h # j /\ t[k] = s[h]
        BY <2>1, <2>5
      <4>. HIDE DEF h
      <4>2. t[k] = u[h]
        BY <4>1, <2>2
      <4>. QED
        BY <4>2 DEF h
    <3>. QED
      BY <3>1, <3>2, <3>3 DEF Without
  <2>. QED
    BY <2>6 DEF t, u
<1>2. /\ p \in D /\ L \in D /\ R \in D /\ p # L /\ p # R /\ L # R
      /\ N \in [D \ {R} -> NodeSet]
      /\ \A b \in D \ {p, L, R} : N[b] = V[b]
      /\ j \in 1..Len(V[p].keys) /\ V[p].children[j] = L /\ V[p].children[j + 1] = R
      /\ Len(V[p].children) = Len(V[p].keys) + 1
      /\ ~ N[p].leaf /\ N[p].cnt = V[p].cnt
      /\ Without(V[p].children, N[p].children, j + 1)
      /\ (N[L].leaf <=> V[L].leaf) /\ (V[R].leaf <=> V[L].leaf)
      /\ N[L].keys = Link(V[L].keys, V[p].keys[j], V[R].keys)
      /\ N[L].children = V[L].children \o V[R].children
      /\ TreeCount(N[L]) = TreeCount(V[L]) + TreeCount(V[R]) + 1
  BY DEF Joined
<1>. QED
  BY <1>1, <1>2 DEF Joined, Shifted

\* Two neighbours of a tree in order.
LEMMA FormNeighbours ==
  ASSUME NEW D, NEW H, NEW rt, NEW ht, NEW lv, NEW lo, NEW hi, NEW M,
         Form(D, H, rt, ht, lv, lo, hi, M), NEW p \in D, lv[p] # 1,
         NEW j \in 1..Len(H[p].keys)
  PROVE  Neighbours(D, H, p, j, H[p].children[j], H[p].children[j + 1])
<1>. DEFINE m == Len(H[p].keys)
            k == j + 1
            L == H[p].children[j]
            R == H[p].children[k]
<1>1. /\ m \in Nat /\ lv[p] \in Nat /\ (H[p].leaf <=> lv[p] = 1)
      /\ Len(H[p].children) = IF lv[p] = 1 THEN 0 ELSE m + 1
  BY FormNode
<1>2. Len(H[p].children) = m + 1 /\ ~ H[p].leaf
  BY <1>1
<1>3. j \in 1..Len(H[p].children) /\ k \in 1..Len(H[p].children) /\ j # k
  BY <1>1, <1>2
<1>4. L \in D /\ lv[L] = lv[p] - 1
  BY <1>3, FormChild
<1>. HIDE DEF k
<1>5. R \in D /\ lv[R] = lv[p] - 1
  BY <1>3, FormChild
<1>6. L # R
  <2>. SUFFICES ASSUME L = R PROVE FALSE
    OBVIOUS
  <2>1. j = k
    BY <1>3, OneParent
  <2>. QED
    BY <2>1, <1>3
<1>7. p # L /\ p # R
  BY <1>1, <1>4, <1>5
<1>8. H[L].leaf <=> H[R].leaf
  <2>. HIDE DEF L, R
  <2>2. H[L].leaf <=> lv[L] = 1
    BY <1>4, FormNode
  <2>1. H[R].leaf <=> lv[R] = 1
    BY <1>5, FormNode
  <2>. QED
    BY <2>1, <2>2, <1>4, <1>5
<1>9. H \in [D -> NodeSet]
  BY DEF Form, Typed
<1>10. Neighbours(D, H, p, j, L, R)
  BY <1>2, <1>4, <1>5, <1>6, <1>7, <1>8, <1>9 DEF Neighbours, k
<1>. QED
  BY <1>10 DEF k

-----------------------------------------------------------------------------
(* Every level of a tree in order covers all numbers; every node but the    *)
(* root has a parent.                                                       *)

\* z lies between the bounds of a.
In(lo, hi, a, z) == lo[a] < z /\ z <= hi[a]

\* A number between the bounds of a node lies between two of its edges.
LEMMA EdgeAt ==
  ASSUME NEW D, NEW H, NEW rt, NEW ht, NEW lv, NEW lo, NEW hi, NEW M,
         Form(D, H, rt, ht, lv, lo, hi, M), NEW a \in D,
         NEW z \in Int, In(lo, hi, a, z)
  PROVE  \E i \in 1..(Len(H[a].keys) + 1) :
           Edge(H[a], lo[a], hi[a], i - 1) < z /\ z <= Edge(H[a], lo[a], hi[a], i)
<1>. DEFINE m == Len(H[a].keys)
            n == m + 1
            E(i) == Edge(H[a], lo[a], hi[a], i)
            P == {i \in 1..n : z <= E(i)}
<1>1. /\ m \in Nat /\ E(0) = lo[a] /\ E(n) = hi[a] /\ \A i \in 0..n : E(i) \in Int
  BY FormEdges
<1>2. n \in Nat /\ n >= 1
  BY <1>1
<1>3. E(0) < z /\ z <= E(n)
  BY <1>1 DEF In
<1>. HIDE DEF n, E
<1>4. P \in SUBSET Nat /\ P # {}
  BY <1>2, <1>3
<1>5. PICK i \in P : \A k \in P : i <= k
  BY <1>4, LeastExists
<1>6. i \in 1..n /\ z <= E(i)
  BY <1>5
<1>7. E(i - 1) < z
  <2>1. CASE i = 1
    BY <2>1, <1>3
  <2>2. CASE i # 1
    <3>1. i - 1 \in 1..n /\ i - 1 \in 0..n /\ ~ (i <= i - 1)
      BY <2>2, <1>2, <1>6
    <3>2. ~ (z <= E(i - 1))
      BY <3>1, <1>5
    <3>. QED
      BY <3>1, <3>2, <1>1
  <2>. QED
    BY <2>1, <2>2
<1>. QED
  BY <1>6, <1>7 DEF n, E

\* A number between the bounds of an inner node is between those of a child.
LEMMA ChildIn ==
  ASSUME NEW D, NEW H, NEW rt, NEW ht, NEW lv, NEW lo, NEW hi, NEW M,
         Form(D, H, rt, ht, lv, lo, hi, M), NEW a \in D, lv[a] # 1,
         NEW z \in Int, In(lo, hi, a, z)
  PROVE  \E i \in 1..Len(H[a].children) :
           /\ H[a].children[i] \in D /\ lv[H[a].children[i]] = lv[a] - 1
           /\ In(lo, hi, H[a].children[i], z)
<1>1. PICK i \in 1..(Len(H[a].keys) + 1) :
         Edge(H[a], lo[a], hi[a], i - 1) < z /\ z <= Edge(H[a], lo[a], hi[a], i)
  BY EdgeAt
<1>2. Len(H[a].children) = Len(H[a].keys) + 1
  <2>1. Len(H[a].children) = IF lv[a] = 1 THEN 0 ELSE Len(H[a].keys) + 1
    BY FormNode
  <2>. QED
    BY <2>1
<1>3. i \in 1..Len(H[a].children)
  BY <1>1, <1>2
<1>4. LET c == H[a].children[i] IN
      /\ c \in D /\ lv[c] = lv[a] - 1
      /\ lo[c] = Edge(H[a], lo[a], hi[a], i - 1) /\ hi[c] = Edge(H[a], lo[a], hi[a], i)
  BY <1>3 DEF Form, Linked
<1>5. In(lo, hi, H[a].children[i], z)
  BY <1>1, <1>4 DEF In
<1>. QED
  BY <1>3, <1>4, <1>5

\* Every number lies between the bounds of a node of every level.
LEMMA LevelCovers ==
  ASSUME NEW D, NEW H, NEW rt, NEW ht, NEW lv, NEW lo, NEW hi, NEW M,
         Form(D, H, rt, ht, lv, lo, hi, M), NEW z \in 1..Top, NEW l \in 1..ht
  PROVE  \E a \in D : lv[a] = l /\ In(lo, hi, a, z)
<1>. DEFINE S == {d \in Nat : d < ht => \E a \in D : lv[a] = ht - d /\ In(lo, hi, a, z)}
<1>1. rt \in D /\ lv[rt] = ht /\ lo[rt] = 0 /\ hi[rt] = Top /\ ht \in Nat
  BY DEF Form, Rooted, Typed
<1>2. z \in Int /\ 0 < z /\ z <= Top
  BY TopType
<1>3. 0 \in S
  BY <1>1, <1>2 DEF In
<1>4. ASSUME NEW d \in Nat, d \in S PROVE d + 1 \in S
  <2>. SUFFICES ASSUME d + 1 < ht PROVE \E a \in D : lv[a] = ht - (d + 1) /\ In(lo, hi, a, z)
    OBVIOUS
  <2>1. d < ht /\ ht - d # 1 /\ (ht - d) - 1 = ht - (d + 1)
    BY <1>1
  <2>2. PICK a \in D : lv[a] = ht - d /\ In(lo, hi, a, z)
    BY <2>1, <1>4
  <2>3. \E i \in 1..Len(H[a].children) :
           /\ H[a].children[i] \in D /\ lv[H[a].children[i]] = lv[a] - 1
           /\ In(lo, hi, H[a].children[i], z)
    BY <2>1, <2>2, <1>2, ChildIn
  <2>. QED
    BY <2>1, <2>2, <2>3
<1>5. Nat \subseteq S
  BY <1>3, <1>4, NatSetInduction
<1>6. ht - l \in Nat /\ ht - l < ht /\ ht - (ht - l) = l
  BY <1>1
<1>7. ht - l \in S
  BY <1>5, <1>6
<1>. QED
  BY <1>6, <1>7

\* Two nodes of a level that share a number are one.
LEMMA SameNode ==
  ASSUME NEW D, NEW H, NEW rt, NEW ht, NEW lv, NEW lo, NEW hi, NEW M,
         Form(D, H, rt, ht, lv, lo, hi, M), NEW a \in D, NEW b \in D, lv[a] = lv[b],
         NEW z \in Int, In(lo, hi, a, z), In(lo, hi, b, z)
  PROVE  a = b
<1>1. a # b => hi[a] <= lo[b] \/ hi[b] <= lo[a]
  BY DEF Form, Apart
<1>2. lo[a] \in Int /\ hi[a] \in Int
  BY FormNode
<1>3. lo[b] \in Int /\ hi[b] \in Int
  BY FormNode
<1>. QED
  BY <1>1, <1>2, <1>3 DEF In

\* Every node but the root is the child of a node.
LEMMA ParentExists ==
  ASSUME NEW D, NEW H, NEW rt, NEW ht, NEW lv, NEW lo, NEW hi, NEW M,
         Form(D, H, rt, ht, lv, lo, hi, M), NEW b \in D, lv[b] < ht
  PROVE  \E a \in D : \E i \in 1..Len(H[a].children) :
           H[a].children[i] = b /\ lv[a] = lv[b] + 1
<1>. DEFINE z == hi[b]
            l == lv[b] + 1
<1>1. /\ lv[b] \in Nat /\ lv[b] >= 1 /\ ht \in Nat /\ 0 <= lo[b] /\ lo[b] < z /\ z <= Top
      /\ lo[b] \in Int /\ z \in Int
  BY FormNode
<1>2. l \in 1..ht /\ z \in 1..Top /\ l # 1 /\ l - 1 = lv[b]
  BY <1>1, TopType
<1>. HIDE DEF z, l
<1>3. PICK a \in D : lv[a] = l /\ In(lo, hi, a, z)
  BY <1>2, LevelCovers
<1>4. lv[a] # 1 /\ z \in Int
  BY <1>1, <1>2, <1>3
<1>5. PICK i \in 1..Len(H[a].children) :
           /\ H[a].children[i] \in D /\ lv[H[a].children[i]] = lv[a] - 1
           /\ In(lo, hi, H[a].children[i], z)
  BY <1>3, <1>4, ChildIn
<1>6. In(lo, hi, b, z)
  BY <1>1 DEF In, z
<1>7. lv[H[a].children[i]] = lv[b]
  BY <1>2, <1>3, <1>5
<1>8. H[a].children[i] = b
  BY <1>4, <1>5, <1>6, <1>7, SameNode
<1>. QED
  BY <1>3, <1>5, <1>8 DEF l

\* The nodes above a node, one at each level, enclose it.
LEMMA Ancestors ==
  ASSUME NEW D, NEW H, NEW rt, NEW ht, NEW lv, NEW lo, NEW hi, NEW M,
         Form(D, H, rt, ht, lv, lo, hi, M), NEW a \in D, NEW l \in lv[a]..ht
  PROVE  \E b \in D : lv[b] = l /\ lo[b] <= lo[a] /\ hi[a] <= hi[b]
<1>. DEFINE S == {d \in Nat : lv[a] + d <= ht =>
                    \E b \in D : lv[b] = lv[a] + d /\ lo[b] <= lo[a] /\ hi[a] <= hi[b]}
<1>1. lv[a] \in Nat /\ ht \in Nat /\ lo[a] \in Int /\ hi[a] \in Int
  BY FormNode
<1>2. 0 \in S
  BY <1>1
<1>3. ASSUME NEW d \in Nat, d \in S PROVE d + 1 \in S
  <2>. SUFFICES ASSUME lv[a] + (d + 1) <= ht
                PROVE \E b \in D : lv[b] = lv[a] + (d + 1) /\ lo[b] <= lo[a] /\ hi[a] <= hi[b]
    OBVIOUS
  <2>1. lv[a] + d <= ht /\ lv[a] + d < ht /\ (lv[a] + d) + 1 = lv[a] + (d + 1)
    BY <1>1
  <2>2. PICK c \in D : lv[c] = lv[a] + d /\ lo[c] <= lo[a] /\ hi[a] <= hi[c]
    BY <2>1, <1>3
  <2>3. PICK b \in D : \E i \in 1..Len(H[b].children) :
           H[b].children[i] = c /\ lv[b] = lv[c] + 1
    BY <2>1, <2>2, ParentExists
  <2>4. PICK i \in 1..Len(H[b].children) : H[b].children[i] = c /\ lv[b] = lv[c] + 1
    BY <2>3
  <2>5. lo[b] <= lo[c] /\ hi[c] <= hi[b]
    BY <2>4, FormChild
  <2>6. lo[b] \in Int /\ hi[b] \in Int
    BY FormNode
  <2>7. lo[c] \in Int /\ hi[c] \in Int
    BY <2>2, FormNode
  <2>8. lo[b] <= lo[a] /\ hi[a] <= hi[b]
    <3>. DEFINE q == lo[b]
                r == lo[c]
                s == lo[a]
                u == hi[a]
                v == hi[c]
                w == hi[b]
    <3>1. /\ q \in Int /\ r \in Int /\ s \in Int /\ u \in Int /\ v \in Int /\ w \in Int
          /\ q <= r /\ r <= s /\ u <= v /\ v <= w
      BY <2>2, <2>5, <2>6, <2>7, <1>1
    <3>. HIDE DEF q, r, s, u, v, w
    <3>2. q <= s /\ u <= w
      BY <3>1
    <3>. QED
      BY <3>2 DEF q, s, u, w
  <2>. QED
    BY <2>1, <2>2, <2>4, <2>8
<1>4. Nat \subseteq S
  BY <1>2, <1>3, NatSetInduction
<1>5. l - lv[a] \in Nat /\ lv[a] + (l - lv[a]) = l /\ l <= ht
  BY <1>1
<1>6. l - lv[a] \in S
  BY <1>4, <1>5
<1>. QED
  BY <1>5, <1>6

\* No bound of a node is strictly between the bounds of a node below its level,
\* and no item of a node above it either.
LEMMA BoundsOutside ==
  ASSUME NEW D, NEW H, NEW rt, NEW ht, NEW lv, NEW lo, NEW hi, NEW M,
         Form(D, H, rt, ht, lv, lo, hi, M), NEW a \in D, NEW b \in D, lv[a] <= lv[b],
         NEW x \in Int, lo[a] < x, x < hi[a]
  PROVE  x # lo[b] /\ x # hi[b]
<1>1. lv[a] \in Nat /\ lo[a] \in Int /\ hi[a] \in Int
  BY FormNode
<1>2. lv[b] \in Nat /\ lv[b] <= ht /\ ht \in Nat /\ lo[b] \in Int /\ hi[b] \in Int /\ lo[b] < hi[b]
  BY FormNode
<1>3. lv[b] \in lv[a]..ht
  BY <1>1, <1>2
<1>4. PICK c \in D : lv[c] = lv[b] /\ lo[c] <= lo[a] /\ hi[a] <= hi[c]
  BY <1>3, Ancestors
<1>5. lo[c] \in Int /\ hi[c] \in Int
  BY FormNode
<1>6. c = b \/ hi[c] <= lo[b] \/ hi[b] <= lo[c]
  BY <1>4 DEF Form, Apart
<1>. QED
  BY <1>1, <1>2, <1>4, <1>5, <1>6

\* An item between the bounds of a node is an item of no other node at its
\* level or above.
LEMMA KeysOutside ==
  ASSUME NEW D, NEW H, NEW rt, NEW ht, NEW lv, NEW lo, NEW hi, NEW M,
         Form(D, H, rt, ht, lv, lo, hi, M), NEW a \in D, NEW b \in D, lv[a] <= lv[b], a # b,
         NEW x \in Int, lo[a] < x, x < hi[a], NEW i \in 1..Len(H[b].keys)
  PROVE  H[b].keys[i] # x
<1>. SUFFICES ASSUME H[b].keys[i] = x PROVE FALSE
  OBVIOUS
<1>1. /\ lv[a] \in Nat /\ lo[a] \in Int /\ hi[a] \in Int /\ lv[a] >= 1
  BY FormNode
<1>2. /\ lv[b] \in Nat /\ Len(H[b].keys) \in Nat
      /\ Len(H[b].children) = IF lv[b] = 1 THEN 0 ELSE Len(H[b].keys) + 1
      /\ lo[b] < x /\ x < hi[b] /\ lo[b] \in Int /\ hi[b] \in Int
  BY FormNode
<1>3. lv[a] # lv[b]
  <2>. SUFFICES ASSUME lv[a] = lv[b] PROVE FALSE
    OBVIOUS
  <2>1. In(lo, hi, a, x) /\ In(lo, hi, b, x)
    BY <1>1, <1>2 DEF In
  <2>. QED
    BY <2>1, SameNode
<1>4. lv[b] # 1 /\ lv[a] <= lv[b] - 1
  BY <1>1, <1>2, <1>3
<1>5. i \in 1..Len(H[b].children) /\ i # 0 /\ i # Len(H[b].keys) + 1
  BY <1>2, <1>4
<1>. DEFINE c == H[b].children[i]
<1>6. c \in D /\ lv[c] = lv[b] - 1 /\ hi[c] = Edge(H[b], lo[b], hi[b], i)
  BY <1>5 DEF Form, Linked
<1>7. hi[c] = x
  BY <1>5, <1>6 DEF Edge
<1>. HIDE DEF c
<1>8. lv[a] <= lv[c]
  BY <1>4, <1>6
<1>9. x # hi[c]
  BY <1>6, <1>8, BoundsOutside
<1>. QED
  BY <1>7, <1>9

-----------------------------------------------------------------------------
\* A node of a tree in order cut in two stays one.
LEMMA SplitForm ==
  ASSUME NEW D, NEW W, NEW N, NEW rt, NEW ht, NEW lv, NEW lo, NEW hi, NEW M,
         NEW p, NEW j, NEW L, NEW R,
         Form(D \ {R}, N, rt, ht, lv, lo, hi, M), Joined(D, W, N, p, j, L, R),
         Whole(W[L]), Whole(W[R]), LocalCount(W, W[L]), R \in Nat, R # 0
  PROVE  \E lo2, hi2 : Form(D, W, rt, ht, Also(D, R, lv, lv[L]), lo2, hi2, M)
<1>1. TreeCount(W[L]) = Upto(M)[W[p].keys[j]] - Upto(M)[lo[L]] - 1
  BY HalfCount
<1>2. TreeCount(W[R]) \in Int
  <2>1. W[R] \in NodeSet
    BY DEF Joined
  <2>. QED
    BY <2>1, TreeCountType
<1>3. Form(D, W, rt, ht, Also(D, R, lv, lv[L]), Also(D, R, lo, W[p].keys[j]),
              Parted(D, L, R, hi, W[p].keys[j]), M)
  BY <1>1, <1>2, CutForm
<1>. QED
  BY <1>3

\* Items have moved between two neighbours.
LEMMA ShiftForm ==
  ASSUME NEW D, NEW V, NEW W, NEW rt, NEW ht, NEW lv, NEW lo, NEW hi, NEW M,
         NEW p, NEW j, NEW L, NEW R,
         Form(D, V, rt, ht, lv, lo, hi, M), Neighbours(D, V, p, j, L, R),
         Shifted(D, V, W, p, j, L, R), Whole(W[L]), Whole(W[R]), LocalCount(W, W[L])
  PROVE  \E lo2, hi2 : Form(D, W, rt, ht, lv, lo2, hi2, M)
<1>. DEFINE N == JoinOf(D, V, p, j, L, R)
            lvN == Off(D, R, lv)
            loN == Off(D, R, lo)
            hiN == Over(D, L, R, hi)
<1>1. Joined(D, V, N, p, j, L, R)
  BY JoinExists
<1>2. Joined(D, W, N, p, j, L, R)
  BY <1>1, ShiftJoins
<1>3. Form(D \ {R}, N, rt, ht, lvN, loN, hiN, M)
  BY <1>1, JoinForm
<1>4. L \in D /\ R \in D /\ L # R /\ lv[L] = lv[R]
  <2>1. L \in D /\ R \in D /\ L # R /\ lv[L] = lv[p] - 1 /\ lv[R] = lv[p] - 1
    BY <1>1, JoinFacts
  <2>. QED
    BY <2>1
<1>5. R \in Nat /\ R # 0
  BY <1>4, FormNode
<1>6. Also(D, R, lvN, lvN[L]) = lv
  <2>1. lv \in [D -> Nat]
    BY DEF Form, Typed
  <2>2. lvN[L] = lv[R] /\ \A a \in D \ {R} : lvN[a] = lv[a]
    BY <1>4 DEF Off
  <2>3. \A a \in D : (IF a = R THEN lvN[L] ELSE lvN[a]) = lv[a]
    BY <2>2
  <2>. HIDE DEF lvN
  <2>. QED
    BY <2>1, <2>3 DEF Also
<1>. HIDE DEF N, lvN, loN, hiN
<1>7. \E lo2, hi2 : Form(D, W, rt, ht, Also(D, R, lvN, lvN[L]), lo2, hi2, M)
  BY <1>2, <1>3, <1>5, SplitForm
<1>. QED
  BY <1>6, <1>7

\* A new root with one child.
LEMMA RaiseForm ==
  ASSUME NEW D, NEW H, NEW rt, NEW ht, NEW lv, NEW lo, NEW hi, NEW M,
         Form(D, H, rt, ht, lv, lo, hi, M),
         NEW new \in Nat \ {0}, new \notin D,
         NEW G, G = Store(H, new, Inner(<<>>, <<rt>>, TreeCount(H[rt])))
  PROVE  \E lo2, hi2 :
           Form(D \cup {new}, G, new, ht + 1, Also(D \cup {new}, new, lv, ht + 1), lo2, hi2, M)
<1>. DEFINE D2 == D \cup {new}
            lv2 == Also(D2, new, lv, ht + 1)
            lo2 == Also(D2, new, lo, 0)
            hi2 == Also(D2, new, hi, Top)
            n == Inner(<<>>, <<rt>>, TreeCount(H[rt]))
<1>1. Typed(D, H, ht, lv, lo, hi, M) /\ Rooted(D, rt, ht, lv, lo, hi)
  BY DEF Form
<1>2. /\ D \subseteq Nat \ {0} /\ IsFiniteSet(D) /\ H \in [D -> NodeSet] /\ ht \in Nat
      /\ lv \in [D -> Nat] /\ lo \in [D -> 0..Top] /\ hi \in [D -> 0..Top]
      /\ M \subseteq 1..Top /\ Top \in M
      /\ rt \in D /\ lv[rt] = ht /\ lo[rt] = 0 /\ hi[rt] = Top
  BY <1>1 DEF Typed, Rooted
<1>3. TreeCount(H[rt]) \in Int /\ rt \in Int /\ ht >= 1
  <2>1. lv[rt] >= 1
    BY <1>2, FormNode
  <2>2. H[rt] \in NodeSet
    BY <1>2
  <2>. QED
    BY <2>1, <2>2, <1>2, TreeCountType
<1>4. n \in NodeSet /\ ~ n.leaf /\ n.keys = <<>> /\ n.children = <<rt>> /\ n.cnt = TreeCount(H[rt])
  BY <1>3, NoNumbers, OneNumber DEF NodeSet, Inner
<1>. HIDE DEF n
<1>5. G = [b \in D2 |-> IF b = new THEN n ELSE H[b]]
  BY <1>2 DEF Store, n
<1>6. G \in [D2 -> NodeSet] /\ G[new] = n /\ \A b \in D : G[b] = H[b]
  BY <1>2, <1>4, <1>5
<1>7. /\ \A b \in D2 : /\ lv2[b] = IF b = new THEN ht + 1 ELSE lv[b]
                       /\ lo2[b] = IF b = new THEN 0 ELSE lo[b]
                       /\ hi2[b] = IF b = new THEN Top ELSE hi[b]
      /\ lv2 \in [D2 -> Nat] /\ lo2 \in [D2 -> 0..Top] /\ hi2 \in [D2 -> 0..Top]
  BY <1>2, TopType DEF Also
<1>. HIDE DEF lv2, lo2, hi2
<1>8. Typed(D2, G, ht + 1, lv2, lo2, hi2, M)
  <2>1. IsFiniteSet(D2)
    BY <1>2, FS_AddElement
  <2>2. D2 \subseteq Nat \ {0} /\ ht + 1 \in Nat
    BY <1>2
  <2>. QED
    BY <2>1, <2>2, <1>2, <1>6, <1>7 DEF Typed
<1>9. Rooted(D2, new, ht + 1, lv2, lo2, hi2)
  BY <1>7 DEF Rooted
<1>10. /\ \A a \in D : a \in D2 /\ a # new /\ lv2[a] = lv[a] /\ lo2[a] = lo[a] /\ hi2[a] = hi[a]
       /\ \A a \in D2 : a = new \/ a \in D
       /\ lv2[new] = ht + 1 /\ lo2[new] = 0 /\ hi2[new] = Top
  BY <1>7
<1>20. /\ Len(n.keys) = 0 /\ Len(n.children) = 1 /\ n.children[1] = rt
  BY <1>3, <1>4, NoNumbers, OneNumber
<1>11. Leveled(D2, G, ht + 1, lv2)
  <2>1. \A a \in D : /\ lv[a] \in 1..ht
                     /\ H[a].leaf <=> lv[a] = 1
                     /\ H[a].leaf => Len(H[a].children) = 0
                     /\ ~ H[a].leaf => Len(H[a].children) = Len(H[a].keys) + 1
    BY DEF Form, Leveled
  <2>2. \A l \in 1..ht : l \in 1..(ht + 1)
    BY <1>2
  <2>3. ht + 1 \in 1..(ht + 1) /\ ht + 1 # 1
    BY <1>2, <1>3
  <2>4. ASSUME NEW a \in D2
        PROVE  /\ lv2[a] \in 1..(ht + 1)
               /\ G[a].leaf <=> lv2[a] = 1
               /\ G[a].leaf => Len(G[a].children) = 0
               /\ ~ G[a].leaf => Len(G[a].children) = Len(G[a].keys) + 1
    <3>1. CASE a = new
      <4>1. lv2[a] = ht + 1 /\ G[a] = n
        BY <3>1, <1>6, <1>10
      <4>2. lv2[a] # 1 /\ ~ G[a].leaf /\ lv2[a] \in 1..(ht + 1)
        BY <4>1, <2>3, <1>4
      <4>3. G[a].keys = <<>> /\ G[a].children = <<rt>>
        BY <4>1, <1>4
      <4>. DEFINE gk == G[a].keys
                  gc == G[a].children
      <4>5. gk = <<>> /\ gc = <<rt>>
        BY <4>3
      <4>. HIDE DEF gk, gc
      <4>6. Len(gk) = 0 /\ Len(gc) = 1
        BY <4>5
      <4>7. Len(gc) = Len(gk) + 1
        BY <4>6
      <4>8. Len(G[a].children) = Len(G[a].keys) + 1
        BY <4>7 DEF gk, gc
      <4>. QED
        BY <4>2, <4>8
    <3>2. CASE a \in D
      BY <3>2, <2>1, <2>2, <1>6, <1>10
    <3>. QED
      BY <3>1, <3>2
  <2>. QED
    BY <2>4 DEF Leveled
<1>12. Ordered(D2, G, lo2, hi2, M)
  <2>1. \A a \in D :
          /\ lo[a] \in M \cup {0} /\ hi[a] \in M
          /\ \A i \in 1..Len(H[a].keys) : H[a].keys[i] \in M
          /\ \A i, k \in 0..(Len(H[a].keys) + 1) :
               i < k => Edge(H[a], lo[a], hi[a], i) < Edge(H[a], lo[a], hi[a], k)
    BY DEF Form, Ordered
  <2>2. Edge(n, 0, Top, 0) = 0 /\ Edge(n, 0, Top, 1) = Top
    BY <1>20 DEF Edge
  <2>3. \A i, k \in 0..(Len(n.keys) + 1) :
               i < k => Edge(n, 0, Top, i) < Edge(n, 0, Top, k)
    BY <2>2, <1>20, TopType
  <2>5. \A i \in 1..Len(n.keys) : n.keys[i] \in M
    BY <1>20
  <2>4. ASSUME NEW a \in D2
        PROVE  /\ lo2[a] \in M \cup {0} /\ hi2[a] \in M
               /\ \A i \in 1..Len(G[a].keys) : G[a].keys[i] \in M
               /\ \A i, k \in 0..(Len(G[a].keys) + 1) :
                    i < k => Edge(G[a], lo2[a], hi2[a], i) < Edge(G[a], lo2[a], hi2[a], k)
    <3>1. CASE a = new
      BY <3>1, <2>3, <2>5, <1>2, <1>6, <1>10
    <3>2. CASE a \in D
      BY <3>2, <2>1, <1>6, <1>10
    <3>. QED
      BY <3>1, <3>2
  <2>. QED
    BY <2>4 DEF Ordered
<1>13. Linked(D2, G, lv2, lo2, hi2)
  <2>1. \A a \in D : \A i \in 1..Len(H[a].children) :
          /\ H[a].children[i] \in D
          /\ lv[H[a].children[i]] = lv[a] - 1
          /\ lo[H[a].children[i]] = Edge(H[a], lo[a], hi[a], i - 1)
          /\ hi[H[a].children[i]] = Edge(H[a], lo[a], hi[a], i)
    BY DEF Form, Linked
  <2>4. ASSUME NEW a \in D2, NEW i \in 1..Len(G[a].children)
        PROVE  /\ G[a].children[i] \in D2
               /\ lv2[G[a].children[i]] = lv2[a] - 1
               /\ lo2[G[a].children[i]] = Edge(G[a], lo2[a], hi2[a], i - 1)
               /\ hi2[G[a].children[i]] = Edge(G[a], lo2[a], hi2[a], i)
    <3>1. CASE a = new
      <4>3. G[a] = n /\ G[a].keys = <<>> /\ G[a].children = <<rt>>
        BY <3>1, <1>4, <1>6
      <4>. DEFINE gk == G[a].keys
                  gc == G[a].children
      <4>5. gk = <<>> /\ gc = <<rt>>
        BY <4>3
      <4>. HIDE DEF gk, gc
      <4>6. Len(gk) = 0 /\ Len(gc) = 1
        BY <4>5
      <4>0. Len(G[a].keys) = 0 /\ Len(G[a].children) = 1
        BY <4>6 DEF gk, gc
      <4>8. i \in 1..Len(gc)
        BY DEF gc
      <4>9. i = 1
        BY <4>6, <4>8
      <4>1. i = 1 /\ i - 1 = 0
        BY <4>9
      <4>2. Edge(n, 0, Top, 0) = 0 /\ Edge(n, 0, Top, 1) = Top
        BY <1>20 DEF Edge
      <4>4. (ht + 1) - 1 = ht
        BY <1>2
      <4>10. G[a].children[i] = rt
        BY <4>1, <4>3, <1>4, <1>20
      <4>11. rt \in D2 /\ lv2[rt] = ht /\ lo2[rt] = 0 /\ hi2[rt] = Top
        BY <1>2, <1>10
      <4>12. lv2[a] = ht + 1 /\ lo2[a] = 0 /\ hi2[a] = Top
        BY <3>1, <1>10
      <4>. QED
        BY <4>1, <4>2, <4>3, <4>4, <4>10, <4>11, <4>12
    <3>2. CASE a \in D
      BY <3>2, <2>1, <1>6, <1>10
    <3>. QED
      BY <3>1, <3>2
  <2>. QED
    BY <2>4 DEF Linked
<1>14. Apart(D2, lv2, lo2, hi2)
  <2>1. \A a, b \in D : a # b /\ lv[a] = lv[b] => hi[a] <= lo[b] \/ hi[b] <= lo[a]
    BY DEF Form, Apart
  <2>2. \A a \in D : lv[a] # ht + 1
    <3>. SUFFICES ASSUME NEW a \in D PROVE lv[a] # ht + 1
      OBVIOUS
    <3>1. lv[a] <= ht /\ lv[a] \in Nat
      BY FormNode
    <3>. QED
      BY <3>1, <1>2
  <2>. QED
    BY <2>1, <2>2, <1>10 DEF Apart
<1>15. Counted(D2, G, lo2, hi2, M)
  <2>1. \A a \in D : TreeCount(H[a]) = Upto(M)[hi[a]] - Upto(M)[lo[a]] - 1
    BY DEF Form, Counted
  <2>2. TreeCount(n) = TreeCount(H[rt])
    BY <1>4 DEF TreeCount
  <2>3. TreeCount(n) = Upto(M)[Top] - Upto(M)[0] - 1
    BY <2>1, <2>2, <1>2
  <2>4. ASSUME NEW a \in D2 PROVE TreeCount(G[a]) = Upto(M)[hi2[a]] - Upto(M)[lo2[a]] - 1
    <3>1. CASE a = new
      BY <3>1, <2>3, <1>6, <1>10
    <3>2. CASE a \in D
      BY <3>2, <2>1, <1>6, <1>10
    <3>. QED
      BY <3>1, <3>2
  <2>. QED
    BY <2>4 DEF Counted
<1>16. Form(D2, G, new, ht + 1, lv2, lo2, hi2, M)
  BY <1>8, <1>9, <1>11, <1>12, <1>13, <1>14, <1>15 DEF Form
<1>. QED
  BY <1>16 DEF lv2

\* A root without an item gives way to its child.
LEMMA LowerForm ==
  ASSUME NEW D, NEW H, NEW rt, NEW ht, NEW lv, NEW lo, NEW hi, NEW M,
         Form(D, H, rt, ht, lv, lo, hi, M), Len(H[rt].keys) = 0, ~ H[rt].leaf,
         NEW G, G = Destroy(H, {rt})
  PROVE  \E lv2, lo2, hi2 :
           Form(D \ {rt}, G, H[rt].children[1], ht - 1, lv2, lo2, hi2, M)
<1>. DEFINE D2 == D \ {rt}
            lv2 == Off(D, rt, lv)
            lo2 == Off(D, rt, lo)
            hi2 == Off(D, rt, hi)
            c == H[rt].children[1]
<1>1. Typed(D, H, ht, lv, lo, hi, M) /\ Rooted(D, rt, ht, lv, lo, hi)
  BY DEF Form
<1>2. /\ D \subseteq Nat \ {0} /\ IsFiniteSet(D) /\ H \in [D -> NodeSet] /\ ht \in Nat
      /\ lv \in [D -> Nat] /\ lo \in [D -> 0..Top] /\ hi \in [D -> 0..Top]
      /\ M \subseteq 1..Top /\ Top \in M
      /\ rt \in D /\ lv[rt] = ht /\ lo[rt] = 0 /\ hi[rt] = Top
  BY <1>1 DEF Typed, Rooted
<1>3. G \in [D2 -> NodeSet] /\ \A a \in D2 : G[a] = H[a]
  <2>1. G = [b \in D2 |-> H[b]]
    BY <1>2 DEF Destroy
  <2>. QED
    BY <2>1, <1>2
<1>4. /\ \A a \in D2 : lv2[a] = lv[a] /\ lo2[a] = lo[a] /\ hi2[a] = hi[a]
      /\ lv2 \in [D2 -> Nat] /\ lo2 \in [D2 -> 0..Top] /\ hi2 \in [D2 -> 0..Top]
  BY <1>2 DEF Off
<1>. HIDE DEF lv2, lo2, hi2
<1>5. ASSUME NEW a \in D2 PROVE lv[a] \in 1..(ht - 1)
  <2>1. lv[a] \in Nat /\ 1 <= lv[a] /\ lv[a] <= ht /\ lo[a] < hi[a] /\ 0 <= lo[a] /\ hi[a] <= Top
        /\ lo[a] \in Int /\ hi[a] \in Int
    BY FormNode
  <2>2. a # rt /\ lv[a] = lv[rt] => hi[a] <= lo[rt] \/ hi[rt] <= lo[a]
    BY <1>2 DEF Form, Apart
  <2>3. lv[a] # ht
    BY <2>1, <2>2, <1>2, TopType
  <2>. QED
    BY <2>1, <2>3, <1>2
<1>6. /\ c \in D /\ lv[c] = ht - 1 /\ lo[c] = 0 /\ hi[c] = Top /\ ht \in Nat /\ c # rt
  <2>1. /\ (H[rt].leaf <=> lv[rt] = 1)
        /\ Len(H[rt].children) = IF lv[rt] = 1 THEN 0 ELSE Len(H[rt].keys) + 1
    BY <1>2, FormNode
  <2>2. Len(H[rt].children) = 1
    BY <2>1
  <2>3. 1 \in 1..Len(H[rt].children)
    BY <2>2
  <2>4. c \in D /\ lv[c] = lv[rt] - 1 /\ lo[c] = Edge(H[rt], lo[rt], hi[rt], 1 - 1)
        /\ hi[c] = Edge(H[rt], lo[rt], hi[rt], 1)
    BY <2>3, <1>2 DEF Form, Linked
  <2>5. Edge(H[rt], lo[rt], hi[rt], 0) = lo[rt] /\ Edge(H[rt], lo[rt], hi[rt], 1) = hi[rt]
    BY DEF Edge
  <2>6. 1 - 1 = 0
    OBVIOUS
  <2>. QED
    BY <2>4, <2>5, <2>6, <1>2
<1>. HIDE DEF c
<1>7. Typed(D2, G, ht - 1, lv2, lo2, hi2, M)
  <2>1. IsFiniteSet(D2) /\ D2 \subseteq Nat \ {0}
    BY <1>2, FS_Subset
  <2>2. ht - 1 \in Nat
    BY <1>5, <1>6
  <2>. QED
    BY <2>1, <2>2, <1>2, <1>3, <1>4 DEF Typed
<1>8. Rooted(D2, c, ht - 1, lv2, lo2, hi2)
  BY <1>4, <1>6 DEF Rooted
<1>9. Leveled(D2, G, ht - 1, lv2)
  <2>1. \A a \in D : /\ H[a].leaf <=> lv[a] = 1
                     /\ H[a].leaf => Len(H[a].children) = 0
                     /\ ~ H[a].leaf => Len(H[a].children) = Len(H[a].keys) + 1
    BY DEF Form, Leveled
  <2>. QED
    BY <2>1, <1>3, <1>4, <1>5 DEF Leveled
<1>10. Ordered(D2, G, lo2, hi2, M)
  <2>1. \A a \in D :
          /\ lo[a] \in M \cup {0} /\ hi[a] \in M
          /\ \A i \in 1..Len(H[a].keys) : H[a].keys[i] \in M
          /\ \A i, k \in 0..(Len(H[a].keys) + 1) :
               i < k => Edge(H[a], lo[a], hi[a], i) < Edge(H[a], lo[a], hi[a], k)
    BY DEF Form, Ordered
  <2>. QED
    BY <2>1, <1>3, <1>4 DEF Ordered
<1>11. Linked(D2, G, lv2, lo2, hi2)
  <2>1. \A a \in D : \A i \in 1..Len(H[a].children) :
          /\ H[a].children[i] \in D
          /\ lv[H[a].children[i]] = lv[a] - 1
          /\ lo[H[a].children[i]] = Edge(H[a], lo[a], hi[a], i - 1)
          /\ hi[H[a].children[i]] = Edge(H[a], lo[a], hi[a], i)
    BY DEF Form, Linked
  <2>2. ASSUME NEW a \in D2, NEW i \in 1..Len(H[a].children) PROVE H[a].children[i] # rt
    <3>1. lv[a] \in 1..(ht - 1)
      BY <1>5
    <3>2. lv[H[a].children[i]] = lv[a] - 1
      BY <2>1
    <3>3. lv[a] \in Int /\ lv[a] - 1 # ht
      BY <3>1, <1>2
    <3>. QED
      BY <3>2, <3>3, <1>2
  <2>. QED
    <3>. SUFFICES ASSUME NEW a \in D2, NEW i \in 1..Len(G[a].children)
                  PROVE  /\ G[a].children[i] \in D2
                         /\ lv2[G[a].children[i]] = lv2[a] - 1
                         /\ lo2[G[a].children[i]] = Edge(G[a], lo2[a], hi2[a], i - 1)
                         /\ hi2[G[a].children[i]] = Edge(G[a], lo2[a], hi2[a], i)
      BY DEF Linked
    <3>1. G[a] = H[a] /\ i \in 1..Len(H[a].children) /\ a \in D
      BY <1>3
    <3>2. H[a].children[i] \in D2
      BY <3>1, <2>1, <2>2
    <3>3. /\ lv[H[a].children[i]] = lv[a] - 1
          /\ lo[H[a].children[i]] = Edge(H[a], lo[a], hi[a], i - 1)
          /\ hi[H[a].children[i]] = Edge(H[a], lo[a], hi[a], i)
      BY <3>1, <2>1
    <3>. QED
      BY <3>1, <3>2, <3>3, <1>4
<1>12. Apart(D2, lv2, lo2, hi2)
  BY <1>4 DEF Form, Apart
<1>13. Counted(D2, G, lo2, hi2, M)
  <2>1. \A a \in D : TreeCount(H[a]) = Upto(M)[hi[a]] - Upto(M)[lo[a]] - 1
    BY DEF Form, Counted
  <2>. QED
    BY <2>1, <1>3, <1>4 DEF Counted
<1>14. Form(D2, G, c, ht - 1, lv2, lo2, hi2, M)
  BY <1>7, <1>8, <1>9, <1>10, <1>11, <1>12, <1>13 DEF Form
<1>. QED
  BY <1>14 DEF c

-----------------------------------------------------------------------------
(* An item put into a leaf, or taken out of it.                             *)

\* One element more.
Gained(M, N, x) ==
  \A z \in 0..Top : /\ x <= z => Upto(N)[z] = Upto(M)[z] + 1
                    /\ z < x => Upto(N)[z] = Upto(M)[z]

\* An item more: all numbers from it on have one more item up to them.
LEMMA UptoAdd ==
  ASSUME NEW M, M \subseteq 1..Top, NEW x \in 1..Top, x \notin M
  PROVE  Gained(M, M \cup {x}, x)
<1>0. Top \in Nat /\ x \in Nat
  BY TopType
<1>. SUFFICES ASSUME NEW z \in 0..Top
              PROVE  /\ x <= z => Upto(M \cup {x})[z] = Upto(M)[z] + 1
                     /\ z < x => Upto(M \cup {x})[z] = Upto(M)[z]
  BY DEF Gained
<1>1. z \in Nat
  BY <1>0
<1>. DEFINE A == M \cap (1..z)
            B == (M \cup {x}) \cap (1..z)
<1>2. IsFiniteSet(1..z)
  BY <1>1, FS_Interval
<1>3. IsFiniteSet(A) /\ x \notin A
  BY <1>2, FS_Subset
<1>4. Upto(M)[z] = Cardinality(A) /\ Upto(M \cup {x})[z] = Cardinality(B)
  BY DEF Upto
<1>5. x <= z => B = A \cup {x}
  BY <1>0, <1>1
<1>6. z < x => B = A
  BY <1>0, <1>1
<1>. HIDE DEF A, B
<1>7. Cardinality(A \cup {x}) = Cardinality(A) + 1
  BY <1>3, FS_AddElement
<1>. QED
  BY <1>4, <1>5, <1>6, <1>7

\* The items of a node with its bounds, after an insertion.
Widened(n, n2, i, x, l, u) ==
  LET m == Len(n.keys) IN
  /\ m \in Nat /\ Len(n2.keys) = m + 1
  /\ \A k \in 0..(i - 1) : Edge(n2, l, u, k) = Edge(n, l, u, k)
  /\ Edge(n2, l, u, i) = x
  /\ \A k \in (i + 1)..(m + 2) : Edge(n2, l, u, k) = Edge(n, l, u, k - 1)
  /\ \A k \in 1..(i - 1) : n2.keys[k] = n.keys[k]
  /\ n2.keys[i] = x
  /\ \A k \in (i + 1)..(m + 1) : n2.keys[k] = n.keys[k - 1]

\* An item inserted at its place widens the node by it.
LEMMA InsertWidens ==
  ASSUME NEW n, n.keys \in Numbers, NEW i \in 1..(Len(n.keys) + 1), NEW x \in Int,
         NEW n2, n2.keys = Ext!InsertAt(n.keys, i, x), NEW l, NEW u
  PROVE  Widened(n, n2, i, x, l, u)
<1>. DEFINE s == n.keys
            t == n2.keys
            m == Len(s)
<1>1. m \in Nat /\ i \in Nat /\ 1 <= i /\ i <= m + 1
  BY NumbersFacts
<1>2. /\ t \in Numbers /\ Len(t) = m + 1
      /\ \A k \in 1..(i - 1) : t[k] = s[k]
      /\ t[i] = x
      /\ \A k \in (i + 1)..(m + 1) : t[k] = s[k - 1]
  BY InsertNumber
<1>. HIDE DEF s, t, m
<1>3. \A k \in 0..(i - 1) : Edge(n2, l, u, k) = Edge(n, l, u, k)
  <2>. SUFFICES ASSUME NEW k \in 0..(i - 1) PROVE Edge(n2, l, u, k) = Edge(n, l, u, k)
    OBVIOUS
  <2>1. CASE k = 0
    BY <2>1 DEF Edge
  <2>2. CASE k # 0
    <3>1. k \in 1..(i - 1) /\ k # m + 1 /\ k # Len(t) + 1
      BY <1>1, <1>2, <2>2
    <3>. QED
      BY <3>1, <1>2 DEF Edge, s, t, m
  <2>. QED
    BY <2>1, <2>2
<1>4. Edge(n2, l, u, i) = x
  <2>1. i # 0 /\ i # Len(t) + 1
    BY <1>1, <1>2
  <2>. QED
    BY <2>1, <1>2 DEF Edge, t
<1>5. \A k \in (i + 1)..(m + 2) : Edge(n2, l, u, k) = Edge(n, l, u, k - 1)
  <2>. SUFFICES ASSUME NEW k \in (i + 1)..(m + 2) PROVE Edge(n2, l, u, k) = Edge(n, l, u, k - 1)
    OBVIOUS
  <2>0. k # 0 /\ k - 1 # 0
    BY <1>1
  <2>1. CASE k = m + 2
    <3>1. k = Len(t) + 1 /\ k - 1 = m + 1
      BY <1>1, <1>2, <2>1
    <3>. QED
      BY <2>0, <3>1 DEF Edge, s, t, m
  <2>2. CASE k # m + 2
    <3>1. k \in (i + 1)..(m + 1) /\ k # Len(t) + 1 /\ k - 1 # m + 1
      BY <1>1, <1>2, <2>2
    <3>. QED
      BY <2>0, <3>1, <1>2 DEF Edge, s, t, m
  <2>. QED
    BY <2>1, <2>2
<1>. QED
  BY <1>1, <1>2, <1>3, <1>4, <1>5 DEF Widened, s, t, m

\* After a removal.
LEMMA RemoveNarrows ==
  ASSUME NEW n, n.keys \in Numbers, NEW i \in 1..Len(n.keys),
         NEW n2, n2.keys = Ext!RemoveAt(n.keys, i), NEW l, NEW u
  PROVE  Widened(n2, n, i, n.keys[i], l, u)
<1>. DEFINE s == n.keys
            t == n2.keys
            m == Len(t)
            x == n.keys[i]
<1>0. i \in Nat /\ 1 <= i /\ i <= Len(s) /\ Len(s) \in Nat
  BY NumbersFacts
<1>2. /\ t \in Numbers /\ Len(t) = Len(s) - 1
      /\ \A k \in 1..(i - 1) : t[k] = s[k]
      /\ \A k \in i..(Len(s) - 1) : t[k] = s[k + 1]
      /\ s[i] = x
  BY RemoveNumber
<1>1. m \in Nat /\ i <= m + 1 /\ Len(s) = m + 1
  BY <1>0, <1>2
<1>. HIDE DEF s, t, x, m
<1>6. \A k \in (i + 1)..(m + 1) : s[k] = t[k - 1]
  <2>. SUFFICES ASSUME NEW k \in (i + 1)..(m + 1) PROVE s[k] = t[k - 1]
    OBVIOUS
  <2>1. k - 1 \in i..(Len(s) - 1) /\ (k - 1) + 1 = k
    BY <1>0, <1>1
  <2>. QED
    BY <2>1, <1>2
<1>3. \A k \in 0..(i - 1) : Edge(n, l, u, k) = Edge(n2, l, u, k)
  <2>. SUFFICES ASSUME NEW k \in 0..(i - 1) PROVE Edge(n, l, u, k) = Edge(n2, l, u, k)
    OBVIOUS
  <2>1. CASE k = 0
    BY <2>1 DEF Edge
  <2>2. CASE k # 0
    <3>1. k \in 1..(i - 1) /\ k # m + 1 /\ k # Len(s) + 1
      BY <1>0, <1>1, <2>2
    <3>. QED
      BY <3>1, <1>2 DEF Edge, s, t, m
  <2>. QED
    BY <2>1, <2>2
<1>4. Edge(n, l, u, i) = x
  <2>1. i # 0 /\ i # Len(s) + 1
    BY <1>0, <1>1
  <2>. QED
    BY <2>1, <1>2 DEF Edge, s
<1>5. \A k \in (i + 1)..(m + 2) : Edge(n, l, u, k) = Edge(n2, l, u, k - 1)
  <2>. SUFFICES ASSUME NEW k \in (i + 1)..(m + 2) PROVE Edge(n, l, u, k) = Edge(n2, l, u, k - 1)
    OBVIOUS
  <2>0. k # 0 /\ k - 1 # 0
    BY <1>0, <1>1
  <2>1. CASE k = m + 2
    <3>1. k = Len(s) + 1 /\ k - 1 = m + 1
      BY <1>0, <1>1, <2>1
    <3>. QED
      BY <2>0, <3>1 DEF Edge, s, t, m
  <2>2. CASE k # m + 2
    <3>1. k \in (i + 1)..(m + 1) /\ k # Len(s) + 1 /\ k - 1 # m + 1
      BY <1>0, <1>1, <2>2
    <3>. QED
      BY <2>0, <3>1, <1>6 DEF Edge, s, t, m
  <2>. QED
    BY <2>1, <2>2
<1>7. \A k \in 1..(i - 1) : s[k] = t[k]
  BY <1>2
<1>8. m \in Nat /\ Len(s) = m + 1 /\ s[i] = x
  BY <1>1, <1>2
<1>. QED
  BY <1>3, <1>4, <1>5, <1>6, <1>7, <1>8 DEF Widened, s, t, m, x

\* The nodes around x count delta items more, the others are as before.
Recounted(D, H, W, a, x, lo, hi, delta) ==
  /\ W \in [D -> NodeSet]
  /\ \A b \in D : (W[b].leaf <=> H[b].leaf) /\ W[b].children = H[b].children
  /\ \A b \in D \ {a} :
       /\ W[b].keys = H[b].keys
       /\ lo[b] < x /\ x < hi[b] => TreeCount(W[b]) = TreeCount(H[b]) + delta
       /\ ~ (lo[b] < x /\ x < hi[b]) => TreeCount(W[b]) = TreeCount(H[b])

-----------------------------------------------------------------------------
\* No item is between two neighbouring items of a leaf.
LEMMA NoneBetween ==
  ASSUME NEW D, NEW H, NEW rt, NEW ht, NEW lv, NEW lo, NEW hi, NEW M,
         Form(D, H, rt, ht, lv, lo, hi, M), NEW a \in D, lv[a] = 1,
         NEW i \in 1..(Len(H[a].keys) + 1), NEW x \in Int,
         Edge(H[a], lo[a], hi[a], i - 1) < x, x < Edge(H[a], lo[a], hi[a], i)
  PROVE  x \notin M /\ x \in 1..Top /\ x # Top /\ lo[a] < x /\ x < hi[a]
<1>. DEFINE m == Len(H[a].keys)
            E(k) == Edge(H[a], lo[a], hi[a], k)
<1>1. /\ m \in Nat
      /\ E(0) = lo[a] /\ E(m + 1) = hi[a]
      /\ \A k \in 0..(m + 1) : E(k) \in Int /\ E(k) \in 0..Top
      /\ \A k \in 1..(m + 1) : E(k) \in M
      /\ \A k, g \in 0..(m + 1) : k < g => E(k) < E(g)
  BY FormEdges
<1>2. LeafRanks(H, lo, hi, M, a)
  BY LeafFull
<1>3. \A k \in 0..(m + 1) : Upto(M)[E(k)] = Upto(M)[lo[a]] + k
  BY <1>2 DEF LeafRanks
<1>4. M \subseteq 1..Top
  BY DEF Form, Typed
<1>5. E(i - 1) < x /\ x < E(i) /\ i \in 1..(m + 1)
  OBVIOUS
<1>. HIDE DEF E, m
<1>6. i \in Nat /\ 1 <= i /\ i <= m + 1 /\ i - 1 \in 0..(m + 1) /\ i \in 0..(m + 1)
  BY <1>1, <1>5
<1>7. E(i - 1) \in Int /\ E(i) \in Int /\ 0 <= E(i - 1) /\ E(i) <= Top /\ Top \in Nat
      /\ E(i - 1) \in 0..Top /\ E(i) \in 0..Top /\ E(i) \in M
  BY <1>1, <1>5, <1>6, TopType
<1>8. x \in 1..Top /\ x # Top /\ x \in 0..Top
  BY <1>5, <1>7
<1>9. lo[a] < x /\ x < hi[a]
  <2>1. 0 \in 0..(m + 1) /\ m + 1 \in 0..(m + 1) /\ (i - 1 = 0 \/ 0 < i - 1)
        /\ (i = m + 1 \/ i < m + 1)
    BY <1>1, <1>6
  <2>2. E(0) \in Int /\ E(m + 1) \in Int
    BY <1>1, <2>1
  <2>3. E(0) = E(i - 1) \/ E(0) < E(i - 1)
    BY <1>1, <1>6, <2>1
  <2>4. E(i) = E(m + 1) \/ E(i) < E(m + 1)
    BY <1>1, <1>6, <2>1
  <2>5. E(0) < x
    BY <2>2, <2>3, <1>5, <1>7
  <2>6. x < E(m + 1)
    BY <2>2, <2>4, <1>5, <1>7
  <2>. QED
    BY <2>5, <2>6, <1>1
<1>10. x \notin M
  <2>. SUFFICES ASSUME x \in M PROVE FALSE
    OBVIOUS
  <2>. DEFINE U == Upto(M)
  <2>1. U[E(i - 1)] + 1 <= U[x]
    BY <1>4, <1>5, <1>7, <1>8, UptoStep
  <2>2. U[x] + 1 <= U[E(i)]
    BY <1>4, <1>5, <1>7, <1>8, UptoStep
  <2>3. U[E(i - 1)] = U[lo[a]] + (i - 1) /\ U[E(i)] = U[lo[a]] + i
    BY <1>3, <1>6
  <2>4. U \in [0..Top -> Nat]
    BY <1>4, UptoType
  <2>5. lo[a] \in 0..Top
    BY DEF Form, Typed
  <2>. HIDE DEF U
  <2>6. U[x] \in Int /\ U[E(i)] \in Int /\ U[E(i - 1)] \in Int /\ U[lo[a]] \in Int
    BY <2>4, <2>5, <1>7, <1>8
  <2>. QED
    BY <2>1, <2>2, <2>3, <2>6, <1>6
<1>. QED
  BY <1>8, <1>9, <1>10

\* An item put into the leaf where it belongs.
LEMMA LeafPut ==
  ASSUME NEW D, NEW H, NEW rt, NEW ht, NEW lv, NEW lo, NEW hi, NEW M,
         Form(D, H, rt, ht, lv, lo, hi, M), NEW a \in D, lv[a] = 1,
         NEW i \in 1..(Len(H[a].keys) + 1), NEW x \in Int,
         Edge(H[a], lo[a], hi[a], i - 1) < x, x < Edge(H[a], lo[a], hi[a], i),
         NEW W, Recounted(D, H, W, a, x, lo, hi, 1), W[a].keys = Ext!InsertAt(H[a].keys, i, x)
  PROVE  Form(D, W, rt, ht, lv, lo, hi, M \cup {x})
<1>. DEFINE N == M \cup {x}
            m == Len(H[a].keys)
<1>1. x \notin M /\ x \in 1..Top /\ x # Top /\ lo[a] < x /\ x < hi[a]
  BY NoneBetween
<1>2. /\ Typed(D, H, ht, lv, lo, hi, M) /\ Rooted(D, rt, ht, lv, lo, hi)
      /\ Leveled(D, H, ht, lv) /\ Ordered(D, H, lo, hi, M) /\ Linked(D, H, lv, lo, hi)
      /\ Apart(D, lv, lo, hi) /\ Counted(D, H, lo, hi, M)
  BY DEF Form
<1>3. /\ W \in [D -> NodeSet]
      /\ \A b \in D : (W[b].leaf <=> H[b].leaf) /\ W[b].children = H[b].children
      /\ \A b \in D : b # a =>
           /\ W[b].keys = H[b].keys
           /\ lo[b] < x /\ x < hi[b] => TreeCount(W[b]) = TreeCount(H[b]) + 1
           /\ ~ (lo[b] < x /\ x < hi[b]) => TreeCount(W[b]) = TreeCount(H[b])
  BY DEF Recounted
<1>4. M \subseteq 1..Top
  BY <1>2 DEF Typed
<1>5. H[a].keys \in Numbers /\ m \in Nat /\ (H[a].leaf <=> lv[a] = 1)
      /\ Len(H[a].children) = (IF lv[a] = 1 THEN 0 ELSE m + 1)
  BY FormNode
<1>6. Widened(H[a], W[a], i, x, lo[a], hi[a])
  BY <1>5, InsertWidens
<1>7. /\ Len(W[a].keys) = m + 1
      /\ \A k \in 0..(i - 1) : Edge(W[a], lo[a], hi[a], k) = Edge(H[a], lo[a], hi[a], k)
      /\ Edge(W[a], lo[a], hi[a], i) = x
      /\ \A k \in (i + 1)..(m + 2) :
           Edge(W[a], lo[a], hi[a], k) = Edge(H[a], lo[a], hi[a], k - 1)
      /\ \A k \in 1..(i - 1) : W[a].keys[k] = H[a].keys[k]
      /\ W[a].keys[i] = x
      /\ \A k \in (i + 1)..(m + 1) : W[a].keys[k] = H[a].keys[k - 1]
  BY <1>6 DEF Widened
<1>8. Typed(D, W, ht, lv, lo, hi, N)
  BY <1>1, <1>2, <1>3 DEF Typed
<1>9. Leveled(D, W, ht, lv)
  <2>. SUFFICES ASSUME NEW b \in D
                PROVE  /\ lv[b] \in 1..ht
                       /\ W[b].leaf <=> lv[b] = 1
                       /\ W[b].leaf => Len(W[b].children) = 0
                       /\ ~ W[b].leaf => Len(W[b].children) = Len(W[b].keys) + 1
    BY DEF Leveled
  <2>1. /\ lv[b] \in 1..ht
        /\ H[b].leaf <=> lv[b] = 1
        /\ H[b].leaf => Len(H[b].children) = 0
        /\ ~ H[b].leaf => Len(H[b].children) = Len(H[b].keys) + 1
    BY <1>2 DEF Leveled
  <2>2. (W[b].leaf <=> H[b].leaf) /\ W[b].children = H[b].children
    BY <1>3
  <2>3. CASE b = a
    <3>1. W[b].leaf /\ H[b].leaf
      BY <2>1, <2>2, <2>3
    <3>. QED
      BY <2>1, <2>2, <3>1
  <2>4. CASE b # a
    <3>1. W[b].keys = H[b].keys
      BY <1>3, <2>4
    <3>. QED
      BY <2>1, <2>2, <3>1
  <2>. QED
    BY <2>3, <2>4
<1>10. Ordered(D, W, lo, hi, N)
  <2>. SUFFICES ASSUME NEW b \in D
                PROVE  /\ lo[b] \in N \cup {0} /\ hi[b] \in N
                       /\ \A k \in 1..Len(W[b].keys) : W[b].keys[k] \in N
                       /\ \A k, g \in 0..(Len(W[b].keys) + 1) :
                            k < g => Edge(W[b], lo[b], hi[b], k) < Edge(W[b], lo[b], hi[b], g)
    BY DEF Ordered
  <2>1. /\ lo[b] \in M \cup {0} /\ hi[b] \in M
        /\ \A k \in 1..Len(H[b].keys) : H[b].keys[k] \in M
        /\ \A k, g \in 0..(Len(H[b].keys) + 1) :
             k < g => Edge(H[b], lo[b], hi[b], k) < Edge(H[b], lo[b], hi[b], g)
    BY <1>2 DEF Ordered
  <2>2. lo[b] \in N \cup {0} /\ hi[b] \in N
    BY <2>1
  <2>3. CASE b # a
    <3>1. W[b].keys = H[b].keys
      BY <1>3, <2>3
    <3>2. \A k : Edge(W[b], lo[b], hi[b], k) = Edge(H[b], lo[b], hi[b], k)
      BY <3>1 DEF Edge
    <3>. QED
      BY <2>1, <2>2, <3>1, <3>2
  <2>4. CASE b = a
    <3>. DEFINE E(k) == Edge(H[a], lo[a], hi[a], k)
                F(k) == Edge(W[a], lo[a], hi[a], k)
    <3>1. /\ \A k \in 1..m : H[a].keys[k] \in M
          /\ \A k, g \in 0..(m + 1) : k < g => E(k) < E(g)
      BY <2>1, <2>4
    <3>2. \A k \in 0..(m + 1) : E(k) \in Int
      BY FormEdges
    <3>3. /\ \A k \in 0..(i - 1) : F(k) = E(k)
          /\ F(i) = x
          /\ \A k \in (i + 1)..(m + 2) : F(k) = E(k - 1)
      BY <1>7
    <3>4. E(i - 1) < x /\ x < E(i)
      OBVIOUS
    <3>. HIDE DEF E, F
    <3>5. i \in Nat /\ 1 <= i /\ i <= m + 1 /\ m \in Nat
      BY <1>5
    <3>. HIDE DEF m
    <3>6. \A k \in 1..(m + 1) : W[a].keys[k] \in N
      <4>. SUFFICES ASSUME NEW k \in 1..(m + 1) PROVE W[a].keys[k] \in N
        OBVIOUS
      <4>1. CASE k \in 1..(i - 1)
        <5>1. k \in 1..m
          BY <4>1, <3>5
        <5>. QED
          BY <4>1, <5>1, <1>7, <3>1 DEF m
      <4>2. CASE k = i
        BY <4>2, <1>7
      <4>3. CASE k \in (i + 1)..(m + 1)
        <5>1. k - 1 \in 1..m
          BY <4>3, <3>5
        <5>. QED
          BY <4>3, <5>1, <1>7, <3>1 DEF m
      <4>. QED
        BY <4>1, <4>2, <4>3, <3>5
    <3>7. \A k, g \in 0..(m + 2) : k < g => F(k) < F(g)
      <4>. SUFFICES ASSUME NEW k \in 0..(m + 2), NEW g \in 0..(m + 2), k < g
                    PROVE  F(k) < F(g)
        OBVIOUS
      <4>0. k \in Nat /\ g \in Nat /\ k < g
        BY <3>5
      <4>1. \A h \in 0..(i - 1) : F(h) \in Int /\ F(h) < x
        <5>. SUFFICES ASSUME NEW h \in 0..(i - 1) PROVE F(h) \in Int /\ F(h) < x
          OBVIOUS
        <5>1. h \in 0..(m + 1) /\ i - 1 \in 0..(m + 1) /\ (h = i - 1 \/ h < i - 1)
          BY <3>5
        <5>2. E(h) \in Int /\ E(i - 1) \in Int /\ (E(h) = E(i - 1) \/ E(h) < E(i - 1))
          BY <5>1, <3>1, <3>2
        <5>. QED
          BY <5>2, <3>3, <3>4
      <4>2. \A h \in (i + 1)..(m + 2) : F(h) \in Int /\ x < F(h)
        <5>. SUFFICES ASSUME NEW h \in (i + 1)..(m + 2) PROVE F(h) \in Int /\ x < F(h)
          OBVIOUS
        <5>1. h - 1 \in 0..(m + 1) /\ i \in 0..(m + 1) /\ (h - 1 = i \/ i < h - 1)
          BY <3>5
        <5>2. E(h - 1) \in Int /\ E(i) \in Int /\ (E(h - 1) = E(i) \/ E(i) < E(h - 1))
          BY <5>1, <3>1, <3>2
        <5>. QED
          BY <5>2, <3>3, <3>4
      <4>3. CASE k \in 0..(i - 1) /\ g \in 0..(i - 1)
        <5>1. k \in 0..(m + 1) /\ g \in 0..(m + 1)
          BY <4>3, <3>5
        <5>. QED
          BY <4>3, <4>0, <5>1, <3>1, <3>3
      <4>4. CASE k \in (i + 1)..(m + 2) /\ g \in (i + 1)..(m + 2)
        <5>1. k - 1 \in 0..(m + 1) /\ g - 1 \in 0..(m + 1) /\ k - 1 < g - 1
          BY <4>4, <4>0, <3>5
        <5>. QED
          BY <4>4, <5>1, <3>1, <3>3
      <4>5. CASE k \in 0..(i - 1) /\ g = i
        BY <4>5, <4>1, <3>3
      <4>6. CASE k = i /\ g \in (i + 1)..(m + 2)
        BY <4>6, <4>2, <3>3
      <4>7. CASE k \in 0..(i - 1) /\ g \in (i + 1)..(m + 2)
        <5>1. F(k) \in Int /\ F(k) < x /\ F(g) \in Int /\ x < F(g)
          BY <4>7, <4>1, <4>2
        <5>. QED
          BY <5>1
      <4>8. \/ k \in 0..(i - 1) /\ g \in 0..(i - 1)
            \/ k \in (i + 1)..(m + 2) /\ g \in (i + 1)..(m + 2)
            \/ k \in 0..(i - 1) /\ g = i
            \/ k = i /\ g \in (i + 1)..(m + 2)
            \/ k \in 0..(i - 1) /\ g \in (i + 1)..(m + 2)
        BY <4>0, <3>5
      <4>. QED
        BY <4>3, <4>4, <4>5, <4>6, <4>7, <4>8
    <3>8. Len(W[a].keys) = m + 1 /\ (m + 1) + 1 = m + 2
      BY <1>7, <3>5 DEF m
    <3>9. \A k, g \in 0..(Len(W[a].keys) + 1) : k < g => F(k) < F(g)
      BY <3>7, <3>8
    <3>10. \A k \in 1..Len(W[a].keys) : W[a].keys[k] \in N
      BY <3>6, <3>8
    <3>. QED
      BY <2>2, <2>4, <3>9, <3>10 DEF F
  <2>. QED
    BY <2>3, <2>4
<1>11. Linked(D, W, lv, lo, hi)
  <2>. SUFFICES ASSUME NEW b \in D, NEW k \in 1..Len(W[b].children)
                PROVE  /\ W[b].children[k] \in D
                       /\ lv[W[b].children[k]] = lv[b] - 1
                       /\ lo[W[b].children[k]] = Edge(W[b], lo[b], hi[b], k - 1)
                       /\ hi[W[b].children[k]] = Edge(W[b], lo[b], hi[b], k)
    BY DEF Linked
  <2>1. W[b].children = H[b].children
    BY <1>3
  <2>2. k \in 1..Len(H[b].children)
    BY <2>1
  <2>3. /\ H[b].children[k] \in D
        /\ lv[H[b].children[k]] = lv[b] - 1
        /\ lo[H[b].children[k]] = Edge(H[b], lo[b], hi[b], k - 1)
        /\ hi[H[b].children[k]] = Edge(H[b], lo[b], hi[b], k)
    BY <1>2, <2>2 DEF Linked
  <2>4. b # a
    <3>. SUFFICES ASSUME b = a PROVE FALSE
      OBVIOUS
    <3>1. Len(H[b].children) = 0
      BY <1>5
    <3>. QED
      BY <2>2, <3>1
  <2>5. \A g : Edge(W[b], lo[b], hi[b], g) = Edge(H[b], lo[b], hi[b], g)
    BY <1>3, <2>4 DEF Edge
  <2>. QED
    BY <2>1, <2>3, <2>5
<1>12. Counted(D, W, lo, hi, N)
  <2>. SUFFICES ASSUME NEW b \in D
                PROVE  TreeCount(W[b]) = Upto(N)[hi[b]] - Upto(N)[lo[b]] - 1
    BY DEF Counted
  <2>1. TreeCount(H[b]) = Upto(M)[hi[b]] - Upto(M)[lo[b]] - 1
    BY <1>2 DEF Counted
  <2>2. lv[b] \in Nat /\ 1 <= lv[b] /\ lo[b] \in Int /\ hi[b] \in Int /\ lo[b] < hi[b]
    BY FormNode
  <2>3. x # lo[b] /\ x # hi[b]
    <3>1. lv[a] <= lv[b]
      BY <2>2
    <3>. QED
      BY <3>1, <1>1, BoundsOutside
  <2>4. Gained(M, N, x)
    BY <1>1, <1>4, UptoAdd
  <2>5. lo[b] \in 0..Top /\ hi[b] \in 0..Top
    BY <1>2 DEF Typed
  <2>6. Upto(M) \in [0..Top -> Nat]
    BY <1>4, UptoType
  <2>. DEFINE U == Upto(M)
              V == Upto(N)
  <2>7. /\ x <= hi[b] => V[hi[b]] = U[hi[b]] + 1
        /\ hi[b] < x => V[hi[b]] = U[hi[b]]
        /\ x <= lo[b] => V[lo[b]] = U[lo[b]] + 1
        /\ lo[b] < x => V[lo[b]] = U[lo[b]]
    BY <2>4, <2>5 DEF Gained
  <2>8. U[hi[b]] \in Int /\ U[lo[b]] \in Int
    BY <2>5, <2>6
  <2>9. TreeCount(H[b]) = U[hi[b]] - U[lo[b]] - 1
    BY <2>1
  <2>. HIDE DEF U, V, N
  <2>10. /\ lo[b] < x /\ x < hi[b] => TreeCount(W[b]) = TreeCount(H[b]) + 1
         /\ ~ (lo[b] < x /\ x < hi[b]) => TreeCount(W[b]) = TreeCount(H[b])
    <3>1. CASE b # a
      BY <3>1, <1>3
    <3>2. CASE b = a
      <4>1. TreeCount(W[a]) = m + 1 /\ TreeCount(H[a]) = m
        <5>1. W[a].leaf /\ H[a].leaf
          BY <1>3, <1>5
        <5>. QED
          BY <5>1, <1>7 DEF TreeCount, NumItems
      <4>. QED
        BY <3>2, <4>1, <1>1, <1>5
    <3>. QED
      BY <3>1, <3>2
  <2>. DEFINE tw == TreeCount(W[b])
              th == TreeCount(H[b])
              l == lo[b]
              u == hi[b]
  <2>11. l \in Int /\ u \in Int /\ x \in Int /\ l < u /\ x # l /\ x # u
    BY <2>2, <2>3
  <2>12. /\ l < x /\ x < u => tw = th + 1
         /\ ~ (l < x /\ x < u) => tw = th
    BY <2>10
  <2>13. th = U[u] - U[l] - 1 /\ U[u] \in Int /\ U[l] \in Int
    BY <2>8, <2>9
  <2>14. /\ x <= u => V[u] = U[u] + 1
         /\ u < x => V[u] = U[u]
         /\ x <= l => V[l] = U[l] + 1
         /\ l < x => V[l] = U[l]
    BY <2>7
  <2>. HIDE DEF tw, th, l, u
  <2>15. tw = V[u] - V[l] - 1
    BY <2>11, <2>12, <2>13, <2>14
  <2>. QED
    BY <2>15 DEF tw, l, u, U, V, N
<1>. QED
  BY <1>2, <1>8, <1>9, <1>10, <1>11, <1>12 DEF Form

-----------------------------------------------------------------------------
\* An item taken out of its leaf.
LEMMA LeafTake ==
  ASSUME NEW D, NEW H, NEW rt, NEW ht, NEW lv, NEW lo, NEW hi, NEW M,
         Form(D, H, rt, ht, lv, lo, hi, M), NEW a \in D, lv[a] = 1,
         NEW i \in 1..Len(H[a].keys), NEW x \in Int, H[a].keys[i] = x,
         NEW W, Recounted(D, H, W, a, x, lo, hi, -1), W[a].keys = Ext!RemoveAt(H[a].keys, i)
  PROVE  Form(D, W, rt, ht, lv, lo, hi, M \ {x})
<1>. DEFINE N == M \ {x}
            m == Len(W[a].keys)
<1>1. /\ H[a].keys \in Numbers /\ (H[a].leaf <=> lv[a] = 1)
      /\ Len(H[a].children) = (IF lv[a] = 1 THEN 0 ELSE Len(H[a].keys) + 1)
      /\ x \in M /\ lo[a] < x /\ x < hi[a] /\ hi[a] <= Top /\ hi[a] \in Int
  BY FormNode
<1>2. /\ Typed(D, H, ht, lv, lo, hi, M) /\ Rooted(D, rt, ht, lv, lo, hi)
      /\ Leveled(D, H, ht, lv) /\ Ordered(D, H, lo, hi, M) /\ Linked(D, H, lv, lo, hi)
      /\ Apart(D, lv, lo, hi) /\ Counted(D, H, lo, hi, M)
  BY DEF Form
<1>3. /\ W \in [D -> NodeSet]
      /\ \A b \in D : (W[b].leaf <=> H[b].leaf) /\ W[b].children = H[b].children
      /\ \A b \in D : b # a =>
           /\ W[b].keys = H[b].keys
           /\ lo[b] < x /\ x < hi[b] => TreeCount(W[b]) = TreeCount(H[b]) + -1
           /\ ~ (lo[b] < x /\ x < hi[b]) => TreeCount(W[b]) = TreeCount(H[b])
  BY DEF Recounted
<1>4. M \subseteq 1..Top /\ Top \in M
  BY <1>2 DEF Typed
<1>5. x \in 1..Top /\ x # Top
  BY <1>1, <1>4, TopType
<1>6. Widened(W[a], H[a], i, x, lo[a], hi[a])
  BY <1>1, RemoveNarrows
<1>7. /\ m \in Nat /\ Len(H[a].keys) = m + 1
      /\ \A k \in 0..(i - 1) : Edge(H[a], lo[a], hi[a], k) = Edge(W[a], lo[a], hi[a], k)
      /\ Edge(H[a], lo[a], hi[a], i) = x
      /\ \A k \in (i + 1)..(m + 2) :
           Edge(H[a], lo[a], hi[a], k) = Edge(W[a], lo[a], hi[a], k - 1)
      /\ \A k \in 1..(i - 1) : H[a].keys[k] = W[a].keys[k]
      /\ H[a].keys[i] = x
      /\ \A k \in (i + 1)..(m + 1) : H[a].keys[k] = W[a].keys[k - 1]
  BY <1>6 DEF Widened
<1>20. \A b \in D : lv[b] \in Nat /\ 1 <= lv[b] /\ lo[b] \in Int /\ hi[b] \in Int /\ lo[b] < hi[b]
  BY FormNode
<1>21. \A b \in D : x # lo[b] /\ x # hi[b]
  <2>. SUFFICES ASSUME NEW b \in D PROVE x # lo[b] /\ x # hi[b]
    OBVIOUS
  <2>1. lv[a] <= lv[b]
    BY <1>20
  <2>. QED
    BY <2>1, <1>1, BoundsOutside
<1>8. Typed(D, W, ht, lv, lo, hi, N)
  BY <1>4, <1>5, <1>2, <1>3 DEF Typed
<1>9. Leveled(D, W, ht, lv)
  <2>. SUFFICES ASSUME NEW b \in D
                PROVE  /\ lv[b] \in 1..ht
                       /\ W[b].leaf <=> lv[b] = 1
                       /\ W[b].leaf => Len(W[b].children) = 0
                       /\ ~ W[b].leaf => Len(W[b].children) = Len(W[b].keys) + 1
    BY DEF Leveled
  <2>1. /\ lv[b] \in 1..ht
        /\ H[b].leaf <=> lv[b] = 1
        /\ H[b].leaf => Len(H[b].children) = 0
        /\ ~ H[b].leaf => Len(H[b].children) = Len(H[b].keys) + 1
    BY <1>2 DEF Leveled
  <2>2. (W[b].leaf <=> H[b].leaf) /\ W[b].children = H[b].children
    BY <1>3
  <2>3. CASE b = a
    <3>1. W[b].leaf /\ H[b].leaf
      BY <2>1, <2>2, <2>3
    <3>. QED
      BY <2>1, <2>2, <3>1
  <2>4. CASE b # a
    <3>1. W[b].keys = H[b].keys
      BY <1>3, <2>4
    <3>. QED
      BY <2>1, <2>2, <3>1
  <2>. QED
    BY <2>3, <2>4
<1>10. Ordered(D, W, lo, hi, N)
  <2>. SUFFICES ASSUME NEW b \in D
                PROVE  /\ lo[b] \in N \cup {0} /\ hi[b] \in N
                       /\ \A k \in 1..Len(W[b].keys) : W[b].keys[k] \in N
                       /\ \A k, g \in 0..(Len(W[b].keys) + 1) :
                            k < g => Edge(W[b], lo[b], hi[b], k) < Edge(W[b], lo[b], hi[b], g)
    BY DEF Ordered
  <2>1. /\ lo[b] \in M \cup {0} /\ hi[b] \in M
        /\ \A k \in 1..Len(H[b].keys) : H[b].keys[k] \in M
        /\ \A k, g \in 0..(Len(H[b].keys) + 1) :
             k < g => Edge(H[b], lo[b], hi[b], k) < Edge(H[b], lo[b], hi[b], g)
    BY <1>2 DEF Ordered
  <2>2. lo[b] \in N \cup {0} /\ hi[b] \in N
    BY <2>1, <1>21
  <2>3. CASE b # a
    <3>1. W[b].keys = H[b].keys
      BY <1>3, <2>3
    <3>2. \A k : Edge(W[b], lo[b], hi[b], k) = Edge(H[b], lo[b], hi[b], k)
      BY <3>1 DEF Edge
    <3>3. \A k \in 1..Len(H[b].keys) : H[b].keys[k] # x
      <4>1. lv[a] <= lv[b]
        BY <1>20
      <4>. QED
        BY <4>1, <2>3, <1>1, KeysOutside
    <3>. QED
      BY <2>1, <2>2, <3>1, <3>2, <3>3
  <2>4. CASE b = a
    <3>. DEFINE E(k) == Edge(H[a], lo[a], hi[a], k)
                F(k) == Edge(W[a], lo[a], hi[a], k)
                up(k) == IF k < i THEN k ELSE k + 1
    <3>5. i \in Nat /\ 1 <= i /\ i <= m + 1 /\ m \in Nat
      BY <1>7
    <3>. HIDE DEF m
    <3>1. /\ \A k \in 1..(m + 1) : H[a].keys[k] \in M
          /\ \A k, g \in 0..(m + 2) : k < g => E(k) < E(g)
      <4>1. Len(H[a].keys) = m + 1 /\ (m + 1) + 1 = m + 2
        BY <1>7, <3>5 DEF m
      <4>. QED
        BY <2>1, <2>4, <4>1
    <3>2. /\ \A k \in 0..(i - 1) : E(k) = F(k)
          /\ E(i) = x
          /\ \A k \in (i + 1)..(m + 2) : E(k) = F(k - 1)
      BY <1>7 DEF m
    <3>3. \A k \in 0..(m + 1) : F(k) = E(up(k)) /\ up(k) \in 0..(m + 2) /\ up(k) # i
      <4>. SUFFICES ASSUME NEW k \in 0..(m + 1)
                    PROVE  F(k) = E(up(k)) /\ up(k) \in 0..(m + 2) /\ up(k) # i
        OBVIOUS
      <4>. HIDE DEF E, F
      <4>1. CASE k < i
        <5>1. k \in 0..(i - 1) /\ up(k) = k
          BY <3>5, <4>1
        <5>. QED
          BY <5>1, <3>2, <3>5
      <4>2. CASE ~ k < i
        <5>1. k + 1 \in (i + 1)..(m + 2) /\ (k + 1) - 1 = k /\ up(k) = k + 1
          BY <3>5, <4>2
        <5>. QED
          BY <5>1, <3>2, <3>5
      <4>. QED
        BY <4>1, <4>2
    <3>. HIDE DEF E, F
    <3>4. \A k, g \in 0..(m + 1) : k < g => up(k) < up(g)
      BY <3>5
    <3>6. \A k \in 1..m : W[a].keys[k] \in N
      <4>. SUFFICES ASSUME NEW k \in 1..m PROVE W[a].keys[k] \in N
        OBVIOUS
      <4>1. W[a].keys[k] = H[a].keys[up(k)] /\ up(k) \in 1..(m + 1) /\ up(k) # i
        <5>1. CASE k < i
          <6>1. k \in 1..(i - 1) /\ up(k) = k
            BY <3>5, <5>1
          <6>. QED
            BY <6>1, <1>7, <3>5
        <5>2. CASE ~ k < i
          <6>1. k + 1 \in (i + 1)..(m + 1) /\ (k + 1) - 1 = k /\ up(k) = k + 1
            BY <3>5, <5>2
          <6>2. H[a].keys[k + 1] = W[a].keys[(k + 1) - 1]
            BY <6>1, <1>7 DEF m
          <6>. QED
            BY <6>1, <6>2, <3>5
        <5>. QED
          BY <5>1, <5>2
      <4>2. H[a].keys[up(k)] \in M
        BY <4>1, <3>1
      <4>3. H[a].keys[up(k)] # x
        <5>. DEFINE u == up(k)
        <5>1. u \in Int /\ u \in 1..Len(H[a].keys) /\ i \in 1..Len(H[a].keys) /\ u # i
          BY <4>1, <1>7, <3>5 DEF m
        <5>. HIDE DEF u
        <5>2. /\ \A f \in 1..Len(H[a].keys) : H[a].keys[f] \in Int
              /\ \A f, g \in 1..Len(H[a].keys) : f < g => H[a].keys[f] < H[a].keys[g]
          BY FormNode
        <5>3. u < i \/ i < u
          BY <5>1, <3>5
        <5>4. H[a].keys[u] < H[a].keys[i] \/ H[a].keys[i] < H[a].keys[u]
          BY <5>1, <5>2, <5>3
        <5>. QED
          BY <5>1, <5>2, <5>4 DEF u
      <4>. QED
        BY <4>1, <4>2, <4>3
    <3>7. \A k, g \in 0..(m + 1) : k < g => F(k) < F(g)
      <4>. HIDE DEF up
      <4>. QED
        BY <3>1, <3>3, <3>4
    <3>. QED
      BY <2>2, <2>4, <3>6, <3>7 DEF F, m
  <2>. QED
    BY <2>3, <2>4
<1>11. Linked(D, W, lv, lo, hi)
  <2>. SUFFICES ASSUME NEW b \in D, NEW k \in 1..Len(W[b].children)
                PROVE  /\ W[b].children[k] \in D
                       /\ lv[W[b].children[k]] = lv[b] - 1
                       /\ lo[W[b].children[k]] = Edge(W[b], lo[b], hi[b], k - 1)
                       /\ hi[W[b].children[k]] = Edge(W[b], lo[b], hi[b], k)
    BY DEF Linked
  <2>1. W[b].children = H[b].children
    BY <1>3
  <2>2. k \in 1..Len(H[b].children)
    BY <2>1
  <2>3. /\ H[b].children[k] \in D
        /\ lv[H[b].children[k]] = lv[b] - 1
        /\ lo[H[b].children[k]] = Edge(H[b], lo[b], hi[b], k - 1)
        /\ hi[H[b].children[k]] = Edge(H[b], lo[b], hi[b], k)
    BY <1>2, <2>2 DEF Linked
  <2>4. b # a
    <3>. SUFFICES ASSUME b = a PROVE FALSE
      OBVIOUS
    <3>1. Len(H[b].children) = 0
      BY <1>1
    <3>. QED
      BY <2>2, <3>1
  <2>5. \A g : Edge(W[b], lo[b], hi[b], g) = Edge(H[b], lo[b], hi[b], g)
    BY <1>3, <2>4 DEF Edge
  <2>. QED
    BY <2>1, <2>3, <2>5
<1>12. Counted(D, W, lo, hi, N)
  <2>. SUFFICES ASSUME NEW b \in D
                PROVE  TreeCount(W[b]) = Upto(N)[hi[b]] - Upto(N)[lo[b]] - 1
    BY DEF Counted
  <2>1. TreeCount(H[b]) = Upto(M)[hi[b]] - Upto(M)[lo[b]] - 1
    BY <1>2 DEF Counted
  <2>2. lv[b] \in Nat /\ 1 <= lv[b] /\ lo[b] \in Int /\ hi[b] \in Int /\ lo[b] < hi[b]
    BY <1>20
  <2>3. x # lo[b] /\ x # hi[b]
    BY <1>21
  <2>20. N \subseteq 1..Top /\ x \notin N /\ N \cup {x} = M
    BY <1>1, <1>4
  <2>4. Gained(N, N \cup {x}, x)
    BY <2>20, <1>5, UptoAdd
  <2>5. lo[b] \in 0..Top /\ hi[b] \in 0..Top
    BY <1>2 DEF Typed
  <2>6. Upto(N) \in [0..Top -> Nat]
    BY <2>20, UptoType
  <2>. HIDE DEF N
  <2>. DEFINE U == Upto(M)
              V == Upto(N)
  <2>21. \A z \in 0..Top : /\ x <= z => U[z] = V[z] + 1
                           /\ z < x => U[z] = V[z]
    BY <2>4, <2>20 DEF Gained
  <2>7. /\ x <= hi[b] => U[hi[b]] = V[hi[b]] + 1
        /\ hi[b] < x => U[hi[b]] = V[hi[b]]
        /\ x <= lo[b] => U[lo[b]] = V[lo[b]] + 1
        /\ lo[b] < x => U[lo[b]] = V[lo[b]]
    <3>. HIDE DEF U, V
    <3>1. hi[b] \in 0..Top /\ lo[b] \in 0..Top
      BY <2>5
    <3>2. (x <= hi[b] => U[hi[b]] = V[hi[b]] + 1) /\ (hi[b] < x => U[hi[b]] = V[hi[b]])
      BY <2>21, <3>1
    <3>3. (x <= lo[b] => U[lo[b]] = V[lo[b]] + 1) /\ (lo[b] < x => U[lo[b]] = V[lo[b]])
      BY <2>21, <3>1
    <3>. QED
      BY <3>2, <3>3
  <2>8. V[hi[b]] \in Int /\ V[lo[b]] \in Int
    BY <2>5, <2>6
  <2>9. TreeCount(H[b]) = U[hi[b]] - U[lo[b]] - 1
    BY <2>1
  <2>. HIDE DEF U, V
  <2>10. /\ lo[b] < x /\ x < hi[b] => TreeCount(W[b]) = TreeCount(H[b]) + -1
         /\ ~ (lo[b] < x /\ x < hi[b]) => TreeCount(W[b]) = TreeCount(H[b])
    <3>1. CASE b # a
      BY <3>1, <1>3
    <3>2. CASE b = a
      <4>1. TreeCount(W[a]) = m /\ TreeCount(H[a]) = m + 1
        <5>1. W[a].leaf /\ H[a].leaf
          BY <1>1, <1>3
        <5>. QED
          BY <5>1, <1>7 DEF TreeCount, NumItems
      <4>. QED
        BY <3>2, <4>1, <1>1, <1>7
    <3>. QED
      BY <3>1, <3>2
  <2>. DEFINE tw == TreeCount(W[b])
              th == TreeCount(H[b])
              l == lo[b]
              u == hi[b]
  <2>11. l \in Int /\ u \in Int /\ x \in Int /\ l < u /\ x # l /\ x # u
    BY <2>2, <2>3
  <2>12. /\ l < x /\ x < u => tw = th + -1
         /\ ~ (l < x /\ x < u) => tw = th
    BY <2>10
  <2>13. th = U[u] - U[l] - 1 /\ V[u] \in Int /\ V[l] \in Int
    BY <2>8, <2>9
  <2>14. /\ x <= u => U[u] = V[u] + 1
         /\ u < x => U[u] = V[u]
         /\ x <= l => U[l] = V[l] + 1
         /\ l < x => U[l] = V[l]
    BY <2>7
  <2>. DEFINE vl == V[l]
              vu == V[u]
              ul == U[l]
              uu == U[u]
  <2>16. vl \in Int /\ vu \in Int /\ th = uu - ul - 1
    BY <2>13
  <2>17. /\ x <= u => uu = vu + 1
         /\ u < x => uu = vu
         /\ x <= l => ul = vl + 1
         /\ l < x => ul = vl
    BY <2>14
  <2>. HIDE DEF tw, th, l, u, vl, vu, ul, uu
  <2>18. th + -1 = th - 1 /\ th \in Int /\ ul \in Int /\ uu \in Int
    <3>1. (x <= u \/ u < x) /\ (x <= l \/ l < x)
      BY <2>11
    <3>2. ul \in Int /\ uu \in Int
      BY <3>1, <2>16, <2>17
    <3>. QED
      BY <3>2, <2>16
  <2>19. ASSUME l < x /\ x < u PROVE tw = vu - vl - 1
    <3>1. uu = vu + 1 /\ ul = vl /\ tw = th - 1
      BY <2>11, <2>12, <2>17, <2>18, <2>19
    <3>. QED
      BY <3>1, <2>16, <2>18
  <2>22. ASSUME ~ (l < x /\ x < u) PROVE tw = vu - vl - 1
    <3>1. tw = th
      BY <2>12, <2>22
    <3>2. (x < l /\ x < u) \/ (l < x /\ u < x)
      BY <2>11, <2>22
    <3>3. (uu = vu + 1 /\ ul = vl + 1) \/ (uu = vu /\ ul = vl)
      BY <3>2, <2>11, <2>17
    <3>. QED
      BY <3>1, <3>3, <2>16, <2>18
  <2>15. tw = vu - vl - 1
    BY <2>19, <2>22
  <2>. QED
    BY <2>15 DEF tw, l, u, U, V, N, vl, vu
<1>. QED
  BY <1>2, <1>8, <1>9, <1>10, <1>11, <1>12 DEF Form

-----------------------------------------------------------------------------
(* The nodes and the items below a node.                                    *)

\* A set of nodes with everything below them.
Closed(H, S) == \A b \in S : \A i \in 1..Len(H[b].children) : H[b].children[i] \in S

\* A tree in order holds everything below its nodes.
LEMMA FormClosed ==
  ASSUME NEW D, NEW H, NEW rt, NEW ht, NEW lv, NEW lo, NEW hi, NEW M,
         Form(D, H, rt, ht, lv, lo, hi, M)
  PROVE  Closed(H, D)
BY DEF Form, Linked, Closed

\* An item between the bounds of a node is in it or below it.
LEMMA Held ==
  ASSUME NEW D, NEW H, NEW rt, NEW ht, NEW lv, NEW lo, NEW hi, NEW M,
         Form(D, H, rt, ht, lv, lo, hi, M),
         NEW S, S \subseteq D, Closed(H, S), NEW a \in S,
         NEW x \in M, lo[a] < x, x < hi[a]
  PROVE  \E b \in S : \E i \in 1..Len(H[b].keys) : H[b].keys[i] = x
<1>. DEFINE Claim == \E b \in S : \E i \in 1..Len(H[b].keys) : H[b].keys[i] = x
            T == {n \in Nat : \A b \in S : lv[b] = n /\ lo[b] < x /\ x < hi[b] => Claim}
<1>0. x \in Int
  <2>1. M \subseteq 1..Top
    BY DEF Form, Typed
  <2>. QED
    BY <2>1, TopType
<1>1. \A b \in S : b \in D /\ lv[b] \in Nat /\ lv[b] >= 1
  BY FormNode
<1>2. 0 \in T
  BY <1>1
<1>3. ASSUME NEW n \in Nat, n \in T PROVE n + 1 \in T
  <2>. SUFFICES ASSUME NEW b \in S, lv[b] = n + 1, lo[b] < x, x < hi[b] PROVE Claim
    OBVIOUS
  <2>. HIDE DEF Claim
  <2>1. b \in D /\ lo[b] \in Int /\ hi[b] \in Int /\ Len(H[b].keys) \in Nat
        /\ Len(H[b].children) = (IF lv[b] = 1 THEN 0 ELSE Len(H[b].keys) + 1)
    BY <1>1, FormNode
  <2>. DEFINE m == Len(H[b].keys)
              E(k) == Edge(H[b], lo[b], hi[b], k)
  <2>2. In(lo, hi, b, x)
    BY <1>0, <2>1 DEF In
  <2>3. PICK i \in 1..(m + 1) : E(i - 1) < x /\ x <= E(i)
    BY <1>0, <2>1, <2>2, EdgeAt
  <2>4. /\ E(m + 1) = hi[b] /\ \A k \in 1..m : E(k) = H[b].keys[k]
        /\ \A k \in 0..(m + 1) : E(k) \in Int
    BY <2>1, FormEdges
  <2>5. i \in 0..(m + 1) /\ m \in Nat
    BY <2>1, <2>3
  <2>. HIDE DEF E, m
  <2>6. E(i) \in Int /\ x \in Int /\ hi[b] \in Int
    BY <1>0, <2>1, <2>4, <2>5
  <2>7. CASE x = E(i)
    <3>1. i # m + 1
      BY <2>4, <2>6, <2>7
    <3>2. i \in 1..m
      BY <2>3, <2>5, <3>1
    <3>3. H[b].keys[i] = x /\ i \in 1..Len(H[b].keys)
      BY <2>4, <2>7, <3>2 DEF m
    <3>. QED
      BY <3>3 DEF Claim
  <2>8. CASE x # E(i)
    <3>1. x < E(i)
      BY <2>3, <2>6, <2>8
    <3>2. CASE lv[b] = 1
      <4>1. i \in 1..(Len(H[b].keys) + 1) /\ Edge(H[b], lo[b], hi[b], i - 1) < x
            /\ x < Edge(H[b], lo[b], hi[b], i)
        BY <2>3, <3>1 DEF E, m
      <4>2. x \notin M
        BY <1>0, <2>1, <3>2, <4>1, NoneBetween
      <4>. QED
        BY <4>2
    <3>3. CASE lv[b] # 1
      <4>. DEFINE c == H[b].children[i]
      <4>1. i \in 1..Len(H[b].children)
        BY <2>1, <2>3, <3>3 DEF m
      <4>2. /\ lv[c] = lv[b] - 1
            /\ lo[c] = E(i - 1) /\ hi[c] = E(i)
        BY <2>1, <4>1 DEF Form, Linked, E
      <4>3. c \in S
        BY <4>1 DEF Closed
      <4>. HIDE DEF c
      <4>4. lv[c] = n
        BY <4>2
      <4>5. lo[c] < x /\ x < hi[c]
        BY <4>2, <2>3, <3>1
      <4>. QED
        BY <4>3, <4>4, <4>5, <1>3 DEF Claim
    <3>. QED
      BY <3>2, <3>3
  <2>. QED
    BY <2>7, <2>8
<1>4. lv[a] \in T
  <2>. HIDE DEF T
  <2>. QED
    BY <1>1, <1>2, <1>3, NatSetInduction
<1>. QED
  BY <1>4

\* The layers below a node of a closed set.
LEMMA LayersFacts ==
  ASSUME NEW H, NEW S, \A b \in S : H[b].children \in Numbers, Closed(H, S), NEW a \in S,
         height \in Nat
  PROVE  /\ Layers(H, a) \in [0..height -> SUBSET S]
         /\ Layers(H, a)[0] = {a}
         /\ \A d \in 1..height :
              Layers(H, a)[d] = UNION {Ext!Range(H[b].children) : b \in Layers(H, a)[d - 1]}
<1>. DEFINE N == height
            A == SUBSET S
            base == {a}
            next(X) == UNION {Ext!Range(H[b].children) : b \in X}
            step == [n \in 1..N |-> [X \in A |-> next(X)]]
            Is(f) == f = [d \in 0..N |-> IF d = 0 THEN {a} ELSE next(f[d - 1])]
            F == Layers(H, a)
<1>0. \A X \in A : next(X) \in A
  <2>. SUFFICES ASSUME NEW b \in S PROVE Ext!Range(H[b].children) \subseteq S
    OBVIOUS
  <2>1. DOMAIN H[b].children = 1..Len(H[b].children)
    BY NumbersFacts
  <2>. QED
    BY <2>1 DEF Ext!Range, Closed
<1>1. step \in [1..N -> [A -> A]] /\ base \in A /\ N \in Nat
  <2>. HIDE DEF next
  <2>. QED
    BY <1>0
<1>2. \A X \in A, n \in 1..N : step[n][X] = next(X)
  OBVIOUS
<1>. HIDE DEF step, A, base, N
<1>3. PICK g \in [0..N -> A] :
        g[0] = base /\ \A n \in 1..N : g[n] = step[n][g[n - 1]]
  BY <1>1, LoopRuns
<1>4. \A n \in 1..N : g[n] = next(g[n - 1])
  <2>. SUFFICES ASSUME NEW n \in 1..N PROVE g[n] = next(g[n - 1])
    OBVIOUS
  <2>1. n - 1 \in 0..N
    BY <1>1
  <2>. HIDE DEF next
  <2>. QED
    BY <1>2, <1>3, <2>1
<1>5. Is(g)
  <2>1. \A i \in 0..N : g[i] = IF i = 0 THEN {a} ELSE next(g[i - 1])
    <3>. HIDE DEF next
    <3>. QED
      BY <1>1, <1>3, <1>4 DEF base
  <2>. QED
    BY <2>1
<1>6. F = CHOOSE f : Is(f)
  BY DEF Layers, N
<1>7. Is(F)
  BY <1>5, <1>6
<1>. HIDE DEF F
<1>8. DOMAIN F = 0..N /\ \A i \in 0..N : F[i] = IF i = 0 THEN {a} ELSE next(F[i - 1])
  BY <1>7
<1>9. F[0] = {a} /\ \A n \in 1..N : F[n] = next(F[n - 1])
  <2>. HIDE DEF next
  <2>. QED
    BY <1>1, <1>8
<1>10. \A n \in 0..N : F[n] \in A
  <2>. HIDE DEF next
  <2>1. F[0] \in A
    BY <1>9 DEF A
  <2>2. ASSUME NEW n \in 1..N, F[n - 1] \in A PROVE F[n] \in A
    BY <2>2, <1>0, <1>9 DEF A
  <2>. QED
    BY <1>1, <2>1, <2>2, LoopStates
<1>11. F \in [0..N -> A]
  <2>1. F = [i \in 0..N |-> IF i = 0 THEN {a} ELSE next(F[i - 1])]
    BY <1>7
  <2>. HIDE DEF next
  <2>. QED
    BY <2>1, <1>10
<1>. QED
  BY <1>9, <1>11 DEF F, N, A

-----------------------------------------------------------------------------
\* b is at or below a.
Within(lv, lo, hi, a, b) == lv[b] <= lv[a] /\ lo[a] <= lo[b] /\ hi[b] <= hi[a]

\* A node between the bounds of a is a child of such a node.
LEMMA ParentWithin ==
  ASSUME NEW D, NEW H, NEW rt, NEW ht, NEW lv, NEW lo, NEW hi, NEW M,
         Form(D, H, rt, ht, lv, lo, hi, M), NEW a \in D, NEW b \in D,
         lv[b] < lv[a], Within(lv, lo, hi, a, b)
  PROVE  \E c \in D : \E i \in 1..Len(H[c].children) :
           H[c].children[i] = b /\ lv[c] = lv[b] + 1 /\ Within(lv, lo, hi, a, c)
<1>1. /\ lv[a] \in Nat /\ lv[a] <= ht /\ ht \in Nat /\ lo[a] \in Int /\ hi[a] \in Int
  BY FormNode
<1>2. /\ lv[b] \in Nat /\ lo[b] \in Int /\ hi[b] \in Int /\ lo[b] < hi[b]
  BY FormNode
<1>3. lv[b] < ht
  BY <1>1, <1>2
<1>4. PICK c \in D : \E i \in 1..Len(H[c].children) : H[c].children[i] = b /\ lv[c] = lv[b] + 1
  BY <1>3, ParentExists
<1>5. PICK i \in 1..Len(H[c].children) : H[c].children[i] = b /\ lv[c] = lv[b] + 1
  BY <1>4
<1>6. /\ lv[c] \in Nat /\ lo[c] \in Int /\ hi[c] \in Int
  BY FormNode
<1>7. lo[c] <= lo[b] /\ hi[b] <= hi[c]
  BY <1>5, FormChild
<1>8. lv[a] \in lv[c]..ht
  BY <1>1, <1>2, <1>5, <1>6
<1>9. PICK e \in D : lv[e] = lv[a] /\ lo[e] <= lo[c] /\ hi[c] <= hi[e]
  BY <1>8, Ancestors
<1>10. lo[e] \in Int /\ hi[e] \in Int
  BY FormNode
<1>11. In(lo, hi, a, hi[b]) /\ In(lo, hi, e, hi[b])
  <2>. DEFINE p == lo[a]
              q == hi[a]
              u == lo[b]
              v == hi[b]
              x == lo[c]
              y == hi[c]
              s == lo[e]
              w == hi[e]
  <2>1. /\ u \in Int /\ v \in Int /\ x \in Int /\ y \in Int /\ p \in Int /\ q \in Int
        /\ s \in Int /\ w \in Int
    BY <1>1, <1>2, <1>6, <1>10
  <2>2. p <= u /\ v <= q /\ u < v /\ x <= u /\ v <= y /\ s <= x /\ y <= w
    BY <1>2, <1>7, <1>9 DEF Within
  <2>. HIDE DEF p, q, u, v, x, y, s, w
  <2>3. p < v /\ v <= q /\ s < v /\ v <= w
    BY <2>1, <2>2
  <2>. QED
    BY <2>3 DEF In, p, q, v, s, w
<1>12. a = e
  BY <1>2, <1>9, <1>11, SameNode
<1>13. Within(lv, lo, hi, a, c)
  BY <1>1, <1>2, <1>5, <1>9, <1>12 DEF Within
<1>. QED
  BY <1>5, <1>13

\* The nodes some levels below a node are the nodes of that level between
\* its bounds: the leaks that Shape excludes are nodes outside them.
LEMMA LayersExact ==
  ASSUME NEW D, NEW H, NEW rt, NEW ht, NEW lv, NEW lo, NEW hi, NEW M,
         Form(D, H, rt, ht, lv, lo, hi, M), NEW a \in D, height \in Nat
  PROVE  \A d \in 0..height : \A b \in D :
           b \in Layers(H, a)[d] <=> lv[b] = lv[a] - d /\ Within(lv, lo, hi, a, b)
<1>. DEFINE L == Layers(H, a)
            T == {d \in Nat : d <= height =>
                    \A b \in D : b \in L[d] <=> lv[b] = lv[a] - d /\ Within(lv, lo, hi, a, b)}
<1>1. \A b \in D : /\ H[b].children \in Numbers
                   /\ lv[b] \in Nat /\ lo[b] \in Int /\ hi[b] \in Int /\ lo[b] < hi[b]
  BY FormNode
<1>2. Closed(H, D)
  BY FormClosed
<1>3. /\ L \in [0..height -> SUBSET D]
      /\ L[0] = {a}
      /\ \A d \in 1..height : L[d] = UNION {Ext!Range(H[b].children) : b \in L[d - 1]}
  BY <1>1, <1>2, LayersFacts
<1>. HIDE DEF L
<1>4. 0 \in T
  <2>. SUFFICES ASSUME NEW b \in D
                PROVE  b \in L[0] <=> lv[b] = lv[a] - 0 /\ Within(lv, lo, hi, a, b)
    OBVIOUS
  <2>0. lv[a] \in Nat /\ lv[b] \in Nat /\ lo[a] \in Int /\ hi[a] \in Int
        /\ lo[b] \in Int /\ hi[b] \in Int /\ lo[b] < hi[b] /\ lv[a] - 0 = lv[a]
    BY <1>1
  <2>1. ASSUME b = a PROVE lv[b] = lv[a] - 0 /\ Within(lv, lo, hi, a, b)
    BY <2>0, <2>1 DEF Within
  <2>2. ASSUME lv[b] = lv[a] - 0, Within(lv, lo, hi, a, b) PROVE b = a
    <3>1. In(lo, hi, a, hi[b]) /\ In(lo, hi, b, hi[b])
      BY <2>0, <2>2 DEF In, Within
    <3>2. lv[a] = lv[b]
      BY <2>0, <2>2
    <3>. QED
      BY <2>0, <3>1, <3>2, SameNode
  <2>. QED
    BY <2>1, <2>2, <1>3
<1>5. ASSUME NEW n \in Nat, n \in T PROVE n + 1 \in T
  <2>. SUFFICES ASSUME n + 1 <= height, NEW b \in D
                PROVE  b \in L[n + 1] <=> lv[b] = lv[a] - (n + 1) /\ Within(lv, lo, hi, a, b)
    OBVIOUS
  <2>0. n \in 0..height /\ n + 1 \in 1..height /\ (n + 1) - 1 = n /\ n <= height
    OBVIOUS
  <2>1. \A c \in D : c \in L[n] <=> lv[c] = lv[a] - n /\ Within(lv, lo, hi, a, c)
    BY <1>5, <2>0
  <2>2. L[n] \subseteq D
    BY <1>3, <2>0
  <2>3. b \in L[n + 1] <=> \E c \in L[n] : b \in Ext!Range(H[c].children)
    BY <1>3, <2>0
  <2>4. \A c \in D : b \in Ext!Range(H[c].children)
                     <=> \E i \in 1..Len(H[c].children) : H[c].children[i] = b
    <3>. SUFFICES ASSUME NEW c \in D
                  PROVE  b \in Ext!Range(H[c].children)
                         <=> \E i \in 1..Len(H[c].children) : H[c].children[i] = b
      OBVIOUS
    <3>1. DOMAIN H[c].children = 1..Len(H[c].children)
      BY <1>1, NumbersFacts
    <3>. QED
      BY <3>1 DEF Ext!Range
  <2>20. /\ lv[a] \in Nat /\ lo[a] \in Int /\ hi[a] \in Int
         /\ lv[b] \in Nat /\ lo[b] \in Int /\ hi[b] \in Int
    BY <1>1
  <2>5. ASSUME b \in L[n + 1] PROVE lv[b] = lv[a] - (n + 1) /\ Within(lv, lo, hi, a, b)
    <3>1. PICK c \in L[n] : b \in Ext!Range(H[c].children)
      BY <2>3, <2>5
    <3>2. c \in D /\ lv[c] = lv[a] - n /\ Within(lv, lo, hi, a, c)
      BY <2>1, <2>2
    <3>3. PICK i \in 1..Len(H[c].children) : H[c].children[i] = b
      BY <2>4, <3>1, <3>2
    <3>4. lv[b] = lv[c] - 1 /\ lo[c] <= lo[b] /\ hi[b] <= hi[c]
      BY <3>2, <3>3, FormChild
    <3>5. lv[c] \in Nat /\ lo[c] \in Int /\ hi[c] \in Int
      BY <1>1, <3>2
    <3>6. lv[c] <= lv[a] /\ lo[a] <= lo[c] /\ hi[c] <= hi[a]
      BY <3>2 DEF Within
    <3>7. lv[b] = lv[a] - (n + 1) /\ lv[b] <= lv[a]
      BY <2>20, <3>2, <3>4, <3>5
    <3>8. lo[a] <= lo[b] /\ hi[b] <= hi[a]
      BY <2>20, <3>4, <3>5, <3>6
    <3>. QED
      BY <3>7, <3>8 DEF Within
  <2>6. ASSUME lv[b] = lv[a] - (n + 1), Within(lv, lo, hi, a, b) PROVE b \in L[n + 1]
    <3>1. lv[b] < lv[a]
      BY <2>6, <2>20
    <3>2. PICK c \in D : \E i \in 1..Len(H[c].children) :
            H[c].children[i] = b /\ lv[c] = lv[b] + 1 /\ Within(lv, lo, hi, a, c)
      BY <2>6, <3>1, ParentWithin
    <3>3. lv[c] = lv[a] - n
      BY <2>6, <2>20, <3>2
    <3>4. c \in L[n]
      BY <2>1, <3>2, <3>3
    <3>. QED
      BY <2>3, <2>4, <3>2, <3>4
  <2>. QED
    BY <2>5, <2>6
<1>6. Nat \subseteq T
  <2>. HIDE DEF T
  <2>. QED
    BY <1>4, <1>5, NatSetInduction
<1>7. ASSUME NEW d \in 0..height
      PROVE  \A b \in D : b \in L[d] <=> lv[b] = lv[a] - d /\ Within(lv, lo, hi, a, b)
  BY <1>6
<1>. QED
  BY <1>7 DEF L

\* The nodes at and below a node.
LEMMA UnderExact ==
  ASSUME NEW D, NEW H, NEW rt, NEW ht, NEW lv, NEW lo, NEW hi, NEW M,
         Form(D, H, rt, ht, lv, lo, hi, M), NEW a \in D, height \in Nat, ht <= height
  PROVE  Under(H, a) = {b \in D : Within(lv, lo, hi, a, b)}
<1>. DEFINE L == Layers(H, a)
<1>1. \A b \in D : /\ H[b].children \in Numbers
                   /\ lv[b] \in Nat /\ lv[b] >= 1 /\ lv[b] <= ht /\ ht \in Nat
  BY FormNode
<1>2. Closed(H, D)
  BY FormClosed
<1>3. L \in [0..height -> SUBSET D]
  BY <1>1, <1>2, LayersFacts
<1>4. \A d \in 0..height : \A b \in D :
        b \in L[d] <=> lv[b] = lv[a] - d /\ Within(lv, lo, hi, a, b)
  BY LayersExact
<1>. HIDE DEF L
<1>5. \A d \in 0..height : L[d] \subseteq {b \in D : Within(lv, lo, hi, a, b)}
  BY <1>3, <1>4
<1>6. ASSUME NEW b \in D, Within(lv, lo, hi, a, b) PROVE \E d \in 0..height : b \in L[d]
  <2>. DEFINE d == lv[a] - lv[b]
  <2>1. d \in 0..height /\ lv[b] = lv[a] - d
    BY <1>1, <1>6 DEF Within
  <2>. HIDE DEF d
  <2>. QED
    BY <1>4, <1>6, <2>1
<1>7. Under(H, a) = UNION {L[d] : d \in 0..height}
  BY DEF Under, L
<1>. QED
  BY <1>5, <1>6, <1>7

\* The items below a node are those between its bounds.
LEMMA KeysUnder ==
  ASSUME NEW D, NEW H, NEW rt, NEW ht, NEW lv, NEW lo, NEW hi, NEW M,
         Form(D, H, rt, ht, lv, lo, hi, M), NEW a \in D, height \in Nat, ht <= height
  PROVE  KeysOf(H, Under(H, a)) = {x \in M : lo[a] < x /\ x < hi[a]}
<1>. DEFINE S == Under(H, a)
<1>1. S = {b \in D : Within(lv, lo, hi, a, b)}
  BY UnderExact
<1>2. \A b \in D : /\ H[b].children \in Numbers /\ H[b].keys \in Numbers
                   /\ lv[b] \in Nat /\ lo[b] \in Int /\ hi[b] \in Int
                   /\ \A i \in 1..Len(H[b].keys) :
                        H[b].keys[i] \in Int /\ H[b].keys[i] \in M
                        /\ lo[b] < H[b].keys[i] /\ H[b].keys[i] < hi[b]
  BY FormNode
<1>. HIDE DEF S
<1>3. S \subseteq D /\ a \in S
  BY <1>1, <1>2 DEF Within
<1>4. Closed(H, S)
  <2>. SUFFICES ASSUME NEW b \in S, NEW i \in 1..Len(H[b].children) PROVE H[b].children[i] \in S
    BY DEF Closed
  <2>. DEFINE c == H[b].children[i]
  <2>1. b \in D /\ Within(lv, lo, hi, a, b)
    BY <1>1
  <2>2. c \in D /\ lv[c] = lv[b] - 1 /\ lo[b] <= lo[c] /\ hi[c] <= hi[b]
    BY <2>1, FormChild
  <2>. HIDE DEF c
  <2>3. lv[c] \in Nat /\ lo[c] \in Int /\ hi[c] \in Int /\ lv[b] \in Nat /\ lo[b] \in Int
        /\ hi[b] \in Int /\ lv[a] \in Nat /\ lo[a] \in Int /\ hi[a] \in Int
    BY <1>2, <2>1, <2>2
  <2>5. lv[b] <= lv[a] /\ lo[a] <= lo[b] /\ hi[b] <= hi[a]
    BY <2>1 DEF Within
  <2>6. lv[c] <= lv[a]
    BY <2>2, <2>3, <2>5
  <2>7. lo[a] <= lo[c] /\ hi[c] <= hi[a]
    BY <2>2, <2>3, <2>5
  <2>4. Within(lv, lo, hi, a, c)
    BY <2>6, <2>7 DEF Within
  <2>. QED
    BY <1>1, <2>2, <2>4 DEF c
<1>5. \A b \in D : \A x : x \in Ext!Range(H[b].keys)
                          <=> \E i \in 1..Len(H[b].keys) : H[b].keys[i] = x
  <2>. SUFFICES ASSUME NEW b \in D, NEW x
                PROVE  x \in Ext!Range(H[b].keys) <=> \E i \in 1..Len(H[b].keys) : H[b].keys[i] = x
    OBVIOUS
  <2>1. DOMAIN H[b].keys = 1..Len(H[b].keys)
    BY <1>2, NumbersFacts
  <2>. QED
    BY <2>1 DEF Ext!Range
<1>6. \A x : x \in KeysOf(H, S) <=> \E b \in S : \E i \in 1..Len(H[b].keys) : H[b].keys[i] = x
  <2>1. \A x : x \in KeysOf(H, S) <=> \E b \in S : x \in Ext!Range(H[b].keys)
    BY DEF KeysOf
  <2>. QED
    BY <2>1, <1>3, <1>5
<1>7. ASSUME NEW x \in M, lo[a] < x, x < hi[a] PROVE x \in KeysOf(H, S)
  <2>1. \E b \in S : \E i \in 1..Len(H[b].keys) : H[b].keys[i] = x
    BY <1>3, <1>4, <1>7, Held
  <2>. QED
    BY <1>6, <2>1
<1>8. ASSUME NEW x, x \in KeysOf(H, S) PROVE x \in M /\ lo[a] < x /\ x < hi[a]
  <2>1. PICK b \in S : \E i \in 1..Len(H[b].keys) : H[b].keys[i] = x
    BY <1>6, <1>8
  <2>2. b \in D /\ Within(lv, lo, hi, a, b)
    BY <1>1
  <2>3. x \in Int /\ x \in M /\ lo[b] < x /\ x < hi[b]
    BY <1>2, <2>1, <2>2
  <2>4. lo[b] \in Int /\ hi[b] \in Int /\ lo[a] \in Int /\ hi[a] \in Int
    BY <1>2, <2>2
  <2>. QED
    BY <2>2, <2>3, <2>4 DEF Within
<1>9. KeysOf(H, S) = {x \in M : lo[a] < x /\ x < hi[a]}
  BY <1>7, <1>8
<1>. QED
  BY <1>9 DEF S

\* All items.
LEMMA KeysAll ==
  ASSUME NEW D, NEW H, NEW rt, NEW ht, NEW lv, NEW lo, NEW hi, NEW M,
         Form(D, H, rt, ht, lv, lo, hi, M)
  PROVE  KeysOf(H, D) = M \ {Top}
<1>1. Closed(H, D)
  BY FormClosed
<1>2. rt \in D /\ lo[rt] = 0 /\ hi[rt] = Top /\ M \subseteq 1..Top
  BY DEF Form, Rooted, Typed
<1>3. \A b \in D : /\ H[b].keys \in Numbers /\ hi[b] \in Int /\ hi[b] <= Top
                   /\ \A i \in 1..Len(H[b].keys) :
                        H[b].keys[i] \in Int /\ H[b].keys[i] \in M /\ H[b].keys[i] < hi[b]
  BY FormNode
<1>4. \A b \in D : \A x : x \in Ext!Range(H[b].keys)
                          <=> \E i \in 1..Len(H[b].keys) : H[b].keys[i] = x
  <2>. SUFFICES ASSUME NEW b \in D, NEW x
                PROVE  x \in Ext!Range(H[b].keys) <=> \E i \in 1..Len(H[b].keys) : H[b].keys[i] = x
    OBVIOUS
  <2>1. DOMAIN H[b].keys = 1..Len(H[b].keys)
    BY <1>3, NumbersFacts
  <2>. QED
    BY <2>1 DEF Ext!Range
<1>5. ASSUME NEW x \in M, x # Top PROVE \E b \in D : \E i \in 1..Len(H[b].keys) : H[b].keys[i] = x
  <2>1. lo[rt] < x /\ x < hi[rt]
    BY <1>2, <1>5, TopType
  <2>. QED
    BY <1>1, <1>2, <2>1, Held
<1>6. ASSUME NEW b \in D, NEW i \in 1..Len(H[b].keys) PROVE H[b].keys[i] \in M \ {Top}
  BY <1>3, TopType
<1>7. \A x : x \in KeysOf(H, D) <=> \E b \in D : \E i \in 1..Len(H[b].keys) : H[b].keys[i] = x
  <2>1. \A x : x \in KeysOf(H, D) <=> \E b \in D : x \in Ext!Range(H[b].keys)
    BY DEF KeysOf
  <2>. QED
    BY <2>1, <1>4
<1>. QED
  BY <1>5, <1>6, <1>7

-----------------------------------------------------------------------------

\* The items are finitely many.
LEMMA MFinite ==
  ASSUME NEW M, M \subseteq 1..Top
  PROVE  IsFiniteSet(M) /\ Cardinality(M) \in Nat /\ Upto(M)[Top] = Cardinality(M) /\ Upto(M)[0] = 0
<1>1. IsFiniteSet(1..Top)
  BY TopType, FS_Interval
<1>2. IsFiniteSet(M) /\ Cardinality(M) \in Nat
  BY <1>1, FS_Subset, FS_CardinalityType
<1>3. M \cap (1..Top) = M
  OBVIOUS
<1>6. 1..0 = {}
  OBVIOUS
<1>7. M \cap (1..0) = {}
  BY <1>6
<1>4. Cardinality({}) = 0
  BY FS_EmptySet
<1>5. Top \in 0..Top /\ 0 \in 0..Top
  BY TopType
<1>. QED
  BY <1>2, <1>3, <1>7, <1>4, <1>5 DEF Upto

\* The number of elements of M between two numbers.
LEMMA SpanSize ==
  ASSUME NEW M, M \subseteq 1..Top, NEW l \in 0..Top, NEW u \in M, l < u
  PROVE  Cardinality({x \in M : l < x /\ x < u}) = Upto(M)[u] - Upto(M)[l] - 1
<1>. DEFINE A == M \cap (1..l)
            B == {x \in M : l < x /\ x < u}
            C == M \cap (1..u)
<1>1. u \in Nat /\ l \in Nat /\ u \in 0..Top
  BY TopType
<1>2. IsFiniteSet(1..u)
  BY <1>1, FS_Interval
<1>3. IsFiniteSet(C)
  BY <1>2, FS_Subset
<1>12. \A x \in M : x \in Int /\ x >= 1
  BY TopType
<1>4. C = (A \cup B) \cup {u} /\ u \notin A \cup B /\ A \cap B = {} /\ A \subseteq C /\ B \subseteq C
  <2>1. \A x : x \in A <=> x \in M /\ x <= l
    <3>1. \A x \in M : x \in 1..l <=> x <= l
      BY <1>1, <1>12
    <3>2. \A x : x \in A <=> x \in M /\ x \in 1..l
      OBVIOUS
    <3>. QED
      BY <3>1, <3>2
  <2>2. \A x : x \in B <=> x \in M /\ l < x /\ x < u
    OBVIOUS
  <2>3. \A x : x \in C <=> x \in M /\ x <= u
    <3>1. \A x \in M : x \in 1..u <=> x <= u
      BY <1>1, <1>12
    <3>2. \A x : x \in C <=> x \in M /\ x \in 1..u
      OBVIOUS
    <3>. QED
      BY <3>1, <3>2
  <2>. HIDE DEF A, B, C
  <2>4. \A x \in M : x <= u <=> (x <= l \/ (l < x /\ x < u) \/ x = u)
    BY <1>1, <1>12
  <2>5. \A x \in M : ~ (x <= l /\ l < x)
    BY <1>1, <1>12
  <2>6. ~ (u <= l) /\ ~ (u < u)
    BY <1>1
  <2>7. C = (A \cup B) \cup {u}
    BY <2>1, <2>2, <2>3, <2>4
  <2>8. u \notin A \cup B
    BY <2>1, <2>2, <2>6
  <2>9. A \cap B = {}
    BY <2>1, <2>2, <2>5
  <2>. QED
    BY <2>7, <2>8, <2>9
<1>5. Upto(M)[u] = Cardinality(C) /\ Upto(M)[l] = Cardinality(A)
  BY <1>1 DEF Upto
<1>. HIDE DEF A, B, C
<1>6. IsFiniteSet(A) /\ IsFiniteSet(B)
  BY <1>3, <1>4, FS_Subset
<1>7. /\ IsFiniteSet(A \cup B)
      /\ Cardinality(A \cup B) = Cardinality(A) + Cardinality(B) - Cardinality(A \cap B)
  BY <1>6, FS_Union
<1>8. Cardinality(A \cap B) = 0
  BY <1>4, FS_EmptySet
<1>9. Cardinality(C) = Cardinality(A \cup B) + 1
  BY <1>4, <1>7, FS_AddElement
<1>10. Cardinality(A) \in Nat /\ Cardinality(B) \in Nat
  BY <1>6, FS_CardinalityType
<1>11. Cardinality(B) = Cardinality(C) - Cardinality(A) - 1
  BY <1>7, <1>8, <1>9, <1>10
<1>. QED
  BY <1>5, <1>11 DEF B

\* Every node counts the items below it.
LEMMA UnderCount ==
  ASSUME NEW D, NEW H, NEW rt, NEW ht, NEW lv, NEW lo, NEW hi, NEW M,
         Form(D, H, rt, ht, lv, lo, hi, M), NEW a \in D, height \in Nat, ht <= height
  PROVE  TreeCount(H[a]) = Cardinality(KeysOf(H, Under(H, a)))
<1>1. KeysOf(H, Under(H, a)) = {x \in M : lo[a] < x /\ x < hi[a]}
  BY KeysUnder
<1>2. M \subseteq 1..Top /\ lo[a] \in 0..Top
  BY DEF Form, Typed
<1>3. hi[a] \in M /\ TreeCount(H[a]) = Upto(M)[hi[a]] - Upto(M)[lo[a]] - 1
  BY DEF Form, Ordered, Counted
<1>4. lo[a] < hi[a]
  BY FormNode
<1>5. Cardinality({x \in M : lo[a] < x /\ x < hi[a]}) = Upto(M)[hi[a]] - Upto(M)[lo[a]] - 1
  BY <1>2, <1>3, <1>4, SpanSize
<1>. QED
  BY <1>1, <1>3, <1>5

-----------------------------------------------------------------------------
(* Renaming the items, in their order.                                      *)

Rename(f, M) ==
  /\ f \in [0..Top -> 0..Top]
  /\ f[0] = 0 /\ f[Top] = Top
  /\ \A x, y \in M \cup {0} : x < y => f[x] < f[y]

Image(f, M) == {f[x] : x \in M}

Renamed(D, H, W, f) ==
  /\ W \in [D -> NodeSet]
  /\ \A b \in D : /\ W[b].leaf <=> H[b].leaf
                  /\ W[b].children = H[b].children
                  /\ TreeCount(W[b]) = TreeCount(H[b])
                  /\ Len(W[b].keys) = Len(H[b].keys)
                  /\ \A i \in 1..Len(H[b].keys) : W[b].keys[i] = f[H[b].keys[i]]

\* Renamed items are items.
LEMMA ImageType ==
  ASSUME NEW M, M \subseteq 1..Top, Top \in M, NEW f, Rename(f, M)
  PROVE  Image(f, M) \subseteq 1..Top /\ Top \in Image(f, M)
<1>1. \A x \in M : x \in 0..Top /\ 0 < x
  BY TopType
<1>2. \A x \in M : f[x] \in 0..Top /\ f[0] < f[x] /\ f[0] = 0
  BY <1>1 DEF Rename
<1>3. \A x \in M : f[x] \in 1..Top
  BY <1>2, TopType
<1>4. Top = f[Top]
  BY DEF Rename
<1>. QED
  BY <1>3, <1>4 DEF Image

\* As many elements up to an element as before.
LEMMA ImageUpto ==
  ASSUME NEW M, M \subseteq 1..Top, Top \in M, NEW f, Rename(f, M), NEW x \in M \cup {0}
  PROVE  Upto(Image(f, M))[f[x]] = Upto(M)[x]
<1>. DEFINE A == M \cap (1..x)
            B == Image(f, M) \cap (1..f[x])
            g == [z \in A |-> f[z]]
<1>1. \A z \in M \cup {0} : z \in Nat /\ z \in 0..Top /\ f[z] \in Nat /\ f[z] \in 0..Top
  BY TopType DEF Rename
<1>2. \A y, z \in M \cup {0} : y < z => f[y] < f[z]
  BY DEF Rename
<1>3. \A z \in M : 0 < z /\ 0 < f[z]
  <2>1. f[0] = 0
    BY DEF Rename
  <2>2. \A z \in M : 0 < z
    BY TopType
  <2>3. \A z \in M : f[0] < f[z]
    BY <1>2, <2>2
  <2>. QED
    BY <2>1, <2>2, <2>3
<1>4. \A z \in M : z <= x <=> f[z] <= f[x]
  <2>. SUFFICES ASSUME NEW z \in M PROVE z <= x <=> f[z] <= f[x]
    OBVIOUS
  <2>1. z \in Nat /\ x \in Nat /\ f[z] \in Nat /\ f[x] \in Nat
    BY <1>1
  <2>2. (x < z => f[x] < f[z]) /\ (z < x => f[z] < f[x])
    BY <1>2
  <2>3. z < x \/ z = x \/ x < z
    BY <2>1
  <2>4. CASE z < x
    BY <2>1, <2>2, <2>4
  <2>5. CASE z = x
    BY <2>1, <2>5
  <2>6. CASE x < z
    BY <2>1, <2>2, <2>6
  <2>. QED
    BY <2>3, <2>4, <2>5, <2>6
<1>5. A = {z \in M : z <= x} /\ B = {y \in Image(f, M) : y <= f[x]}
  <2>1. \A z \in M : z \in 1..x <=> z <= x
    BY <1>1, <1>3
  <2>2. \A z \in M : f[z] \in 1..f[x] <=> f[z] <= f[x]
    BY <1>1, <1>3
  <2>. QED
    BY <2>1, <2>2 DEF Image
<1>6. g \in [A -> B]
  BY <1>4, <1>5 DEF Image
<1>7. g \in Bijection(A, B)
  <2>1. \A y, z \in A : g[y] = g[z] => y = z
    <3>. SUFFICES ASSUME NEW y \in A, NEW z \in A, f[y] = f[z] PROVE y = z
      OBVIOUS
    <3>1. y \in Nat /\ z \in Nat /\ f[y] \in Nat /\ f[z] \in Nat
      BY <1>1
    <3>2. (y < z => f[y] < f[z]) /\ (z < y => f[z] < f[y])
      BY <1>2
    <3>3. ~ (y < z) /\ ~ (z < y)
      BY <3>1, <3>2
    <3>. QED
      BY <3>1, <3>3
  <2>2. \A w \in B : \E z \in A : g[z] = w
    <3>. SUFFICES ASSUME NEW w \in B PROVE \E z \in A : g[z] = w
      OBVIOUS
    <3>1. PICK z \in M : w = f[z]
      BY DEF Image
    <3>2. z \in A
      BY <1>4, <1>5, <3>1
    <3>. QED
      BY <3>1, <3>2
  <2>. HIDE DEF g, A, B
  <2>3. g \in Injection(A, B)
    BY <1>6, <2>1 DEF Injection, IsInjective
  <2>4. g \in Surjection(A, B)
    BY <1>6, <2>2 DEF Surjection
  <2>. QED
    BY <2>3, <2>4 DEF Bijection
<1>8. x \in Nat /\ x \in 0..Top /\ f[x] \in 0..Top
  BY <1>1
<1>9. IsFiniteSet(1..x)
  BY <1>8, FS_Interval
<1>10. IsFiniteSet(A)
  BY <1>9, FS_Subset
<1>. HIDE DEF g, A, B
<1>11. Cardinality(B) = Cardinality(A)
  BY <1>7, <1>10, FS_Bijection DEF ExistsBijection
<1>. QED
  BY <1>8, <1>11 DEF Upto, A, B

\* A tree in order with its items renamed.
LEMMA Relabel ==
  ASSUME NEW D, NEW H, NEW rt, NEW ht, NEW lv, NEW lo, NEW hi, NEW M,
         Form(D, H, rt, ht, lv, lo, hi, M), NEW f, Rename(f, M),
         NEW W, Renamed(D, H, W, f)
  PROVE  \E lo2, hi2 : Form(D, W, rt, ht, lv, lo2, hi2, Image(f, M))
<1>. DEFINE lo2 == [b \in D |-> f[lo[b]]]
            hi2 == [b \in D |-> f[hi[b]]]
            N == Image(f, M)
<1>1. /\ Typed(D, H, ht, lv, lo, hi, M) /\ Rooted(D, rt, ht, lv, lo, hi)
      /\ Leveled(D, H, ht, lv) /\ Ordered(D, H, lo, hi, M) /\ Linked(D, H, lv, lo, hi)
      /\ Apart(D, lv, lo, hi) /\ Counted(D, H, lo, hi, M)
  BY DEF Form
<1>2. /\ D \subseteq Nat \ {0} /\ IsFiniteSet(D) /\ H \in [D -> NodeSet] /\ ht \in Nat
      /\ lv \in [D -> Nat] /\ lo \in [D -> 0..Top] /\ hi \in [D -> 0..Top]
      /\ M \subseteq 1..Top /\ Top \in M
      /\ rt \in D /\ lv[rt] = ht /\ lo[rt] = 0 /\ hi[rt] = Top
  BY <1>1 DEF Typed, Rooted
<1>3. f \in [0..Top -> 0..Top] /\ f[0] = 0 /\ f[Top] = Top
      /\ \A x, y \in M \cup {0} : x < y => f[x] < f[y]
  BY DEF Rename
<1>4. /\ W \in [D -> NodeSet]
      /\ \A b \in D : /\ W[b].leaf <=> H[b].leaf
                      /\ W[b].children = H[b].children
                      /\ TreeCount(W[b]) = TreeCount(H[b])
                      /\ Len(W[b].keys) = Len(H[b].keys)
                      /\ \A i \in 1..Len(H[b].keys) : W[b].keys[i] = f[H[b].keys[i]]
  BY DEF Renamed
<1>5. /\ lo2 \in [D -> 0..Top] /\ hi2 \in [D -> 0..Top]
      /\ \A b \in D : lo2[b] = f[lo[b]] /\ hi2[b] = f[hi[b]]
  BY <1>2, <1>3
<1>. HIDE DEF lo2, hi2
<1>6. N \subseteq 1..Top /\ Top \in N /\ \A x \in M : f[x] \in N
  <2>1. N \subseteq 1..Top /\ Top \in N
    BY <1>2, ImageType
  <2>. QED
    BY <2>1 DEF Image
<1>. HIDE DEF N
<1>7. \A b \in D : /\ lo[b] \in M \cup {0} /\ hi[b] \in M
                   /\ \A i \in 1..Len(H[b].keys) : H[b].keys[i] \in M
  BY <1>1 DEF Ordered
<1>8. \A b \in D : Len(H[b].keys) \in Nat
  BY FormNode
<1>9. ASSUME NEW b \in D, NEW i \in 0..(Len(H[b].keys) + 1)
      PROVE  /\ Edge(W[b], lo2[b], hi2[b], i) = f[Edge(H[b], lo[b], hi[b], i)]
             /\ Edge(H[b], lo[b], hi[b], i) \in M \cup {0}
  <2>. DEFINE m == Len(H[b].keys)
  <2>0. m \in Nat /\ Len(W[b].keys) = m
    BY <1>4, <1>8
  <2>1. CASE i = 0
    BY <2>1, <1>5, <1>7 DEF Edge
  <2>2. CASE i = m + 1
    <3>1. i # 0 /\ i = Len(W[b].keys) + 1
      BY <2>0, <2>2
    <3>. QED
      BY <2>2, <3>1, <1>5, <1>7 DEF Edge
  <2>3. CASE i \in 1..m
    <3>1. i # 0 /\ i # Len(W[b].keys) + 1 /\ i # m + 1
      BY <2>0, <2>3
    <3>. QED
      BY <2>3, <3>1, <1>4, <1>7 DEF Edge
  <2>4. i = 0 \/ i = m + 1 \/ i \in 1..m
    <3>1. i \in 0..(m + 1)
      OBVIOUS
    <3>. HIDE DEF m
    <3>. QED
      BY <2>0, <3>1
  <2>. QED
    BY <2>1, <2>2, <2>3, <2>4
<1>10. Typed(D, W, ht, lv, lo2, hi2, N)
  BY <1>2, <1>4, <1>5, <1>6 DEF Typed
<1>11. Rooted(D, rt, ht, lv, lo2, hi2)
  BY <1>2, <1>3, <1>5 DEF Rooted
<1>12. Leveled(D, W, ht, lv)
  BY <1>1, <1>4 DEF Leveled
<1>13. Ordered(D, W, lo2, hi2, N)
  <2>. SUFFICES ASSUME NEW b \in D
                PROVE  /\ lo2[b] \in N \cup {0} /\ hi2[b] \in N
                       /\ \A k \in 1..Len(W[b].keys) : W[b].keys[k] \in N
                       /\ \A k, g \in 0..(Len(W[b].keys) + 1) :
                            k < g => Edge(W[b], lo2[b], hi2[b], k) < Edge(W[b], lo2[b], hi2[b], g)
    BY DEF Ordered
  <2>1. lo2[b] \in N \cup {0} /\ hi2[b] \in N
    BY <1>3, <1>5, <1>6, <1>7
  <2>2. \A k \in 1..Len(W[b].keys) : W[b].keys[k] \in N
    BY <1>4, <1>6, <1>7
  <2>3. Len(W[b].keys) = Len(H[b].keys)
    BY <1>4
  <2>4. ASSUME NEW k \in 0..(Len(H[b].keys) + 1), NEW g \in 0..(Len(H[b].keys) + 1), k < g
        PROVE  Edge(W[b], lo2[b], hi2[b], k) < Edge(W[b], lo2[b], hi2[b], g)
    <3>. DEFINE ek == Edge(H[b], lo[b], hi[b], k)
                eg == Edge(H[b], lo[b], hi[b], g)
    <3>1. ek < eg
      BY <2>4, <1>1 DEF Ordered
    <3>2. ek \in M \cup {0} /\ eg \in M \cup {0}
          /\ Edge(W[b], lo2[b], hi2[b], k) = f[ek] /\ Edge(W[b], lo2[b], hi2[b], g) = f[eg]
      BY <1>9
    <3>. HIDE DEF ek, eg
    <3>. QED
      BY <3>1, <3>2, <1>3
  <2>. QED
    BY <2>1, <2>2, <2>3, <2>4
<1>14. Linked(D, W, lv, lo2, hi2)
  <2>. SUFFICES ASSUME NEW b \in D, NEW k \in 1..Len(W[b].children)
                PROVE  /\ W[b].children[k] \in D
                       /\ lv[W[b].children[k]] = lv[b] - 1
                       /\ lo2[W[b].children[k]] = Edge(W[b], lo2[b], hi2[b], k - 1)
                       /\ hi2[W[b].children[k]] = Edge(W[b], lo2[b], hi2[b], k)
    BY DEF Linked
  <2>. DEFINE c == H[b].children[k]
  <2>1. W[b].children = H[b].children
    BY <1>4
  <2>2. k \in 1..Len(H[b].children)
    BY <2>1
  <2>3. /\ c \in D
        /\ lv[c] = lv[b] - 1
        /\ lo[c] = Edge(H[b], lo[b], hi[b], k - 1)
        /\ hi[c] = Edge(H[b], lo[b], hi[b], k)
    BY <1>1, <2>2 DEF Linked
  <2>4. k \in 0..(Len(H[b].keys) + 1) /\ k - 1 \in 0..(Len(H[b].keys) + 1)
    <3>1. Len(H[b].keys) \in Nat
          /\ Len(H[b].children) = (IF lv[b] = 1 THEN 0 ELSE Len(H[b].keys) + 1)
      BY FormNode
    <3>. DEFINE m == Len(H[b].keys)
    <3>2. m \in Nat /\ k \in 1..(m + 1)
      BY <2>2, <3>1
    <3>. HIDE DEF m
    <3>3. k \in 0..(m + 1) /\ k - 1 \in 0..(m + 1)
      BY <3>2
    <3>. QED
      BY <3>3 DEF m
  <2>5. /\ Edge(W[b], lo2[b], hi2[b], k - 1) = f[Edge(H[b], lo[b], hi[b], k - 1)]
        /\ Edge(W[b], lo2[b], hi2[b], k) = f[Edge(H[b], lo[b], hi[b], k)]
    BY <2>4, <1>9
  <2>6. lo2[c] = f[lo[c]] /\ hi2[c] = f[hi[c]]
    BY <2>3, <1>5
  <2>. QED
    BY <2>1, <2>3, <2>5, <2>6
<1>15. Apart(D, lv, lo2, hi2)
  <2>. SUFFICES ASSUME NEW a \in D, NEW b \in D, a # b, lv[a] = lv[b]
                PROVE  hi2[a] <= lo2[b] \/ hi2[b] <= lo2[a]
    BY DEF Apart
  <2>1. hi[a] <= lo[b] \/ hi[b] <= lo[a]
    BY <1>1 DEF Apart
  <2>2. \A c, d \in D : hi[c] <= lo[d] => hi2[c] <= lo2[d]
    <3>. SUFFICES ASSUME NEW c \in D, NEW d \in D, hi[c] <= lo[d] PROVE hi2[c] <= lo2[d]
      OBVIOUS
    <3>1. hi[c] \in Int /\ lo[d] \in Int /\ hi2[c] \in Int /\ lo2[d] \in Int
      BY <1>2, <1>5, TopType
    <3>2. hi[c] = lo[d] \/ hi[c] < lo[d]
      BY <3>1
    <3>3. hi[c] < lo[d] => f[hi[c]] < f[lo[d]]
      BY <1>3, <1>7
    <3>4. hi2[c] = f[hi[c]] /\ lo2[d] = f[lo[d]]
      BY <1>5
    <3>5. CASE hi[c] = lo[d]
      BY <3>1, <3>4, <3>5
    <3>6. CASE hi[c] < lo[d]
      BY <3>1, <3>3, <3>4, <3>6
    <3>. QED
      BY <3>2, <3>5, <3>6
  <2>. QED
    BY <2>1, <2>2
<1>16. Counted(D, W, lo2, hi2, N)
  <2>. SUFFICES ASSUME NEW b \in D
                PROVE  TreeCount(W[b]) = Upto(N)[hi2[b]] - Upto(N)[lo2[b]] - 1
    BY DEF Counted
  <2>1. TreeCount(H[b]) = Upto(M)[hi[b]] - Upto(M)[lo[b]] - 1
    BY <1>1 DEF Counted
  <2>2. TreeCount(W[b]) = TreeCount(H[b]) /\ lo2[b] = f[lo[b]] /\ hi2[b] = f[hi[b]]
    BY <1>4, <1>5
  <2>4. M \subseteq 1..Top /\ Top \in M
    BY <1>2
  <2>5. \A x \in M \cup {0} : Upto(N)[f[x]] = Upto(M)[x]
    BY <2>4, ImageUpto DEF N
  <2>6. hi[b] \in M \cup {0} /\ lo[b] \in M \cup {0}
    BY <1>7
  <2>3. Upto(N)[f[hi[b]]] = Upto(M)[hi[b]] /\ Upto(N)[f[lo[b]]] = Upto(M)[lo[b]]
    BY <2>5, <2>6
  <2>. QED
    BY <2>1, <2>2, <2>3
<1>. QED
  BY <1>1, <1>10, <1>11, <1>12, <1>13, <1>14, <1>15, <1>16 DEF Form, N

-----------------------------------------------------------------------------
(* Paths down from the root.                                                *)

Steps == Seq([node : Int, pos : Int])

\* What a path is.
LEMMA StepsFacts ==
  ASSUME NEW path \in Steps
  PROVE  /\ Len(path) \in Nat
         /\ path = <<>> <=> Len(path) = 0
         /\ \A k \in 1..Len(path) : path[k].node \in Int /\ path[k].pos \in Int
<1>. DEFINE S == [node : Int, pos : Int]
<1>1. path \in Seq(S)
  BY DEF Steps
<1>2. \A e \in S : e.node \in Int /\ e.pos \in Int
  OBVIOUS
<1>. HIDE DEF S
<1>3. Len(path) \in Nat /\ \A k \in 1..Len(path) : path[k] \in S
  BY <1>1, LenProperties, ElementOfSeq
<1>4. Len(<<>>) = 0 /\ (path # <<>> => Len(path) \in Nat \ {0})
  BY <1>1, EmptySeq
<1>. QED
  BY <1>2, <1>3, <1>4

\* A path with a step more.
LEMMA PushFacts ==
  ASSUME NEW path \in Steps, NEW a \in Int, NEW i \in Int
  PROVE  /\ Push(path, a, i) \in Steps
         /\ Len(Push(path, a, i)) = Len(path) + 1
         /\ \A k \in 1..Len(path) : Push(path, a, i)[k] = path[k]
         /\ LastNode(Push(path, a, i)) = a
         /\ LastPos(Push(path, a, i)) = i
         /\ Push(path, a, i)[Len(path) + 1].node = a
         /\ Push(path, a, i)[Len(path) + 1].pos = i
<1>. DEFINE e == [node |-> a, pos |-> i]
<1>1. e \in [node : Int, pos : Int] /\ e.node = a /\ e.pos = i
  OBVIOUS
<1>. HIDE DEF e
<1>2. /\ Append(path, e) \in Steps
      /\ Len(Append(path, e)) = Len(path) + 1
      /\ \A k \in 1..Len(path) : Append(path, e)[k] = path[k]
      /\ Append(path, e)[Len(path) + 1] = e
  BY <1>1 DEF Steps
<1>3. Push(path, a, i) = Append(path, e)
  BY DEF Push, e
<1>. HIDE DEF e
<1>. QED
  BY <1>1, <1>2, <1>3 DEF LastNode, LastPos

\* A path without its last step.
LEMMA AboveFacts ==
  ASSUME NEW path \in Steps, Len(path) >= 1
  PROVE  /\ Above(path) \in Steps
         /\ Len(Above(path)) = Len(path) - 1
         /\ \A k \in 1..(Len(path) - 1) : Above(path)[k] = path[k]
         /\ LastNode(path) = path[Len(path)].node
         /\ LastPos(path) = path[Len(path)].pos
         /\ LastNode(path) \in Int /\ LastPos(path) \in Int
<1>1. Len(path) \in Nat
  BY DEF Steps
<1>2. /\ SubSeq(path, 1, Len(path) - 1) \in Steps
      /\ Len(SubSeq(path, 1, Len(path) - 1)) = Len(path) - 1
      /\ \A k \in 1..(Len(path) - 1) : SubSeq(path, 1, Len(path) - 1)[k] = path[k]
  <2>. DEFINE S == [node : Int, pos : Int]
              s == SubSeq(path, 1, Len(path) - 1)
  <2>1. path \in Seq(S)
    BY DEF Steps
  <2>. HIDE DEF S
  <2>2. \A k \in 1..(Len(path) - 1) : path[k] \in S
    BY <1>1, <2>1, ElementOfSeq
  <2>3. /\ s \in Seq(S)
        /\ Len(s) = IF 1 <= Len(path) - 1 THEN (Len(path) - 1) - 1 + 1 ELSE 0
        /\ \A k \in 1..((Len(path) - 1) - 1 + 1) : s[k] = path[1 + k - 1]
    BY <1>1, <2>2, SubSeqProperties
  <2>. HIDE DEF s
  <2>4. Len(s) = Len(path) - 1
    <3>. DEFINE n == Len(path)
                m == Len(s)
    <3>1. n \in Nat /\ n >= 1 /\ m = IF 1 <= n - 1 THEN (n - 1) - 1 + 1 ELSE 0
      BY <1>1, <2>3
    <3>. HIDE DEF n, m
    <3>2. m = n - 1
      BY <3>1
    <3>. QED
      BY <3>2 DEF n, m
  <2>5. \A k \in 1..(Len(path) - 1) : s[k] = path[k]
    <3>1. \A k \in 1..(Len(path) - 1) : k \in 1..((Len(path) - 1) - 1 + 1) /\ 1 + k - 1 = k
      BY <1>1
    <3>. QED
      BY <2>3, <3>1
  <2>. QED
    BY <2>3, <2>4, <2>5 DEF s, S, Steps
<1>3. Len(path) \in 1..Len(path)
  BY <1>1
<1>. QED
  BY <1>2, <1>3, StepsFacts DEF Above, LastNode, LastPos

\* Each node of the path is the child of the one before it at its position.
On(D, H, rt, ht, lv, path) ==
  /\ path \in Steps
  /\ Len(path) \in 1..ht
  /\ path[1].node = rt
  /\ \A k \in 1..Len(path) :
       /\ path[k].node \in D
       /\ lv[path[k].node] = (ht - k) + 1
       /\ path[k].pos \in 0..Len(H[path[k].node].keys)
  /\ \A k \in 1..(Len(path) - 1) :
       path[k + 1].node = H[path[k].node].children[path[k].pos + 1]

\* The last step of a path of the tree.
LEMMA OnLast ==
  ASSUME NEW D, NEW H, NEW rt, NEW ht \in Nat, NEW lv, NEW path, On(D, H, rt, ht, lv, path)
  PROVE  /\ path \in Steps /\ Len(path) \in Nat /\ Len(path) >= 1 /\ Len(path) <= ht
         /\ LastNode(path) = path[Len(path)].node /\ LastPos(path) = path[Len(path)].pos
         /\ LastNode(path) \in D /\ LastNode(path) \in Int
         /\ lv[LastNode(path)] = (ht - Len(path)) + 1
         /\ LastPos(path) \in 0..Len(H[LastNode(path)].keys)
         /\ Len(path) = 1 => LastNode(path) = rt
<1>1. path \in Steps /\ Len(path) \in 1..ht
  BY DEF On
<1>2. Len(path) \in Nat /\ Len(path) >= 1 /\ Len(path) <= ht /\ Len(path) \in 1..Len(path)
  BY <1>1
<1>. QED
  BY <1>1, <1>2, AboveFacts DEF On

\* The nodes of a path are different.
LEMMA OnDistinct ==
  ASSUME NEW D, NEW H, NEW rt, NEW ht \in Nat, NEW lv, NEW path, On(D, H, rt, ht, lv, path),
         NEW k \in 1..Len(path), NEW m \in 1..Len(path), path[k].node = path[m].node
  PROVE  k = m
<1>1. Len(path) \in Nat
  BY OnLast
<1>2. lv[path[k].node] = (ht - k) + 1 /\ lv[path[m].node] = (ht - m) + 1
  BY DEF On
<1>. QED
  BY <1>1, <1>2

\* The path to the parent.
LEMMA OnAbove ==
  ASSUME NEW D, NEW H, NEW rt, NEW ht \in Nat, NEW lv, NEW path, On(D, H, rt, ht, lv, path),
         Len(path) > 1
  PROVE  /\ On(D, H, rt, ht, lv, Above(path))
         /\ Above(path) # <<>>
         /\ Len(Above(path)) = Len(path) - 1
         /\ H[LastNode(Above(path))].children[LastPos(Above(path)) + 1] = LastNode(path)
<1>. DEFINE up == Above(path)
            n == Len(path)
<1>1. path \in Steps /\ n \in Nat /\ n >= 1 /\ n <= ht /\ LastNode(path) = path[n].node
  BY OnLast
<1>2. up \in Steps /\ Len(up) = n - 1 /\ \A k \in 1..(n - 1) : up[k] = path[k]
  BY <1>1, AboveFacts
<1>3. n - 1 \in 1..(n - 1) /\ 1 \in 1..(n - 1) /\ n - 1 \in 1..ht /\ (n - 1) + 1 = n /\ n - 1 # 0
      /\ n - 1 >= 1
  BY <1>1
<1>4. \A k \in 1..(n - 1) : k \in 1..n
  BY <1>1
<1>5. \A k \in 1..((n - 1) - 1) : k \in 1..(n - 1) /\ k + 1 \in 1..(n - 1)
  BY <1>1
<1>6. \A k \in 1..(n - 1) :
       path[k + 1].node = H[path[k].node].children[path[k].pos + 1]
  BY DEF On
<1>7. path[1].node = rt /\ \A k \in 1..n :
       /\ path[k].node \in D
       /\ lv[path[k].node] = (ht - k) + 1
       /\ path[k].pos \in 0..Len(H[path[k].node].keys)
  BY DEF On
<1>8. LastNode(up) = up[n - 1].node /\ LastPos(up) = up[n - 1].pos
  BY <1>2, <1>3, AboveFacts
<1>. HIDE DEF up, n
<1>9. On(D, H, rt, ht, lv, up)
  <2>1. up[1].node = rt
    BY <1>2, <1>3, <1>7
  <2>2. \A k \in 1..Len(up) :
       /\ up[k].node \in D
       /\ lv[up[k].node] = (ht - k) + 1
       /\ up[k].pos \in 0..Len(H[up[k].node].keys)
    BY <1>2, <1>4, <1>7
  <2>3. \A k \in 1..(Len(up) - 1) :
       up[k + 1].node = H[up[k].node].children[up[k].pos + 1]
    BY <1>2, <1>5, <1>6
  <2>. QED
    BY <1>2, <1>3, <2>1, <2>2, <2>3 DEF On
<1>10. up # <<>>
  BY <1>2, <1>3, StepsFacts
<1>11. H[LastNode(up)].children[LastPos(up) + 1] = path[n].node
  BY <1>2, <1>3, <1>6, <1>8
<1>. QED
  BY <1>1, <1>2, <1>9, <1>10, <1>11 DEF up, n

\* One level further down.
LEMMA OnPush ==
  ASSUME NEW D, NEW H, NEW rt, NEW ht, NEW lv, NEW lo, NEW hi, NEW M,
         Form(D, H, rt, ht, lv, lo, hi, M), NEW path, On(D, H, rt, ht, lv, path),
         lv[LastNode(path)] # 1, NEW i \in 0..Len(H[ChildBelow(H, path)].keys)
  PROVE  LET c == ChildBelow(H, path) IN
         /\ On(D, H, rt, ht, lv, Push(path, c, i))
         /\ c \in D /\ lv[c] = lv[LastNode(path)] - 1
         /\ LastPos(path) + 1 \in 1..Len(H[LastNode(path)].children)
         /\ c = H[LastNode(path)].children[LastPos(path) + 1]
<1>. DEFINE c == ChildBelow(H, path)
            b == LastNode(path)
            j == LastPos(path)
            new == Push(path, c, i)
            n == Len(path)
<1>1. ht \in Nat
  BY DEF Form, Typed
<1>2. path \in Steps /\ n \in Nat /\ n >= 1 /\ n <= ht /\ b = path[n].node /\ j = path[n].pos
      /\ b \in D /\ lv[b] = (ht - n) + 1 /\ j \in 0..Len(H[b].keys)
  BY <1>1, OnLast
<1>3. Len(H[b].keys) \in Nat /\ lv[b] >= 1
      /\ Len(H[b].children) = IF lv[b] = 1 THEN 0 ELSE Len(H[b].keys) + 1
  BY <1>2, FormNode
<1>4. c = H[b].children[j + 1]
  BY DEF ChildBelow, Child
<1>. HIDE DEF c, b, j, n
<1>5. j + 1 \in 1..Len(H[b].children)
  BY <1>2, <1>3 DEF b
<1>6. c \in D /\ lv[c] = lv[b] - 1
  BY <1>2, <1>4, <1>5, FormChild
<1>7. c \in Int /\ Len(H[c].keys) \in Nat
  BY <1>6, FormNode
<1>8. i \in 0..Len(H[c].keys) /\ i \in Int
  BY <1>7 DEF c
<1>9. /\ new \in Steps /\ Len(new) = n + 1 /\ \A k \in 1..n : new[k] = path[k]
      /\ new[n + 1].node = c /\ new[n + 1].pos = i
  BY <1>2, <1>7, <1>8, PushFacts DEF n
<1>. HIDE DEF new
<1>10. \A k \in 1..(n - 1) :
       path[k + 1].node = H[path[k].node].children[path[k].pos + 1]
  BY DEF On, n
<1>11. path[1].node = rt /\ \A k \in 1..n :
       /\ path[k].node \in D
       /\ lv[path[k].node] = (ht - k) + 1
       /\ path[k].pos \in 0..Len(H[path[k].node].keys)
  BY DEF On, n
<1>12. n + 1 \in 1..ht /\ lv[c] = (ht - (n + 1)) + 1 /\ 1 \in 1..n
  BY <1>1, <1>2, <1>3, <1>6 DEF b
<1>13. \A k \in 1..(n + 1) : k \in 1..n \/ k = n + 1
  BY <1>2
<1>14. \A k \in 1..((n + 1) - 1) : k = n \/ (k \in 1..(n - 1) /\ k + 1 \in 1..n)
  BY <1>2
<1>15. n \in 1..n
  BY <1>2
<1>16. \A k \in 1..(n + 1) :
       /\ new[k].node \in D
       /\ lv[new[k].node] = (ht - k) + 1
       /\ new[k].pos \in 0..Len(H[new[k].node].keys)
  BY <1>6, <1>8, <1>9, <1>11, <1>12, <1>13
<1>17. \A k \in 1..((n + 1) - 1) :
       new[k + 1].node = H[new[k].node].children[new[k].pos + 1]
  <2>1. ASSUME NEW k \in 1..((n + 1) - 1)
        PROVE  new[k + 1].node = H[new[k].node].children[new[k].pos + 1]
    <3>1. CASE k = n
      BY <3>1, <1>2, <1>4, <1>9, <1>15
    <3>2. CASE k \in 1..(n - 1) /\ k + 1 \in 1..n
      <4>1. k \in 1..n
        BY <1>2, <3>2
      <4>. QED
        BY <3>2, <4>1, <1>9, <1>10
    <3>. QED
      BY <3>1, <3>2, <1>14
  <2>. QED
    BY <2>1
<1>18. On(D, H, rt, ht, lv, new)
  <2>1. new[1].node = rt
    BY <1>9, <1>11, <1>12
  <2>. QED
    BY <1>9, <1>12, <1>16, <1>17, <2>1 DEF On
<1>. QED
  BY <1>4, <1>5, <1>6, <1>18 DEF new, c, b, j

-----------------------------------------------------------------------------
\* The nodes of a path enclose the last one.
LEMMA OnEnclose ==
  ASSUME NEW D, NEW H, NEW rt, NEW ht, NEW lv, NEW lo, NEW hi, NEW M,
         Form(D, H, rt, ht, lv, lo, hi, M), NEW path, On(D, H, rt, ht, lv, path),
         NEW k \in 1..Len(path)
  PROVE  lo[path[k].node] <= lo[LastNode(path)] /\ hi[LastNode(path)] <= hi[path[k].node]
<1>. DEFINE n == Len(path)
            a == LastNode(path)
            S == {m \in Nat : m <= n - 1 => lo[path[n - m].node] <= lo[a] /\ hi[a] <= hi[path[n - m].node]}
<1>1. ht \in Nat
  BY DEF Form, Typed
<1>2. n \in Nat /\ n >= 1 /\ n <= ht /\ a = path[n].node /\ a \in D
  BY <1>1, OnLast
<1>3. \A b \in D : lo[b] \in Int /\ hi[b] \in Int
  BY FormNode
<1>4. 0 \in S
  <2>1. n - 0 = n
    BY <1>2
  <2>. QED
    BY <2>1, <1>2, <1>3
<1>5. ASSUME NEW m \in Nat, m \in S PROVE m + 1 \in S
  <2>. SUFFICES ASSUME m + 1 <= n - 1
                PROVE  lo[path[n - (m + 1)].node] <= lo[a] /\ hi[a] <= hi[path[n - (m + 1)].node]
    OBVIOUS
  <2>. DEFINE i == n - (m + 1)
              b == path[i].node
              c == path[i + 1].node
  <2>1. i \in 1..n /\ i \in 1..(n - 1) /\ i + 1 \in 1..n /\ i + 1 = n - m /\ m <= n - 1
        /\ i + 1 <= ht /\ i \in Int
    <3>. HIDE DEF n
    <3>. QED
      BY <1>1, <1>2
  <2>. HIDE DEF i
  <2>2. lo[c] <= lo[a] /\ hi[a] <= hi[c]
    BY <2>1, <1>5
  <2>3. b \in D /\ lv[b] = (ht - i) + 1 /\ path[i].pos \in 0..Len(H[b].keys)
        /\ c \in D /\ lv[c] = (ht - (i + 1)) + 1
        /\ c = H[b].children[path[i].pos + 1]
    BY <2>1 DEF On
  <2>. HIDE DEF b, c
  <2>4. Len(H[b].keys) \in Nat
        /\ Len(H[b].children) = IF lv[b] = 1 THEN 0 ELSE Len(H[b].keys) + 1
    BY <2>3, FormNode
  <2>5. lv[b] # 1
    BY <2>3, <2>1, <1>1
  <2>6. path[i].pos + 1 \in 1..Len(H[b].children)
    <3>. DEFINE m1 == Len(H[b].keys)
                m2 == Len(H[b].children)
                q == path[i].pos
    <3>1. m1 \in Nat /\ m2 = m1 + 1 /\ q \in 0..m1
      BY <2>3, <2>4, <2>5
    <3>. HIDE DEF m1, m2, q
    <3>2. q + 1 \in 1..m2
      BY <3>1
    <3>. QED
      BY <3>2 DEF m2, q
  <2>7. lo[b] <= lo[c] /\ hi[c] <= hi[b]
    <3>. DEFINE q == path[i].pos + 1
    <3>1. b \in D /\ q \in 1..Len(H[b].children) /\ c = H[b].children[q]
      BY <2>3, <2>6
    <3>. HIDE DEF q
    <3>. QED
      BY <3>1, FormChild
  <2>8. lo[b] \in Int /\ lo[c] \in Int /\ lo[a] \in Int /\ hi[a] \in Int /\ hi[b] \in Int /\ hi[c] \in Int
    BY <2>3, <1>2, <1>3
  <2>9. lo[b] <= lo[a] /\ hi[a] <= hi[b]
    BY <2>2, <2>7, <2>8
  <2>. QED
    BY <2>9 DEF b, i
<1>. HIDE DEF S
<1>6. Nat \subseteq S
  BY <1>4, <1>5, NatSetInduction
<1>7. n - k \in Nat /\ n - k <= n - 1 /\ n - (n - k) = k
  BY <1>2
<1>. QED
  BY <1>6, <1>7 DEF S

OnPath(path, b) == \E i \in 1..Len(path) : path[i].node = b

\* At the level of the last node and above, the nodes around a number between
\* its bounds are those of the path.
LEMMA PathCovers ==
  ASSUME NEW D, NEW H, NEW rt, NEW ht, NEW lv, NEW lo, NEW hi, NEW M,
         Form(D, H, rt, ht, lv, lo, hi, M), NEW path, On(D, H, rt, ht, lv, path),
         NEW x \in Int, lo[LastNode(path)] < x, x < hi[LastNode(path)],
         NEW b \in D, lv[LastNode(path)] <= lv[b]
  PROVE  lo[b] < x /\ x < hi[b] <=> OnPath(path, b)
<1>. DEFINE n == Len(path)
            a == LastNode(path)
<1>1. ht \in Nat
  BY DEF Form, Typed
<1>2. n \in Nat /\ n >= 1 /\ n <= ht /\ a = path[n].node /\ a \in D /\ lv[a] = (ht - n) + 1
  BY <1>1, OnLast
<1>3. \A c \in D : lo[c] \in Int /\ hi[c] \in Int
  BY FormNode
<1>4. \A k \in 1..n : path[k].node \in D /\ lv[path[k].node] = (ht - k) + 1
  BY DEF On
<1>5. \A k \in 1..n : lo[path[k].node] <= lo[a] /\ hi[a] <= hi[path[k].node]
  BY OnEnclose
<1>6. lo[a] < x /\ x < hi[a] /\ lv[a] <= lv[b]
  OBVIOUS
<1>7. lv[b] \in Nat /\ lv[b] <= ht
  BY FormNode
<1>. HIDE DEF a, n
<1>8. \A k \in 1..n : lo[path[k].node] < x /\ x < hi[path[k].node]
  <2>. SUFFICES ASSUME NEW k \in 1..n PROVE lo[path[k].node] < x /\ x < hi[path[k].node]
    OBVIOUS
  <2>. DEFINE c == path[k].node
  <2>1. lo[c] <= lo[a] /\ hi[a] <= hi[c] /\ lo[c] \in Int /\ hi[c] \in Int /\ lo[a] \in Int /\ hi[a] \in Int
    BY <1>2, <1>3, <1>4, <1>5
  <2>. HIDE DEF c
  <2>2. lo[c] < x /\ x < hi[c]
    BY <2>1, <1>6
  <2>. QED
    BY <2>2 DEF c
<1>9. ASSUME lo[b] < x, x < hi[b] PROVE OnPath(path, b)
  <2>. DEFINE k == (ht - lv[b]) + 1
  <2>1. k \in 1..n /\ (ht - k) + 1 = lv[b]
    BY <1>1, <1>2, <1>6, <1>7
  <2>. HIDE DEF k
  <2>. DEFINE c == path[k].node
  <2>2. c \in D /\ lv[c] = lv[b] /\ lo[c] < x /\ x < hi[c]
    BY <2>1, <1>4, <1>8
  <2>. HIDE DEF c
  <2>3. In(lo, hi, b, x) /\ In(lo, hi, c, x)
    BY <2>2, <1>3, <1>9 DEF In
  <2>4. c = b
    BY <2>2, <2>3, SameNode
  <2>. QED
    BY <2>1, <2>4 DEF c, OnPath, n
<1>10. ASSUME OnPath(path, b) PROVE lo[b] < x /\ x < hi[b]
  BY <1>8, <1>10 DEF OnPath, n
<1>. QED
  BY <1>9, <1>10

-----------------------------------------------------------------------------
(* The counts above a node.                                                 *)

\* IncreaseTreeCount changes the count of an inner node and nothing else.
LEMMA BumpFacts ==
  ASSUME NEW n \in NodeSet, NEW d \in Int
  PROVE  LET m == IncreaseTreeCount(n, d) IN
         /\ m \in NodeSet
         /\ (m.leaf <=> n.leaf) /\ m.keys = n.keys /\ m.children = n.children
         /\ n.leaf => m = n /\ TreeCount(m) = TreeCount(n)
         /\ ~ n.leaf => TreeCount(m) = TreeCount(n) + d
<1>1. CASE n.leaf
  BY <1>1 DEF IncreaseTreeCount
<1>2. CASE ~ n.leaf
  BY <1>2 DEF IncreaseTreeCount, NodeSet, TreeCount
<1>. QED
  BY <1>1, <1>2

\* m is n with d added to its count.
Bumped(n, m, d) ==
  /\ m \in NodeSet
  /\ (m.leaf <=> n.leaf) /\ m.keys = n.keys /\ m.children = n.children
  /\ n.leaf => m = n /\ TreeCount(m) = TreeCount(n)
  /\ ~ n.leaf => TreeCount(m) = TreeCount(n) + d

\* The same as one predicate.
LEMMA BumpDone ==
  ASSUME NEW n \in NodeSet, NEW d \in Int, NEW m, m = IncreaseTreeCount(n, d)
  PROVE  Bumped(n, m, d)
<1>. QED
  BY BumpFacts DEF Bumped

\* G is H with d added to the counts on the path.
Raised(D, H, G, path, d) ==
  /\ G \in [D -> NodeSet]
  /\ \A b \in D : OnPath(path, b) => G[b] = IncreaseTreeCount(H[b], d)
  /\ \A b \in D : ~ OnPath(path, b) => G[b] = H[b]
  /\ \A b \in D : (G[b].leaf <=> H[b].leaf) /\ G[b].keys = H[b].keys
                  /\ G[b].children = H[b].children

\* IncreaseSubtreeCounts adds to the nodes of the path and to no other.
LEMMA RaiseFacts ==
  ASSUME NEW D, NEW H \in [D -> NodeSet], NEW path, NEW d \in Int,
         NEW G, G = IncreaseSubtreeCounts(H, path, d)
  PROVE  Raised(D, H, G, path, d)
<1>1. G = [b \in D |-> IF OnPath(path, b) THEN IncreaseTreeCount(H[b], d) ELSE H[b]]
  BY DEF IncreaseSubtreeCounts, OnPath
<1>2. /\ \A b \in D : OnPath(path, b) => G[b] = IncreaseTreeCount(H[b], d)
      /\ \A b \in D : ~ OnPath(path, b) => G[b] = H[b]
  BY <1>1
<1>3. \A b \in D : H[b] \in NodeSet
  OBVIOUS
<1>4. \A b \in D : /\ IncreaseTreeCount(H[b], d) \in NodeSet
                   /\ (IncreaseTreeCount(H[b], d).leaf <=> H[b].leaf)
                   /\ IncreaseTreeCount(H[b], d).keys = H[b].keys
                   /\ IncreaseTreeCount(H[b], d).children = H[b].children
  BY <1>3, BumpFacts
<1>5. \A b \in D : G[b] \in NodeSet /\ (G[b].leaf <=> H[b].leaf) /\ G[b].keys = H[b].keys
                   /\ G[b].children = H[b].children
  BY <1>2, <1>3, <1>4
<1>6. G \in [D -> NodeSet]
  BY <1>1, <1>5
<1>. QED
  BY <1>2, <1>5, <1>6 DEF Raised

\* An empty path has no counts to raise.
LEMMA RaiseNone ==
  ASSUME NEW D, NEW H \in [D -> NodeSet], NEW d
  PROVE  IncreaseSubtreeCounts(H, <<>>, d) = H
<1>1. \A b : ~ (\E i \in 1..Len(<<>>) : <<>>[i].node = b)
  <2>1. Len(<<>>) = 0
    BY NoNumbers
  <2>2. 1..0 = {}
    OBVIOUS
  <2>. QED
    BY <2>1, <2>2
<1>2. DOMAIN H = D
  OBVIOUS
<1>. QED
  BY <1>1, <1>2 DEF IncreaseSubtreeCounts

\* The nodes above the last node of a path are those on the path but for it.
LEMMA AboveNodes ==
  ASSUME NEW D, NEW H, NEW rt, NEW ht \in Nat, NEW lv, NEW path, On(D, H, rt, ht, lv, path)
  PROVE  \A b : OnPath(Above(path), b) <=> OnPath(path, b) /\ b # LastNode(path)
<1>. DEFINE n == Len(path)
<1>1. path \in Steps /\ n \in Nat /\ n >= 1 /\ n <= ht /\ LastNode(path) = path[n].node
  BY OnLast
<1>2. Len(Above(path)) = n - 1 /\ \A k \in 1..(n - 1) : Above(path)[k] = path[k]
  BY <1>1, AboveFacts
<1>3. \A k \in 1..n : path[k].node = path[n].node => k = n
  <2>1. n \in 1..n
    BY <1>1
  <2>. QED
    BY <2>1, OnDistinct
<1>. HIDE DEF n
<1>4. \A k \in 1..n : k \in 1..(n - 1) \/ k = n
  BY <1>1
<1>5. \A k \in 1..(n - 1) : k \in 1..n /\ k # n
  BY <1>1
<1>6. ASSUME NEW b PROVE OnPath(Above(path), b) <=> OnPath(path, b) /\ b # LastNode(path)
  <2>1. ASSUME OnPath(Above(path), b) PROVE OnPath(path, b) /\ b # LastNode(path)
    <3>1. PICK i \in 1..(n - 1) : path[i].node = b
      BY <2>1, <1>2 DEF OnPath
    <3>. QED
      BY <3>1, <1>1, <1>3, <1>5 DEF OnPath, n
  <2>2. ASSUME OnPath(path, b), b # LastNode(path) PROVE OnPath(Above(path), b)
    <3>1. PICK i \in 1..n : path[i].node = b
      BY <2>2 DEF OnPath, n
    <3>2. i \in 1..(n - 1)
      BY <3>1, <2>2, <1>1, <1>4
    <3>. QED
      BY <3>1, <3>2, <1>2 DEF OnPath
  <2>. QED
    BY <2>1, <2>2
<1>. QED
  BY <1>6

-----------------------------------------------------------------------------
\* A leaf is changed, and the counts of the nodes above it with it.
LEMMA LeafRecounted ==
  ASSUME NEW D, NEW H, NEW rt, NEW ht, NEW lv, NEW lo, NEW hi, NEW M,
         Form(D, H, rt, ht, lv, lo, hi, M), NEW path, On(D, H, rt, ht, lv, path),
         lv[LastNode(path)] = 1,
         NEW x \in Int, lo[LastNode(path)] < x, x < hi[LastNode(path)],
         NEW n \in NodeSet, n.leaf, n.children = H[LastNode(path)].children,
         NEW d \in Int, NEW W,
         W = IncreaseSubtreeCounts([H EXCEPT ![LastNode(path)] = n], Above(path), d)
  PROVE  /\ Recounted(D, H, W, LastNode(path), x, lo, hi, d)
         /\ W[LastNode(path)] = n
<1>. DEFINE a == LastNode(path)
            up == Above(path)
            G == [H EXCEPT ![a] = n]
<1>1. ht \in Nat /\ H \in [D -> NodeSet]
  BY DEF Form, Typed
<1>2. a \in D
  BY <1>1, OnLast
<1>3. \A b \in D : lv[b] \in Nat /\ lv[b] >= 1 /\ (H[b].leaf <=> lv[b] = 1)
  BY FormNode
<1>4. \A b \in D : OnPath(up, b) <=> OnPath(path, b) /\ b # a
  BY <1>1, AboveNodes
<1>5. \A b \in D : lo[b] < x /\ x < hi[b] <=> OnPath(path, b)
  <2>1. \A b \in D : lv[LastNode(path)] <= lv[b]
    BY <1>2, <1>3
  <2>. QED
    BY <2>1, PathCovers
<1>6. G \in [D -> NodeSet] /\ G[a] = n /\ \A b \in D : b # a => G[b] = H[b]
  BY <1>1, <1>2
<1>7. W = IncreaseSubtreeCounts(G, up, d)
  OBVIOUS
<1>8. H[a].leaf /\ n.leaf /\ n.children = H[a].children
  BY <1>2, <1>3
<1>9. \A b \in D \ {a} : OnPath(path, b) => ~ H[b].leaf
  <2>. SUFFICES ASSUME NEW b \in D \ {a}, OnPath(path, b), H[b].leaf PROVE FALSE
    OBVIOUS
  <2>1. lo[b] < x /\ x < hi[b] /\ lv[b] = lv[a]
    BY <1>2, <1>3, <1>5
  <2>2. In(lo, hi, a, x) /\ In(lo, hi, b, x)
    <3>1. lo[a] \in Int /\ hi[a] \in Int /\ lo[b] \in Int /\ hi[b] \in Int
      BY <1>2, FormNode
    <3>2. lo[a] < x /\ x < hi[a]
      OBVIOUS
    <3>. HIDE DEF a
    <3>. QED
      BY <2>1, <3>1, <3>2 DEF In
  <2>. QED
    BY <1>2, <2>1, <2>2, SameNode
<1>. HIDE DEF a, up, G
<1>17. Raised(D, G, W, up, d)
  BY <1>6, <1>7, RaiseFacts
<1>10. /\ W \in [D -> NodeSet]
       /\ \A b \in D : OnPath(up, b) => W[b] = IncreaseTreeCount(G[b], d)
       /\ \A b \in D : ~ OnPath(up, b) => W[b] = G[b]
       /\ \A b \in D : (W[b].leaf <=> G[b].leaf) /\ W[b].keys = G[b].keys
                       /\ W[b].children = G[b].children
  BY <1>17 DEF Raised
<1>11. W[a] = n
  BY <1>2, <1>4, <1>6, <1>10
<1>12. \A b \in D : (W[b].leaf <=> H[b].leaf) /\ W[b].children = H[b].children
  BY <1>2, <1>6, <1>8, <1>10, <1>11
<1>13. \A b \in D \ {a} : W[b].keys = H[b].keys
  BY <1>6, <1>10
<1>14. \A b \in D \ {a} : lo[b] < x /\ x < hi[b] => TreeCount(W[b]) = TreeCount(H[b]) + d
  <2>. SUFFICES ASSUME NEW b \in D \ {a}, OnPath(path, b)
                PROVE  TreeCount(W[b]) = TreeCount(H[b]) + d
    BY <1>5
  <2>2. OnPath(up, b) /\ G[b] = H[b] /\ ~ H[b].leaf
    BY <1>4, <1>6, <1>9
  <2>1. W[b] = IncreaseTreeCount(H[b], d) /\ H[b] \in NodeSet /\ ~ H[b].leaf
    BY <1>1, <1>10, <2>2
  <2>. QED
    BY <2>1, BumpFacts
<1>15. \A b \in D \ {a} : ~ (lo[b] < x /\ x < hi[b]) => TreeCount(W[b]) = TreeCount(H[b])
  <2>. SUFFICES ASSUME NEW b \in D \ {a}, ~ OnPath(path, b)
                PROVE  TreeCount(W[b]) = TreeCount(H[b])
    BY <1>5
  <2>1. W[b] = H[b]
    BY <1>4, <1>6, <1>10
  <2>. QED
    BY <2>1
<1>16. Recounted(D, H, W, a, x, lo, hi, d)
  BY <1>10, <1>12, <1>13, <1>14, <1>15 DEF Recounted
<1>. QED
  BY <1>11, <1>16 DEF a

-----------------------------------------------------------------------------
(* The tree as it will be when the running insertion has added item x, and  *)
(* node c behind it, to the last node of its path.                          *)

\* LeafInsert and InnerInsert.
Put(n, i, x, c) ==
  [n EXCEPT !.keys = Ext!InsertAt(@, i + 1, x),
            !.children = IF n.leaf THEN @ ELSE Ext!InsertAt(@, i + 2, c)]

With(h, path, x, c) ==
  IncreaseSubtreeCounts(
    [h EXCEPT ![LastNode(path)] = IncreaseTreeCount(Put(@, LastPos(path), x, c), 1)],
    Above(path), 1)

\* m is n with item x at position i and child c behind it.
Putting(n, m, i, x, c) ==
  /\ m \in NodeSet /\ (m.leaf <=> n.leaf) /\ Whole(m)
  /\ m.keys = Ext!InsertAt(n.keys, i + 1, x)
  /\ Len(m.keys) = Len(n.keys) + 1
  /\ n.leaf => m.children = n.children
  /\ ~ n.leaf => m.children = Ext!InsertAt(n.children, i + 2, c)

\* A node with an item more, and with the child behind it.
LEMMA PutFacts ==
  ASSUME NEW n \in NodeSet, Whole(n), NEW i \in 0..Len(n.keys), NEW x \in Int, NEW c \in Int
  PROVE  /\ Putting(n, Put(n, i, x, c), i, x, c)
         /\ n.leaf => TreeCount(Put(n, i, x, c)) = TreeCount(n) + 1
         /\ ~ n.leaf => TreeCount(Put(n, i, x, c)) = TreeCount(n)
         /\ n.leaf => Put(n, i, x, c) = LeafInsert(n, i, x)
         /\ ~ n.leaf => Put(n, i, x, c) = InnerInsert(n, i, x, c)
<1>. DEFINE m == Put(n, i, x, c)
            ks == Ext!InsertAt(n.keys, i + 1, x)
            cs == Ext!InsertAt(n.children, i + 2, c)
            k == Len(n.keys)
<1>1. n.leaf \in BOOLEAN /\ n.keys \in Numbers /\ n.children \in Numbers /\ n.cnt \in Int
      /\ k \in Nat /\ Len(n.children) \in Nat
  BY NodeFacts
<1>2. i \in Int /\ i + 1 \in 1..(k + 1) /\ i + 2 \in 1..((k + 1) + 1)
  <2>. HIDE DEF k
  <2>1. i \in 0..k
    BY DEF k
  <2>. QED
    BY <1>1, <2>1
<1>3. ks \in Numbers /\ Len(ks) = k + 1
  BY <1>1, <1>2, InsertNumber
<1>4. ~ n.leaf => Len(n.children) = k + 1
  BY DEF Whole
<1>5. n.leaf => Len(n.children) = 0
  BY DEF Whole
<1>6. ~ n.leaf => cs \in Numbers /\ Len(cs) = (k + 1) + 1
  <2>. SUFFICES ASSUME ~ n.leaf PROVE cs \in Numbers /\ Len(cs) = (k + 1) + 1
    OBVIOUS
  <2>1. i + 2 \in 1..(Len(n.children) + 1) /\ n.children \in Numbers
    BY <1>1, <1>2, <1>4
  <2>. HIDE DEF k
  <2>2. cs \in Numbers /\ Len(cs) = Len(n.children) + 1
    <3>. DEFINE s == n.children
                g == i + 2
    <3>1. s \in Numbers /\ g \in 1..(Len(s) + 1) /\ cs = Ext!InsertAt(s, g, c)
      BY <2>1
    <3>. HIDE DEF s, g, cs
    <3>2. cs \in Numbers /\ Len(cs) = Len(s) + 1
      BY <3>1, InsertNumber
    <3>. QED
      BY <3>2 DEF s
  <2>. QED
    BY <2>2, <1>4
<1>7. m = [n EXCEPT !.keys = ks, !.children = IF n.leaf THEN n.children ELSE cs]
  BY DEF Put
<1>. HIDE DEF m, ks, cs, k
<1>8. CASE n.leaf
  <2>1. m = [n EXCEPT !.keys = ks]
    BY <1>7, <1>8 DEF NodeSet
  <2>2. m \in NodeSet /\ m.leaf /\ m.keys = ks /\ m.children = n.children
    BY <1>1, <1>3, <1>8, <2>1 DEF NodeSet
  <2>3. Whole(m)
    BY <2>2, <1>5, <1>8 DEF Whole
  <2>4. Putting(n, m, i, x, c)
    BY <2>2, <2>3, <1>3, <1>8 DEF Putting, ks, k
  <2>5. TreeCount(m) = TreeCount(n) + 1
    BY <2>2, <1>3, <1>8 DEF TreeCount, NumItems, k
  <2>6. m = LeafInsert(n, i, x)
    BY <2>1 DEF LeafInsert, ks
  <2>. QED
    BY <2>4, <2>5, <2>6, <1>8 DEF m
<1>9. CASE ~ n.leaf
  <2>1. m = [n EXCEPT !.keys = ks, !.children = cs]
    BY <1>7, <1>9
  <2>2. m \in NodeSet /\ ~ m.leaf /\ m.keys = ks /\ m.children = cs /\ m.cnt = n.cnt
    BY <1>1, <1>3, <1>6, <1>9, <2>1 DEF NodeSet
  <2>3. Whole(m)
    BY <2>2, <1>3, <1>6, <1>9 DEF Whole
  <2>4. Putting(n, m, i, x, c)
    BY <2>2, <2>3, <1>3, <1>9 DEF Putting, ks, cs, k
  <2>5. TreeCount(m) = TreeCount(n)
    BY <2>2, <1>9 DEF TreeCount
  <2>6. m = InnerInsert(n, i, x, c)
    BY <2>1 DEF InnerInsert, ks, cs
  <2>. QED
    BY <2>4, <2>5, <2>6, <1>9 DEF m
<1>. QED
  BY <1>8, <1>9

\* The same with the count raised.
LEMMA PutCounted ==
  ASSUME NEW n \in NodeSet, Whole(n), NEW i \in 0..Len(n.keys), NEW x \in Int, NEW c \in Int
  PROVE  LET m == IncreaseTreeCount(Put(n, i, x, c), 1) IN
         Putting(n, m, i, x, c) /\ TreeCount(m) = TreeCount(n) + 1
<1>. DEFINE p == Put(n, i, x, c)
            m == IncreaseTreeCount(p, 1)
<1>1. /\ Putting(n, p, i, x, c)
      /\ n.leaf => TreeCount(p) = TreeCount(n) + 1
      /\ ~ n.leaf => TreeCount(p) = TreeCount(n)
  BY PutFacts
<1>. HIDE DEF p
<1>2. p \in NodeSet /\ (p.leaf <=> n.leaf)
  BY <1>1 DEF Putting
<1>3. /\ m \in NodeSet
      /\ (m.leaf <=> p.leaf) /\ m.keys = p.keys /\ m.children = p.children
      /\ p.leaf => m = p /\ TreeCount(m) = TreeCount(p)
      /\ ~ p.leaf => TreeCount(m) = TreeCount(p) + 1
  BY <1>2, BumpFacts
<1>. HIDE DEF m
<1>4. Putting(n, m, i, x, c)
  BY <1>1, <1>3 DEF Putting, Whole
<1>5. TreeCount(m) = TreeCount(n) + 1
  BY <1>1, <1>2, <1>3
<1>. QED
  BY <1>4, <1>5 DEF m, p

\* Every node has its children.
LEMMA FormWhole ==
  ASSUME NEW D, NEW H, NEW rt, NEW ht, NEW lv, NEW lo, NEW hi, NEW M,
         Form(D, H, rt, ht, lv, lo, hi, M), NEW a \in D
  PROVE  Whole(H[a])
<1>. QED
  BY DEF Form, Leveled, Whole

\* An item added where it belongs.
LEMMA LeafAdded ==
  ASSUME NEW D, NEW H, NEW rt, NEW ht, NEW lv, NEW lo, NEW hi, NEW M,
         Form(D, H, rt, ht, lv, lo, hi, M), NEW path, On(D, H, rt, ht, lv, path),
         lv[LastNode(path)] = 1, NEW x \in Int,
         LET a == LastNode(path)
             i == LastPos(path)
         IN /\ Edge(H[a], lo[a], hi[a], i) < x
            /\ x < Edge(H[a], lo[a], hi[a], i + 1),
         NEW c \in Int
  PROVE  /\ Form(D, With(H, path, x, c), rt, ht, lv, lo, hi, M \cup {x})
         /\ x \notin M /\ x \in 1..Top /\ x # Top
<1>. DEFINE a == LastNode(path)
            i == LastPos(path)
            n == IncreaseTreeCount(Put(H[a], i, x, c), 1)
            W == With(H, path, x, c)
<1>1. ht \in Nat
  BY DEF Form, Typed
<1>2. a \in D /\ i \in 0..Len(H[a].keys)
  BY <1>1, OnLast
<1>3. H[a] \in NodeSet /\ H[a].leaf /\ Len(H[a].keys) \in Nat /\ Whole(H[a])
  BY <1>2, FormNode, FormWhole
<1>4. Putting(H[a], n, i, x, c)
  BY <1>2, <1>3, PutCounted
<1>5. Edge(H[a], lo[a], hi[a], i) < x /\ x < Edge(H[a], lo[a], hi[a], i + 1)
  OBVIOUS
<1>6. W = IncreaseSubtreeCounts([H EXCEPT ![a] = n], Above(path), 1)
  BY DEF With
<1>7. lv[a] = 1
  OBVIOUS
<1>. HIDE DEF i, n, W
<1>8. i + 1 \in 1..(Len(H[a].keys) + 1) /\ (i + 1) - 1 = i
  <2>. DEFINE k == Len(H[a].keys)
  <2>1. k \in Nat /\ i \in 0..k
    BY <1>2, <1>3
  <2>. HIDE DEF k
  <2>2. i + 1 \in 1..(k + 1) /\ (i + 1) - 1 = i
    BY <2>1
  <2>. QED
    BY <2>2 DEF k
<1>9. x \notin M /\ x \in 1..Top /\ x # Top /\ lo[a] < x /\ x < hi[a]
  <2>. DEFINE k == i + 1
  <2>1. k \in 1..(Len(H[a].keys) + 1) /\ Edge(H[a], lo[a], hi[a], k - 1) < x
        /\ x < Edge(H[a], lo[a], hi[a], k)
    BY <1>5, <1>8
  <2>. HIDE DEF k, a
  <2>. QED
    BY <1>2, <1>7, <2>1, NoneBetween
<1>10. n \in NodeSet /\ n.leaf /\ n.children = H[a].children /\ n.keys = Ext!InsertAt(H[a].keys, i + 1, x)
  BY <1>3, <1>4 DEF Putting
<1>11. Recounted(D, H, W, a, x, lo, hi, 1) /\ W[a] = n
  BY <1>6, <1>9, <1>10, LeafRecounted
<1>. HIDE DEF a
<1>12. Form(D, W, rt, ht, lv, lo, hi, M \cup {x})
  <2>. DEFINE k == i + 1
  <2>1. k \in 1..(Len(H[a].keys) + 1) /\ Edge(H[a], lo[a], hi[a], k - 1) < x
        /\ x < Edge(H[a], lo[a], hi[a], k) /\ W[a].keys = Ext!InsertAt(H[a].keys, k, x)
    BY <1>5, <1>8, <1>10, <1>11
  <2>. HIDE DEF k
  <2>. QED
    BY <1>2, <1>7, <1>11, <2>1, LeafPut
<1>. QED
  BY <1>9, <1>12 DEF W

\* The item at the end of path is taken out of its leaf.
TakeOut(h, path) == [h EXCEPT ![LastNode(path)] = ShiftLeft(@, LastPos(path))]

\* The counts of the nodes above the last one of q are put right.
Paid(h, q) == IncreaseSubtreeCounts(h, Above(q), -1)

LeafWithout(D, H, W, path) ==
  LET a == LastNode(path) IN
  /\ W[a].leaf
  /\ W[a].keys = Ext!RemoveAt(H[a].keys, LastPos(path) + 1)
  /\ \A b \in D : /\ W[b].children = H[b].children
                  /\ W[b].leaf <=> H[b].leaf
                  /\ b # a => W[b].keys = H[b].keys

\* An item taken out of its leaf.
LEMMA LeafTaken ==
  ASSUME NEW D, NEW H, NEW rt, NEW ht, NEW lv, NEW lo, NEW hi, NEW M,
         Form(D, H, rt, ht, lv, lo, hi, M), NEW path, On(D, H, rt, ht, lv, path),
         lv[LastNode(path)] = 1, LastPos(path) < Len(H[LastNode(path)].keys),
         NEW x, x = Terminal(H, path), NEW W,
         W = Paid(TakeOut(H, path), path)
  PROVE  /\ Form(D, W, rt, ht, lv, lo, hi, M \ {x})
         /\ LeafWithout(D, H, W, path)
<1>. DEFINE a == LastNode(path)
            i == LastPos(path)
            n == ShiftLeft(H[a], i)
            k == i + 1
<1>1. ht \in Nat
  BY DEF Form, Typed
<1>2. a \in D /\ i \in 0..Len(H[a].keys)
  BY <1>1, OnLast
<1>3. H[a] \in NodeSet /\ H[a].leaf /\ Len(H[a].keys) \in Nat /\ H[a].keys \in Numbers
      /\ H[a].children \in Numbers
  BY <1>2, FormNode
<1>4. i < Len(H[a].keys) /\ lv[a] = 1
  OBVIOUS
<1>5. x = H[a].keys[k]
  BY DEF Terminal, Key
<1>6. W = IncreaseSubtreeCounts([H EXCEPT ![a] = n], Above(path), -1)
  BY DEF Paid, TakeOut
<1>. HIDE DEF i
<1>7. k \in 1..Len(H[a].keys)
  <2>. DEFINE m == Len(H[a].keys)
  <2>1. m \in Nat /\ i \in 0..m /\ i < m
    BY <1>2, <1>3, <1>4
  <2>. HIDE DEF m
  <2>2. i + 1 \in 1..m
    BY <2>1
  <2>. QED
    BY <2>2 DEF m
<1>8. n = [H[a] EXCEPT !.keys = Ext!RemoveAt(H[a].keys, k), !.children = H[a].children]
  BY <1>3 DEF ShiftLeft
<1>. HIDE DEF k, n
<1>9. Ext!RemoveAt(H[a].keys, k) \in Numbers
  BY <1>3, <1>7, RemoveNumber
<1>10. n \in NodeSet /\ n.leaf /\ n.children = H[a].children /\ n.keys = Ext!RemoveAt(H[a].keys, k)
  BY <1>3, <1>8, <1>9 DEF NodeSet
<1>11. x \in Int /\ lo[a] < x /\ x < hi[a]
  BY <1>2, <1>5, <1>7, FormNode
<1>12. Recounted(D, H, W, a, x, lo, hi, -1) /\ W[a] = n
  <2>1. -1 \in Int
    OBVIOUS
  <2>. QED
    BY <1>6, <1>10, <1>11, <2>1, LeafRecounted
<1>. HIDE DEF a
<1>13. Form(D, W, rt, ht, lv, lo, hi, M \ {x})
  BY <1>2, <1>4, <1>5, <1>7, <1>10, <1>11, <1>12, LeafTake
<1>14. \A b \in D : /\ W[b].children = H[b].children
                    /\ W[b].leaf <=> H[b].leaf
                    /\ b # a => W[b].keys = H[b].keys
  BY <1>12 DEF Recounted
<1>. QED
  BY <1>10, <1>12, <1>13, <1>14 DEF a, k, i, LeafWithout

-----------------------------------------------------------------------------
(* Sums of counts, of children joined and inserted.                         *)

Tallied(h, cs) == \A i \in 1..Len(cs) : TreeCount(h[cs[i]]) \in Int

\* The sum of the counts of known children is a number.
LEMMA SumType ==
  ASSUME NEW h, NEW cs \in Numbers, Tallied(h, cs)
  PROVE  /\ Counts(h, cs) \in Numbers /\ Len(Counts(h, cs)) = Len(cs)
         /\ \A i \in 1..Len(cs) : Counts(h, cs)[i] = TreeCount(h[cs[i]])
         /\ SumCounts(h, cs) \in Int
<1>. DEFINE t == Counts(h, cs)
            n == Len(cs)
<1>1. n \in Nat
  BY NumbersFacts
<1>2. t = [i \in 1..n |-> TreeCount(h[cs[i]])]
  BY DEF Counts
<1>3. \A i \in 1..n : TreeCount(h[cs[i]]) \in Int
  BY DEF Tallied
<1>. HIDE DEF t, n
<1>4. t \in [1..n -> Int]
  BY <1>2, <1>3
<1>5. t \in Seq(Int) /\ Len(t) = n
  BY <1>1, <1>4, IsASeq, LenProperties
<1>6. t \in Numbers
  BY <1>5 DEF Numbers
<1>7. Total(t) \in Int
  BY <1>6, TotalNumber
<1>8. \A i \in 1..n : t[i] = TreeCount(h[cs[i]])
  BY <1>2
<1>. QED
  BY <1>5, <1>6, <1>7, <1>8 DEF t, n, SumCounts

\* The counts of joined children add up.
LEMMA SumJoin ==
  ASSUME NEW h, NEW a \in Numbers, NEW b \in Numbers, Tallied(h, a), Tallied(h, b)
  PROVE  /\ Tallied(h, a \o b)
         /\ SumCounts(h, a \o b) = SumCounts(h, a) + SumCounts(h, b)
<1>. DEFINE c == a \o b
            ta == Counts(h, a)
            tb == Counts(h, b)
            tc == Counts(h, c)
            n == Len(a)
            m == Len(b)
<1>1. n \in Nat /\ m \in Nat
  BY NumbersFacts
<1>2. /\ c \in Numbers /\ Len(c) = n + m
      /\ \A k \in 1..n : c[k] = a[k]
      /\ \A k \in (n + 1)..(n + m) : c[k] = b[k - n]
  BY JoinNumbers
<1>3. \A k \in 1..n : TreeCount(h[a[k]]) \in Int
  BY DEF Tallied
<1>4. \A k \in 1..m : TreeCount(h[b[k]]) \in Int
  BY DEF Tallied
<1>5. ta \in Numbers /\ Len(ta) = n /\ \A i \in 1..n : ta[i] = TreeCount(h[a[i]])
  BY SumType
<1>6. tb \in Numbers /\ Len(tb) = m /\ \A i \in 1..m : tb[i] = TreeCount(h[b[i]])
  BY SumType
<1>. HIDE DEF c, n, m
<1>7. \A k \in 1..(n + m) : k \in 1..n \/ (k \in (n + 1)..(n + m) /\ k - n \in 1..m)
  BY <1>1
<1>8. Tallied(h, c)
  <2>1. \A k \in 1..(n + m) : TreeCount(h[c[k]]) \in Int
    BY <1>2, <1>3, <1>4, <1>7
  <2>. QED
    BY <2>1, <1>2 DEF Tallied
<1>9. tc \in Numbers /\ Len(tc) = Len(c) /\ \A i \in 1..Len(c) : tc[i] = TreeCount(h[c[i]])
  BY <1>2, <1>8, SumType
<1>. HIDE DEF ta, tb, tc
<1>. DEFINE tj == ta \o tb
<1>10. /\ tj \in Numbers /\ Len(tj) = n + m
       /\ \A k \in 1..n : tj[k] = ta[k]
       /\ \A k \in (n + 1)..(n + m) : tj[k] = tb[k - n]
  BY <1>5, <1>6, JoinNumbers
<1>. HIDE DEF tj
<1>11. \A k \in 1..(n + m) : tc[k] = tj[k]
  <2>. SUFFICES ASSUME NEW k \in 1..(n + m) PROVE tc[k] = tj[k]
    OBVIOUS
  <2>0. tc[k] = TreeCount(h[c[k]])
    BY <1>2, <1>9
  <2>1. CASE k \in 1..n
    BY <2>0, <2>1, <1>2, <1>5, <1>10
  <2>2. CASE k \in (n + 1)..(n + m) /\ k - n \in 1..m
    BY <2>0, <2>2, <1>2, <1>6, <1>10
  <2>. QED
    BY <2>1, <2>2, <1>7
<1>12. tc = tj
  BY <1>2, <1>9, <1>10, <1>11, SameNumbers
<1>13. Total(tj) = Total(ta) + Total(tb)
  BY <1>5, <1>6, TotalJoin DEF tj
<1>. QED
  BY <1>8, <1>12, <1>13 DEF SumCounts, ta, tb, tc, c

\* The count of one child.
LEMMA SumOne ==
  ASSUME NEW h, NEW c \in Int, TreeCount(h[c]) \in Int
  PROVE  Tallied(h, <<c>>) /\ SumCounts(h, <<c>>) = TreeCount(h[c])
<1>. DEFINE s == <<c>>
            t == Counts(h, s)
            u == <<TreeCount(h[c])>>
<1>1. s \in Numbers /\ Len(s) = 1 /\ s[1] = c
  BY OneNumber
<1>2. u \in Numbers /\ Len(u) = 1 /\ u[1] = TreeCount(h[c])
  BY OneNumber
<1>. HIDE DEF s, u
<1>3. \A i \in 1..1 : i = 1
  OBVIOUS
<1>4. Tallied(h, s)
  BY <1>1, <1>3 DEF Tallied
<1>5. t \in Numbers /\ Len(t) = 1 /\ \A i \in 1..1 : t[i] = TreeCount(h[s[i]])
  BY <1>1, <1>4, SumType
<1>. HIDE DEF t
<1>6. t = u
  BY <1>1, <1>2, <1>3, <1>5, SameNumbers
<1>7. Total(u) = TreeCount(h[c])
  BY TotalOne DEF u
<1>. QED
  BY <1>4, <1>6, <1>7 DEF SumCounts, t, s

\* A sequence with an element inserted.
LEMMA InsertParts ==
  ASSUME NEW s \in Numbers, NEW i \in 1..(Len(s) + 1), NEW x \in Int
  PROVE  /\ Ext!InsertAt(s, i, x) = Link(SubSeq(s, 1, i - 1), x, SubSeq(s, i, Len(s)))
         /\ SubSeq(s, 1, i - 1) \o SubSeq(s, i, Len(s)) = s
         /\ SubSeq(s, 1, i - 1) \in Numbers /\ SubSeq(s, i, Len(s)) \in Numbers
<1>. DEFINE n == Len(s)
<1>1. n \in Nat
  BY NumbersFacts
<1>2. i \in Int /\ 1 <= i /\ i - 1 <= n /\ i - 1 \in 0..n /\ i - 1 \in Int /\ (i - 1) + 1 = i
      /\ 1 - 1 <= i - 1
  <2>. HIDE DEF n
  <2>1. i \in 1..(n + 1)
    BY DEF n
  <2>. QED
    BY <1>1, <2>1
<1>3. SubSeq(s, 1, i - 1) \in Numbers /\ SubSeq(s, i, n) \in Numbers
  BY <1>1, <1>2, SpanNumbers
<1>4. SubSeq(s, 1, i - 1) \o SubSeq(s, (i - 1) + 1, n) = s
  BY <1>2, CutNumbers
<1>5. Ext!InsertAt(s, i, x) = Link(SubSeq(s, 1, i - 1), x, SubSeq(s, i, n))
  BY DEF Ext!InsertAt, Link
<1>. QED
  BY <1>2, <1>3, <1>4, <1>5

\* The parts of known children are known.
LEMMA TallyParts ==
  ASSUME NEW h, NEW a \in Numbers, NEW b \in Numbers, Tallied(h, a \o b)
  PROVE  Tallied(h, a) /\ Tallied(h, b)
<1>. DEFINE s == a \o b
<1>. DEFINE n == Len(a)
            m == Len(b)
<1>1. n \in Nat /\ m \in Nat
  BY NumbersFacts
<1>2. /\ Len(s) = n + m
      /\ \A k \in 1..n : s[k] = a[k]
      /\ \A k \in (n + 1)..(n + m) : s[k] = b[k - n]
  BY JoinNumbers
<1>3. \A k \in 1..Len(s) : TreeCount(h[s[k]]) \in Int
  BY DEF Tallied
<1>. HIDE DEF n, m, s
<1>4. \A k \in 1..n : k \in 1..(n + m)
  BY <1>1
<1>5. \A k \in 1..m : n + k \in (n + 1)..(n + m) /\ n + k \in 1..(n + m) /\ (n + k) - n = k
  BY <1>1
<1>6. \A k \in 1..n : TreeCount(h[a[k]]) \in Int
  BY <1>2, <1>3, <1>4
<1>7. \A k \in 1..m : TreeCount(h[b[k]]) \in Int
  <2>. SUFFICES ASSUME NEW k \in 1..m PROVE TreeCount(h[b[k]]) \in Int
    OBVIOUS
  <2>. DEFINE g == n + k
  <2>1. g \in (n + 1)..(n + m) /\ g \in 1..(n + m) /\ g - n = k
    BY <1>5
  <2>. HIDE DEF g
  <2>2. s[g] = b[k] /\ TreeCount(h[s[g]]) \in Int
    BY <2>1, <1>2, <1>3
  <2>. QED
    BY <2>2
<1>. QED
  BY <1>6, <1>7 DEF Tallied, n, m

\* A child more adds its count.
LEMMA SumInsert ==
  ASSUME NEW h, NEW s \in Numbers, Tallied(h, s), NEW i \in 1..(Len(s) + 1), NEW c \in Int,
         TreeCount(h[c]) \in Int
  PROVE  /\ Tallied(h, Ext!InsertAt(s, i, c))
         /\ SumCounts(h, Ext!InsertAt(s, i, c)) = SumCounts(h, s) + TreeCount(h[c])
<1>. DEFINE a == SubSeq(s, 1, i - 1)
            b == SubSeq(s, i, Len(s))
<1>1. Ext!InsertAt(s, i, c) = Link(a, c, b) /\ a \o b = s /\ a \in Numbers /\ b \in Numbers
  BY InsertParts
<1>2. <<c>> \in Numbers /\ Tallied(h, <<c>>) /\ SumCounts(h, <<c>>) = TreeCount(h[c])
  BY SumOne, OneNumber
<1>. HIDE DEF a, b
<1>3. Tallied(h, a) /\ Tallied(h, b)
  BY <1>1, TallyParts
<1>4. SumCounts(h, s) = SumCounts(h, a) + SumCounts(h, b)
  BY <1>1, <1>3, SumJoin
<1>5. a \o <<c>> \in Numbers
  BY <1>1, <1>2, JoinNumbers
<1>6. Tallied(h, a \o <<c>>) /\ SumCounts(h, a \o <<c>>) = SumCounts(h, a) + TreeCount(h[c])
  BY <1>1, <1>2, <1>3, SumJoin
<1>7. Tallied(h, Link(a, c, b))
      /\ SumCounts(h, Link(a, c, b)) = SumCounts(h, a \o <<c>>) + SumCounts(h, b)
  BY <1>1, <1>3, <1>5, <1>6, SumJoin DEF Link
<1>8. SumCounts(h, a) \in Int /\ SumCounts(h, b) \in Int
  BY <1>1, <1>3, SumType
<1>. QED
  BY <1>1, <1>4, <1>6, <1>7, <1>8

-----------------------------------------------------------------------------
(* A full node split, and one of its halves given an item.                  *)

\* An item put before the link.
LEMMA LinkInsertLeft ==
  ASSUME NEW s \in Numbers, NEW y \in Int, NEW t \in Numbers, NEW i \in 1..(Len(s) + 1), NEW x \in Int
  PROVE  Link(Ext!InsertAt(s, i, x), y, t) = Ext!InsertAt(Link(s, y, t), i, x)
<1>1. <<y>> \in Numbers /\ Len(<<y>>) = 1
  BY OneNumber
<1>. DEFINE u == s \o <<y>>
<1>2. u \in Numbers /\ Len(u) = Len(s) + 1
  BY <1>1, JoinNumbers
<1>3. Ext!InsertAt(s, i, x) \o <<y>> = Ext!InsertAt(u, i, x)
  BY <1>1, InsertThenJoin
<1>. HIDE DEF u
<1>4. i \in 1..(Len(u) + 1)
  <2>. DEFINE k == Len(s)
              m == Len(u)
  <2>1. k \in Nat /\ m = k + 1 /\ i \in 1..(k + 1)
    BY <1>2, NumbersFacts
  <2>. HIDE DEF k, m
  <2>2. i \in 1..(m + 1)
    BY <2>1
  <2>. QED
    BY <2>2 DEF m
<1>5. Ext!InsertAt(u, i, x) \o t = Ext!InsertAt(u \o t, i, x)
  BY <1>2, <1>4, InsertThenJoin
<1>. QED
  BY <1>3, <1>5 DEF Link, u

\* An item put behind the link.
LEMMA LinkInsertRight ==
  ASSUME NEW s \in Numbers, NEW y \in Int, NEW t \in Numbers, NEW i \in 1..(Len(t) + 1), NEW x \in Int
  PROVE  Link(s, y, Ext!InsertAt(t, i, x)) = Ext!InsertAt(Link(s, y, t), Len(s) + 1 + i, x)
<1>1. <<y>> \in Numbers /\ Len(<<y>>) = 1
  BY OneNumber
<1>. DEFINE u == s \o <<y>>
<1>2. u \in Numbers /\ Len(u) = Len(s) + 1
  BY <1>1, JoinNumbers
<1>. HIDE DEF u
<1>3. u \o Ext!InsertAt(t, i, x) = Ext!InsertAt(u \o t, Len(u) + i, x)
  BY <1>2, JoinThenInsert
<1>. QED
  BY <1>2, <1>3 DEF Link, u

\* The halves of n and the item between them.
Halved(h, n, left, y, right) ==
  /\ left \in NodeSet /\ right \in NodeSet /\ y \in Int
  /\ (left.leaf <=> n.leaf) /\ (right.leaf <=> n.leaf)
  /\ Len(left.keys) = Len(n.keys) \div 2
  /\ Len(right.keys) = Len(n.keys) - Len(left.keys) - 1
  /\ Link(left.keys, y, right.keys) = n.keys
  /\ left.children \o right.children = n.children
  /\ Whole(left) /\ Whole(right) /\ LocalCount(h, right)
  /\ TreeCount(left) + TreeCount(right) + 1 = TreeCount(n)

\* Split cuts a node in two around its median.
LEMMA SplitHalves ==
  ASSUME NEW h, NEW n \in NodeSet, Whole(n), Len(n.keys) >= 1, Tallied(h, n.children)
  PROVE  Halved(h, n, Split(h, n).left, Split(h, n).median, Split(h, n).right)
<1>. DEFINE mid == Len(n.keys) \div 2
            k == Len(n.keys)
            keys == SubSeq(n.keys, mid + 2, k)
            low == SubSeq(n.keys, 1, mid)
            moved == Children(n, mid + 1, k)
            stay == Children(n, 0, mid)
            cnt == Len(keys) + SumCounts(h, moved)
            first == [n EXCEPT !.keys = low, !.children = stay]
            left == IncreaseTreeCount(first, -(cnt + 1))
            right == IF n.leaf THEN Leaf(keys) ELSE Inner(keys, moved, cnt)
            y == n.keys[mid + 1]
<1>1. Split(h, n) = [left |-> left, median |-> y, right |-> right]
  BY DEF Split, NumItems, Key
<1>2. /\ n.keys \in Numbers /\ n.children \in Numbers /\ n.cnt \in Int
      /\ k \in Nat /\ k >= 1 /\ n.leaf \in BOOLEAN
      /\ \A i \in 1..k : n.keys[i] \in Int
  BY NodeFacts
<1>3. mid \in Nat /\ mid <= k - 1 /\ mid \in 0..(k - 1) /\ mid + 1 \in 1..k /\ mid + 2 \in Int
      /\ 1 <= mid + 2 /\ (mid + 2) - 1 <= k /\ mid <= k /\ 1 - 1 <= mid
  <2>. HIDE DEF k
  <2>1. mid = k \div 2
    BY DEF k
  <2>. HIDE DEF mid
  <2>. QED
    BY <1>2, <2>1
<1>. HIDE DEF mid
<1>4. y \in Int
  BY <1>2, <1>3
<1>5. low \in Numbers /\ Len(low) = mid
  <2>1. SubSeq(n.keys, 1, mid) \in Numbers /\ Len(SubSeq(n.keys, 1, mid)) = (mid - 1) + 1
    BY <1>2, <1>3, SpanNumbers
  <2>. QED
    BY <2>1, <1>3
<1>6. keys \in Numbers /\ Len(keys) = (k - (mid + 2)) + 1
  BY <1>2, <1>3, SpanNumbers
<1>7. Link(low, y, keys) = n.keys
  BY <1>2, <1>3, CutNumbersAt
<1>. HIDE DEF low, keys, y, k
<1>8. Len(keys) = k - mid - 1 /\ Len(keys) \in Nat
  BY <1>2, <1>3, <1>6
<1>9. /\ stay \in Numbers /\ moved \in Numbers /\ stay \o moved = n.children
      /\ n.leaf => Len(stay) = 0 /\ Len(moved) = 0
      /\ ~ n.leaf => Len(stay) = mid + 1 /\ Len(moved) = Len(keys) + 1
  <2>1. CASE n.leaf
    <3>1. stay = <<>> /\ moved = <<>> /\ Len(n.children) = 0
      BY <2>1 DEF Children, Whole
    <3>2. n.children = <<>>
      BY <3>1, <1>2, EmptySeq DEF Numbers
    <3>3. <<>> \o <<>> = <<>>
      OBVIOUS
    <3>. QED
      BY <2>1, <3>1, <3>2, <3>3, NoNumbers
  <2>2. CASE ~ n.leaf
    <3>. DEFINE m == Len(n.children)
    <3>1. m = k + 1
      BY <2>2 DEF Whole, k
    <3>2. stay = SubSeq(n.children, 0 + 1, mid + 1) /\ moved = SubSeq(n.children, (mid + 1) + 1, k + 1)
      BY <2>2 DEF Children
    <3>3. 0 + 1 = 1 /\ mid + 1 \in 0..m /\ mid + 1 \in Int /\ 1 - 1 <= mid + 1 /\ mid + 1 <= m
          /\ (mid + 1) + 1 \in Int /\ 1 <= (mid + 1) + 1 /\ ((mid + 1) + 1) - 1 <= k + 1 /\ k + 1 <= m
          /\ k + 1 \in Int
      BY <1>2, <1>3, <3>1
    <3>. DEFINE cs == n.children
                e1 == mid + 1
                e2 == (mid + 1) + 1
                e3 == k + 1
    <3>8. cs \in Numbers /\ e1 \in Int /\ e2 \in Int /\ e3 \in Int /\ e1 \in 0..Len(cs) /\ e3 = Len(cs)
          /\ 1 \in Int /\ 1 <= 1 /\ 1 - 1 <= e1 /\ e1 <= Len(cs) /\ 1 <= e2 /\ e2 - 1 <= e3 /\ e3 <= Len(cs)
          /\ stay = SubSeq(cs, 1, e1) /\ moved = SubSeq(cs, e2, e3) /\ e2 = e1 + 1
      BY <1>2, <3>1, <3>2, <3>3
    <3>. HIDE DEF cs, e1, e2, e3, stay, moved
    <3>4. stay \in Numbers /\ Len(stay) = (e1 - 1) + 1
      BY <3>8, SpanNumbers
    <3>5. moved \in Numbers /\ Len(moved) = (e3 - e2) + 1
      BY <3>8, SpanNumbers
    <3>6. stay \o moved = cs
      BY <3>8, CutNumbers
    <3>7. Len(stay) = mid + 1 /\ Len(moved) = Len(keys) + 1
      BY <1>2, <1>3, <1>8, <3>4, <3>5 DEF e1, e2, e3
    <3>. QED
      BY <2>2, <3>4, <3>5, <3>6, <3>7 DEF cs
  <2>. QED
    BY <2>1, <2>2, <1>2
<1>. HIDE DEF stay, moved
<1>10. Tallied(h, moved)
  <2>1. Tallied(h, stay \o moved)
    BY <1>9
  <2>. QED
    BY <1>9, <2>1, TallyParts
<1>11. SumCounts(h, moved) \in Int
  BY <1>9, <1>10, SumType
<1>12. cnt \in Int /\ -(cnt + 1) \in Int
  BY <1>8, <1>11
<1>13. first \in NodeSet /\ (first.leaf <=> n.leaf) /\ first.keys = low /\ first.children = stay
       /\ first.cnt = n.cnt
  BY <1>2, <1>5, <1>9 DEF NodeSet
<1>. HIDE DEF first
<1>14. cnt = Len(keys) + SumCounts(h, moved)
  OBVIOUS
<1>. HIDE DEF cnt
<1>15. /\ left \in NodeSet
       /\ (left.leaf <=> first.leaf) /\ left.keys = first.keys /\ left.children = first.children
       /\ first.leaf => left = first /\ TreeCount(left) = TreeCount(first)
       /\ ~ first.leaf => TreeCount(left) = TreeCount(first) + (-(cnt + 1))
  BY <1>12, <1>13, BumpFacts
<1>16. /\ right \in NodeSet /\ (right.leaf <=> n.leaf) /\ right.keys = keys /\ right.children = moved
       /\ TreeCount(right) = cnt
  <2>1. CASE n.leaf
    <3>1. right = Leaf(keys)
      BY <2>1
    <3>2. moved = <<>>
      BY <2>1, <1>9, EmptySeq DEF Numbers
    <3>3. SumCounts(h, moved) = 0
      BY <2>1, <1>9, NoCounts
    <3>. HIDE DEF right
    <3>4. right \in NodeSet /\ right.leaf /\ right.keys = keys /\ right.children = moved
      BY <3>1, <3>2, <1>6, NoNumbers DEF Leaf, NodeSet
    <3>5. TreeCount(right) = Len(keys)
      BY <3>4 DEF TreeCount, NumItems
    <3>. QED
      BY <2>1, <3>3, <3>4, <3>5, <1>8, <1>14
  <2>2. CASE ~ n.leaf
    <3>1. right = Inner(keys, moved, cnt)
      BY <2>2
    <3>. QED
      BY <2>2, <3>1, <1>6, <1>9, <1>12 DEF Inner, NodeSet, TreeCount
  <2>. QED
    BY <2>1, <2>2, <1>2
<1>. HIDE DEF left, right
<1>17. Whole(left) /\ Whole(right)
  BY <1>5, <1>9, <1>13, <1>15, <1>16 DEF Whole
<1>18. LocalCount(h, right)
  BY <1>12, <1>14, <1>16 DEF LocalCount
<1>19. TreeCount(left) + TreeCount(right) + 1 = TreeCount(n)
  <2>1. CASE n.leaf
    <3>1. TreeCount(left) = mid /\ TreeCount(n) = k
      BY <2>1, <1>5, <1>13, <1>15 DEF TreeCount, NumItems, k
    <3>2. TreeCount(right) = Len(keys)
      BY <2>1, <1>16 DEF TreeCount, NumItems
    <3>. QED
      BY <3>1, <3>2, <1>2, <1>3, <1>8
  <2>2. CASE ~ n.leaf
    <3>1. TreeCount(left) = n.cnt + (-(cnt + 1)) /\ TreeCount(n) = n.cnt
      BY <2>2, <1>13, <1>15 DEF TreeCount
    <3>. QED
      BY <3>1, <1>2, <1>12, <1>16
  <2>. QED
    BY <2>1, <2>2, <1>2
<1>20. Len(left.keys) = Len(n.keys) \div 2 /\ Len(right.keys) = Len(n.keys) - Len(left.keys) - 1
  BY <1>5, <1>8, <1>13, <1>15, <1>16 DEF mid, k
<1>21. Halved(h, n, left, y, right)
  BY <1>4, <1>7, <1>9, <1>13, <1>15, <1>16, <1>17, <1>18, <1>19, <1>20 DEF Halved
<1>. QED
  BY <1>1, <1>21

-----------------------------------------------------------------------------
\* The halves of n after item x, with child c behind it, was put at position i.
SplitParts(h, n, i, x, c, left, y, right) ==
  /\ left \in NodeSet /\ right \in NodeSet /\ y \in Int
  /\ (left.leaf <=> n.leaf) /\ (right.leaf <=> n.leaf)
  /\ Link(left.keys, y, right.keys) = Ext!InsertAt(n.keys, i + 1, x)
  /\ n.leaf => left.children \o right.children = n.children
  /\ ~ n.leaf => left.children \o right.children = Ext!InsertAt(n.children, i + 2, c)
  /\ Whole(left) /\ Whole(right) /\ LocalCount(h, left)
  /\ TreeCount(left) + TreeCount(right) = TreeCount(n)
  /\ Len(left.keys) \in Nat /\ Len(right.keys) \in Nat
  /\ Len(left.keys) + Len(right.keys) = Len(n.keys)
  /\ Len(n.keys) \div 2 <= Len(left.keys) /\ Len(left.keys) <= (Len(n.keys) \div 2) + 1

\* What the sums over the children of the halves and of n make.
Summing(h, n, left, right, e) ==
  /\ Tallied(h, left.children) /\ SumCounts(h, left.children) \in Int
  /\ TreeCount(left) \in Int /\ TreeCount(right) \in Int
  /\ Len(left.keys) \in Nat /\ Len(right.keys) \in Nat /\ Len(n.keys) \in Nat
  /\ Len(n.keys) = Len(left.keys) + 1 + Len(right.keys)
  /\ ~ n.leaf => TreeCount(left) = Len(left.keys) + SumCounts(h, left.children) + e
  /\ n.leaf => Len(left.children) = 0 /\ SumCounts(h, left.children) = 0
  /\ n.leaf => TreeCount(left) = Len(left.keys) /\ TreeCount(n) = Len(n.keys)

\* The counts of the two halves.
LEMMA HalvedSums ==
  ASSUME NEW h, NEW n \in NodeSet, NEW left, NEW y, NEW right, Halved(h, n, left, y, right),
         Tallied(h, n.children), NEW e \in Int,
         ~ n.leaf => TreeCount(n) = Len(n.keys) + SumCounts(h, n.children) + e
  PROVE  Summing(h, n, left, right, e)
<1>. DEFINE a == Len(left.keys)
            b == Len(right.keys)
            k == Len(n.keys)
            sl == SumCounts(h, left.children)
            sr == SumCounts(h, right.children)
            sn == SumCounts(h, n.children)
            tl == TreeCount(left)
            tr == TreeCount(right)
            tn == TreeCount(n)
<1>1. left \in NodeSet /\ right \in NodeSet /\ (left.leaf <=> n.leaf) /\ (right.leaf <=> n.leaf)
      /\ b = k - a - 1 /\ left.children \o right.children = n.children
      /\ Whole(left) /\ LocalCount(h, right) /\ tl + tr + 1 = tn
  BY DEF Halved
<1>2. a \in Nat /\ b \in Nat /\ k \in Nat /\ left.children \in Numbers /\ right.children \in Numbers
      /\ n.leaf \in BOOLEAN
  BY <1>1, NodeFacts
<1>3. tl \in Int /\ tr \in Int /\ tn \in Int
  BY <1>1, TreeCountType
<1>4. Tallied(h, left.children \o right.children)
  BY <1>1
<1>5. Tallied(h, left.children) /\ Tallied(h, right.children)
  BY <1>2, <1>4, TallyParts
<1>6. sl \in Int /\ sr \in Int
  BY <1>2, <1>5, SumType
<1>7. sn = sl + sr
  <2>1. SumCounts(h, left.children \o right.children) = sl + sr
    BY <1>2, <1>5, SumJoin
  <2>. QED
    BY <1>1, <2>1
<1>8. tr = b + sr
  BY <1>1 DEF LocalCount
<1>9. ~ n.leaf => tn = k + sn + e
  OBVIOUS
<1>10. n.leaf => Len(left.children) = 0 /\ sl = 0
  <2>. SUFFICES ASSUME n.leaf PROVE Len(left.children) = 0 /\ sl = 0
    OBVIOUS
  <2>1. Len(left.children) = 0
    BY <1>1 DEF Whole
  <2>. QED
    BY <1>2, <2>1, NoCounts
<1>11. n.leaf => tl = a /\ tn = k
  BY <1>1 DEF TreeCount, NumItems
<1>. HIDE DEF a, b, k, sl, sr, sn, tl, tr, tn
<1>12. k = a + 1 + b
  BY <1>1, <1>2
<1>13. ~ n.leaf => tl = a + sl + e
  BY <1>1, <1>2, <1>3, <1>6, <1>7, <1>8, <1>9, <1>12
<1>. QED
  BY <1>2, <1>3, <1>5, <1>6, <1>10, <1>11, <1>12, <1>13 DEF a, b, k, sl, tl, tr, tn, Summing

\* The item is put into the left half.
LEMMA PutLeft ==
  ASSUME NEW h, NEW n \in NodeSet, NEW left, NEW y, NEW right, Halved(h, n, left, y, right),
         Tallied(h, n.children), NEW e \in Int, NEW c \in Int,
         ~ n.leaf => TreeCount(n) = Len(n.keys) + SumCounts(h, n.children) + e,
         ~ n.leaf => TreeCount(h[c]) = e,
         NEW i \in 0..Len(left.keys), NEW x \in Int,
         NEW l2, l2 = IncreaseTreeCount(Put(left, i, x, c), 1)
  PROVE  SplitParts(h, n, i, x, c, l2, y, right)
<1>1. left \in NodeSet /\ right \in NodeSet /\ y \in Int
      /\ (left.leaf <=> n.leaf) /\ (right.leaf <=> n.leaf)
      /\ left.children \o right.children = n.children
      /\ Link(left.keys, y, right.keys) = n.keys
      /\ Len(left.keys) = Len(n.keys) \div 2
      /\ Whole(left) /\ Whole(right)
      /\ TreeCount(left) + TreeCount(right) + 1 = TreeCount(n)
  BY DEF Halved
<1>2. /\ Tallied(h, left.children) /\ SumCounts(h, left.children) \in Int
      /\ TreeCount(left) \in Int /\ TreeCount(right) \in Int
      /\ Len(left.keys) \in Nat /\ Len(right.keys) \in Nat /\ Len(n.keys) \in Nat
      /\ Len(n.keys) = Len(left.keys) + 1 + Len(right.keys)
      /\ ~ n.leaf => TreeCount(left) = Len(left.keys) + SumCounts(h, left.children) + e
      /\ n.leaf => Len(left.children) = 0 /\ SumCounts(h, left.children) = 0
      /\ n.leaf => TreeCount(left) = Len(left.keys) /\ TreeCount(n) = Len(n.keys)
  <2>1. Summing(h, n, left, right, e)
    BY HalvedSums
  <2>. QED
    BY <2>1 DEF Summing
<1>3. left.keys \in Numbers /\ right.keys \in Numbers /\ left.children \in Numbers
      /\ right.children \in Numbers /\ n.leaf \in BOOLEAN
  BY <1>1, NodeFacts
<1>4. Putting(left, l2, i, x, c) /\ TreeCount(l2) = TreeCount(left) + 1
  BY <1>1, PutCounted
<1>5. /\ l2 \in NodeSet /\ (l2.leaf <=> left.leaf) /\ Whole(l2)
      /\ l2.keys = Ext!InsertAt(left.keys, i + 1, x)
      /\ Len(l2.keys) = Len(left.keys) + 1
      /\ left.leaf => l2.children = left.children
      /\ ~ left.leaf => l2.children = Ext!InsertAt(left.children, i + 2, c)
  BY <1>4 DEF Putting
<1>6. i + 1 \in 1..(Len(left.keys) + 1)
  <2>. DEFINE k == Len(left.keys)
  <2>1. k \in Nat /\ i \in 0..k
    BY <1>2
  <2>. HIDE DEF k
  <2>2. i + 1 \in 1..(k + 1)
    BY <2>1
  <2>. QED
    BY <2>2 DEF k
<1>7. Link(l2.keys, y, right.keys) = Ext!InsertAt(n.keys, i + 1, x)
  <2>. DEFINE g == i + 1
  <2>1. g \in 1..(Len(left.keys) + 1) /\ l2.keys = Ext!InsertAt(left.keys, g, x)
    BY <1>5, <1>6
  <2>. HIDE DEF g
  <2>2. Link(Ext!InsertAt(left.keys, g, x), y, right.keys) = Ext!InsertAt(Link(left.keys, y, right.keys), g, x)
    <3>. DEFINE s == left.keys
                t == right.keys
    <3>1. s \in Numbers /\ t \in Numbers /\ y \in Int /\ g \in 1..(Len(s) + 1)
      BY <1>1, <1>3, <2>1
    <3>. HIDE DEF s, t
    <3>2. Link(Ext!InsertAt(s, g, x), y, t) = Ext!InsertAt(Link(s, y, t), g, x)
      BY <3>1, LinkInsertLeft
    <3>. QED
      BY <3>2 DEF s, t
  <2>3. Link(l2.keys, y, right.keys) = Ext!InsertAt(n.keys, g, x)
    BY <1>1, <2>1, <2>2
  <2>. QED
    BY <2>3 DEF g
<1>8. ~ n.leaf => /\ l2.children \o right.children = Ext!InsertAt(n.children, i + 2, c)
                  /\ SumCounts(h, l2.children) = SumCounts(h, left.children) + e
  <2>. SUFFICES ASSUME ~ n.leaf
                PROVE  /\ l2.children \o right.children = Ext!InsertAt(n.children, i + 2, c)
                       /\ SumCounts(h, l2.children) = SumCounts(h, left.children) + e
    OBVIOUS
  <2>. DEFINE g == i + 2
              cs == left.children
  <2>1. Len(cs) = Len(left.keys) + 1
    BY <1>1 DEF Whole
  <2>2. g \in 1..(Len(cs) + 1)
    <3>. DEFINE k == Len(left.keys)
                m == Len(cs)
    <3>1. k \in Nat /\ i \in 0..k /\ m = k + 1
      BY <1>2, <2>1
    <3>. HIDE DEF k, m
    <3>2. i + 2 \in 1..(m + 1)
      BY <3>1
    <3>. QED
      BY <3>2 DEF m
  <2>3. l2.children = Ext!InsertAt(cs, g, c) /\ cs \in Numbers /\ Tallied(h, cs) /\ TreeCount(h[c]) \in Int
    BY <1>1, <1>2, <1>3, <1>5
  <2>4. TreeCount(h[c]) = e
    OBVIOUS
  <2>. HIDE DEF g, cs
  <2>5. Ext!InsertAt(cs, g, c) \o right.children = Ext!InsertAt(cs \o right.children, g, c)
    BY <1>3, <2>2, <2>3, InsertThenJoin
  <2>6. SumCounts(h, Ext!InsertAt(cs, g, c)) = SumCounts(h, cs) + TreeCount(h[c])
    BY <2>2, <2>3, SumInsert
  <2>. QED
    BY <1>1, <2>3, <2>4, <2>5, <2>6 DEF g, cs
<1>9. LocalCount(h, l2)
  <2>1. CASE n.leaf
    <3>1. SumCounts(h, l2.children) = 0
      BY <2>1, <1>1, <1>2, <1>5
    <3>2. TreeCount(l2) = TreeCount(left) + 1 /\ Len(l2.keys) = Len(left.keys) + 1
          /\ TreeCount(left) = Len(left.keys) /\ Len(left.keys) \in Nat
      BY <2>1, <1>2, <1>4, <1>5
    <3>. DEFINE s == SumCounts(h, l2.children)
                k == Len(left.keys)
    <3>3. s = 0 /\ k \in Nat /\ TreeCount(l2) = k + 1 /\ Len(l2.keys) = k + 1
      BY <3>1, <3>2
    <3>. HIDE DEF s, k
    <3>4. TreeCount(l2) \in Int /\ TreeCount(l2) = Len(l2.keys) + s
      BY <3>3
    <3>. QED
      BY <3>4 DEF LocalCount, s
  <2>2. CASE ~ n.leaf
    <3>. DEFINE s == SumCounts(h, l2.children)
                s0 == SumCounts(h, left.children)
                k == Len(left.keys)
                k2 == Len(l2.keys)
                t == TreeCount(left)
                t2 == TreeCount(l2)
    <3>1. s = s0 + e /\ s0 \in Int /\ k \in Nat /\ k2 = k + 1 /\ t2 = t + 1 /\ t = k + s0 + e
      BY <2>2, <1>2, <1>4, <1>5, <1>8
    <3>. HIDE DEF s, s0, k, k2, t, t2
    <3>2. t2 \in Int /\ t2 = k2 + s
      BY <3>1
    <3>. QED
      BY <3>2 DEF LocalCount, s, k2, t2
  <2>. QED
    BY <2>1, <2>2, <1>3
<1>10. n.leaf => l2.children \o right.children = n.children
  BY <1>1, <1>5
<1>11. TreeCount(l2) + TreeCount(right) = TreeCount(n)
  <2>. DEFINE t == TreeCount(left)
              t2 == TreeCount(l2)
              tr == TreeCount(right)
              tn == TreeCount(n)
  <2>1. t \in Int /\ tr \in Int /\ t2 = t + 1 /\ t + tr + 1 = tn
    BY <1>1, <1>2, <1>4
  <2>. HIDE DEF t, t2, tr, tn
  <2>2. t2 + tr = tn
    BY <2>1
  <2>. QED
    BY <2>2 DEF t2, tr, tn
<1>12. /\ Len(l2.keys) \in Nat /\ Len(right.keys) \in Nat
       /\ Len(l2.keys) + Len(right.keys) = Len(n.keys)
       /\ Len(n.keys) \div 2 <= Len(l2.keys) /\ Len(l2.keys) <= (Len(n.keys) \div 2) + 1
  <2>. DEFINE a == Len(left.keys)
              a2 == Len(l2.keys)
              b == Len(right.keys)
              k == Len(n.keys)
  <2>1. a \in Nat /\ b \in Nat /\ k \in Nat /\ k = a + 1 + b /\ a2 = a + 1 /\ a = k \div 2
    BY <1>1, <1>2, <1>5
  <2>. HIDE DEF a, a2, b, k
  <2>2. a2 \in Nat /\ b \in Nat /\ a2 + b = k /\ k \div 2 <= a2 /\ a2 <= (k \div 2) + 1
    BY <2>1
  <2>. QED
    BY <2>2 DEF a2, b, k
<1>. QED
  BY <1>1, <1>5, <1>7, <1>8, <1>9, <1>10, <1>11, <1>12 DEF SplitParts

\* The item is put into the right half.
LEMMA PutRight ==
  ASSUME NEW h, NEW n \in NodeSet, NEW left, NEW y, NEW right, Halved(h, n, left, y, right),
         Tallied(h, n.children), NEW e \in Int, NEW c \in Int,
         ~ n.leaf => TreeCount(n) = Len(n.keys) + SumCounts(h, n.children) + e,
         NEW i \in Int, i > Len(left.keys), i <= Len(n.keys), NEW x \in Int,
         NEW l2, l2 = IncreaseTreeCount(left, -e),
         NEW r2, r2 = IncreaseTreeCount(Put(right, (i - Len(left.keys)) - 1, x, c), e + 1)
  PROVE  SplitParts(h, n, i, x, c, l2, y, r2)
<1>1. left \in NodeSet /\ right \in NodeSet /\ y \in Int
      /\ (left.leaf <=> n.leaf) /\ (right.leaf <=> n.leaf)
      /\ left.children \o right.children = n.children
      /\ Link(left.keys, y, right.keys) = n.keys
      /\ Len(left.keys) = Len(n.keys) \div 2
      /\ Whole(left) /\ Whole(right)
      /\ TreeCount(left) + TreeCount(right) + 1 = TreeCount(n)
  BY DEF Halved
<1>2. /\ Tallied(h, left.children) /\ SumCounts(h, left.children) \in Int
      /\ TreeCount(left) \in Int /\ TreeCount(right) \in Int
      /\ Len(left.keys) \in Nat /\ Len(right.keys) \in Nat /\ Len(n.keys) \in Nat
      /\ Len(n.keys) = Len(left.keys) + 1 + Len(right.keys)
      /\ ~ n.leaf => TreeCount(left) = Len(left.keys) + SumCounts(h, left.children) + e
      /\ n.leaf => Len(left.children) = 0 /\ SumCounts(h, left.children) = 0
      /\ n.leaf => TreeCount(left) = Len(left.keys) /\ TreeCount(n) = Len(n.keys)
  <2>1. Summing(h, n, left, right, e)
    BY HalvedSums
  <2>. QED
    BY <2>1 DEF Summing
<1>3. left.keys \in Numbers /\ right.keys \in Numbers /\ left.children \in Numbers
      /\ right.children \in Numbers /\ n.leaf \in BOOLEAN
  BY <1>1, NodeFacts
<1>. DEFINE a == Len(left.keys)
            b == Len(right.keys)
            k == Len(n.keys)
            i2 == (i - a) - 1
            p == Put(right, i2, x, c)
<1>4. i2 \in 0..b /\ i2 + 1 \in 1..(b + 1) /\ a + 1 + (i2 + 1) = i + 1
      /\ i2 + 2 \in 1..((b + 1) + 1) /\ (a + 1) + (i2 + 2) = i + 2 /\ i2 \in Int
  <2>1. a \in Nat /\ b \in Nat /\ k = a + 1 + b /\ i > a /\ i <= k /\ k \in Nat
    BY <1>2
  <2>. HIDE DEF a, b, k
  <2>. QED
    BY <2>1
<1>5. r2 = IncreaseTreeCount(p, e + 1)
  OBVIOUS
<1>. HIDE DEF i2
<1>6. /\ Putting(right, p, i2, x, c)
      /\ right.leaf => TreeCount(p) = TreeCount(right) + 1
      /\ ~ right.leaf => TreeCount(p) = TreeCount(right)
  BY <1>1, <1>4, PutFacts
<1>. HIDE DEF p
<1>7. /\ p \in NodeSet /\ (p.leaf <=> right.leaf) /\ Whole(p)
      /\ p.keys = Ext!InsertAt(right.keys, i2 + 1, x)
      /\ Len(p.keys) = Len(right.keys) + 1
      /\ right.leaf => p.children = right.children
      /\ ~ right.leaf => p.children = Ext!InsertAt(right.children, i2 + 2, c)
  BY <1>6 DEF Putting
<1>8. /\ r2 \in NodeSet
      /\ (r2.leaf <=> p.leaf) /\ r2.keys = p.keys /\ r2.children = p.children
      /\ p.leaf => r2 = p /\ TreeCount(r2) = TreeCount(p)
      /\ ~ p.leaf => TreeCount(r2) = TreeCount(p) + (e + 1)
  <2>. DEFINE d == e + 1
  <2>1. d \in Int /\ r2 = IncreaseTreeCount(p, d) /\ p \in NodeSet
    BY <1>5, <1>7
  <2>. HIDE DEF d
  <2>2. /\ r2 \in NodeSet
        /\ (r2.leaf <=> p.leaf) /\ r2.keys = p.keys /\ r2.children = p.children
        /\ p.leaf => r2 = p /\ TreeCount(r2) = TreeCount(p)
        /\ ~ p.leaf => TreeCount(r2) = TreeCount(p) + d
    <3>1. Bumped(p, r2, d)
      BY <2>1, BumpDone
    <3>. QED
      BY <3>1 DEF Bumped
  <2>. QED
    BY <2>2 DEF d
<1>9. /\ l2 \in NodeSet
      /\ (l2.leaf <=> left.leaf) /\ l2.keys = left.keys /\ l2.children = left.children
      /\ left.leaf => l2 = left /\ TreeCount(l2) = TreeCount(left)
      /\ ~ left.leaf => TreeCount(l2) = TreeCount(left) + (-e)
  <2>1. -e \in Int
    OBVIOUS
  <2>. QED
    BY <1>1, <2>1, BumpFacts
<1>10. Link(l2.keys, y, r2.keys) = Ext!InsertAt(n.keys, i + 1, x)
  <2>. DEFINE g == i2 + 1
  <2>1. g \in 1..(Len(right.keys) + 1) /\ r2.keys = Ext!InsertAt(right.keys, g, x)
        /\ Len(left.keys) + 1 + g = i + 1
    BY <1>4, <1>7, <1>8
  <2>. HIDE DEF g
  <2>2. Link(left.keys, y, Ext!InsertAt(right.keys, g, x))
          = Ext!InsertAt(Link(left.keys, y, right.keys), Len(left.keys) + 1 + g, x)
    <3>. DEFINE s == left.keys
                t == right.keys
    <3>1. s \in Numbers /\ t \in Numbers /\ y \in Int /\ g \in 1..(Len(t) + 1)
      BY <1>1, <1>3, <2>1
    <3>. HIDE DEF s, t
    <3>2. Link(s, y, Ext!InsertAt(t, g, x)) = Ext!InsertAt(Link(s, y, t), Len(s) + 1 + g, x)
      BY <3>1, LinkInsertRight
    <3>. QED
      BY <3>2 DEF s, t
  <2>. QED
    BY <1>1, <1>9, <2>1, <2>2
<1>11. ~ n.leaf => l2.children \o r2.children = Ext!InsertAt(n.children, i + 2, c)
  <2>. SUFFICES ASSUME ~ n.leaf
                PROVE  l2.children \o r2.children = Ext!InsertAt(n.children, i + 2, c)
    OBVIOUS
  <2>. DEFINE g == i2 + 2
              cs == right.children
              s == left.children
  <2>1. Len(cs) = b + 1 /\ Len(s) = a + 1
    BY <1>1 DEF Whole
  <2>2. g \in 1..(Len(cs) + 1) /\ Len(s) + g = i + 2
    BY <1>4, <2>1
  <2>3. r2.children = Ext!InsertAt(cs, g, c) /\ cs \in Numbers /\ s \in Numbers /\ l2.children = s
        /\ s \o cs = n.children
    BY <1>1, <1>3, <1>7, <1>8, <1>9
  <2>. HIDE DEF g, cs, s
  <2>5. s \o Ext!InsertAt(cs, g, c) = Ext!InsertAt(s \o cs, Len(s) + g, c)
    BY <2>2, <2>3, JoinThenInsert
  <2>. QED
    BY <2>2, <2>3, <2>5
<1>12. n.leaf => l2.children \o r2.children = n.children
  BY <1>1, <1>7, <1>8, <1>9
<1>13. Whole(l2) /\ Whole(r2)
  BY <1>1, <1>7, <1>8, <1>9 DEF Whole
<1>14. LocalCount(h, l2)
  <2>. DEFINE s0 == SumCounts(h, left.children)
              t == TreeCount(left)
              t2 == TreeCount(l2)
  <2>1. s0 \in Int /\ a \in Nat /\ t \in Int
    BY <1>2
  <2>2. n.leaf => s0 = 0 /\ t = a /\ t2 = t
    BY <1>1, <1>2, <1>9
  <2>3. ~ n.leaf => t = a + s0 + e /\ t2 = t + (-e)
    BY <1>1, <1>2, <1>9
  <2>. HIDE DEF s0, t, t2, a
  <2>4. t2 \in Int /\ t2 = a + s0
    BY <2>1, <2>2, <2>3, <1>3
  <2>5. l2.keys = left.keys /\ l2.children = left.children
    BY <1>9
  <2>. QED
    BY <2>4, <2>5 DEF LocalCount, s0, t2, a
<1>15. TreeCount(l2) + TreeCount(r2) = TreeCount(n)
  <2>. DEFINE t == TreeCount(left)
              t2 == TreeCount(l2)
              tr == TreeCount(right)
              u2 == TreeCount(r2)
              tn == TreeCount(n)
  <2>1. t \in Int /\ tr \in Int /\ t + tr + 1 = tn
    BY <1>1, <1>2
  <2>2. n.leaf => t2 = t /\ u2 = tr + 1
    BY <1>1, <1>6, <1>7, <1>8, <1>9
  <2>3. ~ n.leaf => t2 = t + (-e) /\ u2 = tr + (e + 1)
    BY <1>1, <1>6, <1>7, <1>8, <1>9
  <2>. HIDE DEF t, t2, tr, tn, u2
  <2>4. t2 + u2 = tn
    BY <2>1, <2>2, <2>3, <1>3
  <2>. QED
    BY <2>4 DEF t2, u2, tn
<1>16. /\ Len(l2.keys) \in Nat /\ Len(r2.keys) \in Nat
       /\ Len(l2.keys) + Len(r2.keys) = Len(n.keys)
       /\ Len(n.keys) \div 2 <= Len(l2.keys) /\ Len(l2.keys) <= (Len(n.keys) \div 2) + 1
  <2>. DEFINE a2 == Len(l2.keys)
              b2 == Len(r2.keys)
  <2>1. a \in Nat /\ b \in Nat /\ k \in Nat /\ k = a + 1 + b /\ a2 = a /\ b2 = b + 1 /\ a = k \div 2
    BY <1>1, <1>2, <1>7, <1>8, <1>9
  <2>. HIDE DEF a, a2, b, b2, k
  <2>2. a2 \in Nat /\ b2 \in Nat /\ a2 + b2 = k /\ k \div 2 <= a2 /\ a2 <= (k \div 2) + 1
    BY <2>1
  <2>. QED
    BY <2>2 DEF a2, b2, k
<1>. QED
  BY <1>1, <1>7, <1>8, <1>9, <1>10, <1>11, <1>12, <1>13, <1>14, <1>15, <1>16 DEF SplitParts

-----------------------------------------------------------------------------

\* The sum depends on the children's counts only.
LEMMA SumSame ==
  ASSUME NEW G, NEW H, NEW cs \in Numbers,
         \A k \in 1..Len(cs) : TreeCount(G[cs[k]]) = TreeCount(H[cs[k]])
  PROVE  SumCounts(G, cs) = SumCounts(H, cs)
<1>1. Counts(G, cs) = Counts(H, cs)
  BY DEF Counts
<1>. QED
  BY <1>1 DEF SumCounts

\* What is inserted at a place is what has to be left out there.
LEMMA InsertWithout ==
  ASSUME NEW s \in Numbers, NEW i \in 1..(Len(s) + 1), NEW x \in Int
  PROVE  Without(Ext!InsertAt(s, i, x), s, i)
<1>. DEFINE t == Ext!InsertAt(s, i, x)
            n == Len(s)
<1>1. n \in Nat
  BY NumbersFacts
<1>2. /\ Len(t) = n + 1
      /\ \A k \in 1..(i - 1) : t[k] = s[k]
      /\ \A k \in (i + 1)..(n + 1) : t[k] = s[k - 1]
  BY InsertNumber
<1>. HIDE DEF t
<1>3. \A k \in i..n : s[k] = t[k + 1]
  <2>. SUFFICES ASSUME NEW k \in i..n PROVE s[k] = t[k + 1]
    OBVIOUS
  <2>. DEFINE g == k + 1
  <2>1. g \in (i + 1)..(n + 1) /\ g - 1 = k
    <3>. HIDE DEF n
    <3>1. i \in 1..(n + 1)
      BY DEF n
    <3>. QED
      BY <1>1, <3>1
  <2>. HIDE DEF g
  <2>2. t[g] = s[k]
    BY <2>1, <1>2
  <2>. QED
    BY <2>2 DEF g
<1>. QED
  BY <1>2, <1>3 DEF Without, t

\* A node cut in two, with the new node linked behind it.
SplitAt(D, D2, V, V2, p, j, a, new) ==
  LET y == V2[p].keys[j] IN
  /\ D2 = D \cup {new} /\ new \notin D /\ new \in Nat /\ new # 0
  /\ V2 \in [D2 -> NodeSet]
  /\ p \in D /\ a \in D /\ p # a
  /\ \A b \in D \ {p, a} : V2[b] = V[b]
  /\ ~ V[p].leaf /\ ~ V2[p].leaf /\ V2[p].cnt = V[p].cnt
  /\ j \in 1..Len(V[p].children) /\ V[p].children[j] = a /\ y \in Int
  /\ V2[p].keys = Ext!InsertAt(V[p].keys, j, y)
  /\ V2[p].children = Ext!InsertAt(V[p].children, j + 1, new)
  /\ (V2[a].leaf <=> V[a].leaf) /\ (V2[new].leaf <=> V[a].leaf)
  /\ V[a].keys = Link(V2[a].keys, y, V2[new].keys)
  /\ V[a].children = V2[a].children \o V2[new].children
  /\ Whole(V2[a]) /\ Whole(V2[new])
  /\ TreeCount(V[a]) = TreeCount(V2[a]) + TreeCount(V2[new]) + 1
  /\ LocalCount(V2, V2[a])

\* A split node leaves the tree in order: the new node stands behind the old
\* one.
LEMMA SplitTree ==
  ASSUME NEW D, NEW V, NEW rt, NEW ht, NEW lv, NEW lo, NEW hi, NEW M,
         Form(D, V, rt, ht, lv, lo, hi, M),
         NEW D2, NEW V2, NEW p, NEW j, NEW a, NEW new, SplitAt(D, D2, V, V2, p, j, a, new)
  PROVE  \E lo2, hi2 : Form(D2, V2, rt, ht, Also(D2, new, lv, lv[a]), lo2, hi2, M)
<1>. DEFINE y == V2[p].keys[j]
<1>1. /\ D2 = D \cup {new} /\ new \notin D /\ new \in Nat /\ new # 0
      /\ V2 \in [D2 -> NodeSet]
      /\ p \in D /\ a \in D /\ p # a
      /\ \A b \in D \ {p, a} : V2[b] = V[b]
      /\ ~ V2[p].leaf /\ V2[p].cnt = V[p].cnt
      /\ j \in 1..Len(V[p].children) /\ V[p].children[j] = a /\ y \in Int
      /\ V2[p].keys = Ext!InsertAt(V[p].keys, j, y)
      /\ V2[p].children = Ext!InsertAt(V[p].children, j + 1, new)
  BY DEF SplitAt
<1>2. /\ (V2[a].leaf <=> V[a].leaf) /\ (V2[new].leaf <=> V[a].leaf)
      /\ V[a].keys = Link(V2[a].keys, y, V2[new].keys)
      /\ V[a].children = V2[a].children \o V2[new].children
      /\ Whole(V2[a]) /\ Whole(V2[new])
      /\ TreeCount(V[a]) = TreeCount(V2[a]) + TreeCount(V2[new]) + 1
      /\ LocalCount(V2, V2[a])
  BY DEF SplitAt
<1>3. V \in [D -> NodeSet]
  BY DEF Form, Typed
<1>4. ~ V[p].leaf /\ lv[p] > 1
  BY <1>1, FormChild
<1>5. V[p].keys \in Numbers /\ V[p].children \in Numbers /\ Len(V[p].keys) \in Nat
      /\ Len(V[p].children) = IF lv[p] = 1 THEN 0 ELSE Len(V[p].keys) + 1
  BY <1>1, FormNode
<1>. HIDE DEF y
<1>. DEFINE k == Len(V[p].keys)
            ks == V[p].keys
            cs == V[p].children
            g == j + 1
<1>6. Len(cs) = k + 1 /\ lv[p] \in Int
  <2>1. lv[p] \in Nat
    BY <1>1, FormNode
  <2>. QED
    BY <1>4, <1>5, <2>1
<1>7. k \in Nat /\ j \in 1..(k + 1) /\ j \in Int /\ g \in 1..(Len(cs) + 1) /\ j \in 1..(g - 1)
  <2>1. k \in Nat /\ j \in 1..(k + 1)
    BY <1>1, <1>5, <1>6
  <2>2. g \in 1..((k + 1) + 1) /\ j \in 1..(g - 1) /\ j \in Int
    <3>. HIDE DEF k
    <3>. QED
      BY <2>1
  <2>. QED
    BY <2>1, <2>2, <1>6
<1>8. ks \in Numbers /\ cs \in Numbers /\ j \in 1..(Len(ks) + 1)
      /\ V2[p].keys = Ext!InsertAt(ks, j, y) /\ V2[p].children = Ext!InsertAt(cs, g, new)
      /\ new \in Int /\ y \in Int /\ cs[j] = a
  BY <1>1, <1>5, <1>7
<1>. HIDE DEF ks, cs, g
<1>9. Len(V2[p].keys) = Len(ks) + 1 /\ V2[p].keys[j] = y
  BY <1>8, InsertNumber
<1>10. Len(V2[p].children) = Len(cs) + 1 /\ V2[p].children[g] = new
       /\ V2[p].children[j] = cs[j]
  BY <1>7, <1>8, InsertNumber
<1>11. Without(V2[p].keys, ks, j)
  BY <1>8, InsertWithout
<1>12. Without(V2[p].children, cs, g)
  BY <1>7, <1>8, InsertWithout
<1>13. D2 \ {new} = D
  BY <1>1
<1>14. Joined(D2, V2, V, p, j, a, new)
  <2>1. p \in D2 /\ a \in D2 /\ new \in D2 /\ p # a /\ p # new /\ a # new
    BY <1>1
  <2>2. V \in [D2 \ {new} -> NodeSet] /\ \A b \in D2 \ {p, a, new} : V[b] = V2[b]
    BY <1>1, <1>3, <1>13
  <2>3. j \in 1..Len(V2[p].keys)
    BY <1>7, <1>9 DEF ks, k
  <2>4. Len(V2[p].children) = Len(V2[p].keys) + 1
    BY <1>6, <1>7, <1>9, <1>10 DEF ks, k
  <2>5. V2[p].children[j] = a /\ V2[p].children[j + 1] = new
    BY <1>8, <1>10 DEF g
  <2>6. Without(V2[p].keys, V[p].keys, j) /\ Without(V2[p].children, V[p].children, j + 1)
    BY <1>11, <1>12 DEF ks, cs, g
  <2>7. V[a].keys = Link(V2[a].keys, V2[p].keys[j], V2[new].keys)
    BY <1>2, <1>9
  <2>. QED
    BY <1>1, <1>2, <1>4, <2>1, <2>2, <2>3, <2>4, <2>5, <2>6, <2>7 DEF Joined
<1>15. Form(D2 \ {new}, V, rt, ht, lv, lo, hi, M)
  BY <1>13
<1>. QED
  BY <1>1, <1>2, <1>14, <1>15, SplitForm

-----------------------------------------------------------------------------
(* How full the nodes are.                                                  *)

\* Every node has the items it may and must have, but for over, which may have
\* one more, and under, which may have one less.
Fill(D, V, rt, over, under) ==
  \A b \in D :
    /\ b # over => Len(V[b].keys) <= MaxItems(V[b])
    /\ Len(V[b].keys) <= MaxItems(V[b]) + 1
    /\ b # rt /\ b # under => LeastItems(V[b]) <= Len(V[b].keys)
    /\ b # rt => LeastItems(V[b]) - 1 <= Len(V[b].keys)
    /\ b = rt /\ b # under => 1 <= Len(V[b].keys)

Sized(n) ==
  /\ MaxItems(n) \in Nat /\ MaxItems(n) >= 3
  /\ MinItems(n) = MaxItems(n) \div 2 /\ MinItems(n) \in Nat
  /\ LeastItems(n) \in Nat /\ 1 <= LeastItems(n) /\ LeastItems(n) <= MinItems(n)
  /\ LeastItems(n) <= MaxItems(n) - MinItems(n) - 1
  /\ MinItems(n) + MinItems(n) <= MaxItems(n)
  /\ MaxItems(n) <= MinItems(n) + MinItems(n) + 1
  /\ MinItems(n) + 1 <= MaxItems(n)

\* How many items a node may and must have.
LEMMA SizeFacts ==
  ASSUME NEW n, n.leaf \in BOOLEAN
  PROVE  Sized(n)
<1>. DEFINE K == MaxItems(n)
            m == MinItems(n)
            l == LeastItems(n)
<1>1. K \in Nat /\ K >= 3
  BY CapacityAssumption DEF MaxItems
<1>2. m = K \div 2
  BY DEF MinItems
<1>3. l = IF K % 2 = 1 THEN m ELSE m - 1
  BY DEF LeastItems
<1>. HIDE DEF K, m, l
<1>4. m \in Nat /\ m >= 1 /\ m + m <= K /\ K <= m + m + 1 /\ K % 2 \in 0..1 /\ K = m + m + (K % 2)
  BY <1>1, <1>2
<1>5. l \in Nat /\ 1 <= l /\ l <= m /\ l <= K - m - 1 /\ m + 1 <= K
  <2>1. CASE K % 2 = 1
    BY <2>1, <1>1, <1>3, <1>4
  <2>2. CASE K % 2 = 0
    <3>1. l = m - 1
      BY <2>2, <1>3
    <3>2. K = m + m
      BY <2>2, <1>4
    <3>. QED
      BY <3>1, <3>2, <1>1, <1>4
  <2>. QED
    BY <2>1, <2>2, <1>4
<1>. QED
  BY <1>1, <1>2, <1>4, <1>5 DEF K, m, l, Sized

\* Nodes of a kind have the same bounds.
LEMMA SameSize ==
  ASSUME NEW n, NEW m, n.leaf \in BOOLEAN, m.leaf \in BOOLEAN, n.leaf <=> m.leaf
  PROVE  MaxItems(n) = MaxItems(m) /\ MinItems(n) = MinItems(m) /\ LeastItems(n) = LeastItems(m)
<1>1. MaxItems(n) = MaxItems(m)
  BY DEF MaxItems
<1>. QED
  BY <1>1 DEF MinItems, LeastItems

\* The items of a full node and one more, cut in two.
EvenCut(n, left, right) ==
  /\ Len(left.keys) + Len(right.keys) = MaxItems(n)
  /\ MaxItems(n) \div 2 <= Len(left.keys) /\ Len(left.keys) <= (MaxItems(n) \div 2) + 1

\* A full node cut in two leaves both halves full enough.
LEMMA SplitFill ==
  ASSUME NEW D, NEW V, NEW rt, NEW D2, NEW V2, NEW p, NEW j, NEW a, NEW new,
         SplitAt(D, D2, V, V2, p, j, a, new), V \in [D -> NodeSet],
         NEW u, u = Null \/ (u = p /\ p = rt), Fill(D, V, rt, a, u),
         EvenCut(V[a], V2[a], V2[new]), j <= Len(V[p].keys) + 1
  PROVE  Fill(D2, V2, rt, p, Null)
<1>. DEFINE y == V2[p].keys[j]
            K == MaxItems(V[a])
            l == Len(V2[a].keys)
            r == Len(V2[new].keys)
<1>1. /\ D2 = D \cup {new} /\ new \notin D /\ new \in Nat /\ new # 0
      /\ V2 \in [D2 -> NodeSet]
      /\ p \in D /\ a \in D /\ p # a
      /\ \A b \in D \ {p, a} : V2[b] = V[b]
      /\ ~ V2[p].leaf
      /\ j \in 1..Len(V[p].children) /\ y \in Int
      /\ V2[p].keys = Ext!InsertAt(V[p].keys, j, y)
      /\ (V2[a].leaf <=> V[a].leaf) /\ (V2[new].leaf <=> V[a].leaf)
  BY DEF SplitAt
<1>2. \A b \in D : /\ b # a => Len(V[b].keys) <= MaxItems(V[b])
                   /\ Len(V[b].keys) <= MaxItems(V[b]) + 1
                   /\ b # rt /\ b # u => LeastItems(V[b]) <= Len(V[b].keys)
                   /\ b # rt => LeastItems(V[b]) - 1 <= Len(V[b].keys)
                   /\ b = rt /\ b # u => 1 <= Len(V[b].keys)
  BY DEF Fill
<1>3. p \in D2 /\ a \in D2 /\ new \in D2
  BY <1>1
<1>4. V2[a] \in NodeSet /\ V2[new] \in NodeSet /\ V[a] \in NodeSet /\ V[p] \in NodeSet /\ V2[p] \in NodeSet
  BY <1>1, <1>3
<1>5. l \in Nat /\ r \in Nat /\ V2[a].leaf \in BOOLEAN /\ V2[new].leaf \in BOOLEAN /\ V[a].leaf \in BOOLEAN
      /\ V[p].leaf \in BOOLEAN /\ V2[p].leaf \in BOOLEAN
      /\ V[p].keys \in Numbers /\ Len(V[p].keys) \in Nat /\ Len(V[p].children) \in Nat
  BY <1>4, NodeFacts
<1>6. MaxItems(V2[a]) = K /\ MaxItems(V2[new]) = K
      /\ LeastItems(V2[a]) = LeastItems(V[a]) /\ LeastItems(V2[new]) = LeastItems(V[a])
  BY <1>1, <1>5, SameSize
<1>7. l + r = K /\ K \div 2 <= l /\ l <= (K \div 2) + 1
  BY DEF EvenCut
<1>. DEFINE e == LeastItems(V[a])
            m == MinItems(V[a])
<1>8. K \in Nat /\ K >= 3 /\ m = K \div 2 /\ m \in Nat /\ e \in Nat /\ 1 <= e /\ e <= m
      /\ e <= K - m - 1 /\ m + 1 <= K
  <2>1. Sized(V[a])
    BY <1>5, SizeFacts
  <2>. QED
    BY <2>1 DEF Sized
<1>. HIDE DEF l, r, K, e, m, y
<1>9. l <= K /\ r <= K /\ e <= l /\ e <= r /\ 1 <= l
  BY <1>5, <1>7, <1>8
<1>10. Len(V2[p].keys) = Len(V[p].keys) + 1
  <2>. DEFINE ks == V[p].keys
  <2>1. ks \in Numbers /\ j \in 1..(Len(ks) + 1) /\ V2[p].keys = Ext!InsertAt(ks, j, y)
    BY <1>1, <1>5
  <2>. HIDE DEF ks
  <2>2. Len(V2[p].keys) = Len(ks) + 1
    <3>1. y \in Int
      BY <1>1
    <3>. QED
      BY <2>1, <3>1, InsertNumber
  <2>. QED
    BY <2>2 DEF ks
<1>11. ASSUME NEW b \in D2
       PROVE  /\ b # p => Len(V2[b].keys) <= MaxItems(V2[b])
              /\ Len(V2[b].keys) <= MaxItems(V2[b]) + 1
              /\ b # rt /\ b # Null => LeastItems(V2[b]) <= Len(V2[b].keys)
              /\ b # rt => LeastItems(V2[b]) - 1 <= Len(V2[b].keys)
              /\ b = rt /\ b # Null => 1 <= Len(V2[b].keys)
  <2>1. CASE b = a \/ b = new
    <3>. DEFINE q == Len(V2[b].keys)
                K2 == MaxItems(V2[b])
                e2 == LeastItems(V2[b])
    <3>1. (q = l \/ q = r) /\ K2 = K /\ e2 = e
      BY <2>1, <1>6 DEF l, r, K, e
    <3>. HIDE DEF q, K2, e2
    <3>2. q <= K2 /\ q <= K2 + 1 /\ e2 <= q /\ e2 - 1 <= q /\ 1 <= q
      BY <3>1, <1>5, <1>8, <1>9
    <3>. QED
      BY <3>2 DEF q, K2, e2
  <2>2. CASE b = p
    <3>. DEFINE q == Len(V[p].keys)
                q2 == Len(V2[p].keys)
                K1 == MaxItems(V[p])
                K2 == MaxItems(V2[p])
                e1 == LeastItems(V[p])
                e2 == LeastItems(V2[p])
    <3>0. Sized(V[p])
      BY <1>5, SizeFacts
    <3>1. q2 = q + 1 /\ q \in Nat /\ q <= K1 /\ K1 \in Nat /\ e1 \in Nat
          /\ (p # rt /\ p # Null => e1 <= q) /\ (p # rt => e1 - 1 <= q)
      BY <1>1, <1>2, <1>5, <1>10, <3>0 DEF Sized
    <3>2. K2 = K1 /\ e2 = e1
      <4>1. V[p].leaf <=> V2[p].leaf
        BY DEF SplitAt
      <4>. QED
        BY <1>5, <4>1, SameSize
    <3>. HIDE DEF q, q2, K1, K2, e1, e2
    <3>3. q2 <= K2 + 1 /\ (p # rt /\ p # Null => e2 <= q2) /\ (p # rt => e2 - 1 <= q2) /\ 1 <= q2
      BY <3>1, <3>2
    <3>. QED
      BY <2>2, <3>3 DEF q2, K2, e2
  <2>3. CASE b # a /\ b # new /\ b # p
    <3>1. b \in D /\ V2[b] = V[b]
      BY <2>3, <1>1
    <3>. QED
      BY <2>3, <3>1, <1>2
  <2>. QED
    BY <2>1, <2>2, <2>3
<1>. QED
  BY <1>11 DEF Fill

-----------------------------------------------------------------------------
(* A node at the end of a path is split.                                    *)

\* Two trees are alike along a path.
Alike(D, D2, H, H2, lv, lv2, path) ==
  /\ D \subseteq D2
  /\ \A b \in D : lv2[b] = lv[b]
  /\ \A k \in 1..Len(path) : /\ Len(H2[path[k].node].keys) = Len(H[path[k].node].keys)
                              /\ H2[path[k].node].children = H[path[k].node].children

\* A path is one in a tree that differs elsewhere.
LEMMA OnAgain ==
  ASSUME NEW D, NEW H, NEW rt, NEW ht, NEW lv, NEW path, On(D, H, rt, ht, lv, path),
         NEW D2, NEW H2, NEW lv2, Alike(D, D2, H, H2, lv, lv2, path)
  PROVE  On(D2, H2, rt, ht, lv2, path)
<1>. D \subseteq D2 /\ \A b \in D : lv2[b] = lv[b]
  BY DEF Alike
<1>. \A k \in 1..Len(path) : /\ Len(H2[path[k].node].keys) = Len(H[path[k].node].keys)
                             /\ H2[path[k].node].children = H[path[k].node].children
  BY DEF Alike
<1>1. /\ path \in Steps
      /\ Len(path) \in 1..ht
      /\ path[1].node = rt
      /\ \A k \in 1..Len(path) :
           /\ path[k].node \in D
           /\ lv[path[k].node] = (ht - k) + 1
           /\ path[k].pos \in 0..Len(H[path[k].node].keys)
      /\ \A k \in 1..(Len(path) - 1) :
           path[k + 1].node = H[path[k].node].children[path[k].pos + 1]
  BY DEF On
<1>2. \A k \in 1..Len(path) :
           /\ path[k].node \in D2
           /\ lv2[path[k].node] = (ht - k) + 1
           /\ path[k].pos \in 0..Len(H2[path[k].node].keys)
  BY <1>1
<1>3. Len(path) \in Nat
  BY <1>1, StepsFacts
<1>4. \A k \in 1..(Len(path) - 1) : k \in 1..Len(path)
  BY <1>3
<1>5. \A k \in 1..(Len(path) - 1) :
           path[k + 1].node = H2[path[k].node].children[path[k].pos + 1]
  BY <1>1, <1>4
<1>. QED
  BY <1>1, <1>2, <1>5 DEF On

\* The nodes below the last node of a path are not on it.
LEMMA BelowPath ==
  ASSUME NEW D, NEW H, NEW rt, NEW ht \in Nat, NEW lv, NEW path, On(D, H, rt, ht, lv, path),
         NEW b, lv[b] \in Int, lv[b] < lv[LastNode(path)]
  PROVE  ~ OnPath(path, b)
<1>. SUFFICES ASSUME NEW k \in 1..Len(path), path[k].node = b PROVE FALSE
  BY DEF OnPath
<1>. DEFINE n == Len(path)
<1>1. n \in Nat /\ n >= 1 /\ n <= ht /\ lv[LastNode(path)] = (ht - n) + 1
  BY OnLast
<1>2. lv[b] = (ht - k) + 1
  BY DEF On
<1>. DEFINE l == lv[b]
            m == lv[LastNode(path)]
<1>3. l < m /\ m = (ht - n) + 1 /\ l = (ht - k) + 1 /\ k \in 1..n
  BY <1>1, <1>2
<1>. HIDE DEF l, m, n
<1>. QED
  BY <1>1, <1>3

\* V is h with item x and child c put at the end of the path, and counted.
Extended(D, h, V, path, x, c) ==
  LET a == LastNode(path) IN
  /\ V \in [D -> NodeSet]
  /\ Putting(h[a], V[a], LastPos(path), x, c)
  /\ TreeCount(V[a]) = TreeCount(h[a]) + 1
  /\ \A b \in D : OnPath(path, b) /\ b # a => V[b] = IncreaseTreeCount(h[b], 1)
  /\ \A b \in D : ~ OnPath(path, b) => V[b] = h[b]
  /\ \A b \in D : b # a => /\ (V[b].leaf <=> h[b].leaf) /\ V[b].keys = h[b].keys
                           /\ V[b].children = h[b].children

\* The tree with the awaited item in place differs along the path only.
LEMMA WithFacts ==
  ASSUME NEW D, NEW h \in [D -> NodeSet], NEW rt, NEW ht \in Nat, NEW lv, NEW path,
         On(D, h, rt, ht, lv, path), Whole(h[LastNode(path)]), NEW x \in Int, NEW c \in Int,
         NEW V, V = With(h, path, x, c)
  PROVE  Extended(D, h, V, path, x, c)
<1>. DEFINE a == LastNode(path)
            i == LastPos(path)
            up == Above(path)
            n == IncreaseTreeCount(Put(h[a], i, x, c), 1)
            G == [h EXCEPT ![a] = n]
<1>1. a \in D /\ i \in 0..Len(h[a].keys)
  BY OnLast
<1>2. h[a] \in NodeSet /\ Whole(h[a])
  BY <1>1
<1>3. Putting(h[a], n, i, x, c) /\ TreeCount(n) = TreeCount(h[a]) + 1
  BY <1>1, <1>2, PutCounted
<1>4. \A b \in D : OnPath(up, b) <=> OnPath(path, b) /\ b # a
  BY AboveNodes
<1>5. V = IncreaseSubtreeCounts(G, up, 1)
  BY DEF With
<1>6. n \in NodeSet
  BY <1>3 DEF Putting
<1>. HIDE DEF n, i, up
<1>7. G \in [D -> NodeSet] /\ G[a] = n /\ \A b \in D : b # a => G[b] = h[b]
  BY <1>1, <1>6
<1>. HIDE DEF G
<1>8. Raised(D, G, V, up, 1)
  <2>1. 1 \in Int
    OBVIOUS
  <2>. QED
    BY <2>1, <1>5, <1>7, RaiseFacts
<1>. HIDE DEF a
<1>9. /\ V \in [D -> NodeSet]
      /\ \A b \in D : OnPath(up, b) => V[b] = IncreaseTreeCount(G[b], 1)
      /\ \A b \in D : ~ OnPath(up, b) => V[b] = G[b]
      /\ \A b \in D : (V[b].leaf <=> G[b].leaf) /\ V[b].keys = G[b].keys
                      /\ V[b].children = G[b].children
  BY <1>8 DEF Raised
<1>10. V[a] = n
  BY <1>1, <1>4, <1>7, <1>9
<1>11. \A b \in D : OnPath(path, b) /\ b # a => V[b] = IncreaseTreeCount(h[b], 1)
  BY <1>4, <1>7, <1>9
<1>12. \A b \in D : ~ OnPath(path, b) => V[b] = h[b]
  <2>1. OnPath(path, a)
    <3>1. Len(path) \in 1..Len(path) /\ LastNode(path) = path[Len(path)].node
      BY OnLast
    <3>. QED
      BY <3>1 DEF OnPath, a
  <2>. QED
    BY <2>1, <1>4, <1>7, <1>9
<1>13. \A b \in D : b # a => /\ (V[b].leaf <=> h[b].leaf) /\ V[b].keys = h[b].keys
                             /\ V[b].children = h[b].children
  BY <1>7, <1>9
<1>. QED
  BY <1>3, <1>9, <1>10, <1>11, <1>12, <1>13 DEF Extended, a, i

SameOff(D, path, h, V2) == \A b \in D : ~ OnPath(path, b) => V2[b] = h[b]

\* The children of the left half count as before.
LEMMA LeftCounts ==
  ASSUME NEW D, NEW V, NEW rt, NEW ht, NEW lv, NEW lo, NEW hi, NEW M,
         Form(D, V, rt, ht, lv, lo, hi, M), NEW h, NEW path, On(D, h, rt, ht, lv, path),
         NEW left, left \in NodeSet, NEW r \in Numbers, V[LastNode(path)].children = left.children \o r,
         LocalCount(h, left), NEW V2, SameOff(D, path, h, V2)
  PROVE  LocalCount(V2, left)
<1>. DEFINE a == LastNode(path)
            cs == left.children
<1>1. ht \in Nat
  BY DEF Form, Typed
<1>2. a \in D
  BY <1>1, OnLast
<1>3. cs \in Numbers /\ Len(cs) \in Nat /\ Len(r) \in Nat
  BY NodeFacts, NumbersFacts
<1>4. V[a].children = cs \o r
  OBVIOUS
<1>. HIDE DEF cs
<1>5. Len(V[a].children) = Len(cs) + Len(r) /\ \A k \in 1..Len(cs) : V[a].children[k] = cs[k]
  BY <1>3, <1>4, JoinNumbers
<1>6. ASSUME NEW k \in 1..Len(cs)
      PROVE  TreeCount(V2[cs[k]]) = TreeCount(h[cs[k]])
  <2>. DEFINE m1 == Len(cs)
              m2 == Len(r)
              m3 == Len(V[a].children)
  <2>1. m1 \in Nat /\ m2 \in Nat /\ m3 = m1 + m2 /\ k \in 1..m1
    BY <1>3, <1>5
  <2>. HIDE DEF m1, m2, m3
  <2>2. k \in 1..m3
    BY <2>1
  <2>3. k \in 1..Len(V[a].children)
    BY <2>2 DEF m3
  <2>. DEFINE b == V[a].children[k]
  <2>4. b \in D /\ lv[b] = lv[a] - 1
    <3>1. Linked(D, V, lv, lo, hi)
      BY DEF Form
    <3>. QED
      BY <3>1, <1>2, <2>3 DEF Linked
  <2>5. b = cs[k]
    BY <1>5
  <2>. HIDE DEF b
  <2>6. lv[b] \in Int /\ lv[a] \in Int
    BY <1>2, <2>4, FormNode
  <2>7. lv[b] < lv[a]
    BY <2>4, <2>6
  <2>8. ~ OnPath(path, b)
    BY <1>1, <2>6, <2>7, BelowPath
  <2>. QED
    BY <2>4, <2>5, <2>8 DEF SameOff
<1>7. SumCounts(V2, cs) = SumCounts(h, cs)
  BY <1>3, <1>6, SumSame
<1>. QED
  BY <1>7 DEF LocalCount, cs

Agree(D, lv, lv2) == \A b \in D : lv2[b] = lv[b]

\* V2, the tree to be after the split of the last node, follows V.
Advanced(D, D2, h2, V, V2, rt, ht, lv, lv2, path, left, right, new) ==
  LET up == Above(path) IN
  /\ SplitAt(D, D2, V, V2, LastNode(up), LastPos(up) + 1, LastNode(path), new)
  /\ h2 \in [D2 -> NodeSet]
  /\ On(D2, h2, rt, ht, lv2, up)
  /\ Whole(h2[LastNode(up)])
  /\ lv[LastNode(up)] > 1
  /\ V2[LastNode(path)] = left /\ V2[new] = right

\* The last node of the path is split: what is added next is the median and
\* the new node, to the node above.
LEMMA AddSplit ==
  ASSUME NEW D, NEW V, NEW rt, NEW ht, NEW lv, NEW lo, NEW hi, NEW M,
         Form(D, V, rt, ht, lv, lo, hi, M),
         NEW h, h \in [D -> NodeSet], NEW path, On(D, h, rt, ht, lv, path), Len(path) > 1,
         Whole(h[LastNode(path)]), NEW x \in Int, NEW c \in Int, V = With(h, path, x, c),
         NEW left, NEW y, NEW right,
         SplitParts(h, h[LastNode(path)], LastPos(path), x, c, left, y, right),
         NEW new \in Nat, new # 0, new \notin D, NEW D2, D2 = D \cup {new},
         NEW h2, h2 = Store([h EXCEPT ![LastNode(path)] = left], new, right),
         NEW V2, V2 = With(h2, Above(path), y, new), NEW lv2, Agree(D, lv, lv2)
  PROVE  Advanced(D, D2, h2, V, V2, rt, ht, lv, lv2, path, left, right, new)
<1>. \A b \in D : lv2[b] = lv[b]
  BY DEF Agree
<1>. DEFINE a == LastNode(path)
            n == h[a]
            up == Above(path)
            p == LastNode(up)
            j == LastPos(up)
<1>1. ht \in Nat /\ V \in [D -> NodeSet]
  BY DEF Form, Typed
<1>2. a \in D /\ Len(path) \in Nat /\ lv[a] = (ht - Len(path)) + 1 /\ a # new
  BY <1>1, OnLast
<1>3. On(D, h, rt, ht, lv, up) /\ Len(up) = Len(path) - 1 /\ h[p].children[j + 1] = a
  BY <1>1, OnAbove
<1>4. p \in D /\ lv[p] = (ht - Len(up)) + 1 /\ j \in 0..Len(h[p].keys) /\ p # new
  BY <1>1, <1>3, OnLast
<1>5. lv[p] = lv[a] + 1 /\ lv[a] >= 1 /\ lv[a] \in Nat /\ p # a
  <2>1. lv[a] \in Nat /\ lv[a] >= 1
    BY <1>2, FormNode
  <2>. DEFINE l == Len(path)
              l2 == Len(up)
  <2>2. l \in Nat /\ l2 = l - 1 /\ lv[a] = (ht - l) + 1 /\ lv[p] = (ht - l2) + 1
    BY <1>2, <1>3, <1>4
  <2>. HIDE DEF l, l2, p, a
  <2>3. lv[p] = lv[a] + 1 /\ lv[p] # lv[a]
    BY <2>1, <2>2, <1>1
  <2>. QED
    BY <2>1, <2>3
<1>6. \A b : OnPath(up, b) <=> OnPath(path, b) /\ b # a
  BY <1>1, AboveNodes
<1>7. \A b : OnPath(path, b) => b \in D
  BY DEF OnPath, On
<1>8. Extended(D, h, V, path, x, c)
  BY <1>1, WithFacts
<1>9. /\ left \in NodeSet /\ right \in NodeSet /\ y \in Int
      /\ (left.leaf <=> n.leaf) /\ (right.leaf <=> n.leaf)
      /\ Link(left.keys, y, right.keys) = Ext!InsertAt(n.keys, LastPos(path) + 1, x)
      /\ n.leaf => left.children \o right.children = n.children
      /\ ~ n.leaf => left.children \o right.children = Ext!InsertAt(n.children, LastPos(path) + 2, c)
      /\ Whole(left) /\ Whole(right) /\ LocalCount(h, left)
      /\ TreeCount(left) + TreeCount(right) = TreeCount(n)
  BY DEF SplitParts
<1>10. Putting(n, V[a], LastPos(path), x, c) /\ TreeCount(V[a]) = TreeCount(n) + 1
  BY <1>8 DEF Extended
<1>11. /\ (V[a].leaf <=> n.leaf)
       /\ V[a].keys = Ext!InsertAt(n.keys, LastPos(path) + 1, x)
       /\ n.leaf => V[a].children = n.children
       /\ ~ n.leaf => V[a].children = Ext!InsertAt(n.children, LastPos(path) + 2, c)
  BY <1>10 DEF Putting
<1>. HIDE DEF a
<1>12. /\ h2 \in [D2 -> NodeSet] /\ h2[a] = left /\ h2[new] = right
       /\ \A b \in D : b # a => h2[b] = h[b]
  <2>. DEFINE g == [h EXCEPT ![a] = left]
  <2>1. g \in [D -> NodeSet] /\ g[a] = left /\ \A b \in D : b # a => g[b] = h[b]
    BY <1>2, <1>9
  <2>2. h2 = Store(g, new, right)
    BY DEF a
  <2>. HIDE DEF g
  <2>3. h2 = [b \in D \cup {new} |-> IF b = new THEN right ELSE g[b]]
    BY <2>1, <2>2 DEF Store
  <2>. QED
    BY <2>1, <2>3, <1>2, <1>9
<1>13. \A k \in 1..Len(up) : up[k].node \in D /\ up[k].node # a
  <2>1. \A k \in 1..Len(up) : OnPath(up, up[k].node)
    BY DEF OnPath
  <2>. QED
    BY <2>1, <1>6, <1>7
<1>14. On(D2, h2, rt, ht, lv2, up)
  <2>1. \A k \in 1..Len(up) : /\ Len(h2[up[k].node].keys) = Len(h[up[k].node].keys)
                              /\ h2[up[k].node].children = h[up[k].node].children
    BY <1>12, <1>13
  <2>2. Alike(D, D2, h, h2, lv, lv2, up)
    BY <2>1 DEF Alike
  <2>3. On(D, h, rt, ht, lv, up)
    BY <1>3
  <2>. HIDE DEF up
  <2>. QED
    BY <2>2, <2>3, OnAgain
<1>15. h2[p] = h[p]
  BY <1>4, <1>5, <1>12
<1>16. V[p].leaf <=> h[p].leaf
  BY <1>4, <1>5, <1>8 DEF Extended, a
<1>17. V[p].keys = h[p].keys /\ V[p].children = h[p].children
  BY <1>4, <1>5, <1>8 DEF Extended, a
<1>18. Whole(h[p]) /\ ~ h[p].leaf
  <2>1. Whole(V[p])
    BY <1>4, FormWhole
  <2>2. V[p].leaf <=> lv[p] = 1
    BY <1>4, FormNode
  <2>. QED
    BY <2>1, <2>2, <1>5, <1>16, <1>17 DEF Whole
<1>19. Extended(D2, h2, V2, up, y, new)
  <2>1. new \in Int /\ y \in Int
    BY <1>9
  <2>2. Whole(h2[LastNode(up)])
    BY <1>15, <1>18
  <2>3. V2 = With(h2, up, y, new) /\ h2 \in [D2 -> NodeSet]
    BY <1>12
  <2>. HIDE DEF up
  <2>. QED
    BY <1>1, <1>14, <2>1, <2>2, <2>3, WithFacts
<1>20. /\ V2 \in [D2 -> NodeSet]
       /\ Putting(h[p], V2[p], j, y, new) /\ TreeCount(V2[p]) = TreeCount(h[p]) + 1
       /\ \A b \in D2 : OnPath(up, b) /\ b # p => V2[b] = IncreaseTreeCount(h2[b], 1)
       /\ \A b \in D2 : ~ OnPath(up, b) => V2[b] = h2[b]
  BY <1>15, <1>19 DEF Extended
<1>21. /\ ~ V2[p].leaf /\ V2[p].keys = Ext!InsertAt(h[p].keys, j + 1, y)
       /\ V2[p].children = Ext!InsertAt(h[p].children, j + 2, new)
  BY <1>18, <1>20 DEF Putting
<1>22. V2[a] = left /\ V2[new] = right
  BY <1>2, <1>6, <1>7, <1>12, <1>20
<1>23. \A b \in D \ {p, a} : V2[b] = V[b]
  <2>. SUFFICES ASSUME NEW b \in D \ {p, a} PROVE V2[b] = V[b]
    OBVIOUS
  <2>1. h2[b] = h[b] /\ b \in D2
    BY <1>12
  <2>2. CASE OnPath(path, b)
    <3>1. V[b] = IncreaseTreeCount(h[b], 1)
      BY <2>2, <1>8 DEF Extended, a
    <3>2. V2[b] = IncreaseTreeCount(h[b], 1)
      BY <2>1, <2>2, <1>6, <1>20
    <3>. QED
      BY <3>1, <3>2
  <2>3. CASE ~ OnPath(path, b)
    <3>1. V[b] = h[b]
      BY <2>3, <1>8 DEF Extended
    <3>2. V2[b] = h[b]
      BY <2>1, <2>3, <1>6, <1>20
    <3>. QED
      BY <3>1, <3>2
  <2>. QED
    BY <2>2, <2>3
<1>24. V2[p].cnt = V[p].cnt
  <2>1. OnPath(up, p)
    <3>1. Len(up) \in 1..Len(up) /\ p = up[Len(up)].node
      BY <1>1, <1>3, OnLast
    <3>. QED
      BY <3>1 DEF OnPath
  <2>2. V[p] = IncreaseTreeCount(h[p], 1)
    BY <2>1, <1>4, <1>6, <1>8 DEF Extended, a
  <2>3. TreeCount(V[p]) = TreeCount(h[p]) + 1
    <3>1. h[p] \in NodeSet /\ ~ h[p].leaf
      BY <1>4, <1>18
    <3>2. Bumped(h[p], V[p], 1)
      <4>1. 1 \in Int
        OBVIOUS
      <4>. QED
        BY <4>1, <2>2, <3>1, BumpDone
    <3>. QED
      BY <3>1, <3>2 DEF Bumped
  <2>4. TreeCount(V[p]) = V[p].cnt /\ TreeCount(V2[p]) = V2[p].cnt
    BY <1>16, <1>18, <1>21 DEF TreeCount
  <2>. QED
    BY <2>3, <2>4, <1>20
<1>25. LocalCount(V2, left)
  <2>. DEFINE r == right.children
  <2>1. r \in Numbers /\ V[LastNode(path)].children = left.children \o r
    <3>1. r \in Numbers
      BY <1>9, NodeFacts
    <3>2. n.leaf \in BOOLEAN
      BY <1>2, NodeFacts
    <3>. QED
      BY <3>1, <3>2, <1>9, <1>11 DEF a
  <2>. HIDE DEF r
  <2>2. \A b \in D : ~ OnPath(path, b) => V2[b] = h[b]
    <3>. SUFFICES ASSUME NEW b \in D, ~ OnPath(path, b) PROVE V2[b] = h[b]
      OBVIOUS
    <3>1. OnPath(path, a)
      <4>1. Len(path) \in 1..Len(path) /\ a = path[Len(path)].node
        BY <1>1, OnLast DEF a
      <4>. QED
        BY <4>1 DEF OnPath
    <3>2. b # a /\ b \in D2 /\ ~ OnPath(up, b)
      BY <3>1, <1>6
    <3>. QED
      BY <3>2, <1>12, <1>20
  <2>3. left \in NodeSet /\ LocalCount(h, left)
    BY <1>9
  <2>4. SameOff(D, path, h, V2)
    BY <2>2 DEF SameOff
  <2>. QED
    BY <2>1, <2>3, <2>4, LeftCounts
<1>. HIDE DEF p, j, up, n
<1>26. SplitAt(D, D2, V, V2, p, j + 1, a, new)
  <2>. DEFINE g == j + 1
              k == Len(h[p].keys)
              m == Len(h[p].children)
  <2>1. k \in Nat /\ m = k + 1 /\ j \in 0..k
    BY <1>4, <1>18, NodeFacts DEF Whole
  <2>2. g \in 1..m /\ g + 1 = j + 2
    <3>. HIDE DEF k, m
    <3>. QED
      BY <2>1
  <2>3. V2[p].keys[g] = y
    <3>. DEFINE ks == h[p].keys
    <3>1. ks \in Numbers /\ g \in 1..(Len(ks) + 1) /\ V2[p].keys = Ext!InsertAt(ks, g, y) /\ y \in Int
      BY <1>4, <1>9, <1>21, <2>1, <2>2, NodeFacts
    <3>. HIDE DEF ks, g
    <3>. QED
      BY <3>1, InsertNumber
  <2>4. V[a].keys = Link(left.keys, y, right.keys)
    BY <1>9, <1>11 DEF n, a
  <2>5. V[a].children = left.children \o right.children
    <3>1. n.leaf \in BOOLEAN
      BY <1>2, NodeFacts DEF n
    <3>. QED
      BY <3>1, <1>9, <1>11 DEF n, a
  <2>6. TreeCount(V[a]) = TreeCount(left) + TreeCount(right) + 1
    <3>1. TreeCount(left) \in Int /\ TreeCount(right) \in Int
      BY <1>9, TreeCountType
    <3>. QED
      BY <3>1, <1>9, <1>10 DEF n, a
  <2>7. (left.leaf <=> V[a].leaf) /\ (right.leaf <=> V[a].leaf)
    BY <1>9, <1>11
  <2>8. V[p].children[g] = a /\ V2[p].keys = Ext!InsertAt(V[p].keys, g, y)
        /\ V2[p].children = Ext!InsertAt(V[p].children, g + 1, new) /\ ~ V[p].leaf
        /\ g \in 1..Len(V[p].children)
    BY <1>3, <1>16, <1>17, <1>18, <1>21, <2>2 DEF p, j
  <2>. HIDE DEF g
  <2>9. SplitAt(D, D2, V, V2, p, g, a, new)
    BY <1>2, <1>4, <1>5, <1>9, <1>20, <1>21, <1>22, <1>23, <1>24, <1>25, <2>3, <2>4, <2>5, <2>6, <2>7, <2>8
    DEF SplitAt
  <2>. QED
    BY <2>9 DEF g
<1>27. lv[p] > 1
  BY <1>5
<1>. QED
  BY <1>12, <1>14, <1>15, <1>18, <1>22, <1>26, <1>27 DEF Advanced, a, p, j, up

-----------------------------------------------------------------------------
(* A running insertion.                                                     *)

\* Item x, with node c behind it, has to be added at the end of the path.
Pending(D, h, rt, ht, lv, lo, hi, M, path, x, c) ==
  /\ h \in [D -> NodeSet] /\ x \in Int /\ c \in Int
  /\ On(D, h, rt, ht, lv, path) /\ Whole(h[LastNode(path)])
  /\ Form(D, With(h, path, x, c), rt, ht, lv, lo, hi, M)
  /\ Fill(D, With(h, path, x, c), rt, LastNode(path), Null)

\* The children below a node of the path are off the path.
LEMMA ChildOff ==
  ASSUME NEW D, NEW V, NEW rt, NEW ht, NEW lv, NEW lo, NEW hi, NEW M,
         Form(D, V, rt, ht, lv, lo, hi, M), NEW h, NEW path, On(D, h, rt, ht, lv, path),
         NEW k \in 1..Len(V[LastNode(path)].children)
  PROVE  /\ V[LastNode(path)].children[k] \in D
         /\ ~ OnPath(path, V[LastNode(path)].children[k])
<1>. DEFINE a == LastNode(path)
            b == V[a].children[k]
<1>1. ht \in Nat
  BY DEF Form, Typed
<1>2. a \in D
  BY <1>1, OnLast
<1>3. b \in D /\ lv[b] = lv[a] - 1
  <2>1. Linked(D, V, lv, lo, hi)
    BY DEF Form
  <2>. QED
    BY <2>1, <1>2 DEF Linked
<1>. HIDE DEF b
<1>4. lv[b] \in Int /\ lv[a] \in Int
  BY <1>2, <1>3, FormNode
<1>5. lv[b] < lv[a]
  BY <1>3, <1>4
<1>6. ~ OnPath(path, b)
  BY <1>1, <1>4, <1>5, BelowPath
<1>. QED
  BY <1>3, <1>6 DEF b

\* What the last node counts: its items and its children's, and those of the
\* node that is still to be linked.
Awaiting(h, n, c, e) ==
  /\ Tallied(h, n.children) /\ e \in Int
  /\ ~ n.leaf => TreeCount(n) = Len(n.keys) + SumCounts(h, n.children) + e
  /\ ~ n.leaf => TreeCount(h[c]) = e

\* The last node of the path lacks the count of the awaited child alone.
LEMMA PendingCounts ==
  ASSUME NEW D, NEW h, NEW rt, NEW ht, NEW lv, NEW lo, NEW hi, NEW M, NEW path, NEW x, NEW c,
         Pending(D, h, rt, ht, lv, lo, hi, M, path, x, c)
  PROVE  \E e : Awaiting(h, h[LastNode(path)], c, e)
<1>. DEFINE a == LastNode(path)
            n == h[a]
            V == With(h, path, x, c)
            i == LastPos(path)
<1>1. /\ h \in [D -> NodeSet] /\ x \in Int /\ c \in Int /\ On(D, h, rt, ht, lv, path) /\ Whole(n)
      /\ Form(D, V, rt, ht, lv, lo, hi, M)
  BY DEF Pending
<1>2. ht \in Nat
  BY <1>1 DEF Form, Typed
<1>3. a \in D /\ i \in 0..Len(n.keys) /\ n \in NodeSet
  BY <1>1, <1>2, OnLast
<1>4. Extended(D, h, V, path, x, c)
  BY <1>1, <1>2, WithFacts
<1>5. /\ V \in [D -> NodeSet] /\ Putting(n, V[a], i, x, c) /\ TreeCount(V[a]) = TreeCount(n) + 1
      /\ \A b \in D : ~ OnPath(path, b) => V[b] = h[b]
  BY <1>4 DEF Extended
<1>6. \A b \in D : TreeCount(h[b]) \in Int
  BY <1>1, TreeCountType
<1>. HIDE DEF V
<1>7. \A k \in 1..Len(V[a].children) : V[a].children[k] \in D /\ V[V[a].children[k]] = h[V[a].children[k]]
  <2>. SUFFICES ASSUME NEW k \in 1..Len(V[a].children)
                PROVE  V[a].children[k] \in D /\ V[V[a].children[k]] = h[V[a].children[k]]
    OBVIOUS
  <2>1. V[a].children[k] \in D /\ ~ OnPath(path, V[a].children[k])
    BY <1>1, ChildOff
  <2>. QED
    BY <2>1, <1>5
<1>8. Tallied(h, V[a].children)
  BY <1>6, <1>7 DEF Tallied
<1>9. CASE n.leaf
  <2>1. Tallied(h, n.children)
    BY <1>1, <1>5, <1>8, <1>9 DEF Putting
  <2>2. Awaiting(h, n, c, 0)
    BY <2>1, <1>9 DEF Awaiting
  <2>. QED
    BY <2>2
<1>10. CASE ~ n.leaf
  <2>. DEFINE s == n.children
              t == V[a].children
              g == i + 2
              e == TreeCount(h[c])
  <2>1. /\ s \in Numbers /\ Len(s) = Len(n.keys) + 1 /\ t = Ext!InsertAt(s, g, c) /\ Len(n.keys) \in Nat
        /\ t \in Numbers /\ Len(V[a].keys) = Len(n.keys) + 1
    BY <1>1, <1>3, <1>5, <1>10, NodeFacts DEF Putting, Whole
  <2>2. g \in 1..(Len(s) + 1)
    <3>. DEFINE m == Len(n.keys)
                m2 == Len(s)
    <3>1. m \in Nat /\ m2 = m + 1 /\ i \in 0..m
      BY <2>1, <1>3
    <3>. HIDE DEF m, m2, i
    <3>2. g \in 1..(m2 + 1)
      BY <3>1
    <3>. QED
      BY <3>2 DEF m2
  <2>. HIDE DEF s, g, t
  <2>3. Len(t) = Len(s) + 1 /\ t[g] = c /\ Len(s) \in Nat
        /\ (\A k \in 1..(g - 1) : t[k] = s[k]) /\ (\A k \in (g + 1)..(Len(s) + 1) : t[k] = s[k - 1])
    <3>1. s \in Numbers /\ c \in Int /\ t = Ext!InsertAt(s, g, c)
      BY <1>1, <2>1
    <3>2. Len(s) \in Nat
      BY <3>1, NumbersFacts
    <3>. QED
      BY <3>1, <3>2, <2>2, InsertNumber
  <2>4. c \in D /\ e \in Int
    <3>1. g \in 1..Len(t)
      BY <2>2, <2>3
    <3>. QED
      BY <3>1, <2>3, <1>6, <1>7 DEF t
  <2>5. Tallied(h, s)
    <3>. SUFFICES ASSUME NEW k \in 1..Len(s) PROVE TreeCount(h[s[k]]) \in Int
      BY DEF Tallied
    <3>1. \E m \in 1..Len(t) : s[k] = t[m]
      <4>. DEFINE ls == Len(s)
                  lt == Len(t)
      <4>1. ls \in Nat /\ lt = ls + 1 /\ g \in 1..(ls + 1) /\ k \in 1..ls
        BY <2>2, <2>3
      <4>2. CASE k <= g - 1
        <5>1. k \in 1..(g - 1) /\ k \in 1..lt
          <6>. HIDE DEF ls, lt
          <6>. QED
            BY <4>1, <4>2
        <5>. QED
          BY <5>1, <2>3
      <4>3. CASE ~ (k <= g - 1)
        <5>1. k + 1 \in (g + 1)..(ls + 1) /\ k + 1 \in 1..lt /\ (k + 1) - 1 = k
          <6>. HIDE DEF ls, lt
          <6>. QED
            BY <4>1, <4>3
        <5>. DEFINE k1 == k + 1
        <5>2. k1 \in (g + 1)..(Len(s) + 1) /\ k1 \in 1..Len(t) /\ k1 - 1 = k
          BY <5>1
        <5>. HIDE DEF k1
        <5>3. t[k1] = s[k]
          BY <5>2, <2>3
        <5>. QED
          BY <5>2, <5>3
      <4>. QED
        BY <4>2, <4>3
    <3>. QED
      BY <3>1, <1>6, <1>7 DEF t
  <2>6. SumCounts(h, t) = SumCounts(h, s) + e /\ SumCounts(h, s) \in Int
    BY <1>1, <2>1, <2>2, <2>4, <2>5, SumInsert, SumType
  <2>7. SumCounts(V, t) = SumCounts(h, t)
    <3>1. \A k \in 1..Len(t) : TreeCount(V[t[k]]) = TreeCount(h[t[k]])
      BY <1>7 DEF t
    <3>. QED
      BY <2>1, <3>1, SumSame
  <2>8. TreeCount(V[a]) = Len(V[a].keys) + SumCounts(V, t)
    BY <1>1, <1>3, FormCount DEF LocalCount, t
  <2>9. TreeCount(n) = Len(n.keys) + SumCounts(h, s) + e
    <3>. DEFINE u1 == TreeCount(V[a])
                u2 == TreeCount(n)
                k1 == Len(V[a].keys)
                k2 == Len(n.keys)
                w1 == SumCounts(h, t)
                w2 == SumCounts(h, s)
    <3>1. u1 = u2 + 1 /\ k1 = k2 + 1 /\ w1 = w2 + e /\ u1 = k1 + w1 /\ u2 \in Int /\ k2 \in Nat
          /\ w2 \in Int /\ e \in Int
      BY <1>3, <1>5, <1>6, <2>1, <2>4, <2>6, <2>7, <2>8
    <3>. HIDE DEF u1, u2, k1, k2, w1, w2, e
    <3>2. u2 = k2 + w2 + e
      BY <3>1
    <3>. QED
      BY <3>2 DEF u2, k2, w2
  <2>10. Awaiting(h, n, c, e)
    BY <2>4, <2>5, <2>9 DEF Awaiting, s
  <2>. QED
    BY <2>10
<1>. QED
  BY <1>3, <1>9, <1>10

-----------------------------------------------------------------------------
\* SplitInnerAndInsert, for a leaf too.
SplitWith(h, n, i, x, c) ==
  LET halves == Split(h, n)
      kept   == NumItems(halves.left)
      sum    == TreeCount(h[c])
  IN IF i <= kept
     THEN [halves EXCEPT !.left = IncreaseTreeCount(Put(@, i, x, c), 1)]
     ELSE [halves EXCEPT !.left = IncreaseTreeCount(@, -sum),
                         !.right = IncreaseTreeCount(Put(@, i - kept - 1, x, c), sum + 1)]

\* What Split returns.
LEMMA SplitRecord ==
  ASSUME NEW h, NEW n
  PROVE  Split(h, n) = [left |-> Split(h, n).left, median |-> Split(h, n).median,
                        right |-> Split(h, n).right]
BY DEF Split

\* SplitLeafAndInsert and SplitInnerAndInsert halve the node and put the
\* item into one of the halves.
LEMMA SplitWithParts ==
  ASSUME NEW h, NEW n \in NodeSet, Whole(n), Len(n.keys) >= 1, NEW c \in Int, NEW e,
         Awaiting(h, n, c, e), NEW i \in 0..Len(n.keys), NEW x \in Int,
         NEW s, s = SplitWith(h, n, i, x, c)
  PROVE  SplitParts(h, n, i, x, c, s.left, s.median, s.right)
<1>. DEFINE left == Split(h, n).left
            y == Split(h, n).median
            right == Split(h, n).right
            kept == Len(left.keys)
            sum == TreeCount(h[c])
<1>1. /\ Tallied(h, n.children) /\ e \in Int
      /\ ~ n.leaf => TreeCount(n) = Len(n.keys) + SumCounts(h, n.children) + e
      /\ ~ n.leaf => sum = e
  BY DEF Awaiting
<1>2. Halved(h, n, left, y, right)
  BY <1>1, SplitHalves
<1>3. Split(h, n) = [left |-> left, median |-> y, right |-> right]
  BY SplitRecord
<1>. HIDE DEF left, y, right
<1>4. left \in NodeSet /\ right \in NodeSet /\ (left.leaf <=> n.leaf) /\ (right.leaf <=> n.leaf)
  BY <1>2 DEF Halved
<1>5. kept \in Nat
  BY <1>4, NodeFacts
<1>6. CASE i <= kept
  <2>1. s = [left |-> IncreaseTreeCount(Put(left, i, x, c), 1), median |-> y, right |-> right]
    BY <1>3, <1>6 DEF SplitWith, NumItems
  <2>. DEFINE l2 == IncreaseTreeCount(Put(left, i, x, c), 1)
  <2>2. s.left = l2 /\ s.median = y /\ s.right = right
    BY <2>1
  <2>3. i \in 0..Len(left.keys)
    <3>1. i \in Nat
      OBVIOUS
    <3>. QED
      BY <3>1, <1>5, <1>6
  <2>4. l2 = IncreaseTreeCount(Put(left, i, x, c), 1)
    OBVIOUS
  <2>. HIDE DEF l2
  <2>5. SplitParts(h, n, i, x, c, l2, y, right)
    BY <1>1, <1>2, <2>3, <2>4, PutLeft
  <2>. QED
    BY <2>2, <2>5
<1>7. CASE ~ (i <= kept)
  <2>. DEFINE l2 == IncreaseTreeCount(left, -e)
              r2 == IncreaseTreeCount(Put(right, (i - kept) - 1, x, c), e + 1)
  <2>1. s.left = IncreaseTreeCount(left, -sum) /\ s.median = y
        /\ s.right = IncreaseTreeCount(Put(right, (i - kept) - 1, x, c), sum + 1)
    <3>1. s = [[left |-> left, median |-> y, right |-> right] EXCEPT
               !.left = IncreaseTreeCount(left, -sum),
               !.right = IncreaseTreeCount(Put(right, (i - kept) - 1, x, c), sum + 1)]
      BY <1>3, <1>7 DEF SplitWith, NumItems
    <3>. QED
      BY <3>1
  <2>2. IncreaseTreeCount(left, -sum) = l2
    BY <1>1, <1>4 DEF IncreaseTreeCount
  <2>3. IncreaseTreeCount(Put(right, (i - kept) - 1, x, c), sum + 1) = r2
    <3>. DEFINE m == Put(right, (i - kept) - 1, x, c)
    <3>1. m.leaf <=> right.leaf
      BY <1>4 DEF Put, NodeSet
    <3>. HIDE DEF m
    <3>2. IncreaseTreeCount(m, sum + 1) = IncreaseTreeCount(m, e + 1)
      BY <3>1, <1>1, <1>4 DEF IncreaseTreeCount
    <3>. QED
      BY <3>2 DEF m
  <2>4. s.left = l2 /\ s.median = y /\ s.right = r2
    BY <2>1, <2>2, <2>3
  <2>5. i \in Int /\ i > Len(left.keys) /\ i <= Len(n.keys)
    <3>1. i \in Nat /\ Len(n.keys) \in Nat
      BY NodeFacts
    <3>. QED
      BY <3>1, <1>5, <1>7
  <2>6. l2 = IncreaseTreeCount(left, -e) /\ r2 = IncreaseTreeCount(Put(right, (i - Len(left.keys)) - 1, x, c), e + 1)
    OBVIOUS
  <2>. HIDE DEF l2, r2
  <2>7. SplitParts(h, n, i, x, c, l2, y, r2)
    BY <1>1, <1>2, <2>5, <2>6, PutRight
  <2>. QED
    BY <2>4, <2>7
<1>. QED
  BY <1>6, <1>7

Same(s, t) == s.left = t.left /\ s.median = t.median /\ s.right = t.right

\* What the code computes for a leaf and for an inner node.
LEMMA SplitWithLeaf ==
  ASSUME NEW h, NEW n \in NodeSet, n.leaf, Whole(n), Len(n.keys) >= 1, NEW c \in Int,
         NEW i \in 0..Len(n.keys), NEW x \in Int
  PROVE  LET halves == Split(h, n)
             kept == NumItems(halves.left)
             filled == IF i <= kept
                       THEN [halves EXCEPT !.left = LeafInsert(@, i, x)]
                       ELSE [halves EXCEPT !.right = LeafInsert(@, i - kept - 1, x)]
         IN Same(SplitWith(h, n, i, x, c), filled)
<1>. DEFINE left == Split(h, n).left
            y == Split(h, n).median
            right == Split(h, n).right
            kept == Len(left.keys)
            sum == TreeCount(h[c])
            s == SplitWith(h, n, i, x, c)
<1>0. Tallied(h, n.children)
  BY DEF Tallied, Whole
<1>1. Halved(h, n, left, y, right)
  BY <1>0, SplitHalves
<1>2. Split(h, n) = [left |-> left, median |-> y, right |-> right]
  BY SplitRecord
<1>. HIDE DEF left, y, right
<1>3. left \in NodeSet /\ right \in NodeSet /\ left.leaf /\ right.leaf
  BY <1>1 DEF Halved
<1>4. \A k, d : /\ IncreaseTreeCount(Put(left, k, x, c), d) = LeafInsert(left, k, x)
                /\ IncreaseTreeCount(Put(right, k, x, c), d) = LeafInsert(right, k, x)
  BY <1>3 DEF IncreaseTreeCount, Put, LeafInsert, NodeSet
<1>5. \A d : IncreaseTreeCount(left, d) = left
  BY <1>3 DEF IncreaseTreeCount
<1>6. CASE i <= kept
  BY <1>2, <1>4, <1>6 DEF SplitWith, NumItems, Same
<1>7. CASE ~ (i <= kept)
  <2>. DEFINE l3 == IncreaseTreeCount(left, -sum)
              r3 == IncreaseTreeCount(Put(right, (i - kept) - 1, x, c), sum + 1)
  <2>1. s = [[left |-> left, median |-> y, right |-> right] EXCEPT !.left = l3, !.right = r3]
    BY <1>2, <1>7 DEF SplitWith, NumItems
  <2>2. l3 = left /\ r3 = LeafInsert(right, (i - kept) - 1, x)
    BY <1>4, <1>5
  <2>. HIDE DEF l3, r3, s
  <2>3. s.left = l3 /\ s.median = y /\ s.right = r3
    BY <2>1
  <2>. DEFINE t == [Split(h, n) EXCEPT !.right = LeafInsert(@, (i - kept) - 1, x)]
  <2>4. t.left = left /\ t.median = y /\ t.right = LeafInsert(right, (i - kept) - 1, x)
    BY <1>2
  <2>. HIDE DEF t
  <2>5. Same(s, t)
    BY <2>2, <2>3, <2>4 DEF Same
  <2>. QED
    BY <2>5, <1>7 DEF s, t, NumItems, left
<1>. QED
  BY <1>6, <1>7

\* The two ways to split an inner node are one.
LEMMA SplitWithInner ==
  ASSUME NEW h, NEW n \in NodeSet, ~ n.leaf, Whole(n), Len(n.keys) >= 1, NEW c \in Int,
         NEW i \in 0..Len(n.keys), NEW x \in Int, Tallied(h, n.children)
  PROVE  Same(SplitWith(h, n, i, x, c), SplitInnerAndInsert(h, n, i, x, c))
<1>. DEFINE left == Split(h, n).left
            y == Split(h, n).median
            right == Split(h, n).right
            kept == Len(left.keys)
            sum == TreeCount(h[c])
            s == SplitWith(h, n, i, x, c)
            t == SplitInnerAndInsert(h, n, i, x, c)
<1>1. Halved(h, n, left, y, right)
  BY SplitHalves
<1>2. Split(h, n) = [left |-> left, median |-> y, right |-> right]
  BY SplitRecord
<1>. HIDE DEF left, y, right
<1>3. left \in NodeSet /\ right \in NodeSet /\ ~ left.leaf /\ ~ right.leaf
  BY <1>1 DEF Halved
<1>4. \A k : /\ Put(left, k, x, c) = InnerInsert(left, k, x, c)
             /\ Put(right, k, x, c) = InnerInsert(right, k, x, c)
  BY <1>3 DEF Put, InnerInsert, NodeSet
<1>6. CASE i <= kept
  BY <1>2, <1>4, <1>6 DEF SplitWith, SplitInnerAndInsert, NumItems, Same
<1>7. CASE ~ (i <= kept)
  <2>. DEFINE l3 == IncreaseTreeCount(left, -sum)
              r3 == IncreaseTreeCount(Put(right, (i - kept) - 1, x, c), sum + 1)
              r4 == IncreaseTreeCount(InnerInsert(right, (i - kept) - 1, x, c), sum + 1)
  <2>1. s = [[left |-> left, median |-> y, right |-> right] EXCEPT !.left = l3, !.right = r3]
    BY <1>2, <1>7 DEF SplitWith, NumItems
  <2>2. t = [[left |-> left, median |-> y, right |-> right] EXCEPT !.left = l3, !.right = r4]
    BY <1>2, <1>7 DEF SplitInnerAndInsert, NumItems
  <2>3. r3 = r4
    BY <1>4
  <2>. HIDE DEF l3, r3, r4, s, t
  <2>4. s.left = l3 /\ s.median = y /\ s.right = r3
    BY <2>1
  <2>5. t.left = l3 /\ t.median = y /\ t.right = r4
    BY <2>2
  <2>. QED
    BY <2>3, <2>4, <2>5 DEF Same, s, t
<1>. QED
  BY <1>6, <1>7

-----------------------------------------------------------------------------

\* What a running insertion knows.
LEMMA PendingFacts ==
  ASSUME NEW D, NEW h, NEW rt, NEW ht, NEW lv, NEW lo, NEW hi, NEW M, NEW path, NEW x, NEW c,
         Pending(D, h, rt, ht, lv, lo, hi, M, path, x, c), NEW V, V = With(h, path, x, c)
  PROVE  /\ h \in [D -> NodeSet] /\ x \in Int /\ c \in Int /\ ht \in Nat
         /\ On(D, h, rt, ht, lv, path) /\ Whole(h[LastNode(path)])
         /\ Form(D, V, rt, ht, lv, lo, hi, M) /\ Fill(D, V, rt, LastNode(path), Null)
         /\ LastNode(path) \in D /\ h[LastNode(path)] \in NodeSet
         /\ LastPos(path) \in 0..Len(h[LastNode(path)].keys)
         /\ Extended(D, h, V, path, x, c)
<1>1. /\ h \in [D -> NodeSet] /\ x \in Int /\ c \in Int
      /\ On(D, h, rt, ht, lv, path) /\ Whole(h[LastNode(path)])
      /\ Form(D, V, rt, ht, lv, lo, hi, M) /\ Fill(D, V, rt, LastNode(path), Null)
  BY DEF Pending
<1>2. ht \in Nat
  BY <1>1 DEF Form, Typed
<1>3. /\ LastNode(path) \in D
      /\ LastPos(path) \in 0..Len(h[LastNode(path)].keys)
  BY <1>1, <1>2, OnLast
<1>4. Extended(D, h, V, path, x, c)
  BY <1>1, <1>2, WithFacts
<1>. QED
  BY <1>1, <1>2, <1>3, <1>4

\* The last node after it was given the item.
LEMMA PendingNode ==
  ASSUME NEW D, NEW h, NEW rt, NEW ht, NEW lv, NEW lo, NEW hi, NEW M, NEW path, NEW x, NEW c,
         Pending(D, h, rt, ht, lv, lo, hi, M, path, x, c), NEW V, V = With(h, path, x, c),
         NEW a, a = LastNode(path)
  PROVE  /\ V \in [D -> NodeSet] /\ a \in D /\ V[a] \in NodeSet
         /\ (V[a].leaf <=> h[a].leaf) /\ Len(V[a].keys) = Len(h[a].keys) + 1
         /\ Len(h[a].keys) \in Nat /\ Len(h[a].keys) <= MaxItems(h[a])
         /\ MaxItems(V[a]) = MaxItems(h[a])
         /\ (h[a].leaf <=> lv[a] = 1)
<1>1. /\ a \in D /\ h[a] \in NodeSet /\ Extended(D, h, V, path, x, c) /\ Fill(D, V, rt, a, Null)
      /\ Form(D, V, rt, ht, lv, lo, hi, M)
  BY PendingFacts
<1>2. /\ V \in [D -> NodeSet] /\ V[a] \in NodeSet /\ (V[a].leaf <=> h[a].leaf)
      /\ Len(V[a].keys) = Len(h[a].keys) + 1
  BY <1>1 DEF Extended, Putting
<1>3. Len(h[a].keys) \in Nat /\ h[a].leaf \in BOOLEAN /\ V[a].leaf \in BOOLEAN
  BY <1>1, <1>2, NodeFacts
<1>4. MaxItems(V[a]) = MaxItems(h[a]) /\ MaxItems(h[a]) \in Nat
  <2>1. Sized(h[a])
    BY <1>3, SizeFacts
  <2>2. MaxItems(h[a]) \in Nat
    BY <2>1 DEF Sized
  <2>. QED
    BY <2>2, <1>2, <1>3, SameSize
<1>5. Len(V[a].keys) <= MaxItems(V[a]) + 1
  BY <1>1 DEF Fill
<1>. DEFINE k == Len(h[a].keys)
            k2 == Len(V[a].keys)
            m == MaxItems(h[a])
            m2 == MaxItems(V[a])
<1>6. k \in Nat /\ k2 = k + 1 /\ m2 = m /\ m \in Nat /\ k2 <= m2 + 1
  BY <1>2, <1>3, <1>4, <1>5
<1>7. k <= m
  <2>. HIDE DEF k, k2, m, m2
  <2>. QED
    BY <1>6
<1>8. V[a].leaf <=> lv[a] = 1
  BY <1>1, FormNode
<1>. QED
  BY <1>1, <1>2, <1>3, <1>4, <1>7, <1>8

\* There is room: the insertion is complete.
LEMMA PendingFits ==
  ASSUME NEW D, NEW h, NEW rt, NEW ht, NEW lv, NEW lo, NEW hi, NEW M, NEW path, NEW x, NEW c,
         Pending(D, h, rt, ht, lv, lo, hi, M, path, x, c), NEW V, V = With(h, path, x, c),
         Len(h[LastNode(path)].keys) < MaxItems(h[LastNode(path)])
  PROVE  Form(D, V, rt, ht, lv, lo, hi, M) /\ Fill(D, V, rt, Null, Null)
<1>. DEFINE a == LastNode(path)
<1>1. /\ Form(D, V, rt, ht, lv, lo, hi, M) /\ Fill(D, V, rt, a, Null)
  BY PendingFacts
<1>2. Len(V[a].keys) = Len(h[a].keys) + 1 /\ Len(h[a].keys) \in Nat /\ MaxItems(V[a]) = MaxItems(h[a])
  BY PendingNode
<1>3. MaxItems(h[a]) \in Nat
  <2>1. h[a].leaf \in BOOLEAN
    BY PendingFacts, NodeFacts
  <2>. QED
    BY <2>1, SizeFacts DEF Sized
<1>. DEFINE k == Len(h[a].keys)
            k2 == Len(V[a].keys)
            m == MaxItems(h[a])
            m2 == MaxItems(V[a])
<1>4. k \in Nat /\ k2 = k + 1 /\ m2 = m /\ m \in Nat /\ k < m
  BY <1>2, <1>3
<1>5. k2 <= m2
  <2>. HIDE DEF k, k2, m, m2
  <2>. QED
    BY <1>4
<1>. HIDE DEF a
<1>6. Fill(D, V, rt, Null, Null)
  BY <1>1, <1>5 DEF Fill
<1>. QED
  BY <1>1, <1>6

\* The halves of a full node.
LEMMA PendingParts ==
  ASSUME NEW D, NEW h, NEW rt, NEW ht, NEW lv, NEW lo, NEW hi, NEW M, NEW path, NEW x, NEW c,
         Pending(D, h, rt, ht, lv, lo, hi, M, path, x, c),
         Len(h[LastNode(path)].keys) = MaxItems(h[LastNode(path)]),
         NEW s, s = SplitWith(h, h[LastNode(path)], LastPos(path), x, c)
  PROVE  SplitParts(h, h[LastNode(path)], LastPos(path), x, c, s.left, s.median, s.right)
<1>. DEFINE n == h[LastNode(path)]
            i == LastPos(path)
<1>1. n \in NodeSet /\ Whole(n) /\ x \in Int /\ c \in Int /\ i \in 0..Len(n.keys)
  BY PendingFacts
<1>2. PICK e : Awaiting(h, n, c, e)
  BY PendingCounts
<1>3. Len(n.keys) >= 1
  <2>1. n.leaf \in BOOLEAN
    BY <1>1, NodeFacts
  <2>2. MaxItems(n) \in Nat /\ MaxItems(n) >= 3
    BY <2>1, SizeFacts DEF Sized
  <2>. QED
    BY <2>2
<1>4. s = SplitWith(h, n, i, x, c)
  OBVIOUS
<1>. HIDE DEF n, i
<1>5. SplitParts(h, n, i, x, c, s.left, s.median, s.right)
  BY <1>1, <1>2, <1>3, <1>4, SplitWithParts
<1>. QED
  BY <1>5 DEF n, i

\* A full node below the root is split: its parent has to take the new node.
LEMMA PendingSplit ==
  ASSUME NEW D, NEW h, NEW rt, NEW ht, NEW lv, NEW lo, NEW hi, NEW M, NEW path, NEW x, NEW c,
         Pending(D, h, rt, ht, lv, lo, hi, M, path, x, c), Len(path) > 1,
         Len(h[LastNode(path)].keys) = MaxItems(h[LastNode(path)]),
         NEW s, s = SplitWith(h, h[LastNode(path)], LastPos(path), x, c),
         NEW new \in Nat, new # 0, new \notin D, NEW D2, D2 = D \cup {new},
         NEW h2, h2 = Store([h EXCEPT ![LastNode(path)] = s.left], new, s.right)
  PROVE  \E lv2, lo2, hi2 :
           /\ Pending(D2, h2, rt, ht, lv2, lo2, hi2, M, Above(path), s.median, new)
           /\ ~ h2[LastNode(Above(path))].leaf
<1>. DEFINE a == LastNode(path)
            n == h[a]
            up == Above(path)
            p == LastNode(up)
            j == LastPos(up) + 1
            V == With(h, path, x, c)
            left == s.left
            y == s.median
            right == s.right
            V2 == With(h2, up, y, new)
            lv2 == Also(D2, new, lv, lv[a])
<1>1. /\ h \in [D -> NodeSet] /\ x \in Int /\ c \in Int /\ ht \in Nat
      /\ On(D, h, rt, ht, lv, path) /\ Whole(n)
      /\ Form(D, V, rt, ht, lv, lo, hi, M) /\ Fill(D, V, rt, a, Null)
  BY PendingFacts
<1>2. SplitParts(h, n, LastPos(path), x, c, left, y, right)
  BY PendingParts
<1>3. y \in Int /\ Len(left.keys) \in Nat /\ Len(right.keys) \in Nat
      /\ Len(left.keys) + Len(right.keys) = Len(n.keys)
      /\ Len(n.keys) \div 2 <= Len(left.keys) /\ Len(left.keys) <= (Len(n.keys) \div 2) + 1
  BY <1>2 DEF SplitParts
<1>4. Agree(D, lv, lv2)
  BY DEF Agree, Also
<1>5. h2 = Store([h EXCEPT ![LastNode(path)] = left], new, right) /\ V2 = With(h2, Above(path), y, new)
      /\ V = With(h, path, x, c)
  OBVIOUS
<1>6. V \in [D -> NodeSet] /\ MaxItems(V[a]) = MaxItems(n)
  BY PendingNode
<1>. HIDE DEF V, V2, left, y, right, lv2
<1>70. Advanced(D, D2, h2, V, V2, rt, ht, lv, lv2, path, left, right, new)
  BY <1>1, <1>2, <1>4, <1>5, AddSplit
<1>7. /\ SplitAt(D, D2, V, V2, LastNode(Above(path)), LastPos(Above(path)) + 1, LastNode(path), new)
      /\ h2 \in [D2 -> NodeSet]
      /\ On(D2, h2, rt, ht, lv2, Above(path))
      /\ Whole(h2[LastNode(Above(path))])
      /\ lv[LastNode(Above(path))] > 1
      /\ V2[LastNode(path)] = left /\ V2[new] = right
  BY <1>70 DEF Advanced
<1>8. SplitAt(D, D2, V, V2, p, j, a, new)
  BY <1>7
<1>. HIDE DEF a, p, j, up, n
<1>9. \E lo2, hi2 : Form(D2, V2, rt, ht, Also(D2, new, lv, lv[a]), lo2, hi2, M)
  BY <1>1, <1>8, SplitTree
<1>10. PICK lo2, hi2 : Form(D2, V2, rt, ht, lv2, lo2, hi2, M)
  BY <1>9 DEF lv2
<1>11. Fill(D2, V2, rt, p, Null)
  <2>1. EvenCut(V[a], V2[a], V2[new])
    BY <1>3, <1>6, <1>7 DEF EvenCut, a, n
  <2>2. j <= Len(V[p].keys) + 1
    <3>1. j \in 1..Len(V[p].children) /\ ~ V[p].leaf /\ p \in D
      BY <1>8 DEF SplitAt
    <3>2. Whole(V[p]) /\ V[p] \in NodeSet
      BY <1>1, <1>6, <3>1, FormWhole
    <3>3. Len(V[p].children) = Len(V[p].keys) + 1 /\ Len(V[p].keys) \in Nat
      BY <3>1, <3>2, NodeFacts DEF Whole
    <3>. QED
      BY <3>1, <3>3
  <2>3. Null = Null \/ (Null = p /\ p = rt)
    OBVIOUS
  <2>4. Fill(D, V, rt, a, Null)
    BY <1>1
  <2>. QED
    BY <1>6, <1>8, <2>1, <2>2, <2>3, <2>4, SplitFill
<1>12. Pending(D2, h2, rt, ht, lv2, lo2, hi2, M, up, y, new)
  <2>1. y \in Int /\ new \in Int
    BY <1>3
  <2>2. h2 \in [D2 -> NodeSet] /\ On(D2, h2, rt, ht, lv2, up) /\ Whole(h2[LastNode(up)])
    BY <1>7 DEF up
  <2>3. Form(D2, With(h2, up, y, new), rt, ht, lv2, lo2, hi2, M)
    BY <1>10 DEF V2, up
  <2>4. Fill(D2, With(h2, up, y, new), rt, LastNode(up), Null)
    BY <1>11 DEF V2, up, p
  <2>. QED
    BY <2>1, <2>2, <2>3, <2>4 DEF Pending
<1>13. ~ h2[p].leaf
  <2>1. h2[p].leaf <=> lv2[p] = 1
    BY <1>12, PendingNode DEF p, up
  <2>2. p \in D /\ lv[p] > 1
    BY <1>7, <1>8 DEF p, up, SplitAt
  <2>3. lv[p] # 1
    BY <2>2, <1>1, FormNode
  <2>. QED
    BY <2>1, <2>2, <2>3, <1>4 DEF Agree
<1>. QED
  BY <1>12, <1>13 DEF p, up, y

-----------------------------------------------------------------------------
\* The nodes with a new root over two halves.
Topped(h, new, y, l, r) ==
  Store(h, new, Inner(<<y>>, <<l, r>>, TreeCount(h[l]) + TreeCount(h[r]) + 1))

Stored(D, h, g, a, n) ==
  /\ g \in [D \cup {a} -> NodeSet] /\ g[a] = n
  /\ \A b \in D : g[b] = h[b]

\* A new node at an address that was free.
LEMMA StoreFacts ==
  ASSUME NEW D, NEW h, h \in [D -> NodeSet], NEW a, a \notin D, NEW n, n \in NodeSet,
         NEW g, g = Store(h, a, n)
  PROVE  Stored(D, h, g, a, n)
BY DEF Store, Stored

\* A new inner node.
LEMMA InnerNode ==
  ASSUME NEW ks \in Numbers, NEW cs \in Numbers, NEW k \in Int, NEW n, n = Inner(ks, cs, k)
  PROVE  n \in NodeSet /\ n.leaf = FALSE /\ n.keys = ks /\ n.children = cs /\ n.cnt = k
BY DEF Inner, NodeSet

\* Sequences of one and two numbers by insertion.
LEMMA SmallInserts ==
  ASSUME NEW x \in Int, NEW y \in Int
  PROVE  <<y>> = Ext!InsertAt(<<>>, 1, y) /\ <<x, y>> = Ext!InsertAt(<<x>>, 2, y)
<1>1. <<>> \in Numbers /\ Len(<<>>) = 0 /\ <<x>> \in Numbers /\ Len(<<x>>) = 1 /\ <<x>>[1] = x
  BY NoNumbers, OneNumber
<1>2. <<y>> \in Numbers /\ Len(<<y>>) = 1 /\ <<y>>[1] = y
  BY OneNumber
<1>3. <<x, y>> \in Numbers /\ Len(<<x, y>>) = 2 /\ <<x, y>>[1] = x /\ <<x, y>>[2] = y
  BY TwoNumbers
<1>. DEFINE s0 == <<>>
            s1 == <<x>>
            t1 == <<y>>
            t2 == <<x, y>>
<1>4. /\ s0 \in Numbers /\ Len(s0) = 0 /\ s1 \in Numbers /\ Len(s1) = 1 /\ s1[1] = x
      /\ t1 \in Numbers /\ Len(t1) = 1 /\ t1[1] = y
      /\ t2 \in Numbers /\ Len(t2) = 2 /\ t2[1] = x /\ t2[2] = y
  BY <1>1, <1>2, <1>3
<1>. HIDE DEF s0, s1, t1, t2
<1>5. t1 = Ext!InsertAt(s0, 1, y)
  <2>. DEFINE i == 1
              u == Ext!InsertAt(s0, i, y)
  <2>1. i \in 1..(Len(s0) + 1) /\ s0 \in Numbers
    BY <1>4
  <2>. HIDE DEF i
  <2>2. u \in Numbers /\ Len(u) = Len(s0) + 1 /\ u[i] = y
    BY <2>1, InsertNumber
  <2>. USE DEF i
  <2>. HIDE DEF u
  <2>3. \A k \in 1..Len(t1) : t1[k] = u[k]
    BY <2>2, <1>4
  <2>4. t1 = u
    BY <2>2, <2>3, <1>4, SameNumbers
  <2>. QED
    BY <2>4 DEF u
<1>6. t2 = Ext!InsertAt(s1, 2, y)
  <2>. DEFINE i == 2
              u == Ext!InsertAt(s1, i, y)
  <2>1. i \in 1..(Len(s1) + 1) /\ s1 \in Numbers
    BY <1>4
  <2>. HIDE DEF i
  <2>2. u \in Numbers /\ Len(u) = Len(s1) + 1 /\ u[i] = y /\ \A k \in 1..(i - 1) : u[k] = s1[k]
    BY <2>1, InsertNumber
  <2>. USE DEF i
  <2>. HIDE DEF u
  <2>3. u[1] = s1[1]
    BY <2>2
  <2>4. \A k \in 1..Len(t2) : t2[k] = u[k]
    BY <2>2, <2>3, <1>4
  <2>5. t2 = u
    BY <2>2, <2>4, <1>4, SameNumbers
  <2>. QED
    BY <2>5 DEF u
<1>. QED
  BY <1>5, <1>6 DEF s0, s1, t1, t2

\* A tree a level higher, with the root new2.
Crowned(D, h, new2, ht, M) ==
  \E lv, lo, hi : Form(D, h, new2, ht + 1, lv, lo, hi, M) /\ Fill(D, h, new2, Null, Null)

\* The full root is split: a new root takes the two halves.
LEMMA PendingRoot ==
  ASSUME NEW D, NEW h, NEW rt, NEW ht, NEW lv, NEW lo, NEW hi, NEW M, NEW path, NEW x, NEW c,
         Pending(D, h, rt, ht, lv, lo, hi, M, path, x, c), Len(path) = 1,
         Len(h[rt].keys) = MaxItems(h[rt]),
         NEW s, s = SplitWith(h, h[LastNode(path)], LastPos(path), x, c),
         NEW new \in Nat, new # 0, new \notin D,
         NEW h2, h2 = Store([h EXCEPT ![LastNode(path)] = s.left], new, s.right),
         NEW new2 \in Nat, new2 # 0, new2 \notin D, new2 # new,
         NEW h3, h3 = Topped(h2, new2, s.median, rt, new), NEW D3, D3 = (D \cup {new2}) \cup {new}
  PROVE  Crowned(D3, h3, new2, ht, M)
<1>. DEFINE n == h[rt]
            V == With(h, path, x, c)
            left == s.left
            y == s.median
            right == s.right
            D1 == D \cup {new2}
            G == Store(V, new2, Inner(<<>>, <<rt>>, TreeCount(V[rt])))
<1>1. /\ h \in [D -> NodeSet] /\ x \in Int /\ c \in Int /\ ht \in Nat
      /\ On(D, h, rt, ht, lv, path) /\ Whole(h[LastNode(path)])
      /\ Form(D, V, rt, ht, lv, lo, hi, M) /\ Fill(D, V, rt, LastNode(path), Null)
      /\ Extended(D, h, V, path, x, c)
  BY PendingFacts
<1>2. LastNode(path) = rt /\ rt \in D /\ rt \in Int
  BY <1>1, OnLast
<1>3. SplitParts(h, n, LastPos(path), x, c, left, y, right)
  <2>1. Len(h[LastNode(path)].keys) = MaxItems(h[LastNode(path)])
    BY <1>2
  <2>. QED
    BY <2>1, <1>2, PendingParts
<1>4. /\ left \in NodeSet /\ right \in NodeSet /\ y \in Int
      /\ (left.leaf <=> n.leaf) /\ (right.leaf <=> n.leaf)
      /\ Link(left.keys, y, right.keys) = Ext!InsertAt(n.keys, LastPos(path) + 1, x)
      /\ n.leaf => left.children \o right.children = n.children
      /\ ~ n.leaf => left.children \o right.children = Ext!InsertAt(n.children, LastPos(path) + 2, c)
      /\ Whole(left) /\ Whole(right) /\ LocalCount(h, left)
      /\ TreeCount(left) + TreeCount(right) = TreeCount(n)
      /\ Len(left.keys) \in Nat /\ Len(right.keys) \in Nat
      /\ Len(left.keys) + Len(right.keys) = Len(n.keys)
      /\ Len(n.keys) \div 2 <= Len(left.keys) /\ Len(left.keys) <= (Len(n.keys) \div 2) + 1
  BY <1>3 DEF SplitParts
<1>5. /\ V \in [D -> NodeSet] /\ Putting(n, V[rt], LastPos(path), x, c) /\ TreeCount(V[rt]) = TreeCount(n) + 1
      /\ SameOff(D, path, h, V)
  BY <1>1, <1>2 DEF Extended, SameOff
<1>6. /\ (V[rt].leaf <=> n.leaf)
      /\ V[rt].keys = Ext!InsertAt(n.keys, LastPos(path) + 1, x)
      /\ n.leaf => V[rt].children = n.children
      /\ ~ n.leaf => V[rt].children = Ext!InsertAt(n.children, LastPos(path) + 2, c)
  BY <1>5 DEF Putting
<1>7. MaxItems(V[rt]) = MaxItems(n) /\ Len(V[rt].keys) = Len(n.keys) + 1 /\ Len(n.keys) \in Nat
  BY <1>2, PendingNode
<1>8. \A b : OnPath(path, b) <=> b = rt
  <2>1. path[1].node = rt /\ Len(path) = 1
    BY <1>1 DEF On
  <2>2. \A i \in 1..Len(path) : i = 1
    BY <2>1
  <2>3. 1 \in 1..Len(path)
    BY <2>1
  <2>. QED
    BY <2>1, <2>2, <2>3 DEF OnPath
<1>9. /\ h2 \in [D \cup {new} -> NodeSet] /\ h2[new] = right /\ h2[rt] = left
      /\ \A b \in D : b # rt => h2[b] = h[b]
  <2>. DEFINE g == [h EXCEPT ![LastNode(path)] = left]
  <2>1. g \in [D -> NodeSet] /\ g[rt] = left /\ \A b \in D : b # rt => g[b] = h[b]
    BY <1>1, <1>2, <1>4
  <2>2. h2 = Store(g, new, right)
    OBVIOUS
  <2>. HIDE DEF g, left, right
  <2>3. h2 \in [D \cup {new} -> NodeSet] /\ h2[new] = right /\ \A b \in D : h2[b] = g[b]
    <3>1. g \in [D -> NodeSet] /\ right \in NodeSet
      BY <2>1, <1>4
    <3>2. Stored(D, g, h2, new, right)
      BY <3>1, <2>2, StoreFacts
    <3>. QED
      BY <3>2 DEF Stored
  <2>. QED
    BY <2>1, <2>3, <1>2
<1>. HIDE DEF V, left, right, y
<1>. DEFINE t == TreeCount(left) + TreeCount(right) + 1
            m == Inner(<<y>>, <<rt, new>>, t)
<1>10. TreeCount(left) \in Int /\ TreeCount(right) \in Int /\ t \in Int /\ TreeCount(n) \in Int
  BY <1>1, <1>2, <1>4, TreeCountType
<1>11. m \in NodeSet /\ m.leaf = FALSE /\ m.keys = <<y>> /\ m.children = <<rt, new>> /\ m.cnt = t
  <2>1. <<y>> \in Numbers /\ <<rt, new>> \in Numbers
    BY <1>2, <1>4, OneNumber, TwoNumbers
  <2>. QED
    BY <2>1, <1>10 DEF Inner, NodeSet
<1>12. h3 = Store(h2, new2, m)
  BY <1>9 DEF Topped, y
<1>. HIDE DEF m, t
<1>13. /\ h3 \in [(D \cup {new}) \cup {new2} -> NodeSet] /\ h3[new2] = m
       /\ \A b \in D \cup {new} : h3[b] = h2[b]
  <2>. DEFINE D0 == D \cup {new}
  <2>1. h2 \in [D0 -> NodeSet] /\ new2 \notin D0 /\ m \in NodeSet
    BY <1>9, <1>11
  <2>. HIDE DEF D0
  <2>2. Stored(D0, h2, h3, new2, m)
    BY <2>1, <1>12, StoreFacts
  <2>. QED
    BY <2>2 DEF Stored, D0
<1>. HIDE DEF G
<1>14. \E lo2, hi2 : Form(D1, G, new2, ht + 1, Also(D1, new2, lv, ht + 1), lo2, hi2, M)
  <2>1. new2 \in Nat \ {0}
    OBVIOUS
  <2>2. G = Store(V, new2, Inner(<<>>, <<rt>>, TreeCount(V[rt])))
    BY DEF G
  <2>. QED
    BY <1>1, <2>1, <2>2, RaiseForm
<1>15. PICK lv1, lo1, hi1 : Form(D1, G, new2, ht + 1, lv1, lo1, hi1, M)
  BY <1>14
<1>16. /\ G \in [D1 -> NodeSet] /\ G[new2] = Inner(<<>>, <<rt>>, TreeCount(V[rt]))
       /\ \A b \in D : G[b] = V[b]
  <2>. DEFINE q == Inner(<<>>, <<rt>>, TreeCount(V[rt]))
  <2>1. <<>> \in Numbers /\ <<rt>> \in Numbers /\ TreeCount(V[rt]) \in Int
    BY <1>2, <1>5, <1>10, OneNumber, NoNumbers
  <2>2. q \in NodeSet /\ G = Store(V, new2, q)
    BY <2>1, InnerNode DEF G
  <2>. HIDE DEF q
  <2>3. G \in [D1 -> NodeSet] /\ G[new2] = q /\ \A b \in D : G[b] = V[b]
    <3>1. V \in [D -> NodeSet]
      BY <1>5
    <3>2. Stored(D, V, G, new2, q)
      BY <3>1, <2>2, StoreFacts
    <3>. QED
      BY <3>2 DEF Stored
  <2>. QED
    BY <2>3 DEF q
<1>17. /\ G[new2].leaf = FALSE /\ G[new2].keys = <<>> /\ G[new2].children = <<rt>>
       /\ G[new2].cnt = TreeCount(V[rt])
  BY <1>16 DEF Inner
<1>18. LocalCount(h3, left)
  <2>. DEFINE r == right.children
  <2>1. r \in Numbers /\ V[LastNode(path)].children = left.children \o r
    <3>1. r \in Numbers
      BY <1>4, NodeFacts
    <3>2. n.leaf \in BOOLEAN
      BY <1>1, <1>2, NodeFacts
    <3>. QED
      BY <3>1, <3>2, <1>2, <1>4, <1>6
  <2>. HIDE DEF r
  <2>2. SameOff(D, path, h, h3)
    BY <1>8, <1>9, <1>13 DEF SameOff
  <2>3. left \in NodeSet /\ LocalCount(h, left)
    BY <1>4
  <2>. QED
    BY <1>1, <2>1, <2>2, <2>3, LeftCounts
<1>19. SplitAt(D1, D3, G, h3, new2, 1, rt, new)
  <2>1. D3 = D1 \cup {new} /\ new \notin D1 /\ (D \cup {new}) \cup {new2} = D3
    OBVIOUS
  <2>2. h3 \in [D3 -> NodeSet]
    BY <1>13, <2>1
  <2>3. new2 \in D1 /\ rt \in D1 /\ new2 # rt
    BY <1>2
  <2>4. \A b \in D1 \ {new2, rt} : h3[b] = G[b]
    <3>. SUFFICES ASSUME NEW b \in D1 \ {new2, rt} PROVE h3[b] = G[b]
      OBVIOUS
    <3>1. b \in D /\ b # rt /\ ~ OnPath(path, b)
      BY <1>8
    <3>2. h3[b] = h[b] /\ V[b] = h[b]
      BY <3>1, <1>5, <1>9, <1>13 DEF SameOff
    <3>. QED
      BY <3>1, <3>2, <1>16
  <2>5. h3[new2] = m /\ h3[rt] = left /\ h3[new] = right /\ G[rt] = V[rt]
    BY <1>2, <1>9, <1>13, <1>16
  <2>6. h3[new2].keys[1] = y /\ h3[new2].keys = Ext!InsertAt(G[new2].keys, 1, y)
        /\ h3[new2].children = Ext!InsertAt(G[new2].children, 1 + 1, new)
    <3>1. <<y>> = Ext!InsertAt(<<>>, 1, y) /\ <<rt, new>> = Ext!InsertAt(<<rt>>, 2, new) /\ <<y>>[1] = y
      BY <1>2, <1>4, SmallInserts
    <3>2. 1 + 1 = 2
      OBVIOUS
    <3>. QED
      BY <3>1, <3>2, <2>5, <1>11, <1>17
  <2>7. 1 \in 1..Len(G[new2].children) /\ G[new2].children[1] = rt
    BY <1>2, <1>17, OneNumber
  <2>8. h3[new2].cnt = G[new2].cnt
    <3>1. TreeCount(V[rt]) = t
      BY <1>4, <1>5, <1>10 DEF t
    <3>. QED
      BY <3>1, <2>5, <1>11, <1>17
  <2>9. G[rt].keys = Link(left.keys, y, right.keys)
    BY <2>5, <1>4, <1>6
  <2>10. G[rt].children = left.children \o right.children
    <3>1. n.leaf \in BOOLEAN
      BY <1>1, <1>2, NodeFacts
    <3>. QED
      BY <3>1, <2>5, <1>4, <1>6
  <2>11. TreeCount(G[rt]) = TreeCount(left) + TreeCount(right) + 1
    BY <2>5, <1>4, <1>5, <1>10
  <2>12. (left.leaf <=> G[rt].leaf) /\ (right.leaf <=> G[rt].leaf) /\ ~ G[new2].leaf /\ ~ h3[new2].leaf
    BY <2>5, <1>4, <1>6, <1>11, <1>17
  <2>. QED
    BY <2>1, <2>2, <2>3, <2>4, <2>5, <2>6, <2>7, <2>8, <2>9, <2>10, <2>11, <2>12, <1>4, <1>18 DEF SplitAt
<1>20. \E lo2, hi2 : Form(D3, h3, new2, ht + 1, Also(D3, new, lv1, lv1[rt]), lo2, hi2, M)
  <2>. DEFINE k == ht + 1
  <2>1. Form(D1, G, new2, k, lv1, lo1, hi1, M)
    BY <1>15
  <2>. HIDE DEF k, D1
  <2>2. \E lo2, hi2 : Form(D3, h3, new2, k, Also(D3, new, lv1, lv1[rt]), lo2, hi2, M)
    BY <2>1, <1>19, SplitTree
  <2>. QED
    BY <2>2 DEF k
<1>21. Fill(D1, G, new2, rt, new2)
  <2>. DEFINE K == MaxItems(V[rt])
              e == LeastItems(V[rt])
              q == Len(V[rt].keys)
  <2>1. Fill(D, V, rt, rt, Null)
    BY <1>1, <1>2
  <2>2. V[rt].leaf \in BOOLEAN /\ G[new2].leaf \in BOOLEAN
    BY <1>2, <1>5, <1>17, NodeFacts
  <2>3. K \in Nat /\ e \in Nat /\ e <= K /\ q = K + 1
    <3>1. Sized(V[rt])
      BY <2>2, SizeFacts
    <3>2. /\ K \in Nat /\ e \in Nat /\ e <= MinItems(V[rt]) /\ MinItems(V[rt]) \in Nat
          /\ MinItems(V[rt]) + 1 <= K
      BY <3>1 DEF Sized
    <3>3. q = K + 1
      BY <1>7
    <3>. HIDE DEF K, e, q
    <3>. QED
      BY <3>2, <3>3
  <2>4. e <= q /\ e - 1 <= q /\ q <= K + 1
    <3>. HIDE DEF K, e, q
    <3>. QED
      BY <2>3
  <2>5. Len(G[new2].keys) = 0 /\ MaxItems(G[new2]) \in Nat /\ 0 <= MaxItems(G[new2]) /\ 0 <= MaxItems(G[new2]) + 1
    <3>1. Sized(G[new2])
      BY <2>2, SizeFacts
    <3>2. MaxItems(G[new2]) \in Nat
      BY <3>1 DEF Sized
    <3>. QED
      BY <3>2, <1>17, NoNumbers
  <2>6. ASSUME NEW b \in D1
        PROVE  /\ b # rt => Len(G[b].keys) <= MaxItems(G[b])
               /\ Len(G[b].keys) <= MaxItems(G[b]) + 1
               /\ b # new2 /\ b # new2 => LeastItems(G[b]) <= Len(G[b].keys)
               /\ b # new2 => LeastItems(G[b]) - 1 <= Len(G[b].keys)
               /\ b = new2 /\ b # new2 => 1 <= Len(G[b].keys)
    <3>1. CASE b = new2
      BY <3>1, <2>5
    <3>2. CASE b = rt
      BY <3>2, <2>4, <1>2, <1>16
    <3>3. CASE b # rt /\ b # new2
      <4>1. b \in D /\ G[b] = V[b] /\ b # Null
        BY <3>3, <1>1, <1>16, FormNode DEF Null
      <4>. QED
        BY <3>3, <4>1, <2>1 DEF Fill
    <3>. QED
      BY <3>1, <3>2, <3>3
  <2>. QED
    BY <2>6 DEF Fill
<1>22. Fill(D3, h3, new2, new2, Null)
  <2>1. h3[rt] = left /\ h3[new] = right /\ G[rt] = V[rt]
    BY <1>2, <1>9, <1>13, <1>16
  <2>2. EvenCut(G[rt], h3[rt], h3[new])
    BY <2>1, <1>4, <1>7 DEF EvenCut
  <2>. DEFINE j == 1
  <2>3. j <= Len(G[new2].keys) + 1
    BY <1>17, NoNumbers
  <2>4. SplitAt(D1, D3, G, h3, new2, j, rt, new)
    BY <1>19
  <2>5. G \in [D1 -> NodeSet] /\ Fill(D1, G, new2, rt, new2)
    BY <1>16, <1>21
  <2>6. new2 = Null \/ (new2 = new2 /\ new2 = new2)
    OBVIOUS
  <2>. HIDE DEF j, D1
  <2>. QED
    BY <2>2, <2>3, <2>4, <2>5, <2>6, SplitFill
<1>23. Fill(D3, h3, new2, Null, Null)
  <2>1. Len(h3[new2].keys) = 1 /\ h3[new2].leaf \in BOOLEAN
    BY <1>4, <1>11, <1>13, OneNumber
  <2>2. Sized(h3[new2])
    BY <2>1, SizeFacts
  <2>3. MaxItems(h3[new2]) \in Nat /\ MaxItems(h3[new2]) >= 3
    BY <2>2 DEF Sized
  <2>4. Len(h3[new2].keys) <= MaxItems(h3[new2])
    <3>. DEFINE k == Len(h3[new2].keys)
                K == MaxItems(h3[new2])
    <3>1. k = 1 /\ K \in Nat /\ K >= 3
      BY <2>1, <2>3
    <3>. HIDE DEF k, K
    <3>2. k <= K
      BY <3>1
    <3>. QED
      BY <3>2 DEF k, K
  <2>. QED
    BY <1>22, <2>4 DEF Fill
<1>. QED
  BY <1>20, <1>23 DEF Crowned

-----------------------------------------------------------------------------
(* Items move between two neighbours, through the item between them.        *)

\* Linking is associative.
LEMMA LinkAssociative ==
  ASSUME NEW s \in Numbers, NEW x \in Int, NEW t \in Numbers, NEW y \in Int, NEW u \in Numbers
  PROVE  Link(Link(s, x, t), y, u) = Link(s, x, Link(t, y, u))
<1>. DEFINE a == <<x>>
            b == <<y>>
<1>1. a \in Numbers /\ b \in Numbers
  BY OneNumber
<1>2. Link(Link(s, x, t), y, u) = (((s \o a) \o t) \o b) \o u
  BY DEF Link
<1>3. Link(s, x, Link(t, y, u)) = (s \o a) \o ((t \o b) \o u)
  BY DEF Link
<1>. HIDE DEF a, b
<1>. DEFINE sa == s \o a
            tb == t \o b
<1>4. sa \in Numbers /\ tb \in Numbers
  BY <1>1, JoinNumbers
<1>5. (sa \o t) \o b = sa \o tb
  <2>1. sa \in Numbers /\ b \in Numbers
    BY <1>1, <1>4
  <2>. HIDE DEF sa
  <2>2. (sa \o t) \o b = sa \o (t \o b)
    BY <2>1, JoinAssociative
  <2>. QED
    BY <2>2
<1>. HIDE DEF sa, tb
<1>6. (sa \o tb) \o u = sa \o (tb \o u)
  BY <1>4, JoinAssociative
<1>. QED
  BY <1>2, <1>3, <1>5, <1>6 DEF sa, tb

\* What n counts beyond its keys and its children's items.
Excess(h, n) == (TreeCount(n) - Len(n.keys)) - SumCounts(h, n.children)

\* (m1, y, m2) has the items and the children of (n1, x, n2).
Moved(h, n1, x, n2, m1, y, m2) ==
  /\ m1 \in NodeSet /\ m2 \in NodeSet /\ y \in Int
  /\ (m1.leaf <=> n1.leaf) /\ (m2.leaf <=> n2.leaf)
  /\ Whole(m1) /\ Whole(m2)
  /\ Link(m1.keys, y, m2.keys) = Link(n1.keys, x, n2.keys)
  /\ m1.children \o m2.children = n1.children \o n2.children
  /\ TreeCount(m1) + TreeCount(m2) = TreeCount(n1) + TreeCount(n2)
  /\ Tallied(h, m1.children) /\ Tallied(h, m2.children)
  /\ Excess(h, m1) = Excess(h, n1)

\* (a1, x, a2) becomes (b1, y, b2): the keys ks and y leave a2, the children cs
\* with them.
Slid(h, a1, x, a2, b1, y, b2, ks, cs) ==
  /\ a1 \in NodeSet /\ a2 \in NodeSet /\ b1 \in NodeSet /\ b2 \in NodeSet
  /\ x \in Int /\ y \in Int /\ ks \in Numbers /\ cs \in Numbers
  /\ (a2.leaf <=> a1.leaf) /\ (b1.leaf <=> a1.leaf) /\ (b2.leaf <=> a1.leaf)
  /\ a2.keys = Link(ks, y, b2.keys) /\ b1.keys = Link(a1.keys, x, ks)
  /\ a2.children = cs \o b2.children /\ b1.children = a1.children \o cs
  /\ a1.leaf => Len(cs) = 0
  /\ ~ a1.leaf => Len(cs) = Len(ks) + 1
  /\ Tallied(h, a1.children) /\ Tallied(h, cs) /\ Tallied(h, b2.children)
  /\ ~ a1.leaf => TreeCount(b1) = TreeCount(a1) + (SumCounts(h, cs) + (Len(ks) + 1))
  /\ ~ a1.leaf => TreeCount(b2) = TreeCount(a2) - (SumCounts(h, cs) + (Len(ks) + 1))

SlidFacts(h, a1, x, a2, b1, y, b2, ks, cs) ==
  /\ Len(ks) \in Nat
  /\ Len(b1.keys) = Len(a1.keys) + 1 + Len(ks) /\ Len(a2.keys) = Len(ks) + 1 + Len(b2.keys)
  /\ Len(b1.children) = Len(a1.children) + Len(cs)
  /\ Len(a2.children) = Len(cs) + Len(b2.children)
  /\ Link(b1.keys, y, b2.keys) = Link(a1.keys, x, a2.keys)
  /\ b1.children \o b2.children = a1.children \o a2.children
  /\ TreeCount(b1) + TreeCount(b2) = TreeCount(a1) + TreeCount(a2)
  /\ Excess(h, b1) = Excess(h, a1)
  /\ Tallied(h, b1.children) /\ Tallied(h, a2.children)

\* Items moved through the item between two neighbours: their keys, children
\* and counts together stay.
LEMMA Slide ==
  ASSUME NEW h, NEW a1, NEW x, NEW a2, NEW b1, NEW y, NEW b2, NEW ks, NEW cs,
         Slid(h, a1, x, a2, b1, y, b2, ks, cs)
  PROVE  SlidFacts(h, a1, x, a2, b1, y, b2, ks, cs)
<1>1. /\ a1 \in NodeSet /\ a2 \in NodeSet /\ b1 \in NodeSet /\ b2 \in NodeSet
      /\ x \in Int /\ y \in Int /\ ks \in Numbers /\ cs \in Numbers
      /\ (a2.leaf <=> a1.leaf) /\ (b1.leaf <=> a1.leaf) /\ (b2.leaf <=> a1.leaf)
      /\ a2.keys = Link(ks, y, b2.keys) /\ b1.keys = Link(a1.keys, x, ks)
      /\ a2.children = cs \o b2.children /\ b1.children = a1.children \o cs
      /\ a1.leaf => Len(cs) = 0
      /\ Tallied(h, a1.children) /\ Tallied(h, cs) /\ Tallied(h, b2.children)
      /\ ~ a1.leaf => TreeCount(b1) = TreeCount(a1) + (SumCounts(h, cs) + (Len(ks) + 1))
      /\ ~ a1.leaf => TreeCount(b2) = TreeCount(a2) - (SumCounts(h, cs) + (Len(ks) + 1))
  BY DEF Slid
<1>. DEFINE s == a1.keys
            t == b2.keys
            u == a1.children
            v == b2.children
<1>2. /\ s \in Numbers /\ t \in Numbers /\ u \in Numbers /\ v \in Numbers
      /\ Len(s) \in Nat /\ Len(t) \in Nat /\ Len(ks) \in Nat /\ a1.leaf \in BOOLEAN
      /\ Len(u) \in Nat /\ Len(v) \in Nat /\ Len(cs) \in Nat
  BY <1>1, NodeFacts, NumbersFacts
<1>3. /\ a2.keys = Link(ks, y, t) /\ b1.keys = Link(s, x, ks)
      /\ a2.children = cs \o v /\ b1.children = u \o cs
      /\ Tallied(h, u) /\ Tallied(h, cs) /\ Tallied(h, v)
  BY <1>1
<1>. DEFINE t1 == TreeCount(a1)
            t2 == TreeCount(a2)
            w1 == TreeCount(b1)
            w2 == TreeCount(b2)
            n == SumCounts(h, cs)
            m == SumCounts(h, u)
            lk == Len(ks)
            ls == Len(s)
            lt == Len(t)
<1>4. t1 \in Int /\ t2 \in Int /\ w1 \in Int /\ w2 \in Int
  BY <1>1, TreeCountType
<1>. HIDE DEF s, t, u, v
<1>5. Len(b1.keys) = ls + 1 + lk /\ Len(a2.keys) = lk + 1 + lt
  BY <1>1, <1>2, <1>3, LinkNumbers
<1>6. Len(b1.children) = Len(u) + Len(cs) /\ Len(a2.children) = Len(cs) + Len(v)
  BY <1>1, <1>2, <1>3, JoinNumbers
<1>7. Link(Link(s, x, ks), y, t) = Link(s, x, Link(ks, y, t))
  BY <1>1, <1>2, LinkAssociative
<1>8. (u \o cs) \o v = u \o (cs \o v)
  BY <1>1, <1>2, JoinAssociative
<1>9. Tallied(h, u \o cs) /\ SumCounts(h, u \o cs) = m + n /\ m \in Int /\ n \in Int
  BY <1>1, <1>2, <1>3, SumJoin, SumType
<1>10. Tallied(h, cs \o v)
  BY <1>1, <1>2, <1>3, SumJoin
<1>11. SumCounts(h, b1.children) = m + n
  BY <1>3, <1>9
<1>12. w1 + w2 = t1 + t2 /\ Excess(h, b1) = Excess(h, a1)
  <2>1. CASE a1.leaf
    <3>1. t1 = ls /\ t2 = Len(a2.keys) /\ w1 = Len(b1.keys) /\ w2 = lt
      BY <2>1, <1>1 DEF TreeCount, NumItems, s, t
    <3>2. n = 0
      BY <2>1, <1>1, NoCounts
    <3>. DEFINE k1 == Len(b1.keys)
                k2 == Len(a2.keys)
                z == SumCounts(h, b1.children)
    <3>3. k1 = ls + 1 + lk /\ k2 = lk + 1 + lt /\ z = m + n /\ t1 = ls /\ t2 = k2 /\ w1 = k1 /\ w2 = lt
          /\ ls \in Nat /\ lk \in Nat /\ lt \in Nat
      BY <3>1, <1>2, <1>5, <1>11
    <3>4. Excess(h, b1) = (w1 - k1) - z /\ Excess(h, a1) = (t1 - ls) - m
      BY DEF Excess, s, u
    <3>. HIDE DEF t1, t2, w1, w2, n, m, lk, ls, lt, k1, k2, z
    <3>5. w1 + w2 = t1 + t2
      BY <3>3
    <3>6. (w1 - k1) - z = (t1 - ls) - m
      BY <3>2, <3>3, <1>9
    <3>. QED
      BY <3>4, <3>5, <3>6
  <2>2. CASE ~ a1.leaf
    <3>. DEFINE k1 == Len(b1.keys)
                z == SumCounts(h, b1.children)
    <3>1. w1 = t1 + (n + (lk + 1)) /\ w2 = t2 - (n + (lk + 1))
      BY <2>2, <1>1
    <3>3. k1 = ls + 1 + lk /\ z = m + n /\ ls \in Nat /\ lk \in Nat
      BY <1>2, <1>5, <1>11
    <3>4. Excess(h, b1) = (w1 - k1) - z /\ Excess(h, a1) = (t1 - ls) - m
      BY DEF Excess, s, u
    <3>. HIDE DEF t1, t2, w1, w2, n, m, lk, ls, lt, k1, z
    <3>5. w1 + w2 = t1 + t2
      BY <3>1, <3>3, <1>4, <1>9
    <3>6. (w1 - k1) - z = (t1 - ls) - m
      BY <3>1, <3>3, <1>4, <1>9
    <3>. QED
      BY <3>4, <3>5, <3>6
  <2>. QED
    BY <1>2, <2>1, <2>2
<1>13. Link(b1.keys, y, b2.keys) = Link(a1.keys, x, a2.keys)
  BY <1>3, <1>7 DEF s, t
<1>14. b1.children \o b2.children = a1.children \o a2.children
  BY <1>3, <1>8 DEF u, v
<1>15. Tallied(h, b1.children) /\ Tallied(h, a2.children)
  BY <1>3, <1>9, <1>10
<1>. QED
  BY <1>2, <1>5, <1>6, <1>12, <1>13, <1>14, <1>15 DEF SlidFacts, s, t, u, v

\* The same, as what is left of the two nodes when the left one grows.
LEMMA SlideLeft ==
  ASSUME NEW h, NEW a1, NEW x, NEW a2, NEW b1, NEW y, NEW b2, NEW ks, NEW cs,
         Slid(h, a1, x, a2, b1, y, b2, ks, cs), Whole(a1), Whole(a2)
  PROVE  Moved(h, a1, x, a2, b1, y, b2)
<1>1. SlidFacts(h, a1, x, a2, b1, y, b2, ks, cs)
  BY Slide
<1>2. /\ b1 \in NodeSet /\ b2 \in NodeSet /\ y \in Int /\ a1 \in NodeSet /\ a2 \in NodeSet
      /\ (a2.leaf <=> a1.leaf) /\ (b1.leaf <=> a1.leaf) /\ (b2.leaf <=> a1.leaf)
      /\ Tallied(h, b2.children)
  BY DEF Slid
<1>3. (a1.leaf => Len(cs) = 0) /\ (~ a1.leaf => Len(cs) = Len(ks) + 1)
  BY DEF Slid
<1>. DEFINE k1 == Len(a1.keys)
            k2 == Len(a2.keys)
            l1 == Len(b1.keys)
            l2 == Len(b2.keys)
            c1 == Len(a1.children)
            c2 == Len(a2.children)
            d1 == Len(b1.children)
            d2 == Len(b2.children)
            k == Len(ks)
            c == Len(cs)
<1>4. k \in Nat /\ l1 = k1 + 1 + k /\ k2 = k + 1 + l2 /\ d1 = c1 + c /\ c2 = c + d2
      /\ k1 \in Nat /\ k2 \in Nat /\ l2 \in Nat /\ c1 \in Nat /\ c2 \in Nat /\ d2 \in Nat /\ d1 \in Nat
  BY <1>1, <1>2, NodeFacts DEF SlidFacts
<1>5. ~ a1.leaf => d1 = l1 + 1 /\ d2 = l2 + 1
  <2>. SUFFICES ASSUME ~ a1.leaf PROVE d1 = l1 + 1 /\ d2 = l2 + 1
    OBVIOUS
  <2>1. c1 = k1 + 1 /\ c2 = k2 + 1 /\ c = k + 1
    BY <1>2, <1>3 DEF Whole
  <2>. HIDE DEF k1, k2, l1, l2, c1, c2, d1, d2, k, c
  <2>. QED
    BY <2>1, <1>4
<1>6. a1.leaf => d1 = 0 /\ d2 = 0
  <2>. SUFFICES ASSUME a1.leaf PROVE d1 = 0 /\ d2 = 0
    OBVIOUS
  <2>1. c1 = 0 /\ c2 = 0 /\ c = 0
    BY <1>2, <1>3 DEF Whole
  <2>. HIDE DEF k1, k2, l1, l2, c1, c2, d1, d2, k, c
  <2>. QED
    BY <2>1, <1>4
<1>7. Whole(b1) /\ Whole(b2)
  BY <1>2, <1>5, <1>6 DEF Whole
<1>. QED
  BY <1>1, <1>2, <1>7 DEF Moved, SlidFacts

\* The same, as what is left of the two nodes when the right one grows.
LEMMA SlideRight ==
  ASSUME NEW h, NEW a1, NEW x, NEW a2, NEW b1, NEW y, NEW b2, NEW ks, NEW cs,
         Slid(h, a1, x, a2, b1, y, b2, ks, cs), Whole(b1), Whole(b2)
  PROVE  Moved(h, b1, y, b2, a1, x, a2)
<1>1. SlidFacts(h, a1, x, a2, b1, y, b2, ks, cs)
  BY Slide
<1>2. /\ b1 \in NodeSet /\ b2 \in NodeSet /\ x \in Int /\ a1 \in NodeSet /\ a2 \in NodeSet
      /\ (a2.leaf <=> a1.leaf) /\ (b1.leaf <=> a1.leaf) /\ (b2.leaf <=> a1.leaf)
      /\ Tallied(h, a1.children)
  BY DEF Slid
<1>3. (a1.leaf => Len(cs) = 0) /\ (~ a1.leaf => Len(cs) = Len(ks) + 1)
  BY DEF Slid
<1>. DEFINE k1 == Len(a1.keys)
            k2 == Len(a2.keys)
            l1 == Len(b1.keys)
            l2 == Len(b2.keys)
            c1 == Len(a1.children)
            c2 == Len(a2.children)
            d1 == Len(b1.children)
            d2 == Len(b2.children)
            k == Len(ks)
            c == Len(cs)
<1>4. k \in Nat /\ l1 = k1 + 1 + k /\ k2 = k + 1 + l2 /\ d1 = c1 + c /\ c2 = c + d2
      /\ k1 \in Nat /\ k2 \in Nat /\ l2 \in Nat /\ c1 \in Nat /\ c2 \in Nat /\ d2 \in Nat /\ d1 \in Nat
  BY <1>1, <1>2, NodeFacts DEF SlidFacts
<1>5. ~ a1.leaf => c1 = k1 + 1 /\ c2 = k2 + 1
  <2>. SUFFICES ASSUME ~ a1.leaf PROVE c1 = k1 + 1 /\ c2 = k2 + 1
    OBVIOUS
  <2>1. d1 = l1 + 1 /\ d2 = l2 + 1 /\ c = k + 1
    BY <1>2, <1>3 DEF Whole
  <2>. HIDE DEF k1, k2, l1, l2, c1, c2, d1, d2, k, c
  <2>. QED
    BY <2>1, <1>4
<1>6. a1.leaf => c1 = 0 /\ c2 = 0
  <2>. SUFFICES ASSUME a1.leaf PROVE c1 = 0 /\ c2 = 0
    OBVIOUS
  <2>1. d1 = 0 /\ d2 = 0 /\ c = 0
    BY <1>2, <1>3 DEF Whole
  <2>. HIDE DEF k1, k2, l1, l2, c1, c2, d1, d2, k, c
  <2>. QED
    BY <2>1, <1>4
<1>7. Whole(a1) /\ Whole(a2)
  BY <1>2, <1>5, <1>6 DEF Whole
<1>8. TreeCount(a1) + TreeCount(a2) = TreeCount(b1) + TreeCount(b2) /\ Excess(h, a1) = Excess(h, b1)
  BY <1>1 DEF SlidFacts
<1>. QED
  BY <1>1, <1>2, <1>7, <1>8 DEF Moved, SlidFacts

-----------------------------------------------------------------------------
\* m is n with keys ks and children cs, and d more to count.
Remade(n, m, ks, cs, d) ==
  /\ m \in NodeSet /\ (m.leaf <=> n.leaf) /\ m.keys = ks /\ m.children = cs
  /\ ~ n.leaf => TreeCount(m) = TreeCount(n) + d

\* A node with other items and another count.
LEMMA RemakeFacts ==
  ASSUME NEW n \in NodeSet, NEW ks \in Numbers, NEW cs \in Numbers, NEW d \in Int,
         NEW m, m = IncreaseTreeCount([n EXCEPT !.keys = ks, !.children = cs], d)
  PROVE  Remade(n, m, ks, cs, d)
<1>. DEFINE q == [n EXCEPT !.keys = ks, !.children = cs]
<1>1. q \in NodeSet /\ (q.leaf <=> n.leaf) /\ q.keys = ks /\ q.children = cs /\ q.cnt = n.cnt
  BY DEF NodeSet
<1>2. m = IncreaseTreeCount(q, d)
  OBVIOUS
<1>. HIDE DEF q
<1>3. Bumped(q, m, d)
  BY <1>1, <1>2, BumpDone
<1>4. ~ n.leaf => TreeCount(q) = TreeCount(n)
  BY <1>1 DEF TreeCount
<1>. QED
  BY <1>1, <1>3, <1>4 DEF Bumped, Remade

\* The first numbers of a sequence.
LEMMA FirstNumbers ==
  ASSUME NEW s \in Numbers, NEW m \in 0..Len(s), NEW t, t = SubSeq(s, 1, m)
  PROVE  t \in Numbers /\ Len(t) = m
<1>. DEFINE i == 1
<1>1. i \in Int /\ m \in Int /\ 1 <= i /\ i - 1 <= m /\ m <= Len(s) /\ t = SubSeq(s, i, m) /\ i = 1
  <2>1. Len(s) \in Nat
    BY NumbersFacts
  <2>. QED
    BY <2>1
<1>. HIDE DEF i
<1>2. SubSeq(s, i, m) \in Numbers /\ Len(SubSeq(s, i, m)) = (m - i) + 1
  BY <1>1, SpanNumbers
<1>3. (m - i) + 1 = m
  BY <1>1
<1>. QED
  BY <1>1, <1>2, <1>3

\* The first m children and the others; none of a leaf.
CutAt(n, cs, ds, m) ==
  /\ cs \in Numbers /\ ds \in Numbers /\ cs \o ds = n.children
  /\ n.leaf => Len(cs) = 0 /\ Len(ds) = 0
  /\ ~ n.leaf => Len(cs) = m /\ Len(ds) = (Len(n.keys) + 1) - m

\* The children of a node cut in two.
LEMMA CutChildren ==
  ASSUME NEW n \in NodeSet, Whole(n), NEW m \in 1..Len(n.keys),
         NEW cs, cs = Children(n, 0, m - 1), NEW ds, ds = Children(n, m, Len(n.keys))
  PROVE  CutAt(n, cs, ds, m)
<1>1. n.children \in Numbers /\ Len(n.keys) \in Nat /\ n.leaf \in BOOLEAN
  BY NodeFacts
<1>2. CASE n.leaf
  <2>1. cs = <<>> /\ ds = <<>> /\ Len(n.children) = 0
    BY <1>2 DEF Children, Whole
  <2>2. n.children = <<>>
    BY <2>1, <1>1, EmptySeq DEF Numbers
  <2>3. <<>> \o <<>> = <<>>
    OBVIOUS
  <2>. QED
    BY <1>2, <2>1, <2>2, <2>3, NoNumbers DEF CutAt
<1>3. CASE ~ n.leaf
  <2>. DEFINE s == n.children
              k == Len(n.keys)
              e0 == 0 + 1
              e1 == (m - 1) + 1
              e2 == m + 1
              e3 == k + 1
  <2>1. cs = SubSeq(s, e0, e1) /\ ds = SubSeq(s, e2, e3)
    BY <1>3 DEF Children
  <2>2. s \in Numbers /\ Len(s) = e3
    BY <1>1, <1>3 DEF Whole
  <2>. HIDE DEF s
  <2>3. k \in Nat /\ m \in 1..k
    BY <1>1
  <2>4. e0 = 1 /\ e1 = m /\ e1 \in Int /\ e2 \in Int /\ e3 \in Int /\ e1 \in 0..e3 /\ 1 <= e0 /\ e0 - 1 <= e1
        /\ e1 <= e3 /\ 1 <= e2 /\ e2 - 1 <= e3 /\ e3 <= e3 /\ e2 = e1 + 1 /\ (e1 - e0) + 1 = m
        /\ (e3 - e2) + 1 = (k + 1) - m /\ e0 \in Int
    <3>. HIDE DEF k
    <3>. QED
      BY <2>3
  <2>. HIDE DEF e0, e1, e2, e3, k
  <2>5. cs = SubSeq(s, 1, e1)
    BY <2>1, <2>4
  <2>6. cs \in Numbers /\ Len(cs) = (e1 - e0) + 1
    <3>1. e1 \in 0..Len(s)
      BY <2>2, <2>4
    <3>2. cs \in Numbers /\ Len(cs) = e1
      BY <3>1, <2>2, <2>5, FirstNumbers
    <3>. QED
      BY <3>2, <2>4
  <2>7. ds \in Numbers /\ Len(ds) = (e3 - e2) + 1
    BY <2>1, <2>2, <2>4, SpanNumbers
  <2>8. cs \o ds = s
    <3>1. e1 \in 0..Len(s) /\ ds = SubSeq(s, e1 + 1, Len(s))
      BY <2>1, <2>2, <2>4
    <3>. QED
      BY <2>2, <2>5, <3>1, CutNumbers
  <2>. QED
    BY <1>3, <2>4, <2>6, <2>7, <2>8 DEF CutAt, s, k
<1>. QED
  BY <1>1, <1>2, <1>3

\* G is h after items have moved between the children L and R of p.
Rebalanced(D, h, G, p, j, L, R) ==
  /\ G \in [D -> NodeSet]
  /\ \A b \in D \ {p, L, R} : G[b] = h[b]
  /\ (G[p].leaf <=> h[p].leaf) /\ G[p].cnt = h[p].cnt /\ G[p].children = h[p].children
  /\ Len(G[p].keys) = Len(h[p].keys)
  /\ \A i \in 1..Len(h[p].keys) : i # j => G[p].keys[i] = h[p].keys[i]
  /\ Moved(h, h[L], h[p].keys[j], h[R], G[L], G[p].keys[j], G[R])

\* p with the neighbours L and R, which have their children.
Facing(D, h, p, j, L, R) ==
  /\ h \in [D -> NodeSet]
  /\ p \in D /\ L \in D /\ R \in D /\ p # L /\ p # R /\ L # R
  /\ j \in 1..Len(h[p].keys)
  /\ (h[R].leaf <=> h[L].leaf)
  /\ Whole(h[L]) /\ Whole(h[R])
  /\ Tallied(h, h[L].children) /\ Tallied(h, h[R].children)

\* One element of a sequence replaced.
LEMMA PutNumber ==
  ASSUME NEW n \in NodeSet, NEW j \in 1..Len(n.keys), NEW y \in Int,
         NEW m, m = [n EXCEPT !.keys[j] = y]
  PROVE  /\ m \in NodeSet /\ (m.leaf <=> n.leaf) /\ m.cnt = n.cnt /\ m.children = n.children
         /\ Len(m.keys) = Len(n.keys) /\ m.keys[j] = y
         /\ \A i \in 1..Len(n.keys) : i # j => m.keys[i] = n.keys[i]
<1>. DEFINE s == n.keys
            t == [s EXCEPT ![j] = y]
<1>1. s \in Seq(Int) /\ j \in 1..Len(s) /\ Len(s) \in Nat
  BY NodeFacts DEF Numbers
<1>2. m.keys = t /\ (m.leaf <=> n.leaf) /\ m.cnt = n.cnt /\ m.children = n.children
      /\ (t \in Numbers => m \in NodeSet)
  BY DEF NodeSet
<1>. HIDE DEF s
<1>3. t \in Seq(Int) /\ Len(t) = Len(s) /\ t[j] = y /\ \A i \in 1..Len(s) : i # j => t[i] = s[i]
  BY <1>1, ExceptSeq
<1>. QED
  BY <1>2, <1>3 DEF Numbers, s

\* num items have gone from R to L.
SentLeft(D, h, G, p, j, L, R, num) ==
  /\ Rebalanced(D, h, G, p, j, L, R)
  /\ Len(G[L].keys) = Len(h[L].keys) + num
  /\ Len(G[R].keys) = Len(h[R].keys) - num

\* RebalanceChildToLeft: num items leave the right neighbour through the
\* parent.
LEMMA ToLeft ==
  ASSUME NEW D, NEW h, NEW p, NEW j, NEW L, NEW R, Facing(D, h, p, j, L, R),
         h[p].children[j] = L, h[p].children[j + 1] = R,
         NEW num \in 1..Len(h[R].keys), NEW G, G = RebalanceChildToLeft(h, p, j, num)
  PROVE  SentLeft(D, h, G, p, j, L, R, num)
<1>. DEFINE src == h[R]
            dest == h[L]
            k == Len(src.keys)
            x == h[p].keys[j]
            y == src.keys[num]
            low == SubSeq(src.keys, 1, num - 1)
            high == SubSeq(src.keys, num + 1, k)
            moved == Children(src, 0, num - 1)
            stay == Children(src, num, k)
            delta == SumCounts(h, moved) + num
            a == [h[p] EXCEPT !.keys[j] = y]
            b == IncreaseTreeCount([dest EXCEPT !.keys = Link(dest.keys, x, low),
                                                !.children = dest.children \o moved], delta)
            c == IncreaseTreeCount([src EXCEPT !.keys = high, !.children = stay], -delta)
<1>1. /\ h \in [D -> NodeSet] /\ p \in D /\ L \in D /\ R \in D /\ p # L /\ p # R /\ L # R
      /\ j \in 1..Len(h[p].keys) /\ (src.leaf <=> dest.leaf) /\ Whole(dest) /\ Whole(src)
      /\ Tallied(h, dest.children) /\ Tallied(h, src.children)
  BY DEF Facing
<1>2. src \in NodeSet /\ dest \in NodeSet /\ h[p] \in NodeSet
  BY <1>1
<1>3. /\ src.keys \in Numbers /\ src.children \in Numbers /\ k \in Nat /\ x \in Int /\ y \in Int
      /\ dest.keys \in Numbers /\ dest.children \in Numbers /\ dest.leaf \in BOOLEAN
      /\ Len(h[p].keys) \in Nat
  BY <1>1, <1>2, NodeFacts
<1>4. G = [h EXCEPT ![p] = a, ![L] = b, ![R] = c]
  <2>1. (j - 1) + 1 = j /\ (num - 1) + 1 = num
    BY <1>1, <1>3
  <2>. QED
    BY <1>1, <2>1 DEF RebalanceChildToLeft, Child, Key, NumItems, Link
<1>5. CutAt(src, moved, stay, num)
  BY <1>1, <1>2, CutChildren
<1>6. /\ moved \in Numbers /\ stay \in Numbers /\ moved \o stay = src.children
      /\ src.leaf => Len(moved) = 0
      /\ ~ src.leaf => Len(moved) = num
  BY <1>5 DEF CutAt
<1>. HIDE DEF moved, stay
<1>7. Tallied(h, moved) /\ Tallied(h, stay)
  <2>1. Tallied(h, moved \o stay)
    BY <1>1, <1>6
  <2>. QED
    BY <1>6, <2>1, TallyParts
<1>8. SumCounts(h, moved) \in Int
  BY <1>6, <1>7, SumType
<1>9. delta \in Int /\ -delta \in Int
  BY <1>8
<1>10. low \in Numbers /\ Len(low) = num - 1 /\ high \in Numbers /\ Len(high) = k - num
       /\ Link(low, y, high) = src.keys
  <2>. DEFINE s == src.keys
              e0 == 1
              e1 == num - 1
              e2 == num + 1
  <2>1. s \in Numbers /\ Len(s) = k
    BY <1>3
  <2>2. e0 \in Int /\ e1 \in Int /\ e2 \in Int /\ 1 <= e0 /\ e0 - 1 <= e1 /\ e1 <= k /\ 1 <= e2 /\ e2 - 1 <= k
        /\ k \in Int /\ k <= k /\ (e1 - e0) + 1 = num - 1 /\ (k - e2) + 1 = k - num /\ e1 \in 0..(k - 1)
        /\ e1 + 1 = num /\ e1 + 2 = e2 /\ e0 = 1
    <3>1. num \in 1..k /\ k \in Nat
      BY <1>3
    <3>. HIDE DEF k
    <3>. QED
      BY <3>1
  <2>3. low = SubSeq(s, e0, e1) /\ high = SubSeq(s, e2, k) /\ y = s[num]
    OBVIOUS
  <2>. HIDE DEF s, e0, e1, e2, k, low, high, y
  <2>4. low \in Numbers /\ Len(low) = (e1 - e0) + 1
    BY <2>1, <2>2, <2>3, SpanNumbers
  <2>5. high \in Numbers /\ Len(high) = (k - e2) + 1
    BY <2>1, <2>2, <2>3, SpanNumbers
  <2>6. Link(SubSeq(s, 1, e1), s[e1 + 1], SubSeq(s, e1 + 2, Len(s))) = s
    BY <2>1, <2>2, CutNumbersAt
  <2>7. Link(low, y, high) = s
    BY <2>1, <2>2, <2>3, <2>6
  <2>. QED
    BY <2>2, <2>4, <2>5, <2>7 DEF s
<1>. HIDE DEF low, high, y, k
<1>11. /\ a \in NodeSet /\ (a.leaf <=> h[p].leaf) /\ a.cnt = h[p].cnt /\ a.children = h[p].children
       /\ Len(a.keys) = Len(h[p].keys) /\ a.keys[j] = y
       /\ \A i \in 1..Len(h[p].keys) : i # j => a.keys[i] = h[p].keys[i]
  BY <1>1, <1>2, <1>3, PutNumber
<1>. DEFINE ks == Link(dest.keys, x, low)
            cs == dest.children \o moved
<1>12. ks \in Numbers /\ cs \in Numbers
  BY <1>3, <1>6, <1>10, LinkNumbers, JoinNumbers
<1>. HIDE DEF ks, cs, delta
<1>13. Remade(dest, b, ks, cs, delta)
  BY <1>2, <1>9, <1>12, RemakeFacts DEF ks, cs
<1>14. Remade(src, c, high, stay, -delta)
  BY <1>2, <1>6, <1>9, <1>10, RemakeFacts
<1>. HIDE DEF a, b, c
<1>15. b \in NodeSet /\ c \in NodeSet /\ (b.leaf <=> dest.leaf) /\ (c.leaf <=> src.leaf)
       /\ b.keys = Link(dest.keys, x, low) /\ b.children = dest.children \o moved
       /\ c.keys = high /\ c.children = stay
       /\ (~ dest.leaf => TreeCount(b) = TreeCount(dest) + delta)
       /\ (~ src.leaf => TreeCount(c) = TreeCount(src) + (-delta))
  BY <1>13, <1>14 DEF Remade, ks, cs
<1>16. G \in [D -> NodeSet] /\ G[p] = a /\ G[L] = b /\ G[R] = c /\ \A d \in D \ {p, L, R} : G[d] = h[d]
  <2>1. /\ h \in [D -> NodeSet] /\ p \in D /\ L \in D /\ R \in D /\ p # L /\ p # R /\ L # R
        /\ a \in NodeSet /\ b \in NodeSet /\ c \in NodeSet
    BY <1>1, <1>11, <1>15
  <2>. QED
    BY <2>1, <1>4
<1>17. Slid(h, dest, x, src, b, y, c, low, moved)
  <2>. DEFINE z == SumCounts(h, moved) + (Len(low) + 1)
              t == TreeCount(src)
  <2>1. z = delta
    <3>1. num \in Int
      BY <1>3
    <3>. QED
      BY <3>1, <1>8, <1>10 DEF delta
  <2>2. t \in Int
    BY <1>2, TreeCountType
  <2>3. t + (-delta) = t - delta
    <3>. HIDE DEF t
    <3>. QED
      BY <2>2, <1>9
  <2>4. src.keys = Link(low, y, c.keys) /\ src.children = moved \o c.children /\ Tallied(h, c.children)
    BY <1>6, <1>7, <1>10, <1>15
  <2>5. ~ dest.leaf => Len(moved) = Len(low) + 1
    <3>1. Len(low) + 1 = num
      <4>1. num \in Int
        BY <1>3
      <4>. QED
        BY <4>1, <1>10
    <3>. QED
      BY <3>1, <1>1, <1>6
  <2>6. /\ ~ dest.leaf => TreeCount(b) = TreeCount(dest) + z
        /\ ~ dest.leaf => TreeCount(c) = TreeCount(src) - z
    BY <2>1, <2>3, <1>1, <1>15
  <2>. QED
    BY <1>1, <1>2, <1>3, <1>6, <1>7, <1>10, <1>15, <2>4, <2>5, <2>6 DEF Slid
<1>18. Moved(h, dest, x, src, b, y, c)
  BY <1>1, <1>17, SlideLeft
<1>19. Rebalanced(D, h, G, p, j, L, R)
  BY <1>11, <1>16, <1>18 DEF Rebalanced
<1>20. Len(b.keys) = Len(dest.keys) + num /\ Len(c.keys) = k - num
  <2>. DEFINE s == dest.keys
  <2>0. s \in Numbers /\ x \in Int /\ low \in Numbers /\ b.keys = Link(s, x, low)
    BY <1>3, <1>10, <1>15
  <2>. HIDE DEF s, x
  <2>1. Len(b.keys) = Len(s) + 1 + Len(low)
    BY <2>0, LinkNumbers
  <2>. USE DEF s
  <2>2. Len(dest.keys) \in Nat /\ num \in Int
    BY <1>2, <1>3, NodeFacts
  <2>. QED
    BY <2>1, <2>2, <1>10, <1>15
<1>. QED
  BY <1>16, <1>19, <1>20 DEF k, SentLeft

-----------------------------------------------------------------------------
\* num items have gone from L to R.
SentRight(D, h, G, p, j, L, R, num) ==
  /\ Rebalanced(D, h, G, p, j, L, R)
  /\ Len(G[L].keys) = Len(h[L].keys) - num
  /\ Len(G[R].keys) = Len(h[R].keys) + num

\* RebalanceChildToRight: num items leave the left neighbour through the
\* parent.
LEMMA ToRight ==
  ASSUME NEW D, NEW h, NEW p, NEW j, NEW L, NEW R, Facing(D, h, p, j, L, R),
         h[p].children[j] = L, h[p].children[j + 1] = R,
         NEW num \in 1..Len(h[L].keys), NEW G, G = RebalanceChildToRight(h, p, j - 1, num)
  PROVE  SentRight(D, h, G, p, j, L, R, num)
<1>. DEFINE src == h[L]
            dest == h[R]
            k == Len(src.keys)
            left == k - num
            x == h[p].keys[j]
            y == src.keys[left + 1]
            low == SubSeq(src.keys, 1, left)
            high == SubSeq(src.keys, left + 2, k)
            stay == Children(src, 0, left)
            moved == Children(src, left + 1, k)
            delta == SumCounts(h, moved) + num
            a == [h[p] EXCEPT !.keys[j] = y]
            b == IncreaseTreeCount([src EXCEPT !.keys = low, !.children = stay], -delta)
            c == IncreaseTreeCount([dest EXCEPT !.keys = Link(high, x, dest.keys),
                                                !.children = moved \o dest.children], delta)
<1>1. /\ h \in [D -> NodeSet] /\ p \in D /\ L \in D /\ R \in D /\ p # L /\ p # R /\ L # R
      /\ j \in 1..Len(h[p].keys) /\ (src.leaf <=> dest.leaf) /\ Whole(dest) /\ Whole(src)
      /\ Tallied(h, dest.children) /\ Tallied(h, src.children)
  BY DEF Facing
<1>2. src \in NodeSet /\ dest \in NodeSet /\ h[p] \in NodeSet
  BY <1>1
<1>3. /\ src.keys \in Numbers /\ src.children \in Numbers /\ k \in Nat /\ x \in Int
      /\ dest.keys \in Numbers /\ dest.children \in Numbers /\ src.leaf \in BOOLEAN
      /\ Len(h[p].keys) \in Nat /\ (\A i \in 1..k : src.keys[i] \in Int)
  BY <1>1, <1>2, NodeFacts
<1>30. num \in 1..k /\ num \in Int /\ k \in Nat
  BY <1>3
<1>31. left \in Nat /\ left + 1 \in 1..k /\ (left + 1) - 1 = left /\ left = k - num
       /\ (left + 1) + 1 = left + 2 /\ left <= k - 1 /\ left \in Int
  <2>. HIDE DEF k
  <2>. QED
    BY <1>30
<1>32. y \in Int
  BY <1>3, <1>31
<1>4. G = [h EXCEPT ![p] = a, ![R] = c, ![L] = b]
  <2>1. (j - 1) + 1 = j /\ ((j - 1) + 1) + 1 = j + 1
    BY <1>1, <1>3
  <2>. QED
    BY <1>1, <2>1 DEF RebalanceChildToRight, Child, Key, NumItems, Link
<1>. DEFINE m == left + 1
<1>5. CutAt(src, stay, moved, m)
  <2>1. src \in NodeSet /\ Whole(src) /\ m \in 1..Len(src.keys) /\ stay = Children(src, 0, m - 1)
        /\ moved = Children(src, m, Len(src.keys))
    BY <1>1, <1>2, <1>31
  <2>. HIDE DEF m, stay, moved
  <2>. QED
    BY <2>1, CutChildren
<1>6. /\ moved \in Numbers /\ stay \in Numbers /\ stay \o moved = src.children
      /\ src.leaf => Len(moved) = 0
      /\ ~ src.leaf => Len(moved) = (k + 1) - m
  BY <1>5 DEF CutAt
<1>61. (k + 1) - m = num
  <2>. HIDE DEF k
  <2>. QED
    BY <1>30
<1>. HIDE DEF moved, stay
<1>7. Tallied(h, moved) /\ Tallied(h, stay)
  <2>1. Tallied(h, stay \o moved)
    BY <1>1, <1>6
  <2>. QED
    BY <1>6, <2>1, TallyParts
<1>8. SumCounts(h, moved) \in Int
  BY <1>6, <1>7, SumType
<1>9. delta \in Int /\ -delta \in Int
  BY <1>8, <1>30
<1>10. low \in Numbers /\ Len(low) = left /\ high \in Numbers /\ Len(high) = num - 1
       /\ Link(low, y, high) = src.keys
  <2>. DEFINE s == src.keys
              e2 == left + 2
  <2>1. s \in Numbers /\ Len(s) = k
    BY <1>3
  <2>2. e2 \in Int /\ left \in 0..k /\ left \in 0..(k - 1) /\ 1 <= e2 /\ e2 - 1 <= k
        /\ k \in Int /\ k <= k /\ (k - e2) + 1 = num - 1 /\ e2 = left + 2
    <3>. HIDE DEF k
    <3>. QED
      BY <1>30
  <2>3. low = SubSeq(s, 1, left) /\ high = SubSeq(s, e2, k) /\ y = s[left + 1]
    OBVIOUS
  <2>. HIDE DEF s, e2, k, low, high, y, left
  <2>4. low \in Numbers /\ Len(low) = left
    BY <2>1, <2>2, <2>3, FirstNumbers
  <2>5. high \in Numbers /\ Len(high) = (k - e2) + 1
    BY <2>1, <2>2, <2>3, SpanNumbers
  <2>6. Link(SubSeq(s, 1, left), s[left + 1], SubSeq(s, left + 2, Len(s))) = s
    BY <2>1, <2>2, CutNumbersAt
  <2>7. Link(low, y, high) = s
    BY <2>1, <2>2, <2>3, <2>6
  <2>. QED
    BY <2>2, <2>4, <2>5, <2>7 DEF s
<1>. HIDE DEF low, high, y, k, left, m
<1>11. /\ a \in NodeSet /\ (a.leaf <=> h[p].leaf) /\ a.cnt = h[p].cnt /\ a.children = h[p].children
       /\ Len(a.keys) = Len(h[p].keys) /\ a.keys[j] = y
       /\ \A i \in 1..Len(h[p].keys) : i # j => a.keys[i] = h[p].keys[i]
  BY <1>1, <1>2, <1>32, PutNumber
<1>. DEFINE ks == Link(high, x, dest.keys)
            cs == moved \o dest.children
<1>12. ks \in Numbers /\ cs \in Numbers
  BY <1>3, <1>6, <1>10, LinkNumbers, JoinNumbers
<1>. HIDE DEF ks, cs, delta
<1>13. Remade(dest, c, ks, cs, delta)
  BY <1>2, <1>9, <1>12, RemakeFacts DEF ks, cs
<1>14. Remade(src, b, low, stay, -delta)
  BY <1>2, <1>6, <1>9, <1>10, RemakeFacts
<1>. HIDE DEF a, b, c
<1>15. b \in NodeSet /\ c \in NodeSet /\ (b.leaf <=> src.leaf) /\ (c.leaf <=> dest.leaf)
       /\ c.keys = Link(high, x, dest.keys) /\ c.children = moved \o dest.children
       /\ b.keys = low /\ b.children = stay
       /\ (~ dest.leaf => TreeCount(c) = TreeCount(dest) + delta)
       /\ (~ src.leaf => TreeCount(b) = TreeCount(src) + (-delta))
  BY <1>13, <1>14 DEF Remade, ks, cs
<1>16. G \in [D -> NodeSet] /\ G[p] = a /\ G[L] = b /\ G[R] = c /\ \A d \in D \ {p, L, R} : G[d] = h[d]
  <2>1. /\ h \in [D -> NodeSet] /\ p \in D /\ L \in D /\ R \in D /\ p # L /\ p # R /\ L # R
        /\ a \in NodeSet /\ b \in NodeSet /\ c \in NodeSet
    BY <1>1, <1>11, <1>15
  <2>. QED
    BY <2>1, <1>4
<1>17. Slid(h, b, y, c, src, x, dest, high, moved)
  <2>. DEFINE z == SumCounts(h, moved) + (Len(high) + 1)
              t == TreeCount(src)
              u == TreeCount(dest)
  <2>1. z = delta
    BY <1>30, <1>8, <1>10 DEF delta
  <2>2. t \in Int /\ u \in Int
    BY <1>2, TreeCountType
  <2>3. t = (t + (-delta)) + delta /\ u = (u + delta) - delta
    <3>. HIDE DEF t, u
    <3>. QED
      BY <2>2, <1>9
  <2>5. ~ src.leaf => Len(moved) = Len(high) + 1
    <3>1. Len(high) + 1 = num
      BY <1>30, <1>10
    <3>. QED
      BY <3>1, <1>6, <1>61
  <2>6. /\ ~ src.leaf => TreeCount(src) = TreeCount(b) + z
        /\ ~ src.leaf => TreeCount(dest) = TreeCount(c) - z
    BY <2>1, <2>3, <1>1, <1>15
  <2>7. src.keys = Link(b.keys, y, high) /\ src.children = b.children \o moved
        /\ Tallied(h, b.children) /\ Tallied(h, dest.children)
    BY <1>1, <1>6, <1>7, <1>10, <1>15
  <2>. QED
    BY <1>1, <1>2, <1>3, <1>32, <1>6, <1>7, <1>10, <1>15, <2>5, <2>6, <2>7 DEF Slid
<1>18. Moved(h, src, x, dest, b, y, c)
  BY <1>1, <1>17, SlideRight
<1>19. Rebalanced(D, h, G, p, j, L, R)
  BY <1>11, <1>16, <1>18 DEF Rebalanced
<1>20. Len(c.keys) = Len(dest.keys) + num /\ Len(b.keys) = k - num
  <2>. DEFINE s == dest.keys
  <2>0. s \in Numbers /\ x \in Int /\ high \in Numbers /\ c.keys = Link(high, x, s)
    BY <1>3, <1>10, <1>15
  <2>. HIDE DEF s, x
  <2>1. Len(c.keys) = Len(high) + 1 + Len(s)
    BY <2>0, LinkNumbers
  <2>. USE DEF s
  <2>2. Len(dest.keys) \in Nat
    BY <1>2, NodeFacts
  <2>. QED
    BY <2>1, <2>2, <1>10, <1>15, <1>30, <1>31
<1>. QED
  BY <1>16, <1>19, <1>20 DEF k, SentRight

-----------------------------------------------------------------------------
(* A full node gets an item with the help of a neighbour.                   *)

\* w has the items and the children of n.
Kept(n, w) ==
  w \in NodeSet /\ (w.leaf <=> n.leaf) /\ w.keys = n.keys /\ w.children = n.children

\* (w1, k, w2) is (n1, k, n2) with x at position g of its items, c behind it.
Widen(n1, k, n2, w1, w2, g, x, c) ==
  /\ w1 \in NodeSet /\ w2 \in NodeSet
  /\ (w1.leaf <=> n1.leaf) /\ (w2.leaf <=> n2.leaf)
  /\ Whole(w1) /\ Whole(w2)
  /\ Link(w1.keys, k, w2.keys) = Ext!InsertAt(Link(n1.keys, k, n2.keys), g + 1, x)
  /\ n1.leaf => w1.children \o w2.children = n1.children \o n2.children
  /\ ~ n1.leaf => w1.children \o w2.children = Ext!InsertAt(n1.children \o n2.children, g + 2, c)

\* A node with the same items and children has as many children as before.
LEMMA KeptWhole ==
  ASSUME NEW n, NEW w, Kept(n, w), Whole(n)
  PROVE  Whole(w)
  BY DEF Kept, Whole

\* The item is put into the left one of two neighbours.
LEMMA WidenLeft ==
  ASSUME NEW n1 \in NodeSet, NEW k \in Int, NEW n2 \in NodeSet, n2.leaf <=> n1.leaf,
         Whole(n1), Whole(n2), NEW w1, NEW w2, NEW g \in 0..Len(n1.keys), NEW x \in Int, NEW c \in Int,
         Putting(n1, w1, g, x, c), Kept(n2, w2)
  PROVE  Widen(n1, k, n2, w1, w2, g, x, c)
<1>. DEFINE s == n1.keys
            t == n2.keys
            cs == n1.children
            ds == n2.children
            e1 == g + 1
            e2 == g + 2
<1>1. s \in Numbers /\ t \in Numbers /\ cs \in Numbers /\ ds \in Numbers /\ Len(s) \in Nat /\ n1.leaf \in BOOLEAN
  BY NodeFacts
<1>2. e1 \in 1..(Len(s) + 1)
  BY <1>1
<1>3. ~ n1.leaf => e2 \in 1..(Len(cs) + 1)
  <2>1. ~ n1.leaf => Len(cs) = Len(s) + 1
    BY DEF Whole
  <2>2. g \in 0..Len(s)
    OBVIOUS
  <2>. HIDE DEF s, cs
  <2>. QED
    BY <2>1, <2>2, <1>1
<1>4. /\ w1 \in NodeSet /\ (w1.leaf <=> n1.leaf) /\ Whole(w1) /\ w1.keys = Ext!InsertAt(s, e1, x)
      /\ n1.leaf => w1.children = cs
      /\ ~ n1.leaf => w1.children = Ext!InsertAt(cs, e2, c)
  BY DEF Putting
<1>5. w2 \in NodeSet /\ (w2.leaf <=> n2.leaf) /\ w2.keys = t /\ w2.children = ds /\ Whole(w2)
  BY KeptWhole DEF Kept
<1>. HIDE DEF s, t, cs, ds, e1, e2
<1>6. Link(Ext!InsertAt(s, e1, x), k, t) = Ext!InsertAt(Link(s, k, t), e1, x)
  BY <1>1, <1>2, LinkInsertLeft
<1>7. ~ n1.leaf => Ext!InsertAt(cs, e2, c) \o ds = Ext!InsertAt(cs \o ds, e2, c)
  BY <1>1, <1>3, InsertThenJoin
<1>. QED
  BY <1>1, <1>4, <1>5, <1>6, <1>7 DEF Widen, s, t, cs, ds, e1, e2

\* The item is put into the right one of two neighbours.
LEMMA WidenRight ==
  ASSUME NEW n1 \in NodeSet, NEW k \in Int, NEW n2 \in NodeSet, n2.leaf <=> n1.leaf,
         Whole(n1), Whole(n2), NEW w1, NEW w2, NEW i \in 0..Len(n2.keys), NEW x \in Int, NEW c \in Int,
         Kept(n1, w1), Putting(n2, w2, i, x, c), NEW g, g = Len(n1.keys) + 1 + i
  PROVE  Widen(n1, k, n2, w1, w2, g, x, c)
<1>. DEFINE s == n1.keys
            t == n2.keys
            cs == n1.children
            ds == n2.children
            e1 == i + 1
            e2 == i + 2
            f1 == g + 1
            f2 == g + 2
<1>1. s \in Numbers /\ t \in Numbers /\ cs \in Numbers /\ ds \in Numbers /\ Len(s) \in Nat /\ Len(t) \in Nat
      /\ n1.leaf \in BOOLEAN
  BY NodeFacts
<1>2. e1 \in 1..(Len(t) + 1) /\ f1 = Len(s) + 1 + e1
  <2>. HIDE DEF s, t
  <2>1. g = Len(s) + 1 + i /\ i \in 0..Len(t)
    BY DEF s, t
  <2>. QED
    BY <1>1, <2>1
<1>3. ~ n1.leaf => e2 \in 1..(Len(ds) + 1) /\ f2 = Len(cs) + e2
  <2>1. ~ n1.leaf => Len(cs) = Len(s) + 1 /\ Len(ds) = Len(t) + 1
    BY DEF Whole
  <2>. HIDE DEF s, t, cs, ds
  <2>2. g = Len(s) + 1 + i /\ i \in 0..Len(t)
    BY DEF s, t
  <2>. QED
    BY <2>1, <2>2, <1>1
<1>4. /\ w2 \in NodeSet /\ (w2.leaf <=> n2.leaf) /\ Whole(w2) /\ w2.keys = Ext!InsertAt(t, e1, x)
      /\ n1.leaf => w2.children = ds
      /\ ~ n1.leaf => w2.children = Ext!InsertAt(ds, e2, c)
  BY DEF Putting
<1>5. w1 \in NodeSet /\ (w1.leaf <=> n1.leaf) /\ w1.keys = s /\ w1.children = cs /\ Whole(w1)
  BY KeptWhole DEF Kept
<1>. HIDE DEF s, t, cs, ds, e1, e2, f1, f2
<1>6. Link(s, k, Ext!InsertAt(t, e1, x)) = Ext!InsertAt(Link(s, k, t), f1, x)
  BY <1>1, <1>2, LinkInsertRight
<1>7. ~ n1.leaf => cs \o Ext!InsertAt(ds, e2, c) = Ext!InsertAt(cs \o ds, f2, c)
  <2>1. ASSUME ~ n1.leaf
        PROVE  cs \o Ext!InsertAt(ds, e2, c) = Ext!InsertAt(cs \o ds, f2, c)
    <3>1. e2 \in 1..(Len(ds) + 1) /\ f2 = Len(cs) + e2
      BY <2>1, <1>3
    <3>2. cs \o Ext!InsertAt(ds, e2, c) = Ext!InsertAt(cs \o ds, Len(cs) + e2, c)
      BY <1>1, <3>1, JoinThenInsert
    <3>. QED
      BY <3>1, <3>2
  <2>. QED
    BY <2>1
<1>. QED
  BY <1>1, <1>4, <1>5, <1>6, <1>7 DEF Widen, s, t, cs, ds, f1, f2

\* (w1, y, w2) has the items and the children of (v1, k, v2).
SameRow(v1, k, v2, w1, y, w2) ==
  /\ (w1.leaf <=> v1.leaf) /\ (w2.leaf <=> v2.leaf) /\ Whole(w1) /\ Whole(w2)
  /\ w1 \in NodeSet /\ w2 \in NodeSet
  /\ Link(w1.keys, y, w2.keys) = Link(v1.keys, k, v2.keys)
  /\ w1.children \o w2.children = v1.children \o v2.children

\* The two nodes after items have moved and x was put among them.
LEMMA MovedWiden ==
  ASSUME NEW h, NEW n1, NEW k, NEW n2, NEW m1, NEW y, NEW m2, Moved(h, n1, k, n2, m1, y, m2),
         NEW v1, NEW v2, NEW w1, NEW w2, NEW g, NEW x, NEW c,
         Widen(n1, k, n2, v1, v2, g, x, c), Widen(m1, y, m2, w1, w2, g, x, c)
  PROVE  SameRow(v1, k, v2, w1, y, w2)
<1>1. /\ (m1.leaf <=> n1.leaf) /\ (m2.leaf <=> n2.leaf)
      /\ Link(m1.keys, y, m2.keys) = Link(n1.keys, k, n2.keys)
      /\ m1.children \o m2.children = n1.children \o n2.children
  BY DEF Moved
<1>. QED
  BY <1>1 DEF Widen, SameRow

-----------------------------------------------------------------------------
\* m with x and c put at i, and d added to its count.
LEMMA PutRaised ==
  ASSUME NEW m \in NodeSet, Whole(m), NEW i \in 0..Len(m.keys), NEW x \in Int, NEW c \in Int,
         NEW d \in Int, NEW w, w = IncreaseTreeCount(Put(m, i, x, c), d)
  PROVE  /\ Putting(m, w, i, x, c)
         /\ m.leaf => TreeCount(w) = TreeCount(m) + 1
         /\ ~ m.leaf => TreeCount(w) = TreeCount(m) + d
<1>. DEFINE q == Put(m, i, x, c)
<1>1. /\ Putting(m, q, i, x, c)
      /\ m.leaf => TreeCount(q) = TreeCount(m) + 1
      /\ ~ m.leaf => TreeCount(q) = TreeCount(m)
  BY PutFacts
<1>2. w = IncreaseTreeCount(q, d)
  OBVIOUS
<1>. HIDE DEF q
<1>3. q \in NodeSet /\ (q.leaf <=> m.leaf)
  BY <1>1 DEF Putting
<1>4. Bumped(q, w, d)
  BY <1>2, <1>3, BumpDone
<1>5. w \in NodeSet /\ (w.leaf <=> q.leaf) /\ w.keys = q.keys /\ w.children = q.children
      /\ (q.leaf => TreeCount(w) = TreeCount(q)) /\ (~ q.leaf => TreeCount(w) = TreeCount(q) + d)
  BY <1>4 DEF Bumped
<1>6. Putting(m, w, i, x, c)
  <2>1. Whole(w)
    BY <1>1, <1>5 DEF Putting, Whole
  <2>. QED
    BY <1>1, <1>3, <1>5, <2>1 DEF Putting
<1>. QED
  BY <1>1, <1>3, <1>5, <1>6

\* W is G with x and c put at i of n, which gets the e items of c that a was
\* counting, and one more item for the nodes of up.
Helped(D, G, W, a, n, i, x, c, e, up) ==
  /\ W \in [D -> NodeSet]
  /\ Putting(G[n], W[n], i, x, c)
  /\ G[n].leaf \/ n = a => TreeCount(W[n]) = TreeCount(G[n]) + 1
  /\ ~ (G[n].leaf \/ n = a) => TreeCount(W[n]) = TreeCount(G[n]) + (e + 1)
  /\ n # a => Kept(G[a], W[a])
  /\ n # a /\ G[a].leaf => TreeCount(W[a]) = TreeCount(G[a])
  /\ n # a /\ ~ G[a].leaf => TreeCount(W[a]) = TreeCount(G[a]) - e
  /\ \A b \in D \ {a, n} : OnPath(up, b) => W[b] = IncreaseTreeCount(G[b], 1)
  /\ \A b \in D \ {a, n} : ~ OnPath(up, b) => W[b] = G[b]

\* What CountInserted and IncreaseSubtreeCounts leave of the nodes.
LEMMA HelpedNodes ==
  ASSUME NEW D, NEW G \in [D -> NodeSet], NEW a \in D, NEW n \in D, Whole(G[n]),
         NEW i \in 0..Len(G[n].keys), NEW x \in Int, NEW c \in Int, NEW e \in Int,
         NEW up, ~ OnPath(up, a), ~ OnPath(up, n),
         NEW W, W = IncreaseSubtreeCounts(
                      CountInserted([G EXCEPT ![n] = Put(@, i, x, c)], a, n, e), up, 1)
  PROVE  Helped(D, G, W, a, n, i, x, c, e, up)
<1>. DEFINE q == Put(G[n], i, x, c)
            G1 == [G EXCEPT ![n] = q]
            G2 == CountInserted(G1, a, n, e)
            v1 == IncreaseTreeCount(q, 1)
            v2 == IncreaseTreeCount(q, e + 1)
            v3 == IncreaseTreeCount(G[a], -e)
<1>1. G[n] \in NodeSet /\ G[a] \in NodeSet
  OBVIOUS
<1>2. q \in NodeSet
  BY <1>1, PutFacts DEF Putting
<1>3. W = IncreaseSubtreeCounts(G2, up, 1)
  OBVIOUS
<1>4. G1 \in [D -> NodeSet] /\ G1[n] = q /\ \A b \in D : b # n => G1[b] = G[b]
  BY <1>2
<1>. DEFINE f == e + 1
            o == -e
            u == 1
<1>5. f \in Int /\ o \in Int /\ u \in Int
  OBVIOUS
<1>6. /\ Putting(G[n], v1, i, x, c)
      /\ G[n].leaf => TreeCount(v1) = TreeCount(G[n]) + 1
      /\ ~ G[n].leaf => TreeCount(v1) = TreeCount(G[n]) + u
  <2>1. v1 = IncreaseTreeCount(Put(G[n], i, x, c), u)
    OBVIOUS
  <2>. HIDE DEF v1, u
  <2>. QED
    BY <1>1, <1>5, <2>1, PutRaised
<1>7. /\ Putting(G[n], v2, i, x, c)
      /\ G[n].leaf => TreeCount(v2) = TreeCount(G[n]) + 1
      /\ ~ G[n].leaf => TreeCount(v2) = TreeCount(G[n]) + f
  <2>1. v2 = IncreaseTreeCount(Put(G[n], i, x, c), f)
    OBVIOUS
  <2>. HIDE DEF v2, f
  <2>. QED
    BY <1>1, <1>5, <2>1, PutRaised
<1>8. Bumped(G[a], v3, o)
  <2>1. v3 = IncreaseTreeCount(G[a], o)
    OBVIOUS
  <2>. HIDE DEF v3, o
  <2>. QED
    BY <1>1, <1>5, <2>1, BumpDone
<1>9. v1 \in NodeSet /\ v2 \in NodeSet /\ v3 \in NodeSet
  BY <1>6, <1>7, <1>8 DEF Putting, Bumped
<1>10. G2 \in [D -> NodeSet] /\ \A b \in D \ {a, n} : G2[b] = G[b]
  <2>. HIDE DEF q, v1, v2, v3
  <2>1. CASE n = a
    <3>1. G2 = [G1 EXCEPT ![a] = IncreaseTreeCount(q, 1)]
      BY <1>4, <2>1 DEF CountInserted
    <3>. HIDE DEF G1, G2
    <3>2. IncreaseTreeCount(q, 1) \in NodeSet
      BY <1>9 DEF v1
    <3>. QED
      BY <1>4, <3>1, <3>2
  <2>2. CASE n # a
    <3>1. G2 = [G1 EXCEPT ![a] = IncreaseTreeCount(G[a], -e), ![n] = IncreaseTreeCount(q, e + 1)]
      BY <1>4, <2>2 DEF CountInserted
    <3>. HIDE DEF G1, G2
    <3>2. IncreaseTreeCount(G[a], -e) \in NodeSet /\ IncreaseTreeCount(q, e + 1) \in NodeSet
      BY <1>9 DEF v2, v3
    <3>. QED
      BY <1>4, <3>1, <3>2
  <2>. QED
    BY <2>1, <2>2
<1>11. (n = a => G2[n] = v1) /\ (n # a => G2[n] = v2 /\ G2[a] = v3)
  <2>. HIDE DEF q
  <2>1. CASE n = a
    <3>1. G2 = [G1 EXCEPT ![a] = IncreaseTreeCount(q, 1)]
      BY <1>4, <2>1 DEF CountInserted
    <3>. HIDE DEF G1, G2
    <3>. QED
      BY <1>4, <2>1, <3>1
  <2>2. CASE n # a
    <3>1. G2 = [G1 EXCEPT ![a] = IncreaseTreeCount(G[a], -e), ![n] = IncreaseTreeCount(q, e + 1)]
      BY <1>4, <2>2 DEF CountInserted
    <3>. HIDE DEF G1, G2
    <3>. QED
      BY <1>4, <2>2, <3>1
  <2>. QED
    BY <2>1, <2>2
<1>. HIDE DEF G2
<1>12. Raised(D, G2, W, up, u)
  BY <1>3, <1>5, <1>10, RaiseFacts DEF u
<1>. HIDE DEF v1, v2, v3, q, G1
<1>13. W \in [D -> NodeSet] /\ W[n] = G2[n] /\ W[a] = G2[a]
  BY <1>12 DEF Raised
<1>14. \A b \in D \ {a, n} : /\ OnPath(up, b) => W[b] = IncreaseTreeCount(G[b], 1)
                             /\ ~ OnPath(up, b) => W[b] = G[b]
  BY <1>10, <1>12 DEF Raised, u
<1>15. n # a => Kept(G[a], W[a]) /\ (G[a].leaf => TreeCount(W[a]) = TreeCount(G[a]))
                /\ (~ G[a].leaf => TreeCount(W[a]) = TreeCount(G[a]) + o)
  BY <1>8, <1>11, <1>13 DEF Bumped, Kept
<1>16. TreeCount(G[a]) + o = TreeCount(G[a]) - e
  <2>1. TreeCount(G[a]) \in Int
    BY <1>1, TreeCountType
  <2>. QED
    BY <2>1
<1>17. /\ Putting(G[n], W[n], i, x, c)
       /\ G[n].leaf \/ n = a => TreeCount(W[n]) = TreeCount(G[n]) + 1
       /\ ~ (G[n].leaf \/ n = a) => TreeCount(W[n]) = TreeCount(G[n]) + (e + 1)
  BY <1>6, <1>7, <1>11, <1>13
<1>. QED
  BY <1>13, <1>14, <1>15, <1>16, <1>17 DEF Helped

=============================================================================
