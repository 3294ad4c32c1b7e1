--------------------------- MODULE LinkedListProofs ---------------------------
(***************************************************************************)
(* The list of src/src/linked_list.hpp implements the sequence of          *)
(* ListSpec, for every set of elements, every set of indices and every     *)
(* threshold.  OneContainer is inductive as it stands; under it each       *)
(* operation is shown to take the abstract step of the same name.          *)
(***************************************************************************)
EXTENDS LinkedList, FiniteSetTheorems, SequenceTheorems, WellFoundedInduction, TLAPS

-----------------------------------------------------------------------------
(* Induction over numbers, loops and ranks. *)

\* A set of natural numbers that is not empty has a least element.
LEMMA LeastExists ==
  ASSUME NEW P \in SUBSET Nat, P # {}
  PROVE  \E x \in P : \A y \in P : x <= y
<1>. DEFINE R == OpToRel(<, Nat)
<1>1. IsWellFoundedOn(R, Nat)
  BY NatLessThanWellFounded
<1>. HIDE DEF R
<1>2. PICK x \in P : \A y \in P : ~ (<<y, x>> \in R)
  BY <1>1, WFMin
<1>3. ASSUME NEW y \in P PROVE x <= y
  <2>1. x \in Nat /\ y \in Nat
    OBVIOUS
  <2>2. ~ (y < x)
    BY <2>1, <1>2 DEF R, OpToRel
  <2>. QED
    BY <2>1, <2>2
<1>. QED
  BY <1>3

\* A set that holds 0 and, with each natural number, the next one holds all of
\* them: otherwise the numbers it lacks have a least one.
LEMMA NatSetInduction ==
  ASSUME NEW S, 0 \in S, \A n \in Nat : n \in S => n + 1 \in S
  PROVE  Nat \subseteq S
<1>. DEFINE T == Nat \ S
<1>. SUFFICES ASSUME T # {} PROVE FALSE
  OBVIOUS
<1>1. T \in SUBSET Nat
  OBVIOUS
<1>. HIDE DEF T
<1>2. PICK x \in T : \A y \in T : x <= y
  BY <1>1, LeastExists
<1>3. x \in Nat /\ x \notin S
  BY <1>2 DEF T
<1>4. x # 0 /\ x - 1 \in Nat /\ (x - 1) + 1 = x /\ ~(x <= x - 1)
  BY <1>3
<1>5. x - 1 \in S
  BY <1>2, <1>4 DEF T
<1>. QED
  BY <1>3, <1>4, <1>5

\* A loop that starts from base and whose iteration n maps the accumulator x
\* to step[<<x, n>>] has a trace: the recursive function that models it is
\* well defined.
LEMMA LoopExists ==
  ASSUME NEW A, NEW base \in A, NEW N \in Nat,
         NEW step \in [A \X (1..N) -> A]
  PROVE  \E f \in [0..N -> A] :
           /\ f[0] = base
           /\ \A n \in 1..N : f[n] = step[<<f[n - 1], n>>]
<1>. DEFINE Trace(m) == {f \in [0..m -> A] :
                           /\ f[0] = base
                           /\ \A n \in 1..m : f[n] = step[<<f[n - 1], n>>]}
            S == {m \in Nat : m <= N => Trace(m) # {}}
<1>1. 0 \in S
  <2>1. [i \in 0..0 |-> base] \in Trace(0)
    OBVIOUS
  <2>. QED
    BY <2>1
<1>2. ASSUME NEW m \in Nat, m \in S PROVE m + 1 \in S
  <2>. SUFFICES ASSUME m + 1 <= N PROVE Trace(m + 1) # {}
    OBVIOUS
  <2>1. PICK f : f \in Trace(m)
    BY <1>2
  <2>. DEFINE g == [i \in 0..(m + 1) |->
                      IF i <= m THEN f[i] ELSE step[<<f[m], m + 1>>]]
  <2>2. f[m] \in A /\ m + 1 \in 1..N
    BY <2>1
  <2>3. step[<<f[m], m + 1>>] \in A
    BY <2>2
  <2>4. g \in [0..(m + 1) -> A] /\ g[0] = base
    BY <2>1, <2>3
  <2>5. ASSUME NEW n \in 1..(m + 1) PROVE g[n] = step[<<g[n - 1], n>>]
    <3>1. n - 1 \in 0..m /\ g[n - 1] = f[n - 1]
      OBVIOUS
    <3>2. CASE n <= m
      BY <3>1, <3>2, <2>1
    <3>3. CASE n = m + 1
      BY <3>1, <3>3
    <3>. QED
      BY <3>2, <3>3
  <2>. QED
    BY <2>4, <2>5
<1>3. N \in S
  <2>. HIDE DEF S
  <2>. QED
    BY <1>1, <1>2, NatSetInduction
<1>. QED
  BY <1>3

\* The elements of P below p: as many as the rank of p in P.
Below(P, p) == {q \in P : q < p}

\* Two elements of a finite set of numbers have different ranks.
LEMMA RanksDiffer ==
  ASSUME NEW P \in SUBSET Int, IsFiniteSet(P), NEW p \in P, NEW r \in P, p < r
  PROVE  Cardinality(Below(P, p)) < Cardinality(Below(P, r))
<1>. DEFINE a == Below(P, p)
            b == Below(P, r)
<1>1. \A q \in P : q \in Int
  OBVIOUS
<1>2. a \in SUBSET b /\ b \in SUBSET P /\ p \in b /\ p \notin a
  <2>1. p \in Int /\ r \in Int
    BY <1>1
  <2>2. \A q \in Int : q < p => q < r
    BY <2>1
  <2>3. ~ (p < p)
    BY <2>1
  <2>. QED
    BY <1>1, <2>2, <2>3 DEF Below
<1>. HIDE DEF a, b
<1>3. IsFiniteSet(b)
  BY <1>2, FS_Subset
<1>4. /\ IsFiniteSet(a) /\ Cardinality(a) <= Cardinality(b)
      /\ Cardinality(b) = Cardinality(a) => b = a
  BY <1>2, <1>3, FS_Subset
<1>5. Cardinality(a) \in Nat /\ Cardinality(b) \in Nat
  BY <1>3, <1>4, FS_CardinalityType
<1>. QED
  BY <1>2, <1>4, <1>5 DEF a, b

\* Every rank below the cardinality is some element's.
LEMMA RankExists ==
  ASSUME NEW n \in Nat, NEW P \in SUBSET (0..(n - 1))
  PROVE  /\ IsFiniteSet(P)
         /\ Cardinality(P) \in Nat
         /\ \A k \in 0..(Cardinality(P) - 1) :
              \E p \in P : Cardinality(Below(P, p)) = k
<1>1. ASSUME NEW m \in Nat, NEW Q \in SUBSET (0..(m - 1))
      PROVE  IsFiniteSet(Q) /\ Cardinality(Q) \in Nat
  <2>1. 0 \in Int /\ m - 1 \in Int
    OBVIOUS
  <2>2. IsFiniteSet(0..(m - 1))
    BY <2>1, FS_Interval
  <2>3. IsFiniteSet(Q)
    BY <2>2, FS_Subset
  <2>. QED
    BY <2>3, FS_CardinalityType
<1>. DEFINE Ranked(Q) == \A k \in 0..(Cardinality(Q) - 1) :
                           \E p \in Q : Cardinality(Below(Q, p)) = k
            S == {m \in Nat : \A Q \in SUBSET (0..(m - 1)) : Ranked(Q)}
<1>2. 0 \in S
  <2>1. \A Q \in SUBSET (0..(0 - 1)) : Q = {}
    OBVIOUS
  <2>2. Ranked({})
    BY FS_EmptySet
  <2>. QED
    BY <2>1, <2>2
<1>3. ASSUME NEW m \in Nat, m \in S PROVE m + 1 \in S
  <2>. SUFFICES ASSUME NEW Q \in SUBSET (0..((m + 1) - 1)) PROVE Ranked(Q)
    OBVIOUS
  <2>. DEFINE T == Q \ {m}
  <2>0. \A q \in T : q \in Int /\ q < m
    OBVIOUS
  <2>1. T \in SUBSET (0..(m - 1))
    OBVIOUS
  <2>2. Ranked(T) /\ IsFiniteSet(T) /\ Cardinality(T) \in Nat
    BY <2>1, <1>1, <1>3
  <2>3. CASE m \notin Q
    <3>1. T = Q
      BY <2>3
    <3>. QED
      BY <3>1, <2>2
  <2>4. CASE m \in Q
    <3>1. Q = T \cup {m} /\ m \notin T
      BY <2>4
    <3>. HIDE DEF T
    <3>2. Cardinality(Q) = Cardinality(T) + 1
      BY <3>1, <2>2, FS_AddElement
    <3>3. \A p \in T : Below(Q, p) = Below(T, p)
      BY <3>1, <2>0 DEF Below
    <3>4. Below(Q, m) = T
      <4>1. ~ (m < m)
        OBVIOUS
      <4>. QED
        BY <3>1, <2>0, <4>1 DEF Below
    <3>. SUFFICES ASSUME NEW k \in 0..(Cardinality(Q) - 1)
                  PROVE  \E p \in Q : Cardinality(Below(Q, p)) = k
      OBVIOUS
    <3>5. CASE k = Cardinality(T)
      BY <3>4, <3>5, <2>4
    <3>6. CASE k \in 0..(Cardinality(T) - 1)
      BY <3>1, <3>3, <3>6, <2>2
    <3>. QED
      BY <3>2, <3>5, <3>6, <2>2
  <2>. QED
    BY <2>3, <2>4
<1>4. n \in S
  <2>. HIDE DEF S
  <2>. QED
    BY <1>2, <1>3, NatSetInduction
<1>. QED
  BY <1>1, <1>4

-----------------------------------------------------------------------------
\* Lemmas on the ranges of iterators the operations are built from.

\* The elements from position i up to, and without, position j.
LEMMA SpanFacts ==
  ASSUME NEW S, NEW s \in Seq(S), NEW i \in Nat, NEW j \in Nat,
         i <= j, j <= Len(s)
  PROVE  /\ Span(s, i, j) \in Seq(S)
         /\ Len(Span(s, i, j)) = j - i
         /\ \A k \in 1..(j - i) : Span(s, i, j)[k] = s[i + k]
<1>. DEFINE b == SubSeq(s, i + 1, j)
<1>1. /\ Len(s) \in Nat
      /\ \A k \in 1..Len(s) : s[k] \in S
  BY LenProperties, ElementOfSeq
<1>2. i + 1 \in Int /\ j \in Int /\ \A k \in (i + 1)..j : s[k] \in S
  BY <1>1
<1>3. Span(s, i, j) = b
  BY DEF Span
<1>. HIDE DEF b
<1>4. /\ b \in Seq(S)
      /\ Len(b) = IF i + 1 <= j THEN j - (i + 1) + 1 ELSE 0
      /\ \A k \in 1..(j - (i + 1) + 1) : b[k] = s[(i + 1) + k - 1]
  BY <1>2, SubSeqProperties DEF b
<1>5. Len(b) = j - i
  BY <1>4
<1>6. ASSUME NEW k \in 1..(j - i) PROVE b[k] = s[i + k]
  <2>1. k \in 1..(j - (i + 1) + 1) /\ (i + 1) + k - 1 = i + k
    OBVIOUS
  <2>. QED
    BY <2>1, <1>4
<1>. QED
  BY <1>3, <1>4, <1>5, <1>6

\* Two ranges one behind the other.
LEMMA ConcatFacts ==
  ASSUME NEW S, NEW s \in Seq(S), NEW t \in Seq(S)
  PROVE  /\ s \o t \in Seq(S)
         /\ Len(s \o t) = Len(s) + Len(t)
         /\ \A k \in 1..Len(s) : (s \o t)[k] = s[k]
         /\ \A k \in 1..Len(t) : (s \o t)[Len(s) + k] = t[k]
<1>. DEFINE c == s \o t
<1>1. Len(s) \in Nat /\ Len(t) \in Nat
  BY LenProperties
<1>2. /\ c \in Seq(S) /\ Len(c) = Len(s) + Len(t)
      /\ \A k \in 1..(Len(s) + Len(t)) :
           c[k] = IF k <= Len(s) THEN s[k] ELSE t[k - Len(s)]
  BY ConcatProperties
<1>. HIDE DEF c
<1>3. ASSUME NEW k \in 1..Len(t) PROVE c[Len(s) + k] = t[k]
  <2>1. /\ Len(s) + k \in 1..(Len(s) + Len(t)) /\ ~(Len(s) + k <= Len(s))
        /\ (Len(s) + k) - Len(s) = k
    BY <1>1
  <2>. QED
    BY <2>1, <1>2
<1>4. \A k \in 1..Len(s) : c[k] = s[k]
  BY <1>1, <1>2
<1>. QED
  BY <1>2, <1>3, <1>4 DEF c

\* Erasing everything from position i on leaves the part before it.
LEMMA EraseTail ==
  ASSUME NEW S, NEW s \in Seq(S), NEW i \in Nat, i <= Len(s)
  PROVE  Erase(s, i, Len(s)) = Span(s, 0, i)
<1>. DEFINE a == Span(s, 0, i)
            b == Span(s, Len(s), Len(s))
<1>1. Len(s) \in Nat
  BY LenProperties
<1>2. a \in Seq(S)
  BY <1>1, SpanFacts
<1>3. b \in Seq(S) /\ Len(b) = 0
  <2>1. ASSUME NEW m \in Nat, m <= Len(s)
        PROVE  Span(s, m, m) \in Seq(S) /\ Len(Span(s, m, m)) = 0
    <3>1. m <= m /\ m - m = 0
      OBVIOUS
    <3>. QED
      BY <3>1, <2>1, SpanFacts
  <2>2. Len(s) <= Len(s)
    BY <1>1
  <2>. QED
    BY <2>1, <2>2, <1>1
<1>4. b = <<>>
  BY <1>3, EmptySeq
<1>. QED
  BY <1>2, <1>4, ConcatEmptySeq DEF Erase

\* Erasing everything before position i leaves the part from it on.
LEMMA EraseHead ==
  ASSUME NEW S, NEW s \in Seq(S), NEW i \in Nat, i <= Len(s)
  PROVE  Erase(s, 0, i) = Span(s, i, Len(s))
<1>. DEFINE a == Span(s, 0, 0)
            b == Span(s, i, Len(s))
<1>1. Len(s) \in Nat
  BY LenProperties
<1>2. b \in Seq(S)
  BY <1>1, SpanFacts
<1>3. a \in Seq(S) /\ Len(a) = 0
  BY <1>1, SpanFacts
<1>4. a = <<>>
  BY <1>3, EmptySeq
<1>. QED
  BY <1>2, <1>4, ConcatEmptySeq DEF Erase

LEMMA PrefixFacts ==
  ASSUME NEW S, NEW s \in Seq(S), NEW j \in Nat, j <= Len(s)
  PROVE  /\ Span(s, 0, j) \in Seq(S)
         /\ Len(Span(s, 0, j)) = j
         /\ \A k \in 1..j : Span(s, 0, j)[k] = s[k]
<1>1. \A i \in Nat : i <= j =>
        /\ Span(s, i, j) \in Seq(S)
        /\ Len(Span(s, i, j)) = j - i
        /\ \A k \in 1..(j - i) : Span(s, i, j)[k] = s[i + k]
  BY SpanFacts
<1>2. 0 <= j /\ j - 0 = j /\ \A k \in 1..j : 0 + k = k
  OBVIOUS
<1>3. /\ Span(s, 0, j) \in Seq(S)
      /\ Len(Span(s, 0, j)) = j - 0
      /\ \A k \in 1..(j - 0) : Span(s, 0, j)[k] = s[0 + k]
  BY <1>1, <1>2
<1>. QED
  BY <1>2, <1>3

\* The whole of a sequence.
LEMMA SpanAll ==
  ASSUME NEW S, NEW s \in Seq(S)
  PROVE  Span(s, 0, Len(s)) = s
<1>. DEFINE b == Span(s, 0, Len(s))
<1>1. Len(s) \in Nat /\ Len(s) <= Len(s)
  BY LenProperties
<1>2. /\ b \in Seq(S) /\ Len(b) = Len(s)
      /\ \A k \in 1..Len(s) : b[k] = s[k]
  BY <1>1, PrefixFacts
<1>. HIDE DEF b
<1>3. b = s
  BY <1>2, SeqEqual
<1>. QED
  BY <1>3 DEF b

-----------------------------------------------------------------------------
\* What the helpers of the operations do to the list.

LEMMA ActiveType ==
  ASSUME OneContainer
  PROVE  /\ Active \in Seq(Values) /\ Size \in Nat /\ Len(Active) = Size
         /\ DOMAIN Active = 1..Size
         /\ \A k \in 1..Size : Active[k] \in Values
<1>1. Active \in Seq(Values)
  BY DEF OneContainer, Active
<1>. QED
  BY <1>1, LenProperties, ElementOfSeq DEF Size

LEMMA KeepStep ==
  ASSUME OneContainer, Keep
  PROVE  OneContainer' /\ Active' = Active
BY DEF OneContainer, Keep, Active

\* An operation that does not lengthen the list leaves s as the list.
LEMMA StoreStep ==
  ASSUME OneContainer, NEW s \in Seq(Values), Len(s) <= Size, Store(s)
  PROVE  OneContainer' /\ Active' = s
<1>1. Len(s) \in Nat /\ Size \in Nat /\ Threshold \in Nat
  BY ActiveType, LenProperties, LinkedListAssumption
<1>2. CASE use_vector
  BY <1>1, <1>2 DEF OneContainer, Store, Active, Size
<1>3. CASE ~use_vector
  BY <1>1, <1>3 DEF OneContainer, Store, Active
<1>. QED
  BY <1>2, <1>3

\* One that lengthens it leaves s too, in the container its length calls for.
LEMMA GrowStep ==
  ASSUME OneContainer, NEW s \in Seq(Values), Grow(s)
  PROVE  OneContainer' /\ Active' = s
<1>1. Len(s) \in Nat /\ Threshold \in Nat
  BY LenProperties, LinkedListAssumption
<1>2. CASE use_vector /\ Len(s) > Threshold
  <2>1. <<>> \o s = s
    BY ConcatEmptySeq
  <2>2. /\ use_vector' = FALSE /\ deque' = s /\ vector' = <<>>
    BY <1>2, <2>1 DEF OneContainer, Grow, CheckConvertToDeque
  <2>3. <<>> \in Seq(Values)
    OBVIOUS
  <2>. QED
    BY <2>2, <2>3 DEF OneContainer, Active
<1>3. CASE use_vector /\ ~(Len(s) > Threshold)
  BY <1>1, <1>3 DEF OneContainer, Grow, Store, Active
<1>4. CASE ~use_vector
  BY <1>1, <1>4 DEF OneContainer, Grow, Store, Active
<1>. QED
  BY <1>2, <1>3, <1>4

LEMMA InsertPosFacts ==
  ASSUME NEW S, NEW s \in Seq(S), NEW i \in Nat, i <= Len(s), NEW v \in S
  PROVE  InsertPos(s, i, v) \in Seq(S)
<1>1. Len(s) \in Nat
  BY LenProperties
<1>2. Span(s, 0, i) \in Seq(S) /\ Span(s, i, Len(s)) \in Seq(S)
  BY <1>1, SpanFacts
<1>3. <<v>> \in Seq(S)
  OBVIOUS
<1>. QED
  BY <1>2, <1>3, ConcatProperties DEF InsertPos

-----------------------------------------------------------------------------
\* The abstract list's choice of elements by position.

\* ListSpec's Cardinality, seen through the refinement, is Cardinality.
LEMMA SameCardinality ==
  ASSUME NEW S
  PROVE  List!Cardinality(S) = Cardinality(S)
BY DEF List!Cardinality, Cardinality

LEMMA AtFacts ==
  ASSUME OneContainer, NEW P \in SUBSET (0..(Size - 1))
  PROVE  /\ IsFiniteSet(P) /\ Cardinality(P) \in Nat
         /\ List!At(P) \in [1..Cardinality(P) -> Values]
         /\ \A p \in P : Cardinality(Below(P, p)) + 1 \in 1..Cardinality(P) =>
              List!At(P)[Cardinality(Below(P, p)) + 1] = Active[p + 1]
<1>1. /\ Size \in Nat
      /\ \A k \in 1..Size : Active[k] \in Values
  BY ActiveType
<1>2. /\ IsFiniteSet(P) /\ Cardinality(P) \in Nat
      /\ \A k \in 0..(Cardinality(P) - 1) :
           \E p \in P : Cardinality(Below(P, p)) = k
  BY <1>1, RankExists
<1>. DEFINE At(n) == CHOOSE p \in P : List!Cardinality({q \in P : q < p}) = n - 1
<1>3. \A p : List!Cardinality({q \in P : q < p}) = Cardinality(Below(P, p))
  BY SameCardinality DEF Below
<1>4. ASSUME NEW n \in 1..Cardinality(P)
      PROVE  /\ At(n) \in P
             /\ Cardinality(Below(P, At(n))) = n - 1
  <2>1. n - 1 \in 0..(Cardinality(P) - 1)
    BY <1>2
  <2>2. \E p \in P : Cardinality(Below(P, p)) = n - 1
    BY <2>1, <1>2
  <2>3. \E p \in P : List!Cardinality({q \in P : q < p}) = n - 1
    BY <2>2, <1>3
  <2>4. At(n) \in P /\ List!Cardinality({q \in P : q < At(n)}) = n - 1
    BY <2>3
  <2>. QED
    BY <2>4, <1>3
<1>5. List!At(P) = [n \in 1..Cardinality(P) |-> Active[1 + At(n)]]
  BY SameCardinality DEF List!At
<1>. HIDE DEF At
<1>6. \A p \in P : p \in Int /\ 1 + p \in 1..Size /\ 1 + p = p + 1
  BY <1>1
<1>7. List!At(P) \in [1..Cardinality(P) -> Values]
  BY <1>1, <1>4, <1>5, <1>6
<1>8. ASSUME NEW p \in P,
             Cardinality(Below(P, p)) + 1 \in 1..Cardinality(P)
      PROVE  List!At(P)[Cardinality(Below(P, p)) + 1] = Active[p + 1]
  <2>. DEFINE n == Cardinality(Below(P, p)) + 1
  <2>1. At(n) \in P /\ Cardinality(Below(P, At(n))) = n - 1
    BY <1>4, <1>8
  <2>2. Cardinality(Below(P, p)) \in Nat
    <3>1. Below(P, p) \in SUBSET P
      BY DEF Below
    <3>2. IsFiniteSet(Below(P, p))
      BY <3>1, <1>2, FS_Subset
    <3>. QED
      BY <3>2, FS_CardinalityType
  <2>3. Cardinality(Below(P, At(n))) = Cardinality(Below(P, p))
    BY <2>1, <2>2
  <2>4. At(n) = p
    <3>1. P \in SUBSET Int
      BY <1>6
    <3>2. ~ (Cardinality(Below(P, p)) < Cardinality(Below(P, p)))
      BY <2>2
    <3>. HIDE DEF n
    <3>3. ~ (At(n) < p)
      BY <3>1, <3>2, <2>1, <2>3, <1>2, RanksDiffer
    <3>4. ~ (p < At(n))
      BY <3>1, <3>2, <2>1, <2>3, <1>2, RanksDiffer
    <3>5. At(n) \in Int /\ p \in Int
      BY <2>1, <1>6
    <3>. QED
      BY <3>3, <3>4, <3>5
  <2>5. List!At(P)[n] = Active[1 + At(n)]
    BY <1>5, <1>8
  <2>. QED
    BY <2>4, <2>5, <1>6
<1>. QED
  BY <1>2, <1>7, <1>8

\* The positions from i up to, and without, j: a range of iterators.
LEMMA AtInterval ==
  ASSUME OneContainer, NEW i \in Nat, NEW j \in Nat, i <= j, j <= Size
  PROVE  List!At(i..(j - 1)) = Span(Active, i, j)
<1>. DEFINE P == i..(j - 1)
            b == Span(Active, i, j)
<1>1. Active \in Seq(Values) /\ Size \in Nat /\ Len(Active) = Size
  BY ActiveType
<1>2. P \in SUBSET (0..(Size - 1))
  BY <1>1
<1>3. Cardinality(P) = j - i
  <2>1. i \in Int /\ j - 1 \in Int
    OBVIOUS
  <2>2. Cardinality(P) = IF i > j - 1 THEN 0 ELSE (j - 1) - i + 1
    BY <2>1, FS_Interval
  <2>. HIDE DEF P
  <2>. QED
    BY <2>2
<1>4. ASSUME NEW p \in P PROVE Cardinality(Below(P, p)) = p - i
  <2>1. Below(P, p) = i..(p - 1)
    BY DEF Below
  <2>2. i \in Int /\ p - 1 \in Int
    BY <1>4
  <2>3. Cardinality(i..(p - 1)) = IF i > p - 1 THEN 0 ELSE (p - 1) - i + 1
    BY <2>2, FS_Interval
  <2>4. p \in Int /\ p >= i
    BY <1>4
  <2>. QED
    BY <2>1, <2>3, <2>4
<1>5. /\ b \in Seq(Values) /\ Len(b) = j - i
      /\ \A k \in 1..(j - i) : b[k] = Active[i + k]
  BY <1>1, SpanFacts
<1>6. DOMAIN b = 1..(j - i)
  BY <1>5, LenProperties
<1>7. b \in [1..(j - i) -> Values]
  BY <1>5, <1>6, ElementOfSeq
<1>8. /\ List!At(P) \in [1..Cardinality(P) -> Values]
      /\ \A p \in P : Cardinality(Below(P, p)) + 1 \in 1..Cardinality(P) =>
              List!At(P)[Cardinality(Below(P, p)) + 1] = Active[p + 1]
  BY <1>2, AtFacts
<1>9. ASSUME NEW k \in 1..(j - i) PROVE List!At(P)[k] = b[k]
  <2>. DEFINE p == i + k - 1
  <2>1. p \in P /\ (p - i) + 1 = k /\ p + 1 = i + k
    OBVIOUS
  <2>. HIDE DEF p, P, b
  <2>2. Cardinality(Below(P, p)) = p - i
    BY <2>1, <1>4
  <2>3. Cardinality(Below(P, p)) + 1 = k
    BY <2>1, <2>2
  <2>. QED
    BY <2>1, <2>3, <1>3, <1>5, <1>8
<1>. HIDE DEF P, b
<1>10. List!At(P) \in [1..(j - i) -> Values]
  BY <1>3, <1>8
<1>11. List!At(P) = b
  BY <1>7, <1>9, <1>10
<1>. QED
  BY <1>11 DEF P, b

\* A position behind all others adds its element at the end.
LEMMA AtAppend ==
  ASSUME OneContainer, NEW n \in 0..(Size - 1), NEW P \in SUBSET (0..(n - 1))
  PROVE  List!At(P \cup {n}) = Append(List!At(P), Active[n + 1])
<1>. DEFINE Q == P \cup {n}
            a == List!At(P)
            c == Append(a, Active[n + 1])
            m == Cardinality(P)
<1>1. Size \in Nat /\ \A k \in 1..Size : Active[k] \in Values
  BY ActiveType
<1>2. P \in SUBSET (0..(Size - 1)) /\ Q \in SUBSET (0..(Size - 1))
  BY <1>1
<1>3. /\ IsFiniteSet(P) /\ m \in Nat
      /\ a \in [1..m -> Values]
      /\ \A p \in P : Cardinality(Below(P, p)) + 1 \in 1..m =>
           a[Cardinality(Below(P, p)) + 1] = Active[p + 1]
  BY <1>2, AtFacts
<1>4. /\ List!At(Q) \in [1..Cardinality(Q) -> Values]
      /\ \A p \in Q : Cardinality(Below(Q, p)) + 1 \in 1..Cardinality(Q) =>
           List!At(Q)[Cardinality(Below(Q, p)) + 1] = Active[p + 1]
  BY <1>2, AtFacts
<1>5. \A p \in P : p \in Int /\ p < n /\ ~(n < p)
  BY <1>1
<1>6. n \notin P /\ n \in Int /\ ~(n < n)
  BY <1>1
<1>7. Cardinality(Q) = m + 1
  BY <1>3, <1>6, FS_AddElement
<1>8. Below(Q, n) = P
  BY <1>5, <1>6 DEF Below
<1>9. \A p \in P : Below(Q, p) = Below(P, p)
  BY <1>5, <1>6 DEF Below
<1>10. Active[n + 1] \in Values
  BY <1>1
<1>11. /\ c \in [1..(m + 1) -> Values]
       /\ \A k \in 1..m : c[k] = a[k]
       /\ c[m + 1] = Active[n + 1]
  <2>1. a \in Seq(Values) /\ Len(a) = m
    BY <1>3, SeqDef, LenProperties
  <2>. HIDE DEF a, c, m
  <2>2. /\ c \in Seq(Values) /\ Len(c) = Len(a) + 1
        /\ \A k \in 1..Len(a) : c[k] = a[k]
        /\ c[Len(a) + 1] = Active[n + 1]
    BY <2>1, <1>10, AppendProperties DEF c
  <2>3. DOMAIN c = 1..(m + 1)
    BY <2>1, <2>2, LenProperties
  <2>. QED
    BY <2>1, <2>2, <2>3, ElementOfSeq
<1>. HIDE DEF Q, a, c, m
<1>12. ASSUME NEW k \in 1..(m + 1) PROVE List!At(Q)[k] = c[k]
  <2>1. CASE k = m + 1
    <3>1. n \in Q /\ Cardinality(Below(Q, n)) = m
      BY <1>8 DEF Q, m
    <3>2. k \in 1..Cardinality(Q)
      BY <2>1, <1>3, <1>7
    <3>. QED
      BY <3>1, <3>2, <2>1, <1>4, <1>11
  <2>2. CASE k \in 1..m
    <3>1. k - 1 \in 0..(m - 1)
      BY <2>2, <1>3
    <3>2. PICK p \in P : Cardinality(Below(P, p)) = k - 1
      <4>1. n \in Nat
        BY <1>1
      <4>. QED
        BY <3>1, <4>1, RankExists DEF m
    <3>3. (k - 1) + 1 = k /\ k \in 1..Cardinality(Q)
      BY <2>2, <1>3, <1>7
    <3>4. p \in Q
      BY DEF Q
    <3>5. List!At(Q)[k] = Active[p + 1]
      BY <3>2, <3>3, <3>4, <1>4, <1>9
    <3>6. a[k] = Active[p + 1]
      BY <3>2, <3>3, <2>2, <1>3
    <3>. QED
      BY <3>5, <3>6, <2>2, <1>11
  <2>. QED
    BY <2>1, <2>2, <1>3
<1>13. List!At(Q) \in [1..(m + 1) -> Values]
  BY <1>4, <1>7
<1>14. c \in [1..(m + 1) -> Values]
  BY <1>11
<1>15. List!At(Q) = c
  <2>. DEFINE f == List!At(Q)
              D == 1..(m + 1)
  <2>1. \A k \in D : f[k] = c[k]
    BY <1>12
  <2>2. f \in [D -> Values] /\ c \in [D -> Values]
    BY <1>13, <1>14
  <2>. HIDE DEF f, D
  <2>3. f = c
    BY <2>1, <2>2
  <2>. QED
    BY <2>3 DEF f
<1>. QED
  BY <1>15 DEF Q, a, c

-----------------------------------------------------------------------------
\* Each operation keeps OneContainer and takes the abstract step of its name.

LEMMA Empty ==
  ASSUME OneContainer
  PROVE  Active = <<>> <=> Size = 0
BY ActiveType, EmptySeq DEF Size

LEMMA PushLeftStep ==
  ASSUME OneContainer, NEW v \in Values, PushLeft(v)
  PROVE  OneContainer' /\ List!PushLeft(v)
<1>. DEFINE s == InsertPos(Active, 0, v)
            a == Span(Active, 0, 0)
<1>1. Active \in Seq(Values) /\ Size \in Nat /\ Len(Active) = Size
  BY ActiveType
<1>2. s \in Seq(Values)
  BY <1>1, InsertPosFacts
<1>3. Size < MaxLen /\ Grow(s) /\ res' = <<"PushLeft", v>>
  BY DEF PushLeft
<1>4. s = <<v>> \o Active
  <2>1. a \in Seq(Values) /\ Len(a) = 0
    BY <1>1, SpanFacts
  <2>2. a = <<>>
    BY <2>1, EmptySeq
  <2>3. Span(Active, 0, Len(Active)) = Active
    BY <1>1, SpanAll
  <2>4. <<v>> \in Seq(Values)
    OBVIOUS
  <2>5. <<>> \o <<v>> = <<v>>
    BY <2>4, ConcatEmptySeq
  <2>. QED
    BY <2>2, <2>3, <2>5 DEF InsertPos
<1>. HIDE DEF s
<1>5. OneContainer' /\ Active' = s
  BY <1>2, <1>3, GrowStep
<1>. QED
  BY <1>1, <1>3, <1>4, <1>5 DEF List!PushLeft

LEMMA PushRightStep ==
  ASSUME OneContainer, NEW v \in Values, PushRight(v)
  PROVE  OneContainer' /\ List!PushRight(v)
<1>1. Active \in Seq(Values) /\ Len(Active) = Size
  BY ActiveType
<1>2. Append(Active, v) \in Seq(Values)
  BY <1>1, AppendProperties
<1>3. Size < MaxLen /\ Grow(Append(Active, v)) /\ res' = <<"PushRight", v>>
  BY DEF PushRight
<1>4. OneContainer' /\ Active' = Append(Active, v)
  BY <1>2, <1>3, GrowStep
<1>. QED
  BY <1>1, <1>3, <1>4 DEF List!PushRight

LEMMA PopLeftStep ==
  ASSUME OneContainer, PopLeft
  PROVE  OneContainer' /\ List!PopLeft
<1>1. Active \in Seq(Values) /\ Size \in Nat /\ Len(Active) = Size
  BY ActiveType
<1>2. CASE Active = <<>>
  <2>1. Keep /\ res' = <<"PopLeft", None>>
    BY <1>2 DEF PopLeft
  <2>. QED
    BY <2>1, <1>2, KeepStep DEF List!PopLeft
<1>3. CASE Active # <<>>
  <2>1. Store(Tail(Active)) /\ res' = <<"PopLeft", Head(Active)>>
    BY <1>3 DEF PopLeft
  <2>2. Tail(Active) \in Seq(Values) /\ Len(Tail(Active)) = Len(Active) - 1
    BY <1>1, <1>3, HeadTailProperties
  <2>3. Len(Tail(Active)) <= Size
    BY <2>2, <1>1
  <2>4. OneContainer' /\ Active' = Tail(Active)
    BY <2>1, <2>2, <2>3, StoreStep
  <2>5. Head(Active) = Active[1]
    BY <1>1
  <2>. QED
    BY <2>1, <2>4, <2>5, <1>3 DEF List!PopLeft
<1>. QED
  BY <1>2, <1>3

LEMMA PopRightStep ==
  ASSUME OneContainer, PopRight
  PROVE  OneContainer' /\ List!PopRight
<1>1. Active \in Seq(Values) /\ Size \in Nat /\ Len(Active) = Size
  BY ActiveType
<1>2. CASE Active = <<>>
  <2>1. Keep /\ res' = <<"PopRight", None>>
    BY <1>2 DEF PopRight
  <2>. QED
    BY <2>1, <1>2, KeepStep DEF List!PopRight
<1>3. CASE Active # <<>>
  <2>. DEFINE s == Span(Active, 0, Size - 1)
  <2>1. Size # 0
    BY <1>3, Empty
  <2>2. Store(s) /\ res' = <<"PopRight", Active[Size]>>
    BY <1>1, <1>3 DEF PopRight, Ext!Front, Ext!Last, Span
  <2>3. Size - 1 \in Nat /\ 0 <= Size - 1 /\ Size - 1 <= Size
    BY <2>1, <1>1
  <2>4. s \in Seq(Values) /\ Len(s) = Size - 1
    BY <2>3, <1>1, PrefixFacts
  <2>5. List!At(0..((Size - 1) - 1)) = s
    BY <2>3, AtInterval
  <2>6. List!Positions \ {Len(Active) - 1} = 0..((Size - 1) - 1)
    BY <1>1 DEF List!Positions
  <2>. HIDE DEF s
  <2>7. OneContainer' /\ Active' = s
    BY <2>2, <2>3, <2>4, StoreStep
  <2>. QED
    BY <2>2, <2>5, <2>6, <2>7, <1>1, <1>3 DEF List!PopRight
<1>. QED
  BY <1>2, <1>3

LEMMA IndexStep ==
  ASSUME OneContainer, NEW i \in Indices, Index(i)
  PROVE  OneContainer' /\ (List!Index(i) \/ HeadReadBeforeIt)
<1>1. Size \in Nat /\ Len(Active) = Size /\ i \in Int
  BY ActiveType, LinkedListAssumption
<1>. DEFINE index == FromEnd(i, 0)
            x == IF index >= Size THEN None ELSE Elem(Active, index)
            y == IF List!Position(i) \in List!Positions
                 THEN Active[List!Position(i) + 1] ELSE None
<1>2. Keep /\ res' = <<"Index", i, x>>
  BY DEF Index
<1>3. Keep => OneContainer' /\ Active' = Active
  BY KeepStep
<1>4. CASE Size # 0 /\ i < -Size
  <2>1. x = Head(Active) /\ Size # 0
    BY <1>1, <1>4, Empty DEF FromEnd, Elem
  <2>. QED
    BY <1>2, <1>3, <1>4, <2>1 DEF HeadReadBeforeIt
<1>5. CASE ~ (Size # 0 /\ i < -Size)
  <2>1. x = y
    BY <1>1, <1>5, Empty DEF FromEnd, Elem, List!Position, List!Positions
  <2>. QED
    BY <1>2, <1>3, <2>1 DEF List!Index
<1>. QED
  BY <1>4, <1>5

LEMMA SetStep ==
  ASSUME OneContainer, NEW i \in Indices, NEW v \in Values, Set(i, v)
  PROVE  OneContainer' /\ List!Set(i, v)
<1>1. /\ Active \in Seq(Values) /\ Size \in Nat /\ Len(Active) = Size
      /\ DOMAIN Active = 1..Size /\ i \in Int
  BY ActiveType, LinkedListAssumption
<1>. DEFINE index == FromEnd(i, -1)
            s == [Active EXCEPT ![index + 1] = v]
            t == [p \in DOMAIN Active |->
                    IF p = List!Position(i) + 1 THEN v ELSE Active[p]]
<1>2. Valid(index) <=> List!Position(i) \in List!Positions
  BY <1>1 DEF FromEnd, Valid, List!Position, List!Positions
<1>3. Valid(index) => index = List!Position(i)
  BY <1>1 DEF FromEnd, Valid, List!Position
<1>4. res' = <<"Set", i, v, Valid(index)>>
  BY DEF Set
<1>5. CASE Valid(index)
  <2>1. Store(s)
    BY <1>5 DEF Set
  <2>2. index + 1 \in 1..Size
    BY <1>1, <1>5 DEF Valid, FromEnd
  <2>3. s \in Seq(Values) /\ Len(s) = Len(Active)
    <3>. HIDE DEF index
    <3>. QED
      BY <2>2, <1>1, ExceptSeq
  <2>4. s = t
    BY <1>3, <1>5
  <2>5. Len(s) <= Size
    BY <2>3, <1>1
  <2>. HIDE DEF s
  <2>6. OneContainer' /\ Active' = s
    BY <2>1, <2>3, <2>5, StoreStep
  <2>. QED
    BY <2>4, <2>6, <1>2, <1>4, <1>5 DEF List!Set
<1>6. CASE ~Valid(index)
  <2>1. Keep
    BY <1>6 DEF Set
  <2>2. \A p \in DOMAIN Active : p # List!Position(i) + 1
    BY <1>1, <1>2, <1>6 DEF List!Positions, List!Position
  <2>3. t = Active
    BY <2>2, <1>1
  <2>4. OneContainer' /\ Active' = t
    BY <2>1, <2>3, KeepStep
  <2>. HIDE DEF index
  <2>5. res' = <<"Set", i, v, List!Position(i) \in List!Positions>>
    <3>1. Valid(index) = (List!Position(i) \in List!Positions)
      BY <1>2 DEF Valid
    <3>. QED
      BY <3>1, <1>4
  <2>. QED
    BY <2>4, <2>5 DEF List!Set
<1>. QED
  BY <1>5, <1>6

LEMMA ClearedStep ==
  ASSUME OneContainer, Cleared
  PROVE  OneContainer' /\ Active' = <<>>
<1>1. Size \in Nat /\ <<>> \in Seq(Values) /\ Len(<<>>) = 0
  BY ActiveType
<1>2. Len(<<>>) <= Size
  BY <1>1
<1>. QED
  BY <1>1, <1>2, StoreStep DEF Cleared

LEMMA ClearStep ==
  ASSUME OneContainer, Clear
  PROVE  OneContainer' /\ List!Clear
BY ClearedStep DEF Clear, List!Clear

\* The clamped range of the code and the positions of the abstract list.
LEMMA RangeFacts ==
  ASSUME OneContainer, NEW i \in Indices, NEW j \in Indices
  PROVE  /\ EmptyRange(i, j) => List!Between(i, j) = {}
         /\ ~EmptyRange(i, j) =>
              /\ Start(i) \in Nat /\ Stop(j) + 1 \in Nat
              /\ Start(i) <= Stop(j) + 1 /\ Stop(j) + 1 <= Size
              /\ List!Between(i, j) = Start(i)..((Stop(j) + 1) - 1)
         /\ List!At({}) = <<>>
         /\ Size = 0 => List!Between(i, j) = {}
<1>1. Size \in Nat /\ Len(Active) = Size /\ i \in Int /\ j \in Int
  BY ActiveType, LinkedListAssumption
<1>2. EmptyRange(i, j) => List!Between(i, j) = {}
  BY <1>1 DEF EmptyRange, Start, Stop, FromEnd,
              List!Between, List!Position, List!Positions
<1>3. ASSUME ~EmptyRange(i, j)
      PROVE  /\ Start(i) \in Nat /\ Stop(j) + 1 \in Nat
             /\ Start(i) <= Stop(j) + 1 /\ Stop(j) + 1 <= Size
  BY <1>1, <1>3 DEF EmptyRange, Start, Stop, FromEnd
<1>4. ASSUME ~EmptyRange(i, j)
      PROVE  List!Between(i, j) = Start(i)..((Stop(j) + 1) - 1)
  BY <1>1, <1>4 DEF EmptyRange, Start, Stop, FromEnd,
                    List!Between, List!Position, List!Positions
<1>5. List!At({}) = <<>>
  <2>1. {} \in SUBSET (0..(Size - 1)) /\ Cardinality({}) = 0
    BY FS_EmptySet
  <2>2. List!At({}) \in [1..0 -> Values]
    BY <2>1, AtFacts
  <2>. QED
    BY <2>2
<1>6. Size = 0 => List!Between(i, j) = {}
  BY <1>1 DEF List!Between, List!Positions
<1>. QED
  BY <1>2, <1>3, <1>4, <1>5, <1>6

LEMMA RangeStep ==
  ASSUME OneContainer, NEW i \in Indices, NEW j \in Indices, ListRange(i, j)
  PROVE  OneContainer' /\ List!Range(i, j)
<1>. DEFINE x == IF EmptyRange(i, j) THEN <<>>
                 ELSE Span(Active, Start(i), Stop(j) + 1)
<1>1. Keep /\ res' = <<"Range", i, j, x>>
  BY DEF ListRange
<1>2. CASE EmptyRange(i, j)
  <2>1. List!At(List!Between(i, j)) = x
    BY <1>2, RangeFacts
  <2>. QED
    BY <2>1, <1>1, KeepStep DEF List!Range
<1>3. CASE ~EmptyRange(i, j)
  <2>1. List!At(List!Between(i, j)) = x
    BY <1>3, RangeFacts, AtInterval
  <2>. QED
    BY <2>1, <1>1, KeepStep DEF List!Range
<1>. QED
  BY <1>2, <1>3

LEMMA TrimStep ==
  ASSUME OneContainer, NEW i \in Indices, NEW j \in Indices, Trim(i, j)
  PROVE  OneContainer' /\ List!Trim(i, j)
<1>1. Active \in Seq(Values) /\ Size \in Nat /\ Len(Active) = Size
  BY ActiveType
<1>2. res' = <<"Trim", i, j>>
  BY DEF Trim
<1>3. CASE Size = 0
  <2>1. Keep
    BY <1>3 DEF Trim
  <2>2. Active = <<>>
    BY <1>3, Empty
  <2>3. List!At(List!Between(i, j)) = <<>>
    BY <1>3, RangeFacts
  <2>. QED
    BY <2>1, <2>2, <2>3, <1>2, KeepStep DEF List!Trim
<1>4. CASE Size # 0 /\ EmptyRange(i, j)
  <2>1. Cleared
    BY <1>4 DEF Trim
  <2>2. List!At(List!Between(i, j)) = <<>>
    BY <1>4, RangeFacts
  <2>. QED
    BY <2>1, <2>2, <1>2, ClearedStep DEF List!Trim
<1>5. CASE Size # 0 /\ ~EmptyRange(i, j)
  <2>. DEFINE start == Start(i)
              stop == Stop(j) + 1
              short == Erase(Active, stop, Size)
              kept == Erase(short, 0, start)
              t == Span(Active, start, stop)
  <2>1. Store(kept)
    BY <1>5 DEF Trim
  <2>2. start \in Nat /\ stop \in Nat /\ start <= stop /\ stop <= Size
    BY <1>5, RangeFacts
  <2>3. List!At(List!Between(i, j)) = t
    BY <1>5, RangeFacts, AtInterval
  <2>. HIDE DEF start, stop
  <2>4. short = Span(Active, 0, stop)
    BY <2>2, <1>1, EraseTail
  <2>5. /\ short \in Seq(Values) /\ Len(short) = stop
        /\ \A k \in 1..stop : short[k] = Active[k]
    BY <2>2, <2>4, <1>1, PrefixFacts
  <2>. HIDE DEF short
  <2>6. kept = Span(short, start, stop)
    BY <2>2, <2>5, EraseHead
  <2>7. /\ kept \in Seq(Values) /\ Len(kept) = stop - start
        /\ \A k \in 1..(stop - start) : kept[k] = short[start + k]
    <3>1. stop <= Len(short) /\ short \in Seq(Values)
      BY <2>2, <2>5
    <3>. DEFINE u == Span(short, start, stop)
    <3>2. /\ u \in Seq(Values) /\ Len(u) = stop - start
          /\ \A k \in 1..(stop - start) : u[k] = short[start + k]
      BY <3>1, <2>2, SpanFacts
    <3>3. kept = u
      BY <2>6
    <3>. HIDE DEF kept, u
    <3>. QED
      BY <3>2, <3>3
  <2>8. /\ t \in Seq(Values) /\ Len(t) = stop - start
        /\ \A k \in 1..(stop - start) : t[k] = Active[start + k]
    BY <2>2, <1>1, SpanFacts
  <2>. HIDE DEF kept, t
  <2>9. \A k \in 1..(stop - start) : start + k \in 1..stop
    BY <2>2
  <2>10. kept = t
    BY <2>5, <2>7, <2>8, <2>9, SeqEqual
  <2>11. Len(kept) <= Size
    BY <2>2, <2>7, <1>1
  <2>12. OneContainer' /\ Active' = kept
    BY <2>1, <2>7, <2>11, StoreStep
  <2>. QED
    BY <2>3, <2>10, <2>12, <1>2 DEF List!Trim
<1>. QED
  BY <1>3, <1>4, <1>5

LEMMA InsertStep ==
  ASSUME OneContainer, NEW i \in Indices, NEW v \in Values,
         NEW before \in BOOLEAN, Insert(i, v, before)
  PROVE  OneContainer' /\ List!Insert(i, v, before)
<1>1. /\ Active \in Seq(Values) /\ Size \in Nat /\ Len(Active) = Size
      /\ i \in Int
  BY ActiveType, LinkedListAssumption
<1>. DEFINE pivot == FromEnd(i, -1)
<1>2. Valid(pivot) <=> List!Position(i) \in List!Positions
  BY <1>1 DEF FromEnd, Valid, List!Position, List!Positions
<1>3. Valid(pivot) => pivot = List!Position(i)
  BY <1>1 DEF FromEnd, Valid, List!Position
<1>4. CASE ~Valid(pivot)
  <2>1. Keep /\ res' = <<"Insert", i, v, before, FALSE>>
    BY <1>4 DEF Insert
  <2>. HIDE DEF pivot
  <2>. QED
    BY <2>1, <1>2, <1>4, KeepStep DEF List!Insert
<1>5. CASE Valid(pivot)
  <2>. DEFINE at == IF before THEN pivot ELSE pivot + 1
              s == InsertPos(Active, at, v)
  <2>1. Size < MaxLen /\ Grow(s) /\ res' = <<"Insert", i, v, before, TRUE>>
    BY <1>5 DEF Insert
  <2>2. at \in Nat /\ at <= Size
    BY <1>1, <1>5 DEF Valid, FromEnd
  <2>3. at = IF before THEN List!Position(i) ELSE List!Position(i) + 1
    BY <1>3, <1>5
  <2>. HIDE DEF at, pivot
  <2>4. /\ {p \in List!Positions : p < at} = 0..(at - 1)
        /\ {p \in List!Positions : p >= at} = at..(Size - 1)
    BY <2>2, <1>1 DEF List!Positions
  <2>5. List!At(0..(at - 1)) = Span(Active, 0, at)
    BY <2>2, AtInterval
  <2>6. List!At(at..(Size - 1)) = Span(Active, at, Size)
    BY <2>2, <1>1, AtInterval
  <2>7. s = List!At({p \in List!Positions : p < at}) \o <<v>>
              \o List!At({p \in List!Positions : p >= at})
    BY <2>4, <2>5, <2>6, <1>1 DEF InsertPos
  <2>8. s \in Seq(Values)
    BY <2>2, <1>1, InsertPosFacts
  <2>. HIDE DEF s
  <2>9. OneContainer' /\ Active' = s
    BY <2>1, <2>8, GrowStep
  <2>. QED
    BY <2>1, <2>3, <2>7, <2>9, <1>1, <1>2, <1>5 DEF List!Insert
<1>. QED
  BY <1>4, <1>5

-----------------------------------------------------------------------------
\* Remove: what its loop has done after n elements.

\* One iteration, and the loop as the function Removal defines.
Iteration(v, count, acc, n) ==
  IF Active[n] = v /\ (count <= 0 \/ acc.removed < count)
  THEN [kept |-> acc.kept, removed |-> acc.removed + 1]
  ELSE [kept |-> Append(acc.kept, Active[n]), removed |-> acc.removed]

Unrolled(v, count, f) ==
  [n \in 0..Size |-> IF n = 0 THEN [kept |-> <<>>, removed |-> 0]
                     ELSE Iteration(v, count, f[n - 1], n)]

RemovalLoop(v, count) == CHOOSE f : f = Unrolled(v, count, f)

LEMMA RemovalUnrolled ==
  ASSUME OneContainer, NEW v \in Values, NEW count \in Int
  PROVE  /\ Removal(v, count) = RemovalLoop(v, count)[Size]
         /\ RemovalLoop(v, count) = Unrolled(v, count, RemovalLoop(v, count))
         /\ RemovalLoop(v, count)
              \in [0..Size -> [kept : Seq(Values), removed : Nat]]
<1>. DEFINE A == [kept : Seq(Values), removed : Nat]
            base == [kept |-> <<>>, removed |-> 0]
            step == [x \in A \X (1..Size) |-> Iteration(v, count, x[1], x[2])]
<1>1. Size \in Nat /\ \A k \in 1..Size : Active[k] \in Values
  BY ActiveType
<1>2. Removal(v, count) = RemovalLoop(v, count)[Size]
  BY DEF Removal, RemovalLoop, Unrolled, Iteration
<1>3. base \in A
  OBVIOUS
<1>4. ASSUME NEW acc \in A, NEW n \in 1..Size
      PROVE  Iteration(v, count, acc, n) \in A
  <2>1. acc.kept \in Seq(Values) /\ acc.removed \in Nat /\ Active[n] \in Values
    BY <1>1
  <2>2. Append(acc.kept, Active[n]) \in Seq(Values)
    BY <2>1, AppendProperties
  <2>3. acc.removed + 1 \in Nat
    BY <2>1
  <2>. QED
    BY <2>1, <2>2, <2>3 DEF Iteration
<1>5. step \in [A \X (1..Size) -> A]
  BY <1>4
<1>6. \A acc \in A, n \in 1..Size : step[<<acc, n>>] = Iteration(v, count, acc, n)
  OBVIOUS
<1>. HIDE DEF A, base, step
<1>7. PICK f \in [0..Size -> A] :
        /\ f[0] = base
        /\ \A n \in 1..Size : f[n] = step[<<f[n - 1], n>>]
  BY <1>1, <1>3, <1>5, LoopExists
<1>8. f = Unrolled(v, count, f)
  <2>1. ASSUME NEW n \in 0..Size
        PROVE  f[n] = IF n = 0 THEN base ELSE Iteration(v, count, f[n - 1], n)
    <3>1. CASE n = 0
      BY <3>1, <1>7
    <3>2. CASE n # 0
      <4>1. n \in 1..Size /\ n - 1 \in 0..Size
        BY <3>2, <1>1
      <4>2. f[n - 1] \in A
        BY <4>1, <1>7
      <4>. QED
        BY <3>2, <4>1, <4>2, <1>6, <1>7
    <3>. QED
      BY <3>1, <3>2
  <2>2. f = [n \in 0..Size |->
               IF n = 0 THEN base ELSE Iteration(v, count, f[n - 1], n)]
    BY <2>1, <1>7
  <2>. QED
    BY <2>2 DEF Unrolled, base
<1>. DEFINE g == RemovalLoop(v, count)
<1>9. g = Unrolled(v, count, g)
  BY <1>8 DEF RemovalLoop
<1>. HIDE DEF g
<1>10. g \in [0..Size -> A]
  <2>1. /\ g[0] = base
        /\ \A n \in 1..Size : g[n] = Iteration(v, count, g[n - 1], n)
    <3>1. /\ 0 \in 0..Size
          /\ \A n \in 1..Size : n \in 0..Size /\ n # 0
      BY <1>1
    <3>. QED
      BY <3>1, <1>9 DEF Unrolled, base
  <2>. DEFINE S == {n \in Nat : n <= Size => g[n] \in A}
  <2>2. 0 \in S
    BY <2>1, <1>3
  <2>3. ASSUME NEW n \in Nat, n \in S PROVE n + 1 \in S
    <3>. SUFFICES ASSUME n + 1 <= Size PROVE g[n + 1] \in A
      OBVIOUS
    <3>1. n + 1 \in 1..Size /\ (n + 1) - 1 = n /\ n <= Size
      BY <1>1
    <3>2. g[n] \in A
      BY <3>1, <2>3
    <3>. QED
      BY <3>1, <3>2, <2>1, <1>4
  <2>4. Nat \subseteq S
    <3>. HIDE DEF S
    <3>. QED
      BY <2>2, <2>3, NatSetInduction
  <2>5. \A n \in 0..Size : g[n] \in A
    BY <2>4, <1>1
  <2>. QED
    BY <2>5, <1>9 DEF Unrolled
<1>. QED
  BY <1>2, <1>9, <1>10 DEF g, A

\* The positions of the first n elements.
Done(n) == 0..(n - 1)

\* After n iterations the elements kept are those at the positions that are
\* not among the first count occurrences, and removed counts the occurrences
\* met so far, up to count.
LEMMA RemovalFacts ==
  ASSUME OneContainer, NEW v \in Values, NEW count \in Int
  PROVE  /\ Removal(v, count).kept =
              List!At(List!Positions \ List!Occurrences(v, count))
         /\ Removal(v, count).removed =
              Cardinality(List!Occurrences(v, count))
<1>. DEFINE all == {p \in List!Positions : Active[p + 1] = v}
            occ == List!Occurrences(v, count)
            g == RemovalLoop(v, count)
            Met(n) == Cardinality(Done(n) \cap all)
            Good(n) ==
              /\ g[n].kept = List!At(Done(n) \ occ)
              /\ g[n].removed = Cardinality(Done(n) \cap occ)
              /\ count <= 0 => g[n].removed = Met(n)
              /\ count > 0 => g[n].removed = IF Met(n) < count THEN Met(n) ELSE count
            S == {n \in Nat : n <= Size => Good(n)}
<1>1. /\ Size \in Nat /\ Len(Active) = Size
      /\ \A k \in 1..Size : Active[k] \in Values
  BY ActiveType
<1>2. List!Positions = Done(Size)
  BY <1>1 DEF List!Positions, Done
<1>3. /\ Removal(v, count) = g[Size]
      /\ g = Unrolled(v, count, g)
      /\ g \in [0..Size -> [kept : Seq(Values), removed : Nat]]
  BY RemovalUnrolled
<1>4. occ = {p \in all : count > 0 => Cardinality(Below(all, p)) < count}
  <2>1. \A p : List!Cardinality({q \in all : q < p}) = Cardinality(Below(all, p))
    BY SameCardinality DEF Below
  <2>2. occ = {p \in all : count > 0 => List!Cardinality({q \in all : q < p}) < count}
    BY DEF List!Occurrences
  <2>. HIDE DEF all, occ
  <2>. QED
    BY <2>1, <2>2
<1>5. \A n \in 0..(Size - 1) :
        /\ Below(all, n) = Done(n) \cap all
        /\ n \in all <=> Active[n + 1] = v
  BY <1>1, <1>2 DEF Below, Done
<1>. HIDE DEF all, occ, g
<1>6. ASSUME NEW n \in Nat, NEW P
      PROVE  /\ IsFiniteSet(Done(n) \cap P) /\ Cardinality(Done(n) \cap P) \in Nat
             /\ IsFiniteSet(Done(n) \ P)
  <2>1. Done(n) \cap P \in SUBSET (0..(n - 1)) /\ Done(n) \ P \in SUBSET (0..(n - 1))
    BY DEF Done
  <2>. QED
    BY <2>1, RankExists
<1>7. ASSUME NEW n \in Nat
      PROVE  /\ Done(n + 1) = Done(n) \cup {n}
             /\ n \notin Done(n)
  BY DEF Done
<1>8. 0 \in S
  <2>1. Done(0) = {}
    BY DEF Done
  <2>2. Met(0) = 0 /\ Cardinality(Done(0) \cap occ) = 0
    <3>1. Done(0) \cap all = {} /\ Done(0) \cap occ = {}
      BY <2>1
    <3>. QED
      BY <3>1, FS_EmptySet
  <2>3. List!At(Done(0) \ occ) = <<>>
    <3>1. {} \in SUBSET (0..(Size - 1)) /\ Cardinality({}) = 0
      BY FS_EmptySet
    <3>2. List!At({}) \in [1..0 -> Values]
      BY <3>1, AtFacts
    <3>3. Done(0) \ occ = {}
      BY <2>1
    <3>. QED
      BY <3>2, <3>3
  <2>4. g[0] = [kept |-> <<>>, removed |-> 0]
    BY <1>1, <1>3 DEF Unrolled
  <2>. HIDE DEF Met
  <2>5. Good(0)
    BY <2>2, <2>3, <2>4
  <2>. QED
    BY <2>5
<1>9. ASSUME NEW n \in Nat, n \in S PROVE n + 1 \in S
  <2>. SUFFICES ASSUME n + 1 <= Size PROVE Good(n + 1)
    OBVIOUS
  <2>1. /\ n \in 0..(Size - 1) /\ n \in 0..Size /\ n + 1 \in 0..Size
        /\ n + 1 # 0 /\ (n + 1) - 1 = n /\ n <= Size
    BY <1>1
  <2>2. Good(n)
    BY <2>1, <1>9
  <2>. DEFINE k == g[n].kept
              r == g[n].removed
              here == Active[n + 1] = v /\ (count <= 0 \/ r < count)
  <2>3. g[n + 1] = Iteration(v, count, g[n], n + 1)
    <3>1. g[n + 1] = Unrolled(v, count, g)[n + 1]
      BY <1>3
    <3>. QED
      BY <3>1, <2>1 DEF Unrolled
  <2>4. IF here THEN g[n + 1].kept = k /\ g[n + 1].removed = r + 1
        ELSE g[n + 1].kept = Append(k, Active[n + 1]) /\ g[n + 1].removed = r
    BY <2>3 DEF Iteration
  <2>5. r \in Nat /\ Met(n) \in Nat /\ Met(n + 1) \in Nat
    <3>1. g[n] \in [kept : Seq(Values), removed : Nat]
      BY <2>1, <1>3
    <3>2. n + 1 \in Nat
      OBVIOUS
    <3>3. Met(n) \in Nat
      BY <1>6
    <3>4. Met(n + 1) \in Nat
      BY <3>2, <1>6
    <3>. QED
      BY <3>1, <3>3, <3>4
  <2>6. n \in occ <=> n \in all /\ (count > 0 => Met(n) < count)
    BY <2>1, <1>4, <1>5
  <2>7. n \in all <=> Active[n + 1] = v
    BY <2>1, <1>5
  <2>8. here <=> n \in occ
    <3>. HIDE DEF Met, r
    <3>1. count > 0 => (r < count <=> Met(n) < count)
      BY <2>2, <2>5 DEF r
    <3>2. count <= 0 <=> ~(count > 0)
      OBVIOUS
    <3>. QED
      BY <3>1, <3>2, <2>6, <2>7
  <2>9. Met(n + 1) = IF n \in all THEN Met(n) + 1 ELSE Met(n)
    <3>1. CASE n \in all
      <4>1. /\ Done(n + 1) \cap all = (Done(n) \cap all) \cup {n}
            /\ n \notin Done(n) \cap all
        BY <3>1, <1>7
      <4>. QED
        BY <3>1, <4>1, <1>6, FS_AddElement
    <3>2. CASE n \notin all
      <4>1. Done(n + 1) \cap all = Done(n) \cap all
        BY <3>2, <1>7
      <4>. QED
        BY <3>2, <4>1
    <3>. QED
      BY <3>1, <3>2
  <2>10. CASE n \in occ
    <3>1. Done(n + 1) \ occ = Done(n) \ occ
      BY <2>10, <1>7
    <3>2. Cardinality(Done(n + 1) \cap occ) = Cardinality(Done(n) \cap occ) + 1
      <4>1. /\ Done(n + 1) \cap occ = (Done(n) \cap occ) \cup {n}
            /\ n \notin Done(n) \cap occ
        BY <2>10, <1>7
      <4>. QED
        BY <4>1, <1>6, FS_AddElement
    <3>3. g[n + 1].kept = k /\ g[n + 1].removed = r + 1
      BY <2>4, <2>8, <2>10
    <3>4. n \in all /\ (count > 0 => Met(n) < count)
      BY <2>6, <2>10
    <3>5. g[n + 1].kept = List!At(Done(n + 1) \ occ)
      BY <3>1, <3>3, <2>2
    <3>6. g[n + 1].removed = Cardinality(Done(n + 1) \cap occ)
      BY <3>2, <3>3, <2>2
    <3>. HIDE DEF Met, r, k
    <3>7. count <= 0 => g[n + 1].removed = Met(n + 1)
      BY <3>3, <3>4, <2>2, <2>5, <2>9 DEF r
    <3>8. count > 0 => g[n + 1].removed = IF Met(n + 1) < count THEN Met(n + 1) ELSE count
      BY <3>3, <3>4, <2>2, <2>5, <2>9 DEF r
    <3>. QED
      BY <3>5, <3>6, <3>7, <3>8
  <2>11. CASE n \notin occ
    <3>1. Done(n + 1) \ occ = (Done(n) \ occ) \cup {n}
      BY <2>11, <1>7
    <3>2. Done(n + 1) \cap occ = Done(n) \cap occ
      BY <2>11, <1>7
    <3>3. g[n + 1].kept = Append(k, Active[n + 1]) /\ g[n + 1].removed = r
      BY <2>4, <2>8, <2>11
    <3>4. List!At((Done(n) \ occ) \cup {n}) = Append(List!At(Done(n) \ occ), Active[n + 1])
      <4>1. Done(n) \ occ \in SUBSET (0..(n - 1))
        BY DEF Done
      <4>. QED
        BY <4>1, <2>1, AtAppend
    <3>5. g[n + 1].kept = List!At(Done(n + 1) \ occ)
      BY <3>1, <3>3, <3>4, <2>2
    <3>6. g[n + 1].removed = Cardinality(Done(n + 1) \cap occ)
      BY <3>2, <3>3, <2>2
    <3>7. n \notin all \/ (count > 0 /\ ~(Met(n) < count))
      BY <2>6, <2>11
    <3>. HIDE DEF Met, r, k
    <3>8. count <= 0 => g[n + 1].removed = Met(n + 1)
      BY <3>3, <3>7, <2>2, <2>5, <2>9 DEF r
    <3>9. count > 0 => g[n + 1].removed = IF Met(n + 1) < count THEN Met(n + 1) ELSE count
      BY <3>3, <3>7, <2>2, <2>5, <2>9 DEF r
    <3>. QED
      BY <3>5, <3>6, <3>8, <3>9
  <2>. QED
    BY <2>10, <2>11
<1>10. Size \in S
  <2>. HIDE DEF S
  <2>. QED
    BY <1>1, <1>8, <1>9, NatSetInduction
<1>11. Good(Size)
  BY <1>1, <1>10
<1>12. occ \subseteq Done(Size)
  BY <1>2, <1>4 DEF all
<1>13. Done(Size) \cap occ = occ
  BY <1>12
<1>. QED
  BY <1>2, <1>3, <1>11, <1>13 DEF occ

LEMMA RemoveStep ==
  ASSUME OneContainer, NEW v \in Values, NEW count \in Indices, Remove(v, count)
  PROVE  OneContainer' /\ List!Remove(v, count)
<1>. DEFINE P == List!Positions \ List!Occurrences(v, count)
            s == List!At(P)
<1>1. Size \in Nat /\ Len(Active) = Size /\ count \in Int
  BY ActiveType, LinkedListAssumption
<1>2. /\ Removal(v, count).kept = s
      /\ Removal(v, count).removed = Cardinality(List!Occurrences(v, count))
  BY <1>1, RemovalFacts
<1>3. /\ Store(s)
      /\ res' = <<"Remove", v, count, List!Cardinality(List!Occurrences(v, count))>>
  BY <1>2, SameCardinality DEF Remove
<1>4. P \in SUBSET (0..(Size - 1))
  BY <1>1 DEF List!Positions
<1>5. Cardinality(P) \in Nat /\ s \in [1..Cardinality(P) -> Values]
  BY <1>4, AtFacts
<1>6. Cardinality(P) <= Size
  <2>1. 0 \in Int /\ Size - 1 \in Int
    BY <1>1
  <2>2. /\ IsFiniteSet(0..(Size - 1))
        /\ Cardinality(0..(Size - 1)) = IF 0 > Size - 1 THEN 0 ELSE (Size - 1) - 0 + 1
    BY <2>1, FS_Interval
  <2>3. Cardinality(P) <= Cardinality(0..(Size - 1))
    <3>. HIDE DEF P
    <3>. QED
      BY <2>2, <1>4, FS_Subset
  <2>4. Cardinality(0..(Size - 1)) = Size
    BY <2>2, <1>1
  <2>. QED
    BY <2>3, <2>4
<1>. HIDE DEF P, s
<1>7. s \in Seq(Values) /\ Len(s) = Cardinality(P)
  BY <1>5, SeqDef, LenProperties
<1>8. OneContainer' /\ Active' = s
  BY <1>3, <1>6, <1>7, StoreStep
<1>. QED
  BY <1>3, <1>8 DEF List!Remove, P, s

-----------------------------------------------------------------------------
\* Theorems

LEMMA InitStep ==
  ASSUME Init
  PROVE  OneContainer /\ List!Init
<1>1. <<>> \in Seq(Values) /\ Len(<<>>) = 0 /\ Threshold \in Nat
  BY LinkedListAssumption
<1>. QED
  BY <1>1 DEF Init, OneContainer, Active, List!Init

LEMMA NextStep ==
  ASSUME OneContainer, [Next]_vars
  PROVE  OneContainer' /\ [List!Next \/ HeadReadBeforeIt]_<<Active, res>>
<1>1. ASSUME NEW v \in Values, PushLeft(v) \/ PushRight(v)
      PROVE  OneContainer' /\ List!Next
  BY <1>1, PushLeftStep, PushRightStep DEF List!Next
<1>2. CASE PopLeft \/ PopRight
  BY <1>2, PopLeftStep, PopRightStep DEF List!Next
<1>3. ASSUME NEW i \in Indices, Index(i)
      PROVE  OneContainer' /\ (List!Next \/ HeadReadBeforeIt)
  BY <1>3, IndexStep DEF List!Next
<1>4. ASSUME NEW i \in Indices, NEW v \in Values, Set(i, v) \/ Remove(v, i)
      PROVE  OneContainer' /\ List!Next
  BY <1>4, SetStep, RemoveStep DEF List!Next
<1>5. ASSUME NEW i \in Indices, NEW j \in Indices, ListRange(i, j) \/ Trim(i, j)
      PROVE  OneContainer' /\ List!Next
  BY <1>5, RangeStep, TrimStep DEF List!Next
<1>6. ASSUME NEW i \in Indices, NEW v \in Values, NEW before \in BOOLEAN,
             Insert(i, v, before)
      PROVE  OneContainer' /\ List!Next
  BY <1>6, InsertStep DEF List!Next
<1>7. CASE Clear
  BY <1>7, ClearStep DEF List!Next
<1>8. CASE UNCHANGED vars
  BY <1>8 DEF vars, OneContainer, Active
<1>. QED
  BY <1>1, <1>2, <1>3, <1>4, <1>5, <1>6, <1>7, <1>8 DEF Next

\* The container not in use is empty and the vector is within its threshold,
\* whatever the sequence of operations.
THEOREM ContainersExclusive == Spec => []OneContainer
<1>1. Init => OneContainer
  BY InitStep
<1>2. OneContainer /\ [Next]_vars => OneContainer'
  BY NextStep
<1>. QED
  BY <1>1, <1>2, PTL DEF Spec

\* Every operation has the effect and the result the sequence of ListSpec
\* gives it, for every list, index, count and threshold, except that Index
\* returns the head for an index before it.
THEOREM ListImplemented == Spec => ListRefined
<1>1. Init => List!Init
  BY InitStep
<1>2. OneContainer /\ [Next]_vars => [List!Next \/ HeadReadBeforeIt]_<<Active, res>>
  BY NextStep
<1>. QED
  BY <1>1, <1>2, ContainersExclusive, PTL DEF Spec, ListRefined

=============================================================================
