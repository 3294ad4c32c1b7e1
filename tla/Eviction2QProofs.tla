-------------------------- MODULE Eviction2QProofs --------------------------
(***************************************************************************)
(* The queues of Eviction2Q agree with key_state_, the protected queue is  *)
(* in LRU order, and demotions and victims follow it, for every set of     *)
(* keys and every ratio.                                                   *)
(***************************************************************************)
EXTENDS Eviction2Q, SequenceTheorems, TLAPS

-----------------------------------------------------------------------------
\* Lemmas on the sequence operations the queues are built from.

\* RemoveAt drops one position and shifts the rest down by one.
LEMMA RemoveAtFacts ==
  ASSUME NEW S, NEW s \in Seq(S), NEW n \in 1..Len(s)
  PROVE  /\ RemoveAt(s, n) \in Seq(S)
         /\ Len(RemoveAt(s, n)) = Len(s) - 1
         /\ \A i \in 1..(Len(s) - 1) :
              RemoveAt(s, n)[i] = IF i < n THEN s[i] ELSE s[i + 1]
<1>. DEFINE a == SubSeq(s, 1, n - 1)
            b == SubSeq(s, n + 1, Len(s))
<1>1. Len(s) \in Nat /\ \A i \in 1..Len(s) : s[i] \in S
  BY LenProperties, ElementOfSeq
<1>2. /\ a \in Seq(S) /\ Len(a) = n - 1
      /\ \A i \in 1..(n - 1) : a[i] = s[i]
  <2>1. \A i \in 1..(n - 1) : s[i] \in S
    BY <1>1
  <2>2. 1 \in Int /\ n - 1 \in Int
    BY <1>1
  <2>. HIDE DEF a
  <2>3. /\ a \in Seq(S)
        /\ Len(a) = IF 1 <= n - 1 THEN (n - 1) - 1 + 1 ELSE 0
        /\ \A i \in 1..((n - 1) - 1 + 1) : a[i] = s[1 + i - 1]
    BY <2>1, <2>2, SubSeqProperties DEF a
  <2>. QED
    BY <2>3, <1>1
<1>3. /\ b \in Seq(S) /\ Len(b) = Len(s) - n
      /\ \A i \in 1..(Len(s) - n) : b[i] = s[n + i]
  <2>1. \A i \in (n + 1)..Len(s) : s[i] \in S
    BY <1>1
  <2>2. n + 1 \in Int /\ Len(s) \in Int
    BY <1>1
  <2>. HIDE DEF b
  <2>3. /\ b \in Seq(S)
        /\ Len(b) = IF n + 1 <= Len(s) THEN Len(s) - (n + 1) + 1 ELSE 0
        /\ \A i \in 1..(Len(s) - (n + 1) + 1) : b[i] = s[(n + 1) + i - 1]
    BY <2>1, <2>2, SubSeqProperties DEF b
  <2>. QED
    BY <2>3, <1>1
<1>4. RemoveAt(s, n) = a \o b
  BY DEF RemoveAt
<1>. HIDE DEF a, b
<1>5. /\ a \o b \in Seq(S)
      /\ Len(a \o b) = Len(a) + Len(b)
      /\ \A i \in 1..(Len(a) + Len(b)) :
           (a \o b)[i] = IF i <= Len(a) THEN a[i] ELSE b[i - Len(a)]
  BY <1>2, <1>3, ConcatProperties
<1>6. ASSUME NEW i \in 1..(Len(s) - 1)
      PROVE  (a \o b)[i] = IF i < n THEN s[i] ELSE s[i + 1]
  <2>1. (a \o b)[i] = IF i <= n - 1 THEN a[i] ELSE b[i - (n - 1)]
    BY <1>1, <1>2, <1>3, <1>5
  <2>2. CASE i < n
    BY <2>1, <2>2, <1>1, <1>2
  <2>3. CASE ~(i < n)
    <3>1. i - (n - 1) \in 1..(Len(s) - n)
      BY <2>3, <1>1
    <3>2. b[i - (n - 1)] = s[n + (i - (n - 1))]
      BY <3>1, <1>3
    <3>3. n + (i - (n - 1)) = i + 1
      BY <1>1
    <3>. QED
      BY <2>1, <2>3, <3>2, <3>3, <1>1
  <2>. QED
    BY <2>2, <2>3
<1>7. Len(a \o b) = Len(s) - 1
  BY <1>1, <1>2, <1>3, <1>5
<1>. QED
  BY <1>4, <1>5, <1>6, <1>7

\* In a sequence without duplicates RemoveFirst(s, k) removes k and nothing
\* else, introduces no duplicate, and keeps the order of the other elements.
LEMMA RemoveFirstFacts ==
  ASSUME NEW S, NEW s \in Seq(S), NEW k, NoDuplicates(s)
  PROVE  /\ RemoveFirst(s, k) \in Seq(S)
         /\ NoDuplicates(RemoveFirst(s, k))
         /\ ToSet(RemoveFirst(s, k)) = ToSet(s) \ {k}
         /\ \A x, y : Before(RemoveFirst(s, k), x, y)
                        <=> Before(s, x, y) /\ x # k /\ y # k
<1>0. Len(s) \in Nat /\ DOMAIN s = 1..Len(s)
  BY LenProperties
<1>1. CASE ~ \E i \in 1..Len(s) : s[i] = k
  <2>1. RemoveFirst(s, k) = s
    BY <1>1 DEF RemoveFirst
  <2>2. ToSet(s) = ToSet(s) \ {k}
    BY <1>0, <1>1 DEF ToSet
  <2>3. \A x, y : Before(s, x, y) => x # k /\ y # k
    BY <1>1 DEF Before
  <2>. QED
    BY <2>1, <2>2, <2>3
<1>2. ASSUME NEW n \in 1..Len(s), s[n] = k
      PROVE  /\ RemoveFirst(s, k) \in Seq(S)
             /\ NoDuplicates(RemoveFirst(s, k))
             /\ ToSet(RemoveFirst(s, k)) = ToSet(s) \ {k}
             /\ \A x, y : Before(RemoveFirst(s, k), x, y)
                            <=> Before(s, x, y) /\ x # k /\ y # k
  <2>. DEFINE r == RemoveAt(s, n)
              Up(i) == IF i < n THEN i ELSE i + 1      \* r's position in s
              Down(i) == IF i < n THEN i ELSE i - 1    \* s's position in r
  <2>1. {i \in 1..Len(s) : s[i] = k} = {n}
    BY <1>2 DEF NoDuplicates
  <2>2. Min({n}) = n
    BY DEF Min
  <2>3. SelectInSeq(s, LAMBDA v : v = k) = n
    BY <2>1, <2>2 DEF SelectInSeq
  <2>4. RemoveFirst(s, k) = r
    BY <2>3, <1>2 DEF RemoveFirst
  <2>5. /\ r \in Seq(S)
        /\ Len(r) = Len(s) - 1
        /\ DOMAIN r = 1..Len(r)
        /\ \A i \in 1..(Len(s) - 1) : r[i] = IF i < n THEN s[i] ELSE s[i + 1]
    BY RemoveAtFacts, LenProperties
  <2>. HIDE DEF r
  <2>6. \A i \in 1..Len(r) : Up(i) \in 1..Len(s) /\ Up(i) # n /\ r[i] = s[Up(i)]
    BY <1>0, <2>5
  <2>7. \A i \in 1..Len(s) : i # n => Down(i) \in 1..Len(r) /\ r[Down(i)] = s[i]
    <3>. SUFFICES ASSUME NEW i \in 1..Len(s), i # n
                  PROVE  Down(i) \in 1..Len(r) /\ r[Down(i)] = s[i]
      OBVIOUS
    <3>1. CASE i < n
      BY <3>1, <1>0, <2>5
    <3>2. CASE i > n
      <4>1. i - 1 \in 1..(Len(s) - 1) /\ ~(i - 1 < n) /\ (i - 1) + 1 = i
        BY <3>2, <1>0
      <4>. QED
        BY <3>2, <4>1, <1>0, <2>5
    <3>. QED
      BY <3>1, <3>2, <1>0
  <2>8. \A i, j \in 1..Len(r) : (Up(i) = Up(j) => i = j) /\ (i < j => Up(i) < Up(j))
    BY <1>0, <2>5
  <2>9. \A i, j \in 1..Len(s) : i # n /\ j # n /\ i < j => Down(i) < Down(j)
    BY <1>0
  <2>10. \A i \in 1..Len(s) : s[i] = k <=> i = n
    BY <1>2 DEF NoDuplicates
  <2>. HIDE DEF Up, Down
  <2>11. NoDuplicates(r)
    BY <2>6, <2>8 DEF NoDuplicates
  <2>12. ToSet(r) = ToSet(s) \ {k}
    <3>1. ToSet(r) \subseteq ToSet(s) \ {k}
      BY <1>0, <2>5, <2>6, <2>10 DEF ToSet
    <3>2. ToSet(s) \ {k} \subseteq ToSet(r)
      BY <1>0, <2>5, <2>7, <2>10 DEF ToSet
    <3>. QED
      BY <3>1, <3>2
  <2>13. ASSUME NEW x, NEW y
         PROVE  Before(r, x, y) <=> Before(s, x, y) /\ x # k /\ y # k
    <3>1. Before(r, x, y) => Before(s, x, y) /\ x # k /\ y # k
      BY <2>6, <2>8, <2>10 DEF Before
    <3>2. ASSUME Before(s, x, y), x # k, y # k
          PROVE  Before(r, x, y)
      <4>1. PICK i, j \in 1..Len(s) : i < j /\ s[i] = x /\ s[j] = y
        BY <3>2 DEF Before
      <4>2. i # n /\ j # n
        BY <3>2, <4>1, <2>10
      <4>. QED
        BY <4>1, <4>2, <2>7, <2>9 DEF Before
    <3>. QED
      BY <3>1, <3>2
  <2>. QED
    BY <2>4, <2>5, <2>11, <2>12, <2>13
<1>. QED
  BY <1>1, <1>2

\* Append adds the new element behind all others.
LEMMA AppendFacts ==
  ASSUME NEW S, NEW s \in Seq(S), NEW e \in S
  PROVE  /\ Append(s, e) \in Seq(S)
         /\ ToSet(Append(s, e)) = ToSet(s) \cup {e}
         /\ NoDuplicates(s) /\ e \notin ToSet(s) => NoDuplicates(Append(s, e))
         /\ \A x, y : Before(Append(s, e), x, y)
                        <=> Before(s, x, y) \/ (x \in ToSet(s) /\ y = e)
<1>. DEFINE t == Append(s, e)
<1>1. Len(s) \in Nat /\ DOMAIN s = 1..Len(s)
  BY LenProperties
<1>2. /\ t \in Seq(S) /\ Len(t) = Len(s) + 1
      /\ \A i \in 1..Len(s) : t[i] = s[i]
      /\ t[Len(s) + 1] = e
  BY AppendProperties
<1>3. DOMAIN t = 1..Len(t)
  BY <1>2, LenProperties
<1>. HIDE DEF t
<1>4. 1..Len(t) = 1..Len(s) \cup {Len(s) + 1}
  BY <1>1, <1>2
<1>5. ToSet(t) = ToSet(s) \cup {e}
  BY <1>1, <1>2, <1>3, <1>4 DEF ToSet
<1>6. ASSUME NoDuplicates(s), e \notin ToSet(s)
      PROVE  NoDuplicates(t)
  BY <1>1, <1>2, <1>4, <1>6 DEF NoDuplicates, ToSet
<1>7. ASSUME NEW x, NEW y
      PROVE  Before(t, x, y) <=> Before(s, x, y) \/ (x \in ToSet(s) /\ y = e)
  <2>1. Before(t, x, y) => Before(s, x, y) \/ (x \in ToSet(s) /\ y = e)
    <3>. SUFFICES ASSUME NEW i \in 1..Len(t), NEW j \in 1..Len(t),
                         i < j, t[i] = x, t[j] = y
                  PROVE  Before(s, x, y) \/ (x \in ToSet(s) /\ y = e)
      BY DEF Before
    <3>1. i \in 1..Len(s) /\ t[i] = s[i]
      BY <1>1, <1>2
    <3>2. CASE j = Len(s) + 1
      BY <3>1, <3>2, <1>1, <1>2 DEF ToSet
    <3>3. CASE j \in 1..Len(s)
      BY <3>1, <3>3, <1>2 DEF Before
    <3>. QED
      BY <3>2, <3>3, <1>4
  <2>2. Before(s, x, y) => Before(t, x, y)
    BY <1>1, <1>2, <1>4 DEF Before
  <2>3. x \in ToSet(s) /\ y = e => Before(t, x, y)
    <3>. SUFFICES ASSUME NEW i \in 1..Len(s), s[i] = x, y = e
                  PROVE  Before(t, x, y)
      BY <1>1 DEF ToSet
    <3>1. i < Len(s) + 1 /\ i \in 1..Len(t) /\ Len(s) + 1 \in 1..Len(t)
      BY <1>1, <1>2
    <3>. QED
      BY <3>1, <1>2 DEF Before
  <2>. QED
    BY <2>1, <2>2, <2>3
<1>. QED
  BY <1>2, <1>5, <1>6, <1>7 DEF t

\* Cutting a sequence in two at d.
LEMMA SplitFacts ==
  ASSUME NEW S, NEW s \in Seq(S), NEW d \in 0..Len(s), NoDuplicates(s)
  PROVE  LET a == SubSeq(s, 1, d)
             b == SubSeq(s, d + 1, Len(s))
         IN  /\ a \in Seq(S) /\ NoDuplicates(a)
             /\ b \in Seq(S) /\ NoDuplicates(b)
             /\ ToSet(a) \cup ToSet(b) = ToSet(s)
             /\ ToSet(a) \cap ToSet(b) = {}
             /\ \A x, y : Before(b, x, y) => Before(s, x, y)
             /\ \A x, y : x \in ToSet(a) /\ y \in ToSet(b) => Before(s, x, y)
<1>. DEFINE a == SubSeq(s, 1, d)
            b == SubSeq(s, d + 1, Len(s))
<1>1. /\ Len(s) \in Nat /\ DOMAIN s = 1..Len(s)
      /\ \A i \in 1..Len(s) : s[i] \in S
  BY LenProperties, ElementOfSeq
<1>2. /\ a \in Seq(S) /\ Len(a) = d /\ DOMAIN a = 1..d
      /\ \A i \in 1..d : i \in 1..Len(s) /\ a[i] = s[i]
  <2>1. 1 \in Int /\ d \in Int /\ \A i \in 1..d : i \in 1..Len(s) /\ s[i] \in S
    BY <1>1
  <2>. HIDE DEF a
  <2>2. /\ a \in Seq(S)
        /\ Len(a) = IF 1 <= d THEN d - 1 + 1 ELSE 0
        /\ \A i \in 1..(d - 1 + 1) : a[i] = s[1 + i - 1]
    BY <2>1, SubSeqProperties DEF a
  <2>3. Len(a) = d
    BY <2>2, <1>1
  <2>4. DOMAIN a = 1..d
    BY <2>2, <2>3, LenProperties
  <2>. QED
    BY <2>1, <2>2, <2>3, <2>4
<1>3. /\ b \in Seq(S) /\ Len(b) = Len(s) - d /\ DOMAIN b = 1..(Len(s) - d)
      /\ \A i \in 1..(Len(s) - d) : d + i \in 1..Len(s) /\ b[i] = s[d + i]
  <2>1. /\ d + 1 \in Int /\ Len(s) \in Int
        /\ \A i \in (d + 1)..Len(s) : s[i] \in S
    BY <1>1
  <2>. HIDE DEF b
  <2>2. /\ b \in Seq(S)
        /\ Len(b) = IF d + 1 <= Len(s) THEN Len(s) - (d + 1) + 1 ELSE 0
        /\ \A i \in 1..(Len(s) - (d + 1) + 1) : b[i] = s[(d + 1) + i - 1]
    BY <2>1, SubSeqProperties DEF b
  <2>3. Len(b) = Len(s) - d
    <3>1. \A n \in Nat : \A m \in 0..n :
            (IF m + 1 <= n THEN n - (m + 1) + 1 ELSE 0) = n - m
      OBVIOUS
    <3>. QED
      BY <3>1, <2>2, <1>1
  <2>4. DOMAIN b = 1..(Len(s) - d)
    BY <2>2, <2>3, LenProperties
  <2>5. \A i \in 1..(Len(s) - d) : d + i \in 1..Len(s) /\ (d + 1) + i - 1 = d + i
    BY <1>1
  <2>6. \A i \in 1..(Len(s) - d) : i \in 1..(Len(s) - (d + 1) + 1)
    BY <1>1
  <2>. QED
    BY <2>2, <2>3, <2>4, <2>5, <2>6
<1>. HIDE DEF a, b
<1>4. NoDuplicates(a)
  BY <1>2 DEF NoDuplicates
<1>5. NoDuplicates(b)
  <2>. SUFFICES ASSUME NEW i \in 1..Len(b), NEW j \in 1..Len(b), b[i] = b[j]
                PROVE  i = j
    BY DEF NoDuplicates
  <2>1. d + i = d + j
    BY <1>3 DEF NoDuplicates
  <2>. QED
    BY <2>1, <1>1, <1>3
<1>6. ASSUME NEW x \in ToSet(s)
      PROVE  x \in ToSet(a) \/ x \in ToSet(b)
  <2>1. PICK i \in 1..Len(s) : x = s[i]
    BY <1>1, <1>6 DEF ToSet
  <2>2. CASE i <= d
    BY <2>1, <2>2, <1>1, <1>2 DEF ToSet
  <2>3. CASE ~(i <= d)
    <3>1. i - d \in 1..(Len(s) - d) /\ d + (i - d) = i
      BY <2>3, <1>1
    <3>. QED
      BY <2>1, <3>1, <1>3 DEF ToSet
  <2>. QED
    BY <2>2, <2>3
<1>7. ToSet(a) \subseteq ToSet(s) /\ ToSet(b) \subseteq ToSet(s)
  <2>1. ToSet(a) \subseteq ToSet(s)
    BY <1>1, <1>2 DEF ToSet
  <2>2. ToSet(b) \subseteq ToSet(s)
    BY <1>1, <1>3 DEF ToSet
  <2>. QED
    BY <2>1, <2>2
<1>8. ASSUME NEW x \in ToSet(a), NEW y \in ToSet(b)
      PROVE  Before(s, x, y) /\ x # y
  <2>1. PICK i \in 1..d : x = a[i]
    BY <1>2 DEF ToSet
  <2>2. PICK j \in 1..(Len(s) - d) : y = b[j]
    BY <1>3 DEF ToSet
  <2>3. /\ i \in 1..Len(s) /\ s[i] = x
        /\ d + j \in 1..Len(s) /\ s[d + j] = y
    BY <2>1, <2>2, <1>2, <1>3
  <2>4. i < d + j
    BY <1>1
  <2>. QED
    BY <2>3, <2>4 DEF Before, NoDuplicates
<1>9. ASSUME NEW x, NEW y, Before(b, x, y)
      PROVE  Before(s, x, y)
  <2>1. PICK i, j \in 1..(Len(s) - d) : i < j /\ b[i] = x /\ b[j] = y
    BY <1>3, <1>9 DEF Before
  <2>2. d + i < d + j
    BY <2>1, <1>1
  <2>. QED
    BY <2>1, <2>2, <1>3 DEF Before
<1>. QED
  BY <1>2, <1>3, <1>4, <1>5, <1>6, <1>7, <1>8, <1>9 DEF a, b

\* Two disjoint sequences without duplicates have a concatenation without.
LEMMA ConcatFacts ==
  ASSUME NEW S, NEW s \in Seq(S), NEW t \in Seq(S),
         NoDuplicates(s), NoDuplicates(t), ToSet(s) \cap ToSet(t) = {}
  PROVE  /\ s \o t \in Seq(S)
         /\ NoDuplicates(s \o t)
         /\ ToSet(s \o t) = ToSet(s) \cup ToSet(t)
<1>. DEFINE c == s \o t
<1>1. /\ Len(s) \in Nat /\ DOMAIN s = 1..Len(s)
      /\ Len(t) \in Nat /\ DOMAIN t = 1..Len(t)
  BY LenProperties
<1>2. /\ c \in Seq(S) /\ Len(c) = Len(s) + Len(t)
      /\ \A i \in 1..(Len(s) + Len(t)) :
           c[i] = IF i <= Len(s) THEN s[i] ELSE t[i - Len(s)]
  BY ConcatProperties
<1>3. DOMAIN c = 1..Len(c)
  BY <1>2, LenProperties
<1>. HIDE DEF c
<1>4. \A i \in 1..Len(s) : i \in 1..Len(c) /\ c[i] = s[i]
  BY <1>1, <1>2
<1>5. \A i \in 1..Len(t) : Len(s) + i \in 1..Len(c) /\ c[Len(s) + i] = t[i]
  <2>. SUFFICES ASSUME NEW i \in 1..Len(t)
                PROVE  Len(s) + i \in 1..Len(c) /\ c[Len(s) + i] = t[i]
    OBVIOUS
  <2>1. /\ Len(s) + i \in 1..(Len(s) + Len(t))
        /\ ~(Len(s) + i <= Len(s)) /\ (Len(s) + i) - Len(s) = i
    BY <1>1
  <2>. QED
    BY <2>1, <1>2
<1>6. \A i \in 1..Len(c) :
        i \in 1..Len(s) \/ \E j \in 1..Len(t) : i = Len(s) + j
  <2>. SUFFICES ASSUME NEW i \in 1..Len(c), ~(i <= Len(s))
                PROVE  \E j \in 1..Len(t) : i = Len(s) + j
    BY <1>1, <1>2
  <2>1. i - Len(s) \in 1..Len(t) /\ i = Len(s) + (i - Len(s))
    BY <1>1, <1>2
  <2>. QED
    BY <2>1
<1>7. ToSet(c) = ToSet(s) \cup ToSet(t)
  <2>1. ToSet(c) \subseteq ToSet(s) \cup ToSet(t)
    <3>. SUFFICES ASSUME NEW i \in 1..Len(c)
                  PROVE  c[i] \in ToSet(s) \/ c[i] \in ToSet(t)
      BY <1>3 DEF ToSet
    <3>1. CASE i \in 1..Len(s)
      BY <3>1, <1>1, <1>4 DEF ToSet
    <3>2. ASSUME NEW j \in 1..Len(t), i = Len(s) + j
          PROVE  c[i] \in ToSet(t)
      BY <3>2, <1>1, <1>5 DEF ToSet
    <3>. QED
      BY <3>1, <3>2, <1>6
  <2>2. ToSet(s) \subseteq ToSet(c)
    BY <1>1, <1>3, <1>4 DEF ToSet
  <2>3. ToSet(t) \subseteq ToSet(c)
    BY <1>1, <1>3, <1>5 DEF ToSet
  <2>. QED
    BY <2>1, <2>2, <2>3
<1>8. NoDuplicates(c)
  <2>. SUFFICES ASSUME NEW i \in 1..Len(c), NEW j \in 1..Len(c), c[i] = c[j]
                PROVE  i = j
    BY DEF NoDuplicates
  <2>1. CASE i \in 1..Len(s) /\ j \in 1..Len(s)
    BY <2>1, <1>4 DEF NoDuplicates
  <2>2. ASSUME NEW m \in 1..Len(t), NEW n \in 1..Len(t),
               i = Len(s) + m, j = Len(s) + n
        PROVE  i = j
    BY <2>2, <1>5 DEF NoDuplicates
  <2>3. ASSUME NEW m \in 1..Len(t), NEW n \in 1..Len(s),
               c[Len(s) + m] = c[n]
        PROVE  FALSE
    BY <2>3, <1>1, <1>4, <1>5 DEF ToSet
  <2>. QED
    BY <2>1, <2>2, <2>3, <1>6
<1>. QED
  BY <1>2, <1>7, <1>8 DEF c

\* What GetVictim takes and leaves of a queue.
LEMMA TailFacts ==
  ASSUME NEW S, NEW s \in Seq(S), s # <<>>, NoDuplicates(s)
  PROVE  /\ Head(s) \in ToSet(s)
         /\ Tail(s) \in Seq(S)
         /\ NoDuplicates(Tail(s))
         /\ ToSet(Tail(s)) = ToSet(s) \ {Head(s)}
         /\ \A x, y : Before(Tail(s), x, y) => Before(s, x, y)
         /\ \A y \in ToSet(Tail(s)) : Before(s, Head(s), y)
<1>1. /\ Len(s) \in Nat /\ DOMAIN s = 1..Len(s)
      /\ Len(s) \in Nat \ {0}
  BY LenProperties, EmptySeq
<1>2. 1 \in 0..Len(s) /\ 1 \in 1..Len(s)
  BY <1>1
<1>. DEFINE a == SubSeq(s, 1, 1)
            b == SubSeq(s, 1 + 1, Len(s))
<1>3. /\ b \in Seq(S) /\ NoDuplicates(b)
      /\ ToSet(a) \cup ToSet(b) = ToSet(s)
      /\ ToSet(a) \cap ToSet(b) = {}
      /\ \A x, y : Before(b, x, y) => Before(s, x, y)
      /\ \A x, y : x \in ToSet(a) /\ y \in ToSet(b) => Before(s, x, y)
  BY <1>2, SplitFacts
<1>4. Tail(s) = b
  BY TailIsSubSeq
<1>5. Head(s) = s[1]
  BY <1>1
<1>6. ToSet(a) = {s[1]}
  <2>1. s[1] \in S
    BY <1>2, ElementOfSeq
  <2>2. /\ a \in Seq(S) /\ Len(a) = 1 /\ a[1] = s[1]
    BY <2>1, <1>1
  <2>. HIDE DEF a
  <2>3. DOMAIN a = {1}
    BY <2>2, LenProperties
  <2>. QED
    BY <2>2, <2>3 DEF ToSet
<1>. QED
  BY <1>3, <1>4, <1>5, <1>6

\* The share of the protected queue is a natural number.
LEMMA MaxProtectedNat == \A total \in Nat : MaxProtected(total) \in Nat
<1>. TAKE total \in Nat
<1>1. total * ProtNum \in Nat
  BY RatioAssumption
<1>2. \A m \in Nat, n \in Nat \ {0} : m \div n \in Nat
  OBVIOUS
<1>. QED
  BY <1>1, <1>2, RatioAssumption DEF MaxProtected

\* The share of protected_queue_ is below one: it is never all of the keys.
LEMMA MaxProtectedBelow ==
  \A total \in Nat \ {0} : MaxProtected(total) < total
<1>. TAKE total \in Nat \ {0}
<1>. DEFINE x == total * ProtNum
<1>1. x \in Nat /\ total * ProtDen \in Nat /\ x < total * ProtDen
  BY RatioAssumption
<1>2. x < ProtDen * total
  BY <1>1, RatioAssumption
<1>. HIDE DEF x
<1>3. \A m \in Nat, n \in Nat \ {0} : m \div n \in Nat /\ n * (m \div n) <= m
  OBVIOUS
<1>4. x \div ProtDen \in Nat /\ ProtDen * (x \div ProtDen) <= x
  BY <1>1, <1>3, RatioAssumption
<1>. DEFINE y == x \div ProtDen
<1>5. MaxProtected(total) = y
  BY DEF MaxProtected, x
<1>. HIDE DEF y
<1>6. ProtDen * y < ProtDen * total
  BY <1>1, <1>2, <1>4, RatioAssumption DEF y
<1>7. \A m, n \in Nat : m >= n => ProtDen * m >= ProtDen * n
  BY RatioAssumption
<1>. QED
  BY <1>4, <1>5, <1>6, <1>7, RatioAssumption DEF y

-----------------------------------------------------------------------------
\* Each action preserves the inductive invariant.

LEMMA InitInv == Init => IInv
<1>. SUFFICES ASSUME Init PROVE IInv
  OBVIOUS
<1>1. /\ q.prob = <<>> /\ q.prot = <<>> /\ recency = <<>>
      /\ q.state = [k \in {} |-> Probationary]
  BY DEF Init, EmptyQ
<1>2. <<>> \in Seq(Keys) /\ Len(<<>>) = 0 /\ ToSet(<<>>) = {}
  BY DEF ToSet
<1>3. Tracked(q) = {}
  BY <1>1 DEF Tracked
<1>4. TypeOK
  BY <1>1, <1>2, <1>3 DEF TypeOK
<1>5. NoDuplicates(<<>>) /\ \A x, y : ~ Before(<<>>, x, y)
  BY <1>2 DEF NoDuplicates, Before
<1>6. QueuesMatchState
  BY <1>1, <1>2, <1>3, <1>5 DEF QueuesMatchState
<1>7. RecencyTracks
  BY <1>1, <1>2, <1>3, <1>5 DEF RecencyTracks
<1>8. ProtectedInLRUOrder
  BY <1>1, <1>5 DEF ProtectedInLRUOrder
<1>. QED
  BY <1>4, <1>6, <1>7, <1>8 DEF IInv

\* RecordAccess keeps the history exact: the accessed key becomes its last.
LEMMA RecencyAfterAccess ==
  ASSUME IInv, NEW k \in Keys, recency' = Append(RemoveFirst(recency, k), k)
  PROVE  /\ recency' \in Seq(Keys)
         /\ NoDuplicates(recency')
         /\ ToSet(recency') = Tracked(q) \cup {k}
         /\ \A x, y : x # k /\ y # k => (LessRecent(x, y) => LessRecent(x, y)')
         /\ \A x \in Tracked(q) \ {k} : LessRecent(x, k)'
<1>. DEFINE r == RemoveFirst(recency, k)
<1>1. /\ recency \in Seq(Keys) /\ NoDuplicates(recency)
      /\ ToSet(recency) = Tracked(q)
  BY DEF IInv, TypeOK, RecencyTracks
<1>2. /\ r \in Seq(Keys) /\ NoDuplicates(r)
      /\ ToSet(r) = ToSet(recency) \ {k}
      /\ \A x, y : Before(r, x, y) <=> Before(recency, x, y) /\ x # k /\ y # k
  BY <1>1, RemoveFirstFacts
<1>. HIDE DEF r
<1>3. /\ Append(r, k) \in Seq(Keys)
      /\ ToSet(Append(r, k)) = ToSet(r) \cup {k}
      /\ NoDuplicates(Append(r, k))
      /\ \A x, y : Before(Append(r, k), x, y)
                     <=> Before(r, x, y) \/ (x \in ToSet(r) /\ y = k)
  <2>1. k \notin ToSet(r)
    BY <1>2
  <2>. QED
    BY <1>2, <2>1, AppendFacts
<1>4. recency' = Append(r, k)
  BY DEF r
<1>. QED
  BY <1>1, <1>2, <1>3, <1>4 DEF LessRecent

LEMMA EnteredInv ==
  ASSUME IInv, NEW k \in Keys, RecordAccess(k), k \notin Tracked(q)
  PROVE  IInv'
<1>1. q' = Entered(q, k) /\ recency' = Append(RemoveFirst(recency, k), k)
  BY DEF RecordAccess, Accessed
<1>2. /\ q'.prob = Append(q.prob, k) /\ q'.prot = q.prot
      /\ q'.state = [j \in Tracked(q) \cup {k} |->
                       IF j = k THEN Probationary ELSE q.state[j]]
  BY <1>1 DEF Entered
<1>3. Tracked(q') = Tracked(q) \cup {k}
  BY <1>2 DEF Tracked
<1>4. /\ recency' \in Seq(Keys) /\ NoDuplicates(recency')
      /\ ToSet(recency') = Tracked(q) \cup {k}
      /\ \A x, y : x # k /\ y # k => (LessRecent(x, y) => LessRecent(x, y)')
  BY <1>1, RecencyAfterAccess
<1>5. /\ q.prob \in Seq(Keys) /\ NoDuplicates(q.prob) /\ k \notin ToSet(q.prob)
      /\ q.prot \in Seq(Keys) /\ k \notin ToSet(q.prot)
  BY DEF IInv, TypeOK, QueuesMatchState
<1>6. /\ Append(q.prob, k) \in Seq(Keys) /\ NoDuplicates(Append(q.prob, k))
      /\ ToSet(Append(q.prob, k)) = ToSet(q.prob) \cup {k}
  BY <1>5, AppendFacts
<1>7. TypeOK'
  BY <1>2, <1>3, <1>4, <1>5, <1>6 DEF IInv, TypeOK, QState
<1>8. QueuesMatchState'
  <2>1. ToSet(q'.prob) = {j \in Tracked(q') : q'.state[j] = Probationary}
    BY <1>2, <1>3, <1>6 DEF IInv, QueuesMatchState
  <2>2. ToSet(q'.prot) = {j \in Tracked(q') : q'.state[j] = Protected}
    BY <1>2, <1>3 DEF IInv, QueuesMatchState, Probationary, Protected
  <2>. QED
    BY <2>1, <2>2, <1>2, <1>6 DEF IInv, QueuesMatchState
<1>9. RecencyTracks'
  BY <1>3, <1>4 DEF RecencyTracks
<1>10. ProtectedInLRUOrder'
  <2>1. \A x, y : Before(q.prot, x, y) => x # k /\ y # k
    <3>1. DOMAIN q.prot = 1..Len(q.prot)
      BY <1>5, LenProperties
    <3>. QED
      BY <3>1, <1>5 DEF Before, ToSet
  <2>. QED
    BY <2>1, <1>2, <1>4 DEF IInv, ProtectedInLRUOrder
<1>. QED
  BY <1>7, <1>8, <1>9, <1>10 DEF IInv

LEMMA TouchedInv ==
  ASSUME IInv, NEW k \in Keys, RecordAccess(k), k \in Tracked(q),
         q.state[k] # Probationary
  PROVE  IInv'
<1>. DEFINE p == RemoveFirst(q.prot, k)
<1>1. q' = Touched(q, k) /\ recency' = Append(RemoveFirst(recency, k), k)
  BY DEF RecordAccess, Accessed
<1>2. q'.prob = q.prob /\ q'.prot = Append(p, k) /\ q'.state = q.state
  BY <1>1 DEF Touched
<1>3. Tracked(q') = Tracked(q)
  BY <1>2 DEF Tracked
<1>4. /\ recency' \in Seq(Keys) /\ NoDuplicates(recency')
      /\ ToSet(recency') = Tracked(q) \cup {k}
      /\ \A x, y : x # k /\ y # k => (LessRecent(x, y) => LessRecent(x, y)')
      /\ \A x \in Tracked(q) \ {k} : LessRecent(x, k)'
  BY <1>1, RecencyAfterAccess
<1>5. /\ q.prot \in Seq(Keys) /\ NoDuplicates(q.prot) /\ k \in ToSet(q.prot)
      /\ ToSet(q.prot) \subseteq Tracked(q)
  BY DEF IInv, TypeOK, QueuesMatchState, QState
<1>6. /\ p \in Seq(Keys) /\ NoDuplicates(p) /\ ToSet(p) = ToSet(q.prot) \ {k}
      /\ \A x, y : Before(p, x, y) <=> Before(q.prot, x, y) /\ x # k /\ y # k
  BY <1>5, RemoveFirstFacts
<1>. HIDE DEF p
<1>7. /\ Append(p, k) \in Seq(Keys) /\ NoDuplicates(Append(p, k))
      /\ ToSet(Append(p, k)) = ToSet(q.prot)
      /\ \A x, y : Before(Append(p, k), x, y)
                     <=> Before(p, x, y) \/ (x \in ToSet(p) /\ y = k)
  <2>1. k \notin ToSet(p)
    BY <1>6
  <2>2. /\ Append(p, k) \in Seq(Keys) /\ NoDuplicates(Append(p, k))
        /\ ToSet(Append(p, k)) = ToSet(p) \cup {k}
        /\ \A x, y : Before(Append(p, k), x, y)
                       <=> Before(p, x, y) \/ (x \in ToSet(p) /\ y = k)
    BY <2>1, <1>6, AppendFacts
  <2>3. ToSet(p) \cup {k} = ToSet(q.prot)
    BY <1>5, <1>6
  <2>. QED
    BY <2>2, <2>3
<1>8. TypeOK'
  BY <1>2, <1>3, <1>4, <1>7 DEF IInv, TypeOK
<1>9. QueuesMatchState'
  BY <1>2, <1>3, <1>7 DEF IInv, QueuesMatchState
<1>10. RecencyTracks'
  BY <1>3, <1>4 DEF RecencyTracks
<1>11. ProtectedInLRUOrder'
  <2>. SUFFICES ASSUME NEW x \in Keys, NEW y \in Keys, Before(Append(p, k), x, y)
                PROVE  LessRecent(x, y)'
    BY <1>2 DEF ProtectedInLRUOrder
  <2>1. CASE Before(p, x, y)
    BY <2>1, <1>4, <1>6 DEF IInv, ProtectedInLRUOrder
  <2>2. CASE x \in ToSet(p) /\ y = k
    BY <2>2, <1>4, <1>5, <1>6
  <2>. QED
    BY <2>1, <2>2, <1>7
<1>. QED
  BY <1>8, <1>9, <1>10, <1>11 DEF IInv

\* The two parts a promotion of k cuts protected_queue_ into: the keys that
\* are demoted and the keys that stay.
DemotedBy(k) == DemotedCount(RemoveFirst(q.prob, k), q.prot)
Demoted(k) == SubSeq(q.prot, 1, DemotedBy(k))
Staying(k) == SubSeq(q.prot, DemotedBy(k) + 1, Len(q.prot))

\* What a promotion does to the queues: they keep their elements, each once,
\* and whatever is demoted stands before everything that stays.
LEMMA PromotionFacts ==
  ASSUME IInv, NEW k \in Keys, RecordAccess(k), k \in Tracked(q),
         q.state[k] = Probationary
  PROVE  /\ recency' = Append(RemoveFirst(recency, k), k)
         /\ Tracked(q') = Tracked(q)
         /\ q'.prob = RemoveFirst(q.prob, k) \o Demoted(k)
         /\ q'.prot = Append(Staying(k), k)
         /\ q'.state = [j \in Tracked(q) |->
                          IF j = k THEN Protected
                          ELSE IF j \in ToSet(Demoted(k)) THEN Probationary
                          ELSE q.state[j]]
         /\ q'.prob \in Seq(Keys) /\ NoDuplicates(q'.prob)
         /\ ToSet(q'.prob) = (ToSet(q.prob) \ {k}) \cup ToSet(Demoted(k))
         /\ q'.prot \in Seq(Keys) /\ NoDuplicates(q'.prot)
         /\ ToSet(q'.prot) = ToSet(Staying(k)) \cup {k}
         /\ ToSet(Demoted(k)) \cup ToSet(Staying(k)) = ToSet(q.prot)
         /\ ToSet(Demoted(k)) \cap ToSet(Staying(k)) = {}
         /\ \A x, y : Before(q'.prot, x, y)
                       => \/ Before(q.prot, x, y)
                          \/ x \in ToSet(Staying(k)) /\ y = k
         /\ \A x \in ToSet(Demoted(k)), y \in ToSet(Staying(k)) :
              Before(q.prot, x, y)
<1>. DEFINE prob == RemoveFirst(q.prob, k)
            d    == DemotedBy(k)
            a    == Demoted(k)
            b    == Staying(k)
<1>1. q' = Promoted(q, k) /\ recency' = Append(RemoveFirst(recency, k), k)
  BY DEF RecordAccess, Accessed
<1>2. /\ q'.prob = prob \o a /\ q'.prot = Append(b, k)
      /\ q'.state = [j \in Tracked(q) |->
                       IF j = k THEN Protected
                       ELSE IF j \in ToSet(a) THEN Probationary
                       ELSE q.state[j]]
  BY <1>1 DEF Promoted, Demoted, Staying, DemotedBy
<1>3. Tracked(q') = Tracked(q)
  BY <1>2 DEF Tracked
<1>4. /\ q.prob \in Seq(Keys) /\ NoDuplicates(q.prob) /\ k \in ToSet(q.prob)
      /\ q.prot \in Seq(Keys) /\ NoDuplicates(q.prot) /\ k \notin ToSet(q.prot)
      /\ ToSet(q.prob) \cap ToSet(q.prot) = {}
  BY DEF IInv, TypeOK, QueuesMatchState, Probationary, Protected
<1>5. /\ prob \in Seq(Keys) /\ NoDuplicates(prob)
      /\ ToSet(prob) = ToSet(q.prob) \ {k}
  BY <1>4, RemoveFirstFacts
<1>6. d \in 0..Len(q.prot)
  <2>1. Len(prob) \in Nat /\ Len(q.prot) \in Nat
    BY <1>4, <1>5, LenProperties
  <2>2. MaxProtected(Len(prob) + Len(q.prot)) \in Nat
    <3>. HIDE DEF prob
    <3>1. Len(prob) + Len(q.prot) \in Nat
      BY <2>1
    <3>. QED
      BY <3>1, MaxProtectedNat
  <2>3. d = DemotedCount(prob, q.prot)
    BY DEF DemotedBy
  <2>. HIDE DEF prob, d
  <2>. QED
    BY <2>1, <2>2, <2>3 DEF DemotedCount
<1>. HIDE DEF prob
<1>7. /\ a \in Seq(Keys) /\ NoDuplicates(a)
      /\ b \in Seq(Keys) /\ NoDuplicates(b)
      /\ ToSet(a) \cup ToSet(b) = ToSet(q.prot)
      /\ ToSet(a) \cap ToSet(b) = {}
      /\ \A x, y : Before(b, x, y) => Before(q.prot, x, y)
      /\ \A x, y : x \in ToSet(a) /\ y \in ToSet(b) => Before(q.prot, x, y)
  <2>. HIDE DEF d
  <2>1. a = SubSeq(q.prot, 1, d) /\ b = SubSeq(q.prot, d + 1, Len(q.prot))
    BY DEF Demoted, Staying, d
  <2>. QED
    BY <2>1, <1>4, <1>6, SplitFacts
<1>. HIDE DEF a, b
<1>8. /\ prob \o a \in Seq(Keys) /\ NoDuplicates(prob \o a)
      /\ ToSet(prob \o a) = ToSet(prob) \cup ToSet(a)
  <2>1. ToSet(prob) \cap ToSet(a) = {}
    BY <1>4, <1>5, <1>7
  <2>. QED
    BY <2>1, <1>5, <1>7, ConcatFacts
<1>9. /\ Append(b, k) \in Seq(Keys) /\ NoDuplicates(Append(b, k))
       /\ ToSet(Append(b, k)) = ToSet(b) \cup {k}
       /\ \A x, y : Before(Append(b, k), x, y)
                      <=> Before(b, x, y) \/ (x \in ToSet(b) /\ y = k)
  <2>1. k \notin ToSet(b)
    BY <1>4, <1>7
  <2>. QED
    BY <2>1, <1>7, AppendFacts
<1>. QED
  BY <1>1, <1>2, <1>3, <1>5, <1>7, <1>8, <1>9 DEF prob, a, b

LEMMA PromotedInv ==
  ASSUME IInv, NEW k \in Keys, RecordAccess(k), k \in Tracked(q),
         q.state[k] = Probationary
  PROVE  IInv'
<1>. DEFINE a == Demoted(k)
            b == Staying(k)
<1>1. /\ recency' = Append(RemoveFirst(recency, k), k)
      /\ q'.state = [j \in Tracked(q) |->
                       IF j = k THEN Protected
                       ELSE IF j \in ToSet(a) THEN Probationary
                       ELSE q.state[j]]
      /\ Tracked(q') = Tracked(q)
  BY PromotionFacts
<1>2. /\ q'.prob \in Seq(Keys) /\ NoDuplicates(q'.prob)
      /\ ToSet(q'.prob) = (ToSet(q.prob) \ {k}) \cup ToSet(a)
  BY PromotionFacts
<1>3. /\ q'.prot \in Seq(Keys) /\ NoDuplicates(q'.prot)
      /\ ToSet(q'.prot) = ToSet(b) \cup {k}
      /\ \A x, y : Before(q'.prot, x, y)
                    => Before(q.prot, x, y) \/ (x \in ToSet(b) /\ y = k)
  BY PromotionFacts
<1>4. ToSet(a) \cup ToSet(b) = ToSet(q.prot) /\ ToSet(a) \cap ToSet(b) = {}
  BY PromotionFacts
<1>5. /\ recency' \in Seq(Keys) /\ NoDuplicates(recency')
      /\ ToSet(recency') = Tracked(q) \cup {k}
      /\ \A x, y : x # k /\ y # k => (LessRecent(x, y) => LessRecent(x, y)')
      /\ \A x \in Tracked(q) \ {k} : LessRecent(x, k)'
  BY <1>1, RecencyAfterAccess
<1>6. /\ k \in ToSet(q.prob)
      /\ q.prot \in Seq(Keys) /\ k \notin ToSet(q.prot)
      /\ ToSet(q.prob) \cap ToSet(q.prot) = {}
      /\ ToSet(q.prot) \subseteq Tracked(q)
  BY DEF IInv, TypeOK, QueuesMatchState, Probationary, Protected
<1>. HIDE DEF a, b
<1>7. TypeOK'
  BY <1>1, <1>2, <1>3, <1>5 DEF IInv, TypeOK, QState
<1>8. QueuesMatchState'
  <2>1. ToSet(q'.prob) = {j \in Tracked(q') : q'.state[j] = Probationary}
    BY <1>1, <1>2, <1>4, <1>6
    DEF IInv, QueuesMatchState, Probationary, Protected
  <2>2. ToSet(q'.prot) = {j \in Tracked(q') : q'.state[j] = Protected}
    BY <1>1, <1>3, <1>4, <1>6
    DEF IInv, QueuesMatchState, Probationary, Protected
  <2>. QED
    BY <2>1, <2>2, <1>2, <1>3 DEF QueuesMatchState
<1>9. RecencyTracks'
  BY <1>1, <1>5 DEF RecencyTracks
<1>10. ProtectedInLRUOrder'
  <2>. SUFFICES ASSUME NEW x \in Keys, NEW y \in Keys, Before(q'.prot, x, y)
                PROVE  LessRecent(x, y)'
    BY DEF ProtectedInLRUOrder
  <2>1. CASE Before(q.prot, x, y)
    <3>1. LessRecent(x, y)
      BY <2>1 DEF IInv, ProtectedInLRUOrder
    <3>2. x # k /\ y # k
      <4>1. DOMAIN q.prot = 1..Len(q.prot)
        BY <1>6, LenProperties
      <4>. QED
        BY <2>1, <4>1, <1>6 DEF Before, ToSet
    <3>. QED
      BY <3>1, <3>2, <1>5
  <2>2. CASE x \in ToSet(b) /\ y = k
    BY <2>2, <1>4, <1>5, <1>6
  <2>. QED
    BY <2>1, <2>2, <1>3
<1>. QED
  BY <1>7, <1>8, <1>9, <1>10 DEF IInv

\* Dropping key k from key_state_, from its queue and from the history.
LEMMA DroppedInv ==
  ASSUME IInv, NEW k \in Tracked(q),
         q'.state = Untracked(q.state, {k}),
         q'.prob \in Seq(Keys), NoDuplicates(q'.prob),
         ToSet(q'.prob) = ToSet(q.prob) \ {k},
         q'.prot \in Seq(Keys), NoDuplicates(q'.prot),
         ToSet(q'.prot) = ToSet(q.prot) \ {k},
         \A x, y : Before(q'.prot, x, y) => Before(q.prot, x, y),
         recency' = RemoveFirst(recency, k)
  PROVE  IInv'
<1>1. /\ Tracked(q') = Tracked(q) \ {k}
      /\ \A j \in Tracked(q') : q'.state[j] = q.state[j]
      /\ q'.state \in [Tracked(q') -> QState]
  BY DEF Tracked, Untracked, IInv, TypeOK
<1>2. /\ recency \in Seq(Keys) /\ NoDuplicates(recency)
      /\ ToSet(recency) = Tracked(q)
  BY DEF IInv, TypeOK, RecencyTracks
<1>3. /\ recency' \in Seq(Keys) /\ NoDuplicates(recency')
      /\ ToSet(recency') = Tracked(q) \ {k}
      /\ \A x, y : Before(recency, x, y) /\ x # k /\ y # k
                     => Before(recency', x, y)
  BY <1>2, RemoveFirstFacts
<1>4. TypeOK'
  BY <1>1, <1>3 DEF IInv, TypeOK
<1>5. QueuesMatchState'
  BY <1>1 DEF IInv, QueuesMatchState
<1>6. RecencyTracks'
  BY <1>1, <1>3 DEF RecencyTracks
<1>7. ProtectedInLRUOrder'
  <2>. SUFFICES ASSUME NEW x \in Keys, NEW y \in Keys, Before(q'.prot, x, y)
                PROVE  LessRecent(x, y)'
    BY DEF ProtectedInLRUOrder
  <2>1. x \in ToSet(q'.prot) /\ y \in ToSet(q'.prot)
    <3>1. DOMAIN q'.prot = 1..Len(q'.prot)
      BY LenProperties
    <3>. QED
      BY <3>1 DEF Before, ToSet
  <2>2. LessRecent(x, y)
    BY DEF IInv, ProtectedInLRUOrder
  <2>. QED
    BY <2>1, <2>2, <1>3 DEF LessRecent
<1>. QED
  BY <1>4, <1>5, <1>6, <1>7 DEF IInv

LEMMA RemoveKeyInv ==
  ASSUME IInv, NEW k \in Keys, RemoveKey(k)
  PROVE  IInv'
<1>1. /\ q.prob \in Seq(Keys) /\ NoDuplicates(q.prob)
      /\ q.prot \in Seq(Keys) /\ NoDuplicates(q.prot)
      /\ recency \in Seq(Keys) /\ NoDuplicates(recency)
      /\ ToSet(recency) = Tracked(q)
      /\ ToSet(q.prob) = {j \in Tracked(q) : q.state[j] = Probationary}
      /\ ToSet(q.prot) = {j \in Tracked(q) : q.state[j] = Protected}
  BY DEF IInv, TypeOK, QueuesMatchState, RecencyTracks
<1>2. CASE k \notin Tracked(q)
  <2>1. q' = q
    BY <1>2 DEF RemoveKey, Removed
  <2>2. recency' = recency
    <3>1. DOMAIN recency = 1..Len(recency)
      BY <1>1, LenProperties
    <3>2. ~ \E i \in 1..Len(recency) : recency[i] = k
      BY <3>1, <1>1, <1>2 DEF ToSet
    <3>. QED
      BY <3>2 DEF RemoveKey, RemoveFirst
  <2>. QED
    BY <2>1, <2>2 DEF IInv, TypeOK, QueuesMatchState, RecencyTracks,
                      ProtectedInLRUOrder, LessRecent, Tracked
<1>3. CASE k \in Tracked(q) /\ q.state[k] = Probationary
  <2>1. /\ q'.prob = RemoveFirst(q.prob, k) /\ q'.prot = q.prot
        /\ q'.state = Untracked(q.state, {k})
        /\ recency' = RemoveFirst(recency, k)
    BY <1>3 DEF RemoveKey, Removed
  <2>2. /\ q'.prob \in Seq(Keys) /\ NoDuplicates(q'.prob)
        /\ ToSet(q'.prob) = ToSet(q.prob) \ {k}
    BY <2>1, <1>1, RemoveFirstFacts
  <2>3. ToSet(q'.prot) = ToSet(q.prot) \ {k}
    BY <2>1, <1>1, <1>3 DEF Probationary, Protected
  <2>. QED
    BY <2>1, <2>2, <2>3, <1>1, <1>3, DroppedInv
<1>4. CASE k \in Tracked(q) /\ q.state[k] # Probationary
  <2>1. /\ q'.prot = RemoveFirst(q.prot, k) /\ q'.prob = q.prob
        /\ q'.state = Untracked(q.state, {k})
        /\ recency' = RemoveFirst(recency, k)
    BY <1>4 DEF RemoveKey, Removed
  <2>2. /\ q'.prot \in Seq(Keys) /\ NoDuplicates(q'.prot)
        /\ ToSet(q'.prot) = ToSet(q.prot) \ {k}
        /\ \A x, y : Before(q'.prot, x, y) => Before(q.prot, x, y)
    BY <2>1, <1>1, RemoveFirstFacts
  <2>3. ToSet(q'.prob) = ToSet(q.prob) \ {k}
    BY <2>1, <1>1, <1>4
  <2>. QED
    BY <2>1, <2>2, <2>3, <1>1, <1>4, DroppedInv
<1>. QED
  BY <1>2, <1>3, <1>4

LEMMA GetVictimInv ==
  ASSUME IInv, GetVictim
  PROVE  IInv'
<1>1. /\ q.prob \in Seq(Keys) /\ NoDuplicates(q.prob)
      /\ q.prot \in Seq(Keys) /\ NoDuplicates(q.prot)
      /\ ToSet(q.prob) = {j \in Tracked(q) : q.state[j] = Probationary}
      /\ ToSet(q.prot) = {j \in Tracked(q) : q.state[j] = Protected}
  BY DEF IInv, TypeOK, QueuesMatchState
<1>2. CASE q.prob # <<>>
  <2>. DEFINE k == Head(q.prob)
  <2>1. /\ q'.prob = Tail(q.prob) /\ q'.prot = q.prot
        /\ q'.state = Untracked(q.state, {k})
    BY <1>2 DEF GetVictim, AfterVictim
  <2>2. recency' = RemoveFirst(recency, k)
    BY <1>2 DEF GetVictim, Victim, NoVictim
  <2>3. /\ k \in ToSet(q.prob)
        /\ q'.prob \in Seq(Keys) /\ NoDuplicates(q'.prob)
        /\ ToSet(q'.prob) = ToSet(q.prob) \ {k}
    BY <2>1, <1>1, <1>2, TailFacts
  <2>. HIDE DEF k
  <2>4. k \in Tracked(q) /\ ToSet(q'.prot) = ToSet(q.prot) \ {k}
    BY <2>1, <2>3, <1>1 DEF Probationary, Protected
  <2>. QED
    BY <2>1, <2>2, <2>3, <2>4, <1>1, DroppedInv
<1>3. CASE q.prob = <<>> /\ q.prot # <<>>
  <2>. DEFINE k == Head(q.prot)
  <2>1. /\ q'.prot = Tail(q.prot) /\ q'.prob = q.prob
        /\ q'.state = Untracked(q.state, {k})
    BY <1>3 DEF GetVictim, AfterVictim
  <2>2. recency' = RemoveFirst(recency, k)
    BY <1>3 DEF GetVictim, Victim, NoVictim
  <2>3. /\ k \in ToSet(q.prot)
        /\ q'.prot \in Seq(Keys) /\ NoDuplicates(q'.prot)
        /\ ToSet(q'.prot) = ToSet(q.prot) \ {k}
        /\ \A x, y : Before(q'.prot, x, y) => Before(q.prot, x, y)
    BY <2>1, <1>1, <1>3, TailFacts
  <2>. HIDE DEF k
  <2>4. k \in Tracked(q) /\ ToSet(q'.prob) = ToSet(q.prob) \ {k}
    BY <2>1, <2>3, <1>1 DEF Probationary, Protected
  <2>. QED
    BY <2>1, <2>2, <2>3, <2>4, <1>1, DroppedInv
<1>4. CASE q.prob = <<>> /\ q.prot = <<>>
  <2>1. q' = q /\ recency' = recency
    BY <1>4 DEF GetVictim, AfterVictim, Victim, NoVictim
  <2>. QED
    BY <2>1 DEF IInv, TypeOK, QueuesMatchState, RecencyTracks,
                ProtectedInLRUOrder, LessRecent, Tracked
<1>. QED
  BY <1>2, <1>3, <1>4

-----------------------------------------------------------------------------
\* Each step has the action properties.

\* A tracked key that becomes protected, or stops being protected, does so in
\* a promotion; a removal and a victim only lose keys.
LEMMA StateChanges ==
  ASSUME IInv, [Next]_vars, NEW k \in Tracked(q) \cap Tracked(q'),
         q.state[k] # q'.state[k]
  PROVE  \E p \in Keys : /\ RecordAccess(p)
                         /\ p \in Tracked(q)
                         /\ q.state[p] = Probationary
<1>1. ASSUME NEW p \in Keys, RecordAccess(p)
      PROVE  p \in Tracked(q) /\ q.state[p] = Probationary
  BY <1>1 DEF RecordAccess, Accessed, Entered, Touched, Tracked
<1>2. ASSUME NEW p \in Keys, RemoveKey(p) PROVE FALSE
  BY <1>2 DEF RemoveKey, Removed, Untracked, Tracked
<1>3. CASE GetVictim
  BY <1>3 DEF GetVictim, AfterVictim, Untracked, Tracked
<1>4. CASE UNCHANGED vars
  BY <1>4 DEF vars
<1>. QED
  BY <1>1, <1>2, <1>3, <1>4 DEF Next

LEMMA DemotionStep ==
  ASSUME IInv, [Next]_vars, NEW k \in Tracked(q) \cap Tracked(q'),
         q.state[k] = Protected, q'.state[k] = Probationary,
         NEW j \in ToSet(q'.prot) \cap ToSet(q.prot)
  PROVE  LessRecent(k, j)
<1>1. PICK p \in Keys : /\ RecordAccess(p)
                        /\ p \in Tracked(q)
                        /\ q.state[p] = Probationary
  BY StateChanges DEF Protected, Probationary
<1>2. /\ q'.state = [i \in Tracked(q) |->
                       IF i = p THEN Protected
                       ELSE IF i \in ToSet(Demoted(p)) THEN Probationary
                       ELSE q.state[i]]
      /\ ToSet(q'.prot) = ToSet(Staying(p)) \cup {p}
      /\ \A x \in ToSet(Demoted(p)), y \in ToSet(Staying(p)) :
           Before(q.prot, x, y)
  BY <1>1, PromotionFacts
<1>3. k \in ToSet(Demoted(p))
  BY <1>2 DEF Protected, Probationary
<1>4. j # p
  BY <1>1 DEF IInv, QueuesMatchState, Protected, Probationary
<1>5. Before(q.prot, k, j)
  BY <1>2, <1>3, <1>4
<1>6. k \in Keys /\ j \in Keys
  BY DEF IInv, TypeOK, QueuesMatchState
<1>. QED
  BY <1>5, <1>6 DEF IInv, ProtectedInLRUOrder

LEMMA VictimStep ==
  ASSUME IInv, GetVictim, NEW k \in Tracked(q) \ Tracked(q'),
         q.state[k] = Protected, NEW j \in Tracked(q) \ {k}
  PROVE  q.state[j] = Protected /\ LessRecent(k, j)
<1>1. /\ q.prob \in Seq(Keys) /\ NoDuplicates(q.prob)
      /\ q.prot \in Seq(Keys) /\ NoDuplicates(q.prot)
      /\ ToSet(q.prob) = {i \in Tracked(q) : q.state[i] = Probationary}
      /\ ToSet(q.prot) = {i \in Tracked(q) : q.state[i] = Protected}
      /\ Tracked(q) \subseteq Keys
      /\ q.state \in [Tracked(q) -> QState]
  BY DEF IInv, TypeOK, QueuesMatchState
<1>2. q.prob = <<>>
  <2>. SUFFICES ASSUME q.prob # <<>> PROVE FALSE
    OBVIOUS
  <2>1. Head(q.prob) \in ToSet(q.prob)
    BY <1>1, TailFacts
  <2>2. k = Head(q.prob)
    BY DEF GetVictim, AfterVictim, Untracked, Tracked
  <2>. QED
    BY <2>1, <2>2, <1>1 DEF Protected, Probationary
<1>3. q.prot # <<>>
  BY <1>2 DEF GetVictim, AfterVictim
<1>4. k = Head(q.prot)
  BY <1>2, <1>3 DEF GetVictim, AfterVictim, Untracked, Tracked
<1>5. ToSet(q.prob) = {}
  BY <1>2 DEF ToSet
<1>6. q.state[j] = Protected
  BY <1>1, <1>5 DEF QState
<1>7. Before(q.prot, Head(q.prot), j)
  <2>1. /\ ToSet(Tail(q.prot)) = ToSet(q.prot) \ {Head(q.prot)}
        /\ \A y \in ToSet(Tail(q.prot)) : Before(q.prot, Head(q.prot), y)
    BY <1>1, <1>3, TailFacts
  <2>. QED
    BY <2>1, <1>1, <1>4, <1>6
<1>. QED
  BY <1>1, <1>4, <1>6, <1>7 DEF IInv, ProtectedInLRUOrder

LEMMA PromotionStep ==
  ASSUME IInv, [Next]_vars, NEW k \in Tracked(q) \cap Tracked(q'),
         q.state[k] = Probationary, q'.state[k] = Protected,
         Tracked(q) # {k}
  PROVE  q'.prob # <<>>
<1>1. PICK p \in Keys : /\ RecordAccess(p)
                        /\ p \in Tracked(q)
                        /\ q.state[p] = Probationary
  BY StateChanges DEF Protected, Probationary
<1>. DEFINE prob == RemoveFirst(q.prob, p)
            a == Demoted(p)
<1>2. /\ q'.state = [i \in Tracked(q) |->
                       IF i = p THEN Protected
                       ELSE IF i \in ToSet(a) THEN Probationary
                       ELSE q.state[i]]
      /\ ToSet(q'.prob) = (ToSet(q.prob) \ {p}) \cup ToSet(a)
  BY <1>1, PromotionFacts
<1>3. p = k
  BY <1>2 DEF Protected, Probationary
<1>. SUFFICES ToSet(q'.prob) # {}
  BY DEF ToSet
<1>4. CASE \E i \in Tracked(q) \ {k} : q.state[i] = Probationary
  BY <1>2, <1>3, <1>4 DEF IInv, QueuesMatchState
<1>5. CASE ~ \E i \in Tracked(q) \ {k} : q.state[i] = Probationary
  <2>1. /\ q.prob \in Seq(Keys) /\ NoDuplicates(q.prob)
        /\ q.prot \in Seq(Keys) /\ NoDuplicates(q.prot)
        /\ ToSet(q.prob) = {i \in Tracked(q) : q.state[i] = Probationary}
        /\ ToSet(q.prot) = {i \in Tracked(q) : q.state[i] = Protected}
        /\ q.state \in [Tracked(q) -> QState]
    BY DEF IInv, TypeOK, QueuesMatchState
  <2>2. prob \in Seq(Keys) /\ ToSet(prob) = {}
    BY <2>1, <1>3, <1>5, RemoveFirstFacts
  <2>. HIDE DEF prob
  <2>3. Len(prob) = 0
    <3>1. DOMAIN prob = 1..Len(prob) /\ Len(prob) \in Nat
      BY <2>2, LenProperties
    <3>2. Len(prob) # 0 => 1 \in DOMAIN prob
      BY <3>1
    <3>. QED
      BY <3>1, <3>2, <2>2 DEF ToSet
  <2>4. Len(q.prot) \in Nat \ {0}
    <3>1. ToSet(q.prot) # {}
      BY <2>1, <1>1, <1>3, <1>5 DEF QState
    <3>2. DOMAIN q.prot = 1..Len(q.prot) /\ Len(q.prot) \in Nat
      BY <2>1, LenProperties
    <3>. QED
      BY <3>1, <3>2 DEF ToSet
  <2>5. /\ MaxProtected(Len(q.prot)) \in Nat
        /\ MaxProtected(Len(q.prot)) < Len(q.prot)
    BY <2>4, MaxProtectedNat, MaxProtectedBelow
  <2>6. DemotedBy(p) \in 1..Len(q.prot)
    <3>1. Len(prob) + Len(q.prot) = Len(q.prot)
      BY <2>3, <2>4
    <3>2. DemotedBy(p) = Len(q.prot) - MaxProtected(Len(q.prot))
      BY <3>1, <2>4, <2>5 DEF DemotedBy, DemotedCount, prob
    <3>. QED
      BY <3>2, <2>4, <2>5
  <2>7. q.prot[1] \in ToSet(a)
    <3>1. \A i \in 1..DemotedBy(p) : q.prot[i] \in Keys
      BY <2>1, <2>4, <2>6, ElementOfSeq
    <3>. DEFINE d == DemotedBy(p)
    <3>2. a = SubSeq(q.prot, 1, d)
      BY DEF Demoted
    <3>. HIDE DEF a, d
    <3>3. /\ 1 \in Int /\ d \in Int /\ d >= 1
          /\ \A i \in 1..d : q.prot[i] \in Keys
      BY <3>1, <2>4, <2>6 DEF d
    <3>4. /\ a \in Seq(Keys)
          /\ Len(a) = IF 1 <= d THEN d - 1 + 1 ELSE 0
          /\ \A i \in 1..(d - 1 + 1) : a[i] = q.prot[1 + i - 1]
      BY <3>2, <3>3, SubSeqProperties
    <3>5. 1 \in 1..Len(a) /\ a[1] = q.prot[1]
      BY <3>3, <3>4
    <3>6. 1 \in DOMAIN a
      BY <3>4, <3>5, LenProperties
    <3>. QED
      BY <3>5, <3>6 DEF ToSet
  <2>. QED
    BY <2>7, <1>2
<1>. QED
  BY <1>4, <1>5

-----------------------------------------------------------------------------
\* Theorems

\* The inductive invariant holds of every behaviour of the class.
THEOREM Invariance == Spec => []IInv
<1>1. IInv /\ [Next]_vars => IInv'
  <2>. SUFFICES ASSUME IInv, [Next]_vars PROVE IInv'
    OBVIOUS
  <2>1. ASSUME NEW k \in Keys, RecordAccess(k) PROVE IInv'
    BY <2>1, EnteredInv, PromotedInv, TouchedInv
  <2>2. ASSUME NEW k \in Keys, RemoveKey(k) PROVE IInv'
    BY <2>2, RemoveKeyInv
  <2>3. CASE GetVictim
    BY <2>3, GetVictimInv
  <2>4. CASE UNCHANGED vars
    BY <2>4 DEF vars, IInv, TypeOK, QueuesMatchState, RecencyTracks,
                ProtectedInLRUOrder, LessRecent, Tracked
  <2>. QED
    BY <2>1, <2>2, <2>3, <2>4 DEF Next
<1>. QED
  BY InitInv, <1>1, PTL DEF Spec

\* Type correctness, for every set of keys and every ratio below one.
THEOREM TypeCorrect == Spec => []TypeOK
<1>1. IInv => TypeOK
  BY DEF IInv
<1>. QED
  BY <1>1, Invariance, PTL

\* Every tracked key is in exactly the queue key_state_ names, once.
THEOREM QueuesConsistent == Spec => []QueuesMatchState
<1>1. IInv => QueuesMatchState
  BY DEF IInv
<1>. QED
  BY <1>1, Invariance, PTL

\* protected_queue_ is ordered by last access.
THEOREM LRUOrder == Spec => []ProtectedInLRUOrder
<1>1. IInv => ProtectedInLRUOrder
  BY DEF IInv
<1>. QED
  BY <1>1, Invariance, PTL

\* A promotion demotes only the least recently used protected keys, and
\* nothing else demotes.
THEOREM DemotionIsLRU == Spec => DemotionTakesLRU
<1>. DEFINE A == \A k \in Tracked(q) \cap Tracked(q') :
                   q.state[k] = Protected /\ q'.state[k] = Probationary =>
                     \A j \in ToSet(q'.prot) \cap ToSet(q.prot) : LessRecent(k, j)
<1>1. IInv /\ [Next]_vars => [A]_vars
  BY DemotionStep
<1>. QED
  BY <1>1, Invariance, PTL DEF Spec, DemotionTakesLRU

\* A protected victim is the least recently used of all tracked keys.
THEOREM VictimIsLRU == Spec => ProtectedVictimIsLRU
<1>. DEFINE A == GetVictim =>
                   \A k \in Tracked(q) \ Tracked(q') :
                     q.state[k] = Protected =>
                       \A j \in Tracked(q) \ {k} :
                         q.state[j] = Protected /\ LessRecent(k, j)
<1>1. IInv /\ [Next]_vars => [A]_vars
  BY VictimStep
<1>. QED
  BY <1>1, Invariance, PTL DEF Spec, ProtectedVictimIsLRU

\* A promotion never makes every key protected.
THEOREM ProbationSurvives == Spec => PromotionLeavesProbation
<1>. DEFINE A == \A k \in Tracked(q) \cap Tracked(q') :
                   /\ q.state[k] = Probationary
                   /\ q'.state[k] = Protected
                   /\ Tracked(q) # {k}
                   => q'.prob # <<>>
<1>1. IInv /\ [Next]_vars => [A]_vars
  BY PromotionStep
<1>. QED
  BY <1>1, Invariance, PTL DEF Spec, PromotionLeavesProbation

=============================================================================
