----------------------------- MODULE ZSetProofs -----------------------------
(***************************************************************************)
(* The three structures of the sorted set agree whenever its mutex is      *)
(* free, for any threads, members, scores and hashes, and a reading thread *)
(* is told what the scores say.                                            *)
(*                                                                         *)
(* MapsAgree is not inductive: inside a call the tree is ahead of the      *)
(* maps.  The inductive invariant says by how much: TreeIs states what the *)
(* tree holds pointwise, of the scores as they will be after the call.     *)
(* While a thread reads, the tree is that of the scores.  Its elements are *)
(* finitely many pairs in a total order, so RankOf is a bijection onto     *)
(* 0..(Size - 1); every range is a run of ranks, and the loop over it      *)
(* collects the members at these ranks.                                    *)
(***************************************************************************)
EXTENDS ZSet, FiniteSetTheorems, SequenceTheorems, WellFoundedInduction, TLAPS

-----------------------------------------------------------------------------
(* Induction over numbers. *)

\* A set of natural numbers that is not empty has a least element.
LEMMA LeastExists ==
  ASSUME NEW P \in SUBSET Nat, P # {}
  PROVE  \E x \in P : \A y \in P : x <= y
<1>. DEFINE R == OpToRel(<, Nat)
<1>1. IsWellFoundedOn(R, Nat)
  BY NatLessThanWellFounded
<1>. HIDE DEF R
<1>2. PICK x \in P : \A y \in P : ~ (<<y, x>> \in R)
  BY <1>1, WFMin
<1>3. ASSUME NEW y \in P PROVE x <= y
  <2>1. x \in Nat /\ y \in Nat
    OBVIOUS
  <2>2. ~ (y < x)
    BY <2>1, <1>2 DEF R, OpToRel
  <2>. QED
    BY <2>1, <2>2
<1>. QED
  BY <1>3

\* A set that holds 0 and, with each natural number, the next one holds all of
\* them: otherwise the numbers it lacks have a least one.
LEMMA NatSetInduction ==
  ASSUME NEW S, 0 \in S, \A n \in Nat : n \in S => n + 1 \in S
  PROVE  Nat \subseteq S
<1>. DEFINE T == Nat \ S
<1>. SUFFICES ASSUME T # {} PROVE FALSE
  OBVIOUS
<1>1. T \in SUBSET Nat
  OBVIOUS
<1>. HIDE DEF T
<1>2. PICK x \in T : \A y \in T : x <= y
  BY <1>1, LeastExists
<1>3. x \in Nat /\ x \notin S
  BY <1>2 DEF T
<1>4. x # 0 /\ x - 1 \in Nat /\ (x - 1) + 1 = x /\ ~(x <= x - 1)
  BY <1>3
<1>5. x - 1 \in S
  BY <1>2, <1>4 DEF T
<1>. QED
  BY <1>3, <1>4, <1>5

\* The thread in the critical section, and no other, holds the mutex.
Exclusive == \A t \in Threads : pc[t] \in Inside <=> mutex = t

\* What a call was given.
ArgsOK ==
  \A t \in Threads :
    /\ pc[t] = "enter" => op[t] \in Ops
    /\ pc[t] \in {"add", "add_maps"} \/ (pc[t] = "enter" /\ op[t] = "add")
         => arg[t] \in [member : Members, score : Scores]
    /\ pc[t] \in {"remove", "remove_maps"} \/ (pc[t] = "enter" /\ op[t] = "remove")
         => arg[t] \in Pairs

\* The tree has exactly the elements of the scores f.
TreeIs(f) ==
  \A m \in Members, s \in Scores : <<s, Hash[m]>> \in ordered_set <=> f[m] = s

HashesLeadBack ==
  \A m \in Members : hash_to_member[Hash[m]] = IF Contains(m) THEN m ELSE None

Behind == {"add_maps", "remove_maps", "clear_maps"}

\* The tree is ahead of the maps by the rest of the call that is inside.
TreeAhead ==
  /\ (\A t \in Threads : pc[t] \notin Behind) => TreeIs(member_to_score)
  /\ \A t \in Threads :
       /\ pc[t] = "add_maps" =>
            TreeIs([member_to_score EXCEPT ![arg[t].member] = arg[t].score])
       /\ pc[t] = "remove_maps" =>
            TreeIs([member_to_score EXCEPT ![arg[t].member] = None])
       /\ pc[t] = "clear_maps" => TreeIs([m \in Members |-> None])

IInv == TypeOK /\ Exclusive /\ ArgsOK /\ HashesLeadBack /\ TreeAhead

-----------------------------------------------------------------------------
LEMMA InitInv == Init => IInv
<1> SUFFICES ASSUME Init PROVE IInv
  OBVIOUS
<1> USE HashInjective, ZSetAssumption
<1>1. TypeOK
  BY DEF Init, TypeOK, Hashes, Inside, Ops
<1>2. Exclusive
  BY DEF Init, Exclusive, Inside
<1>3. ArgsOK
  BY DEF Init, ArgsOK
<1>4. HashesLeadBack
  BY DEF Init, HashesLeadBack, Contains, Hashes
<1>5. TreeAhead
  BY DEF Init, TreeAhead, TreeIs, Behind
<1> QED
  BY <1>1, <1>2, <1>3, <1>4, <1>5 DEF IInv

\* A call begins: nothing shared changes.
LEMMA CallInv ==
  ASSUME IInv, NEW t \in Threads, NEW o \in Ops, NEW a,
         o = "add" => a \in [member : Members, score : Scores],
         o = "remove" => a \in Pairs,
         a \in Pairs \cup Ranges \cup {None},
         Call(t, o, a)
  PROVE  IInv'
<1> USE ZSetAssumption DEF IInv, Call, Goto, Structures
<1>1. TypeOK'
  BY DEF TypeOK
<1>2. Exclusive'
  BY DEF TypeOK, Exclusive, Inside
<1>3. ArgsOK'
  BY DEF TypeOK, ArgsOK
<1>4. HashesLeadBack'
  BY DEF HashesLeadBack, Contains
<1>5. TreeAhead'
  BY DEF TypeOK, TreeAhead, TreeIs, Behind
<1> QED
  BY <1>1, <1>2, <1>3, <1>4, <1>5

\* The mutex is taken by a thread when nobody is inside.
LEMMA EnterInv ==
  ASSUME IInv, NEW t \in Threads, Enter(t)
  PROVE  IInv'
<1> USE ZSetAssumption DEF IInv, Enter, Goto, Structures
<1>1. TypeOK'
  BY HashInjective DEF TypeOK, Inside, Hashes, Ops, Pairs, ArgsOK, MakeElement
<1>2. Exclusive'
  BY DEF TypeOK, Exclusive, Inside, Ops, ArgsOK
<1>3. ArgsOK'
  BY DEF TypeOK, ArgsOK, Ops
<1>4. HashesLeadBack'
  BY DEF HashesLeadBack, Contains
<1>5. TreeAhead'
  BY DEF TypeOK, ArgsOK, Ops, Exclusive, Inside, TreeAhead, TreeIs, Behind
<1> QED
  BY <1>1, <1>2, <1>3, <1>4, <1>5

\* The calls that return without a change.
LEMMA AddSameInv ==
  ASSUME IInv, NEW t \in Threads, AddSame(t)
  PROVE  IInv'
<1> USE ZSetAssumption DEF IInv, AddSame, Goto, Structures, Return
<1>1. TypeOK'
  BY HashInjective DEF TypeOK, Inside, Hashes, Ops, Pairs, ArgsOK, MakeElement
<1>2. Exclusive'
  BY DEF TypeOK, Exclusive, Inside, Ops, ArgsOK
<1>3. ArgsOK'
  BY DEF TypeOK, ArgsOK
<1>4. HashesLeadBack'
  BY DEF HashesLeadBack, Contains
<1>5. TreeAhead'
  BY DEF TypeOK, Exclusive, Inside, TreeAhead, TreeIs, Behind
<1> QED
  BY <1>1, <1>2, <1>3, <1>4, <1>5

\* Remove finds no member.
LEMMA RemoveMissingInv ==
  ASSUME IInv, NEW t \in Threads, RemoveMissing(t)
  PROVE  IInv'
<1> USE ZSetAssumption DEF IInv, RemoveMissing, Goto, Structures, Return
<1>1. TypeOK'
  BY HashInjective DEF TypeOK, Inside, Hashes, Ops, Pairs, ArgsOK, MakeElement
<1>2. Exclusive'
  BY DEF TypeOK, Exclusive, Inside, Ops, ArgsOK
<1>3. ArgsOK'
  BY DEF TypeOK, ArgsOK
<1>4. HashesLeadBack'
  BY DEF HashesLeadBack, Contains
<1>5. TreeAhead'
  BY DEF TypeOK, Exclusive, Inside, TreeAhead, TreeIs, Behind
<1> QED
  BY <1>1, <1>2, <1>3, <1>4, <1>5

\* A read returns.
LEMMA ReadInv ==
  ASSUME IInv, NEW t \in Threads, Read(t)
  PROVE  IInv'
<1> USE ZSetAssumption DEF IInv, Read, Goto, Structures, Return
<1>1. TypeOK'
  BY HashInjective DEF TypeOK, Inside, Hashes, Ops, Pairs, ArgsOK, MakeElement
<1>2. Exclusive'
  BY DEF TypeOK, Exclusive, Inside, Ops, ArgsOK
<1>3. ArgsOK'
  BY DEF TypeOK, ArgsOK
<1>4. HashesLeadBack'
  BY DEF HashesLeadBack, Contains
<1>5. TreeAhead'
  BY DEF TypeOK, Exclusive, Inside, TreeAhead, TreeIs, Behind
<1> QED
  BY <1>1, <1>2, <1>3, <1>4, <1>5

\* RemoveRangeByScore finds nothing to remove.
LEMMA RemoveRangeNothingInv ==
  ASSUME IInv, NEW t \in Threads, RemoveRangeNothing(t)
  PROVE  IInv'
<1> USE ZSetAssumption DEF IInv, RemoveRangeNothing, Goto, Structures, Return
<1>1. TypeOK'
  BY HashInjective DEF TypeOK, Inside, Hashes, Ops, Pairs, ArgsOK, MakeElement
<1>2. Exclusive'
  BY DEF TypeOK, Exclusive, Inside, Ops, ArgsOK
<1>3. ArgsOK'
  BY DEF TypeOK, ArgsOK
<1>4. HashesLeadBack'
  BY DEF HashesLeadBack, Contains
<1>5. TreeAhead'
  BY DEF TypeOK, Exclusive, Inside, TreeAhead, TreeIs, Behind
<1> QED
  BY <1>1, <1>2, <1>3, <1>4, <1>5

\* RemoveRangeByScore keeps the mutex and waits.
LEMMA RemoveRangeByScoreInv ==
  ASSUME IInv, NEW t \in Threads, RemoveRangeByScore(t)
  PROVE  IInv'
<1> USE ZSetAssumption DEF IInv, RemoveRangeByScore, Goto, Structures
<1>1. TypeOK'
  BY HashInjective DEF TypeOK, Inside, Hashes, Ops, Pairs, ArgsOK, MakeElement
<1>2. Exclusive'
  BY DEF TypeOK, Exclusive, Inside, Ops, ArgsOK
<1>3. ArgsOK'
  BY DEF TypeOK, ArgsOK
<1>4. HashesLeadBack'
  BY DEF HashesLeadBack, Contains
<1>5. TreeAhead'
  BY DEF TypeOK, Exclusive, Inside, TreeAhead, TreeIs, Behind
<1> QED
  BY <1>1, <1>2, <1>3, <1>4, <1>5

\* The tree has the new score of the member, and no old one.
LEMMA AddTreeInv ==
  ASSUME IInv, NEW t \in Threads, AddTree(t)
  PROVE  IInv'
<1> USE ZSetAssumption DEF IInv, AddTree, Goto, Structures
<1>1. TypeOK'
  BY HashInjective DEF TypeOK, Inside, Hashes, Ops, Pairs, ArgsOK, MakeElement
<1>2. Exclusive'
  BY DEF TypeOK, Exclusive, Inside, Ops, ArgsOK
<1>3. ArgsOK'
  BY DEF TypeOK, ArgsOK
<1>4. HashesLeadBack'
  BY DEF HashesLeadBack, Contains
<1>5. TreeAhead'
  <2>1. \A u \in Threads : pc'[u] \in Behind <=> u = t
    BY DEF TypeOK, Exclusive, Inside, Behind
  <2>2. TreeIs(member_to_score)
    BY DEF Exclusive, Inside, TreeAhead, Behind
  <2>3. arg[t].member \in Members /\ arg[t].score \in Scores
    BY DEF ArgsOK, Pairs
  <2> DEFINE f == [member_to_score EXCEPT ![arg[t].member] = arg[t].score]
  <2>4. ASSUME NEW m \in Members, NEW s \in Scores
        PROVE  <<s, Hash[m]>> \in ordered_set' <=> f[m] = s
    <3>1. CASE m = arg[t].member
      BY <2>2, <2>3, <3>1 DEF TypeOK, TreeIs, Contains, MakeElement
    <3>2. CASE m # arg[t].member
      BY <2>2, <2>3, <3>2, HashInjective DEF TypeOK, TreeIs, Contains, MakeElement
    <3> QED
      BY <3>1, <3>2
  <2>5. TreeIs(f)'
    BY <2>4 DEF TreeIs
  <2>6. pc'[t] = "add_maps"
    BY DEF TypeOK
  <2> QED
    BY <2>1, <2>5, <2>6 DEF TreeAhead, Behind
<1> QED
  BY <1>1, <1>2, <1>3, <1>4, <1>5

\* The tree has the member no more.
LEMMA RemoveTreeInv ==
  ASSUME IInv, NEW t \in Threads, RemoveTree(t)
  PROVE  IInv'
<1> USE ZSetAssumption DEF IInv, RemoveTree, Goto, Structures
<1>1. TypeOK'
  BY HashInjective DEF TypeOK, Inside, Hashes, Ops, Pairs, ArgsOK, MakeElement
<1>2. Exclusive'
  BY DEF TypeOK, Exclusive, Inside, Ops, ArgsOK
<1>3. ArgsOK'
  BY DEF TypeOK, ArgsOK
<1>4. HashesLeadBack'
  BY DEF HashesLeadBack, Contains
<1>5. TreeAhead'
  <2>1. \A u \in Threads : pc'[u] \in Behind <=> u = t
    BY DEF TypeOK, Exclusive, Inside, Behind
  <2>2. TreeIs(member_to_score)
    BY DEF Exclusive, Inside, TreeAhead, Behind
  <2>3. arg[t].member \in Members
    BY DEF ArgsOK, Pairs
  <2> DEFINE f == [member_to_score EXCEPT ![arg[t].member] = None]
  <2>4. ASSUME NEW m \in Members, NEW s \in Scores
        PROVE  <<s, Hash[m]>> \in ordered_set' <=> f[m] = s
    <3>1. CASE m = arg[t].member
      BY <2>2, <2>3, <3>1 DEF TypeOK, TreeIs, Contains, MakeElement
    <3>2. CASE m # arg[t].member
      BY <2>2, <2>3, <3>2, HashInjective DEF TypeOK, TreeIs, Contains, MakeElement
    <3> QED
      BY <3>1, <3>2
  <2>5. TreeIs(f)'
    BY <2>4 DEF TreeIs
  <2>6. pc'[t] = "remove_maps"
    BY DEF TypeOK
  <2> QED
    BY <2>1, <2>5, <2>6 DEF TreeAhead, Behind
<1> QED
  BY <1>1, <1>2, <1>3, <1>4, <1>5

\* The tree is empty.
LEMMA ClearTreeInv ==
  ASSUME IInv, NEW t \in Threads, ClearTree(t)
  PROVE  IInv'
<1> USE ZSetAssumption DEF IInv, ClearTree, Goto, Structures
<1>1. TypeOK'
  BY HashInjective DEF TypeOK, Inside, Hashes, Ops, Pairs, ArgsOK, MakeElement
<1>2. Exclusive'
  BY DEF TypeOK, Exclusive, Inside, Ops, ArgsOK
<1>3. ArgsOK'
  BY DEF TypeOK, ArgsOK
<1>4. HashesLeadBack'
  BY DEF HashesLeadBack, Contains
<1>5. TreeAhead'
  BY DEF TypeOK, Exclusive, Inside, TreeAhead, TreeIs, Behind
<1> QED
  BY <1>1, <1>2, <1>3, <1>4, <1>5

\* The maps catch up with the tree.
LEMMA AddMapsInv ==
  ASSUME IInv, NEW t \in Threads, AddMaps(t)
  PROVE  IInv'
<1> USE ZSetAssumption DEF IInv, AddMaps, Goto, Structures, Return
<1>1. TypeOK'
  BY HashInjective DEF TypeOK, Inside, Hashes, Ops, Pairs, ArgsOK, MakeElement
<1>2. Exclusive'
  BY DEF TypeOK, Exclusive, Inside, Ops, ArgsOK
<1>3. ArgsOK'
  BY DEF TypeOK, ArgsOK
<1>4. HashesLeadBack'
  BY HashInjective DEF TypeOK, ArgsOK, Hashes, HashesLeadBack, Contains
<1>5. TreeAhead'
  BY DEF TypeOK, Exclusive, Inside, TreeAhead, TreeIs, Behind
<1> QED
  BY <1>1, <1>2, <1>3, <1>4, <1>5

\* The maps forget the member.
LEMMA RemoveMapsInv ==
  ASSUME IInv, NEW t \in Threads, RemoveMaps(t)
  PROVE  IInv'
<1> USE ZSetAssumption DEF IInv, RemoveMaps, Goto, Structures, Return
<1>1. TypeOK'
  BY HashInjective DEF TypeOK, Inside, Hashes, Ops, Pairs, ArgsOK, MakeElement
<1>2. Exclusive'
  BY DEF TypeOK, Exclusive, Inside, Ops, ArgsOK
<1>3. ArgsOK'
  BY DEF TypeOK, ArgsOK
<1>4. HashesLeadBack'
  BY HashInjective DEF TypeOK, ArgsOK, Pairs, Hashes, HashesLeadBack, Contains
<1>5. TreeAhead'
  BY DEF TypeOK, Exclusive, Inside, TreeAhead, TreeIs, Behind
<1> QED
  BY <1>1, <1>2, <1>3, <1>4, <1>5

\* The maps are empty like the tree.
LEMMA ClearMapsInv ==
  ASSUME IInv, NEW t \in Threads, ClearMaps(t)
  PROVE  IInv'
<1> USE ZSetAssumption DEF IInv, ClearMaps, Goto, Structures, Return
<1>1. TypeOK'
  BY HashInjective DEF TypeOK, Inside, Hashes, Ops, Pairs, ArgsOK, MakeElement
<1>2. Exclusive'
  BY DEF TypeOK, Exclusive, Inside, Ops, ArgsOK
<1>3. ArgsOK'
  BY DEF TypeOK, ArgsOK
<1>4. HashesLeadBack'
  BY HashInjective DEF Hashes, HashesLeadBack, Contains
<1>5. TreeAhead'
  BY DEF TypeOK, Exclusive, Inside, TreeAhead, TreeIs, Behind
<1> QED
  BY <1>1, <1>2, <1>3, <1>4, <1>5

\* Every step keeps the invariant.
LEMMA NextInv == IInv /\ [Next]_vars => IInv'
<1> SUFFICES ASSUME IInv, [Next]_vars PROVE IInv'
  OBVIOUS
<1>1. CASE UNCHANGED vars
  BY <1>1 DEF vars, IInv, TypeOK, Exclusive, ArgsOK, HashesLeadBack, Contains,
              TreeAhead, TreeIs
<1>2. ASSUME NEW t \in Threads, Calls(t) PROVE IInv'
  <2>1. ASSUME NEW m \in Members, NEW s \in Scores,
               Call(t, "add", [member |-> m, score |-> s])
        PROVE  IInv'
    BY <2>1, CallInv DEF Ops, Pairs
  <2>2. ASSUME NEW m \in Members, Call(t, "remove", [member |-> m, score |-> None])
        PROVE  IInv'
    BY <2>2, CallInv DEF Ops, Pairs
  <2>3. CASE Call(t, "clear", None)
    BY <2>3, CallInv DEF Ops
  <2>4. CASE Call(t, "read", None)
    BY <2>4, CallInv DEF Ops
  <2>5. ASSUME NEW r \in Ranges, Call(t, "remove_range", r) PROVE IInv'
    BY <2>5, CallInv DEF Ops
  <2> QED
    BY <1>2, <2>1, <2>2, <2>3, <2>4, <2>5 DEF Calls
<1>3. ASSUME NEW t \in Threads, Step(t) PROVE IInv'
  BY <1>3, EnterInv, AddSameInv, AddTreeInv, AddMapsInv, RemoveMissingInv,
     RemoveTreeInv, RemoveMapsInv, ClearTreeInv, ClearMapsInv, ReadInv,
     RemoveRangeNothingInv, RemoveRangeByScoreInv DEF Step
<1> QED
  BY <1>1, <1>2, <1>3 DEF Next

LEMMA Invariant == Spec => []IInv
  BY InitInv, NextInv, PTL DEF Spec

\* Every variable of the sorted set keeps its type: ZSetBPlus puts nothing
\* into its three structures but members, their hashes and their scores.
THEOREM TypeCorrect == Spec => []TypeOK
  BY Invariant, PTL DEF IInv

\* When the mutex is free the tree holds one element for each member, with
\* its present score, and the hash of every member leads back to it: Add,
\* Remove and Clear of any number of threads never leave ZSetBPlus with a
\* stale element or a member that no range can show.
THEOREM StructuresAgree == Spec => []MapsAgree
<1>1. IInv => MapsAgree
  <2> SUFFICES ASSUME IInv, mutex = None PROVE Agree
    BY DEF MapsAgree
  <2>1. TreeIs(member_to_score)
    <3>1. \A t \in Threads : pc[t] \notin Behind
      BY ZSetAssumption DEF IInv, Exclusive, Inside, Behind
    <3> QED
      BY <3>1 DEF IInv, TreeAhead
  <2>2. TypeOK /\ HashesLeadBack
    BY DEF IInv
  <2> DEFINE elements == {MakeElement(m, member_to_score[m]) : m \in {n \in Members : Contains(n)}}
  <2>3. ASSUME NEW e \in ordered_set PROVE e \in elements
    <3>1. PICK m \in Members : e = <<e[1], Hash[m]>> /\ e[1] \in Scores
      BY <2>2 DEF TypeOK, Hashes
    <3>2. member_to_score[m] = e[1]
      BY <2>1, <3>1 DEF TreeIs
    <3> QED
      BY <3>1, <3>2, ZSetAssumption DEF Contains, MakeElement
  <2>4. ASSUME NEW m \in Members, Contains(m)
        PROVE  MakeElement(m, member_to_score[m]) \in ordered_set
    <3>1. member_to_score[m] \in Scores
      BY <2>2, <2>4 DEF TypeOK, Contains
    <3> QED
      BY <2>1, <3>1 DEF TreeIs, MakeElement
  <2>5. ordered_set = elements
    BY <2>3, <2>4
  <2> QED
    BY <2>2, <2>5 DEF Agree, HashesLeadBack
<1> QED
  BY <1>1, Invariant, PTL

-----------------------------------------------------------------------------
\* What the reading calls return

\* What holds while a thread reads: nobody else is inside.
Settled == TypeOK /\ HashesLeadBack /\ TreeIs(member_to_score)

Present == {m \in Members : Contains(m)}

ElementOf(m) == MakeElement(m, member_to_score[m])

LEMMA ReadSettled ==
  ASSUME IInv, NEW t \in Threads, pc[t] = "read"
  PROVE  Settled
<1>1. mutex = t
  BY DEF IInv, Exclusive, Inside
<1>2. \A u \in Threads : pc[u] \notin Behind
  BY <1>1 DEF IInv, Exclusive, Inside, Behind
<1>. QED
  BY <1>2 DEF IInv, TreeAhead, Settled

LEMMA PresentElement ==
  ASSUME Settled, NEW m \in Present
  PROVE  /\ m \in Members /\ m # None
         /\ member_to_score[m] \in Scores
         /\ ElementOf(m) \in ordered_set
         /\ ElementOf(m)[1] = member_to_score[m]
         /\ FindMemberByHash(ElementOf(m)[2]) = m
<1>1. m \in Members /\ Contains(m) /\ m # None
  BY ZSetAssumption DEF Present
<1>2. member_to_score[m] \in Scores
  BY <1>1 DEF Settled, TypeOK, Contains
<1>3. ElementOf(m) = <<member_to_score[m], Hash[m]>>
  BY DEF ElementOf, MakeElement
<1>4. ElementOf(m) \in ordered_set
  BY <1>1, <1>2, <1>3 DEF Settled, TreeIs
<1>5. FindMemberByHash(Hash[m]) = m
  BY <1>1 DEF FindMemberByHash, Hashes, Settled, HashesLeadBack
<1>. QED
  BY <1>1, <1>2, <1>3, <1>4, <1>5

\* Every element of the tree is that of one member.
LEMMA ElementMember ==
  ASSUME Settled, NEW e \in ordered_set
  PROVE  /\ FindMemberByHash(e[2]) \in Present
         /\ ElementOf(FindMemberByHash(e[2])) = e
<1>1. PICK m \in Members : e = <<e[1], Hash[m]>> /\ e[1] \in Scores
  BY DEF Settled, TypeOK, Hashes
<1>2. member_to_score[m] = e[1]
  BY <1>1 DEF Settled, TreeIs
<1>3. m \in Present
  BY <1>1, <1>2, ZSetAssumption DEF Present, Contains
<1>4. ElementOf(m) = e
  BY <1>1, <1>2 DEF ElementOf, MakeElement
<1>. QED
  BY <1>3, <1>4, PresentElement

-----------------------------------------------------------------------------
\* Ranks

\* Elements are pairs of numbers, and Less orders them totally.
LEMMA ElementType ==
  ASSUME Settled, NEW e \in ordered_set
  PROVE  e[1] \in Scores /\ e[1] \in Int /\ e[2] \in Nat /\ e = <<e[1], e[2]>>
<1>1. e \in Scores \X Hashes
  BY DEF Settled, TypeOK
<1>2. PICK s \in Scores, h \in Hashes : e = <<s, h>>
  BY <1>1
<1>3. h \in Nat
  BY HashInjective DEF Hashes
<1>. QED
  BY <1>2, <1>3, ZSetAssumption

LEMMA LessOrder ==
  ASSUME Settled, NEW a \in ordered_set, NEW b \in ordered_set, NEW c \in ordered_set
  PROVE  /\ ~ Less(a, a)
         /\ Less(a, b) => ~ Less(b, a)
         /\ a # b => Less(a, b) \/ Less(b, a)
         /\ Less(a, b) /\ Less(b, c) => Less(a, c)
         /\ Less(a, b) => a[1] <= b[1]
BY ElementType DEF Less

LEMMA TreeFinite ==
  ASSUME Settled
  PROVE  /\ IsFiniteSet(ordered_set)
         /\ Size \in Nat
         /\ Size < Word
<1>. DEFINE f == [e \in ordered_set |-> FindMemberByHash(e[2])]
<1>1. f \in Injection(ordered_set, Members)
  <2>1. f \in [ordered_set -> Members]
    BY ElementMember DEF Present
  <2>2. ASSUME NEW a \in ordered_set, NEW b \in ordered_set, f[a] = f[b]
        PROVE  a = b
    <3>1. FindMemberByHash(a[2]) = FindMemberByHash(b[2])
      BY <2>2
    <3>. QED
      BY <3>1, ElementMember
  <2>. HIDE DEF f
  <2>. QED
    BY <2>1, <2>2 DEF Injection, IsInjective
<1>. HIDE DEF f
<1>2. IsFiniteSet(ordered_set) /\ Cardinality(ordered_set) <= Cardinality(Members)
  BY <1>1, CountersSuffice, FS_Injection
<1>3. Cardinality(ordered_set) \in Nat /\ Cardinality(Members) \in Nat
  BY <1>2, CountersSuffice, FS_CardinalityType
<1>. QED
  BY <1>2, <1>3, CountersSuffice DEF Size

Lower(elem) == {e \in ordered_set : Less(e, elem)}

LEMMA LowerFinite ==
  ASSUME Settled, NEW elem
  PROVE  /\ IsFiniteSet(Lower(elem))
         /\ RankOf(elem) = Cardinality(Lower(elem))
         /\ RankOf(elem) \in Nat
<1>1. Lower(elem) \in SUBSET ordered_set
  BY DEF Lower
<1>2. IsFiniteSet(Lower(elem))
  BY <1>1, TreeFinite, FS_Subset
<1>3. RankOf(elem) = Cardinality(Lower(elem))
  BY DEF RankOf, Lower
<1>. QED
  BY <1>2, <1>3, FS_CardinalityType

\* A lower set of elements that leaves out an element has at most its rank,
\* and one that has it has more.
LEMMA LowerSets ==
  ASSUME Settled, NEW L \in SUBSET ordered_set,
         \A a \in L, b \in ordered_set : Less(b, a) => b \in L,
         NEW e \in ordered_set
  PROVE  /\ Cardinality(L) \in Nat
         /\ e \in L <=> RankOf(e) < Cardinality(L)
<1>1. IsFiniteSet(L) /\ Cardinality(L) \in Nat
  BY TreeFinite, FS_Subset, FS_CardinalityType
<1>2. IsFiniteSet(Lower(e)) /\ RankOf(e) = Cardinality(Lower(e)) /\ RankOf(e) \in Nat
  BY LowerFinite
<1>3. CASE e \in L
  <2>1. Lower(e) \subseteq L /\ e \notin Lower(e)
    BY <1>3, LessOrder DEF Lower
  <2>2. Cardinality(Lower(e)) <= Cardinality(L)
        /\ (Cardinality(L) = Cardinality(Lower(e)) => L = Lower(e))
    BY <1>1, <2>1, FS_Subset
  <2>. QED
    BY <1>1, <1>2, <1>3, <2>1, <2>2
<1>4. CASE e \notin L
  <2>1. L \subseteq Lower(e)
    BY <1>4, LessOrder DEF Lower
  <2>2. Cardinality(L) <= Cardinality(Lower(e))
    BY <1>2, <2>1, FS_Subset
  <2>. QED
    BY <1>1, <1>2, <1>4, <2>2
<1>. QED
  BY <1>1, <1>3, <1>4

\* Elements are ranked in their order.
LEMMA RanksOrdered ==
  ASSUME Settled, NEW a \in ordered_set, NEW b \in ordered_set
  PROVE  /\ RankOf(a) \in 0..(Size - 1)
         /\ Less(a, b) <=> RankOf(a) < RankOf(b)
         /\ RankOf(a) = RankOf(b) => a = b
<1>1. /\ Size \in Nat
      /\ RankOf(a) < Size
  BY LowerSets DEF Size
<1>2. ASSUME NEW x \in ordered_set, NEW y \in ordered_set
      PROVE  Less(x, y) <=> RankOf(x) < RankOf(y)
  <2>1. Lower(y) \in SUBSET ordered_set
        /\ \A u \in Lower(y), w \in ordered_set : Less(w, u) => w \in Lower(y)
    BY LessOrder DEF Lower
  <2>2. x \in Lower(y) <=> RankOf(x) < Cardinality(Lower(y))
    BY <2>1, LowerSets
  <2>. QED
    BY <2>2, LowerFinite DEF Lower
<1>3. RankOf(a) \in Nat /\ RankOf(b) \in Nat
  BY LowerFinite
<1>4. RankOf(a) = RankOf(b) => a = b
  BY <1>2, <1>3, LessOrder
<1>. QED
  BY <1>1, <1>2, <1>3, <1>4

\* Every rank below the size is that of one element, which AtRank finds.
LEMMA AtRankFacts ==
  ASSUME Settled, NEW r \in 0..(Size - 1)
  PROVE  AtRank(r) \in ordered_set /\ RankOf(AtRank(r)) = r
<1>. DEFINE f == [e \in ordered_set |-> RankOf(e)]
            T == 0..(Size - 1)
<1>1. f \in Injection(ordered_set, T)
  <2>1. f \in [ordered_set -> T]
    BY RanksOrdered
  <2>2. \A a \in ordered_set, b \in ordered_set : f[a] = f[b] => a = b
    BY RanksOrdered
  <2>. HIDE DEF f, T
  <2>. QED
    BY <2>1, <2>2 DEF Injection, IsInjective
<1>2. IsFiniteSet(T) /\ Cardinality(T) = Cardinality(ordered_set)
  <2>1. Size \in Nat
    BY TreeFinite
  <2>2. 0 \in Int /\ Size - 1 \in Int
    BY <2>1
  <2>3. IsFiniteSet(T) /\ Cardinality(T) = IF 0 > Size - 1 THEN 0 ELSE (Size - 1) - 0 + 1
    BY <2>2, FS_Interval
  <2>4. Cardinality(T) = Size
    BY <2>1, <2>3
  <2>. QED
    BY <2>3, <2>4 DEF Size
<1>3. f \in Surjection(ordered_set, T)
  <2>. HIDE DEF f, T
  <2>. QED
    BY <1>1, <1>2, FS_Injection
<1>4. \E e \in ordered_set : RankOf(e) = r
  BY <1>3 DEF Surjection
<1>. QED
  BY <1>4 DEF AtRank

\* The member at a rank.
MemberAt(r) == FindMemberByHash(AtRank(r)[2])

LEMMA MemberAtFacts ==
  ASSUME Settled, NEW r \in 0..(Size - 1)
  PROVE  /\ MemberAt(r) \in Present
         /\ MemberAt(r) # None
         /\ ElementOf(MemberAt(r)) = AtRank(r)
         /\ RankOf(ElementOf(MemberAt(r))) = r
<1>1. AtRank(r) \in ordered_set /\ RankOf(AtRank(r)) = r
  BY AtRankFacts
<1>2. MemberAt(r) \in Present /\ ElementOf(MemberAt(r)) = AtRank(r)
  BY <1>1, ElementMember DEF MemberAt
<1>. QED
  BY <1>1, <1>2, PresentElement

\* The members at two ranks are in the order of the ranks.
LEMMA MembersOrdered ==
  ASSUME Settled, NEW r \in 0..(Size - 1), NEW s \in 0..(Size - 1)
  PROVE  /\ r < s => Precedes(MemberAt(r), MemberAt(s))
         /\ r <= s => AtRank(r)[1] <= AtRank(s)[1]
         /\ MemberAt(r) = MemberAt(s) => r = s
<1>0. r \in Int /\ s \in Int
  BY TreeFinite
<1>1. /\ AtRank(r) \in ordered_set /\ RankOf(AtRank(r)) = r
      /\ AtRank(s) \in ordered_set /\ RankOf(AtRank(s)) = s
  BY AtRankFacts
<1>2. r < s => Less(AtRank(r), AtRank(s))
  BY <1>1, RanksOrdered
<1>3. r < s => Precedes(MemberAt(r), MemberAt(s))
  BY <1>2, MemberAtFacts DEF Precedes, ElementOf
<1>4. AtRank(r)[1] \in Int
  BY <1>1, ElementType
<1>5. r <= s => AtRank(r)[1] <= AtRank(s)[1]
  BY <1>0, <1>1, <1>2, <1>4, LessOrder
<1>6. MemberAt(r) = MemberAt(s) => r = s
  BY MemberAtFacts
<1>. QED
  BY <1>3, <1>5, <1>6

\* Each member that is there has a rank, at which it is found.
LEMMA MemberRank ==
  ASSUME Settled, NEW m \in Present
  PROVE  /\ RankOf(ElementOf(m)) \in 0..(Size - 1)
         /\ MemberAt(RankOf(ElementOf(m))) = m
<1>. DEFINE r == RankOf(ElementOf(m))
<1>1. ElementOf(m) \in ordered_set /\ FindMemberByHash(ElementOf(m)[2]) = m
  BY PresentElement
<1>2. r \in 0..(Size - 1)
  BY <1>1, RanksOrdered
<1>. HIDE DEF r
<1>3. AtRank(r) \in ordered_set /\ RankOf(AtRank(r)) = r
  BY <1>2, AtRankFacts
<1>4. AtRank(r) = ElementOf(m)
  BY <1>1, <1>3, RanksOrdered DEF r
<1>. QED
  BY <1>1, <1>2, <1>4 DEF MemberAt, r

-----------------------------------------------------------------------------
\* The loops that collect members

\* A sequence given by its length and its elements.
LEMMA SequenceOf ==
  ASSUME NEW n \in Nat, NEW g \in [1..n -> Members]
  PROVE  g \in Seq(Members) /\ Len(g) = n /\ DOMAIN g = 1..n
OBVIOUS

CollectedUpTo(ranks, n) == [i \in 1..n |-> MemberAt(ranks[i])]

LEMMA CollectedGrows ==
  ASSUME Settled, NEW N \in Nat, NEW ranks \in [1..N -> 0..(Size - 1)],
         NEW n \in 1..N
  PROVE  CollectedUpTo(ranks, n) = Append(CollectedUpTo(ranks, n - 1), MemberAt(ranks[n]))
<1>. DEFINE a == CollectedUpTo(ranks, n - 1)
            b == CollectedUpTo(ranks, n)
            x == MemberAt(ranks[n])
<1>1. n \in Nat /\ n - 1 \in Nat /\ 1..n \subseteq 1..N /\ 1..(n - 1) \subseteq 1..N
  OBVIOUS
<1>2. \A i \in 1..N : MemberAt(ranks[i]) \in Members
  BY MemberAtFacts DEF Present
<1>3. /\ a \in [1..(n - 1) -> Members] /\ b \in [1..n -> Members] /\ x \in Members
      /\ \A i \in 1..(n - 1) : a[i] = MemberAt(ranks[i])
      /\ \A i \in 1..n : b[i] = MemberAt(ranks[i])
  BY <1>1, <1>2 DEF CollectedUpTo
<1>. HIDE DEF a, b, x
<1>4. a \in Seq(Members) /\ Len(a) = n - 1 /\ b \in Seq(Members) /\ Len(b) = n
  BY <1>1, <1>3, SequenceOf
<1>5. /\ Append(a, x) \in Seq(Members) /\ Len(Append(a, x)) = n
      /\ \A i \in 1..(n - 1) : Append(a, x)[i] = a[i]
      /\ Append(a, x)[n] = x
  BY <1>1, <1>3, <1>4, AppendProperties
<1>6. ASSUME NEW i \in 1..n PROVE Append(a, x)[i] = b[i]
  BY <1>1, <1>3, <1>5 DEF x
<1>7. Append(a, x) = b
  BY <1>4, <1>5, <1>6, SeqEqual
<1>. QED
  BY <1>7 DEF a, b, x

\* One round of the loop of MembersAt, and its trace.
Round(ranks, h) ==
  [n \in 0..Len(ranks) |->
     IF n = 0 THEN <<>>
     ELSE IF MemberAt(ranks[n]) = None THEN h[n - 1]
     ELSE Append(h[n - 1], MemberAt(ranks[n]))]

Trace(ranks) == CHOOSE h : h = Round(ranks, h)

\* Nothing is left out: every element leads back to its member.
LEMMA MembersAtAll ==
  ASSUME Settled, NEW N \in Nat, NEW ranks \in [1..N -> 0..(Size - 1)]
  PROVE  MembersAt(ranks) = [i \in 1..N |-> MemberAt(ranks[i])]
<1>. DEFINE f == [n \in 0..N |-> CollectedUpTo(ranks, n)]
            g == Trace(ranks)
<1>1. Len(ranks) = N
  OBVIOUS
<1>2. \A n \in 1..N : MemberAt(ranks[n]) # None
  BY MemberAtFacts
<1>3. \A n \in 0..N : n # 0 => n \in 1..N /\ n - 1 \in 0..N
  OBVIOUS
<1>4. f = Round(ranks, f)
  <2>1. f[0] = <<>>
    BY DEF CollectedUpTo
  <2>2. \A n \in 1..N : f[n] = Append(f[n - 1], MemberAt(ranks[n]))
    <3>1. \A n \in 1..N : n \in 0..N /\ n - 1 \in 0..N
      OBVIOUS
    <3>2. \A n \in 1..N : f[n] = CollectedUpTo(ranks, n)
                          /\ f[n - 1] = CollectedUpTo(ranks, n - 1)
      BY <3>1
    <3>. QED
      BY <3>2, CollectedGrows
  <2>3. f = [n \in 0..N |-> f[n]]
    OBVIOUS
  <2>. HIDE DEF f
  <2>4. \A n \in 0..N : f[n] = IF n = 0 THEN <<>>
                               ELSE IF MemberAt(ranks[n]) = None THEN f[n - 1]
                               ELSE Append(f[n - 1], MemberAt(ranks[n]))
    BY <1>2, <1>3, <2>1, <2>2
  <2>. QED
    BY <1>1, <2>3, <2>4 DEF Round
<1>5. g = Round(ranks, g)
  BY <1>4 DEF Trace
<1>6. MembersAt(ranks) = g[Len(ranks)]
  BY DEF MembersAt, Trace, Round, MemberAt
<1>. HIDE DEF g
<1>7. g[0] = <<>> /\ \A n \in 1..N : g[n] = Append(g[n - 1], MemberAt(ranks[n]))
  <2>1. \A n \in 0..N : g[n] = Round(ranks, g)[n]
    BY <1>5
  <2>2. 0 \in 0..N /\ \A n \in 1..N : n \in 0..N /\ n # 0
    OBVIOUS
  <2>. QED
    BY <1>1, <1>2, <2>1, <2>2 DEF Round
<1>. DEFINE S == {n \in Nat : n <= N => g[n] = CollectedUpTo(ranks, n)}
<1>8. 0 \in S
  BY <1>7 DEF CollectedUpTo
<1>9. ASSUME NEW n \in Nat, n \in S PROVE n + 1 \in S
  <2>. SUFFICES ASSUME n + 1 <= N PROVE g[n + 1] = CollectedUpTo(ranks, n + 1)
    OBVIOUS
  <2>1. n + 1 \in 1..N /\ (n + 1) - 1 = n /\ n <= N
    OBVIOUS
  <2>2. g[n] = CollectedUpTo(ranks, n)
    BY <2>1, <1>9
  <2>3. g[n + 1] = Append(g[n], MemberAt(ranks[n + 1]))
    BY <2>1, <1>7
  <2>. QED
    BY <2>1, <2>2, <2>3, CollectedGrows
<1>10. N \in S
  <2>. HIDE DEF S
  <2>. QED
    BY <1>8, <1>9, NatSetInduction
<1>. QED
  BY <1>1, <1>6, <1>10 DEF CollectedUpTo

-----------------------------------------------------------------------------
\* The ranges

LEMMA Casts ==
  ASSUME NEW a \in Nat, a < Word
  PROVE  a % Word = a /\ (-1) % Word = Word - 1
<1>1. Word \in Nat \ {0}
  BY CountersSuffice
<1>. QED
  BY <1>1

\* Members at consecutive ranks are listed in order, each once.
LEMMA ListingOf ==
  ASSUME Settled, NEW lo \in Nat, NEW n \in Nat, lo + n <= Size,
         NEW s \in [1..n -> Members],
         \A i \in 1..n : s[i] = MemberAt(lo + i - 1),
         NEW S, \A x : x \in S <=> \E r \in lo..(lo + n - 1) : x = MemberAt(r)
  PROVE  Listing(s, S) /\ Cardinality(S) = n
<1>0. Size \in Nat
  BY TreeFinite
<1>1. \A i \in 1..n : lo + i - 1 \in 0..(Size - 1) /\ s[i] = MemberAt(lo + i - 1)
  BY <1>0
<1>2. DOMAIN s = 1..n /\ Len(s) = n
  OBVIOUS
<1>3. {s[i] : i \in 1..n} = S
  <2>1. \A r \in lo..(lo + n - 1) : r - lo + 1 \in 1..n /\ lo + (r - lo + 1) - 1 = r
    OBVIOUS
  <2>2. \A i \in 1..n : lo + i - 1 \in lo..(lo + n - 1)
    OBVIOUS
  <2>3. \A r \in lo..(lo + n - 1) : \E i \in 1..n : s[i] = MemberAt(r)
    BY <2>1, <1>1
  <2>4. \A x \in S : \E i \in 1..n : s[i] = x
    BY <2>3
  <2>5. \A i \in 1..n : s[i] \in S
    BY <2>2, <1>1
  <2>. QED
    BY <2>4, <2>5
<1>4. \A i \in 1..n, j \in 1..n : i < j => Precedes(s[i], s[j])
  <2>. SUFFICES ASSUME NEW i \in 1..n, NEW j \in 1..n, i < j
                PROVE  Precedes(s[i], s[j])
    OBVIOUS
  <2>1. lo + i - 1 < lo + j - 1
    OBVIOUS
  <2>. QED
    BY <2>1, <1>1, MembersOrdered
<1>5. Cardinality(S) = n
  <2>1. s \in Surjection(1..n, S)
    BY <1>2, <1>3 DEF Surjection
  <2>2. s \in Injection(1..n, S)
    <3>1. s \in [1..n -> S]
      BY <1>2, <1>3
    <3>2. ASSUME NEW i \in 1..n, NEW j \in 1..n, s[i] = s[j] PROVE i = j
      <4>1. lo + i - 1 = lo + j - 1
        BY <3>2, <1>1, MembersOrdered
      <4>. QED
        BY <4>1
    <3>. QED
      BY <3>1, <3>2 DEF Injection, IsInjective
  <2>3. 1 \in Int /\ n \in Int
    OBVIOUS
  <2>4. IsFiniteSet(1..n) /\ Cardinality(1..n) = IF 1 > n THEN 0 ELSE n - 1 + 1
    BY <2>3, FS_Interval
  <2>5. Cardinality(1..n) = n
    BY <2>4
  <2>. QED
    BY <2>1, <2>2, <2>4, <2>5, FS_Surjection
<1>. QED
  BY <1>2, <1>3, <1>4, <1>5 DEF Listing

\* The places that a range of ranks covers.
LEMMA RankRange ==
  ASSUME Settled, NEW start \in Nat, NEW stop \in Nat, NEW end \in Nat,
         start <= end, end = IF stop < Size THEN stop + 1 ELSE Size,
         NEW reverse \in BOOLEAN
  PROVE  GetRangeByRank(start, stop, reverse) =
           [i \in 1..(end - start) |->
              MemberAt(IF reverse THEN Size - (start + i) ELSE start + i - 1)]
<1>0. Size \in Nat
  BY TreeFinite
<1>1. CASE start >= Size
  <2>1. end - start = 0
    BY <1>0, <1>1
  <2>2. [i \in 1..0 |-> MemberAt(IF reverse THEN Size - (start + i) ELSE start + i - 1)]
          = <<>>
    OBVIOUS
  <2>3. GetRangeByRank(start, stop, reverse) = <<>>
    BY <1>1 DEF GetRangeByRank
  <2>. QED
    BY <2>1, <2>2, <2>3
<1>2. CASE start < Size
  <2>. DEFINE last == IF stop < Size - 1 THEN stop ELSE Size - 1
              ranks == [i \in 1..(last - start + 1) |->
                          IF reverse THEN Size - 1 - (start + i - 1) ELSE start + i - 1]
              N == end - start
  <2>1. N \in Nat /\ last - start + 1 = N /\ start + N <= Size
    BY <1>0, <1>2
  <2>2. GetRangeByRank(start, stop, reverse) = MembersAt(ranks)
    BY <1>0, <1>2 DEF GetRangeByRank
  <2>. HIDE DEF last, N
  <2>3. \A i \in 1..N : /\ start + i - 1 \in 0..(Size - 1)
                        /\ Size - 1 - (start + i - 1) \in 0..(Size - 1)
                        /\ Size - 1 - (start + i - 1) = Size - (start + i)
    BY <1>0, <2>1
  <2>4. /\ ranks \in [1..N -> 0..(Size - 1)]
        /\ \A i \in 1..N : ranks[i] = IF reverse THEN Size - (start + i) ELSE start + i - 1
    BY <2>1, <2>3
  <2>. HIDE DEF ranks
  <2>5. MembersAt(ranks) = [i \in 1..N |-> MemberAt(ranks[i])]
    BY <2>1, <2>4, MembersAtAll
  <2>6. MembersAt(ranks) =
          [i \in 1..N |-> MemberAt(IF reverse THEN Size - (start + i) ELSE start + i - 1)]
    BY <2>4, <2>5
  <2>. QED
    BY <2>2, <2>6 DEF N
<1>. QED
  BY <1>0, <1>1, <1>2

Forward == [i \in 1..Size |-> MemberAt(i - 1)]
Backward == [i \in 1..Size |-> MemberAt(Size - i)]

LEMMA AllMembers ==
  ASSUME Settled
  PROVE  /\ zrange(0, -1, FALSE) = Forward
         /\ zrange(0, -1, TRUE) = Backward
         /\ Forward \in [1..Size -> Members] /\ Backward \in [1..Size -> Members]
<1>0. Size \in Nat /\ Size < Word /\ Word \in Nat
  BY TreeFinite, CountersSuffice
<1>1. 0 % Word = 0 /\ (-1) % Word = Word - 1
  BY <1>0, Casts
<1>2. Word - 1 \in Nat /\ Size = IF Word - 1 < Size THEN (Word - 1) + 1 ELSE Size
  BY <1>0
<1>3. \A reverse \in BOOLEAN :
        zrange(0, -1, reverse) = GetRangeByRank(0, Word - 1, reverse)
  BY <1>1 DEF zrange
<1>4. \A reverse \in BOOLEAN :
        zrange(0, -1, reverse) =
           [i \in 1..(Size - 0) |->
              MemberAt(IF reverse THEN Size - (0 + i) ELSE 0 + i - 1)]
  BY <1>0, <1>2, <1>3, RankRange
<1>5. Size - 0 = Size /\ \A i \in 1..Size : Size - (0 + i) = Size - i /\ 0 + i - 1 = i - 1
  BY <1>0
<1>6. zrange(0, -1, FALSE) = Forward
  <2>1. zrange(0, -1, FALSE) = [i \in 1..(Size - 0) |-> MemberAt(0 + i - 1)]
    BY <1>4
  <2>. QED
    BY <2>1, <1>5 DEF Forward
<1>7. zrange(0, -1, TRUE) = Backward
  <2>1. zrange(0, -1, TRUE) = [i \in 1..(Size - 0) |-> MemberAt(Size - (0 + i))]
    BY <1>4
  <2>. QED
    BY <2>1, <1>5 DEF Backward
<1>8. \A i \in 1..Size : i - 1 \in 0..(Size - 1) /\ Size - i \in 0..(Size - 1)
  BY <1>0
<1>9. \A r \in 0..(Size - 1) : MemberAt(r) \in Members
  BY MemberAtFacts DEF Present
<1>. QED
  BY <1>6, <1>7, <1>8, <1>9 DEF Forward, Backward

\* Where a slice of n places that stops at a rank ends.
EndOf(stop, n) == IF stop < n THEN stop + 1 ELSE n

\* The places of s from start to before end, counted from 0.
Cut(s, start, end) == [i \in 1..(end - start) |-> s[start + i]]

\* A slice of a sequence, place by place.
LEMMA SliceOf ==
  ASSUME NEW n \in Nat, NEW s \in [1..n -> Members],
         NEW start \in Nat, NEW stop \in Nat, NEW end \in Nat,
         start <= end, end = EndOf(stop, n)
  PROVE  Slice(s, start, stop) = Cut(s, start, end)
<1>1. Len(s) = n
  OBVIOUS
<1>2. Slice(s, start, stop) = SubSeq(s, start + 1, end)
  BY <1>1 DEF Slice, EndOf
<1>3. start + 1 \in Int /\ end \in Int /\ end <= n
  BY DEF EndOf
<1>4. \A i \in (start + 1)..end : s[i] \in Members
  BY <1>3
<1>. DEFINE a == SubSeq(s, start + 1, end)
            b == [i \in 1..(end - start) |-> s[start + i]]
<1>5. /\ a \in Seq(Members)
      /\ Len(a) = IF start + 1 <= end THEN end - (start + 1) + 1 ELSE 0
      /\ \A i \in 1..(end - (start + 1) + 1) : a[i] = s[(start + 1) + i - 1]
  BY <1>3, <1>4, SubSeqProperties
<1>6. b \in [1..(end - start) -> Members] /\ \A i \in 1..(end - start) : b[i] = s[start + i]
  BY <1>3
<1>7. end - start \in Nat /\ end - (start + 1) + 1 = end - start
  OBVIOUS
<1>. HIDE DEF a, b
<1>8. b \in Seq(Members) /\ Len(b) = end - start /\ Len(a) = end - start
  <2>1. b \in Seq(Members) /\ Len(b) = end - start
    BY <1>6, <1>7, SequenceOf
  <2>2. ~ (start + 1 <= end) => end - start = 0
    OBVIOUS
  <2>. QED
    BY <2>1, <2>2, <1>5, <1>7
<1>9. \A i \in 1..Len(a) : a[i] = b[i]
  <2>1. \A i \in 1..(end - start) : (start + 1) + i - 1 = start + i
    OBVIOUS
  <2>. QED
    BY <2>1, <1>5, <1>6, <1>7, <1>8
<1>10. a = b
  BY <1>5, <1>8, <1>9, SeqEqual
<1>. QED
  BY <1>2, <1>10 DEF a, b, Cut

\* zrange cuts the list of all members at its ranks.
LEMMA ZRangeSlices ==
  ASSUME Settled, NEW start \in 0..Size, NEW stop \in (start - 1)..Size
  PROVE  /\ stop >= 0 => zrange(start, stop, FALSE) = Slice(Forward, start, stop)
         /\ stop >= 0 => zrange(start, stop, TRUE) = Slice(Backward, start, stop)
         /\ zrange(-1, stop, FALSE) = <<>>
<1>0. Size \in Nat /\ Size < Word /\ Word \in Nat /\ start \in Nat /\ stop \in Int
  BY TreeFinite, CountersSuffice
<1>1. zrange(-1, stop, FALSE) = <<>>
  <2>1. (-1) % Word = Word - 1 /\ Word - 1 >= Size
    BY <1>0, Casts
  <2>. QED
    BY <2>1 DEF zrange, GetRangeByRank
<1>2. CASE stop >= 0
  <2>. DEFINE end == IF stop < Size THEN stop + 1 ELSE Size
  <2>1. stop \in Nat /\ end \in Nat /\ start <= end /\ end <= Size
    BY <1>0, <1>2
  <2>2. start < Word /\ stop < Word
    BY <1>0
  <2>3. start % Word = start /\ stop % Word = stop
    BY <2>1, <2>2, <1>0, Casts
  <2>4. \A reverse \in BOOLEAN :
          zrange(start, stop, reverse) = GetRangeByRank(start, stop, reverse)
    BY <2>3 DEF zrange
  <2>5. \A reverse \in BOOLEAN :
          zrange(start, stop, reverse) =
            [i \in 1..(end - start) |->
               MemberAt(IF reverse THEN Size - (start + i) ELSE start + i - 1)]
    BY <1>0, <2>1, <2>4, RankRange
  <2>6. /\ Slice(Forward, start, stop) = [i \in 1..(end - start) |-> Forward[start + i]]
        /\ Slice(Backward, start, stop) = [i \in 1..(end - start) |-> Backward[start + i]]
    <3>1. end = EndOf(stop, Size)
      BY DEF EndOf
    <3>2. Forward \in [1..Size -> Members] /\ Backward \in [1..Size -> Members]
      BY AllMembers
    <3>. HIDE DEF end
    <3>3. Slice(Forward, start, stop) = Cut(Forward, start, end)
      BY <1>0, <2>1, <3>1, <3>2, SliceOf
    <3>4. Slice(Backward, start, stop) = Cut(Backward, start, end)
      BY <1>0, <2>1, <3>1, <3>2, SliceOf
    <3>. QED
      BY <3>3, <3>4 DEF Cut
  <2>7. \A i \in 1..(end - start) : start + i \in 1..Size
    BY <1>0, <2>1
  <2>. HIDE DEF end
  <2>8. \A i \in 1..(end - start) :
          /\ Forward[start + i] = MemberAt(start + i - 1)
          /\ Backward[start + i] = MemberAt(Size - (start + i))
    BY <2>7 DEF Forward, Backward
  <2>9. zrange(start, stop, FALSE) = [i \in 1..(end - start) |-> MemberAt(start + i - 1)]
    BY <2>5
  <2>10. zrange(start, stop, TRUE) = [i \in 1..(end - start) |-> MemberAt(Size - (start + i))]
    BY <2>5
  <2>11. zrange(start, stop, FALSE) = Slice(Forward, start, stop)
    BY <2>6, <2>8, <2>9
  <2>12. zrange(start, stop, TRUE) = Slice(Backward, start, stop)
    BY <2>6, <2>8, <2>10
  <2>. QED
    BY <1>1, <2>11, <2>12
<1>. QED
  BY <1>1, <1>2

\* The walk over a range of scores goes through the ranks of the elements with
\* such scores, and no others.
LEMMA WalkFacts ==
  ASSUME Settled, NEW min \in Scores, NEW max \in Scores
  PROVE  \E first \in Nat, n \in Nat :
           /\ first + n <= Size
           /\ ScoreWalk(min, max) = [i \in 1..n |-> first + i - 1]
           /\ \A r \in 0..(Size - 1) :
                r \in first..(first + n - 1) <=> min <= AtRank(r)[1] /\ AtRank(r)[1] <= max
<1>. DEFINE first == RankOf(<<min, 0>>)
            stops == {r \in first..(Size - 1) : AtRank(r)[1] > max} \cup {Size}
            stop  == CHOOSE r \in stops : \A q \in stops : r <= q
            n == stop - first
<1>0. Size \in Nat /\ min \in Int /\ max \in Int
  BY TreeFinite, ZSetAssumption
<1>1. \A r \in 0..(Size - 1) :
        AtRank(r) \in ordered_set /\ RankOf(AtRank(r)) = r /\ AtRank(r)[1] \in Int
  BY AtRankFacts, ElementType
<1>2. /\ first \in Nat /\ first <= Size
      /\ \A r \in 0..(Size - 1) : r < first <=> AtRank(r)[1] < min
  <2>. DEFINE L == Lower(<<min, 0>>)
  <2>1. \A e \in ordered_set : e \in L <=> e[1] < min
    BY <1>0, ElementType DEF Lower, Less
  <2>2. L \in SUBSET ordered_set /\ first = Cardinality(L) /\ first \in Nat
    BY LowerFinite DEF Lower
  <2>. HIDE DEF L, first
  <2>3. \A a \in L, b \in ordered_set : Less(b, a) => b \in L
    <3>. SUFFICES ASSUME NEW a \in L, NEW b \in ordered_set, Less(b, a)
                  PROVE  b \in L
      OBVIOUS
    <3>1. a \in ordered_set /\ b[1] <= a[1] /\ a[1] < min
      BY <2>1, <2>2, LessOrder
    <3>2. a[1] \in Int /\ b[1] \in Int
      BY <3>1, ElementType
    <3>. QED
      BY <3>1, <3>2, <2>1, <1>0
  <2>4. \A e \in ordered_set : e \in L <=> RankOf(e) < Cardinality(L)
    BY <2>2, <2>3, LowerSets
  <2>5. \A r \in 0..(Size - 1) : r < first <=> AtRank(r)[1] < min
    BY <1>1, <2>1, <2>2, <2>4
  <2>6. first <= Size
    BY <2>2, TreeFinite, FS_Subset DEF Size
  <2>. QED
    BY <2>2, <2>5, <2>6
<1>. HIDE DEF first
<1>3. stop \in stops /\ \A q \in stops : stop <= q
  <2>1. stops \in SUBSET Nat /\ stops # {}
    BY <1>0, <1>2
  <2>. HIDE DEF stops
  <2>2. \E r \in stops : \A q \in stops : r <= q
    BY <2>1, LeastExists
  <2>. QED
    BY <2>2
<1>4. stop \in first..Size
  BY <1>0, <1>2, <1>3
<1>. HIDE DEF stop
<1>5. ASSUME NEW r \in 0..(Size - 1), first <= r
      PROVE  r < stop <=> AtRank(r)[1] <= max
  <2>1. CASE r < stop
    <3>1. r \notin stops /\ r \in first..(Size - 1)
      BY <1>0, <1>2, <1>3, <1>4, <1>5, <2>1
    <3>. QED
      BY <3>1, <2>1, <1>0, <1>1
  <2>2. CASE ~ (r < stop)
    <3>1. stop \in 0..(Size - 1) /\ stop <= r
      BY <2>2, <1>0, <1>2, <1>4
    <3>2. AtRank(stop)[1] > max
      BY <3>1, <1>0, <1>3
    <3>3. AtRank(stop)[1] <= AtRank(r)[1]
      BY <3>1, MembersOrdered
    <3>. QED
      BY <2>2, <3>1, <3>2, <3>3, <1>0, <1>1
  <2>. QED
    BY <2>1, <2>2
<1>6. n \in Nat /\ first + n <= Size /\ first + n = stop
  BY <1>0, <1>2, <1>4
<1>7. ScoreWalk(min, max) = [i \in 1..n |-> first + i - 1]
  BY DEF ScoreWalk, first, stop
<1>. HIDE DEF n, stops
<1>8. ASSUME NEW r \in 0..(Size - 1)
      PROVE  r \in first..(first + n - 1) <=> min <= AtRank(r)[1] /\ AtRank(r)[1] <= max
  <2>1. r \in Int /\ stop \in Int /\ AtRank(r)[1] \in Int
    BY <1>0, <1>1, <1>4
  <2>2. r \in first..(first + n - 1) <=> first <= r /\ r < stop
    BY <1>2, <1>6, <2>1
  <2>3. first <= r <=> min <= AtRank(r)[1]
    BY <1>0, <1>2, <2>1
  <2>. QED
    BY <1>5, <2>2, <2>3
<1>. QED
  BY <1>2, <1>6, <1>7, <1>8

LEMMA ScoreRanges ==
  ASSUME Settled, NEW range \in Ranges
  PROVE  LET S == {m \in Members : InRange(m, range)}
         IN  /\ Listing(GetRangeByScore(range.min, range.max), S)
             /\ CountRange(range.min, range.max) = Cardinality(S)
<1>. DEFINE S == {m \in Members : InRange(m, range)}
            walk == ScoreWalk(range.min, range.max)
<1>0. range.min \in Scores /\ range.max \in Scores
  BY DEF Ranges
<1>1. PICK first \in Nat, n \in Nat :
        /\ first + n <= Size
        /\ walk = [i \in 1..n |-> first + i - 1]
        /\ \A r \in 0..(Size - 1) :
             r \in first..(first + n - 1) <=>
               range.min <= AtRank(r)[1] /\ AtRank(r)[1] <= range.max
  BY <1>0, WalkFacts
<1>. HIDE DEF walk
<1>2. Size \in Nat
  BY TreeFinite
<1>3. Len(walk) = n /\ walk \in [1..n -> 0..(Size - 1)]
  BY <1>1, <1>2
<1>4. MembersAt(walk) = [i \in 1..n |-> MemberAt(first + i - 1)]
  <2>1. MembersAt(walk) = [i \in 1..n |-> MemberAt(walk[i])]
    BY <1>3, MembersAtAll
  <2>. QED
    BY <2>1, <1>1
<1>5. S = {MemberAt(r) : r \in first..(first + n - 1)}
  <2>0. first..(first + n - 1) \subseteq 0..(Size - 1)
    BY <1>1, <1>2
  <2>1. ASSUME NEW m \in S
        PROVE  \E r \in first..(first + n - 1) : m = MemberAt(r)
    <3>1. m \in Present /\ range.min <= member_to_score[m] /\ member_to_score[m] <= range.max
      BY DEF InRange, Present
    <3>. DEFINE r == RankOf(ElementOf(m))
    <3>2. r \in 0..(Size - 1) /\ MemberAt(r) = m
      BY <3>1, MemberRank
    <3>. HIDE DEF r
    <3>3. AtRank(r)[1] = member_to_score[m]
      BY <3>1, <3>2, MemberAtFacts, PresentElement
    <3>. QED
      BY <1>1, <3>1, <3>2, <3>3
  <2>2. ASSUME NEW r \in first..(first + n - 1)
        PROVE  MemberAt(r) \in S
    <3>1. r \in 0..(Size - 1)
      BY <2>0
    <3>2. range.min <= AtRank(r)[1] /\ AtRank(r)[1] <= range.max
      BY <1>1, <3>1
    <3>3. MemberAt(r) \in Present /\ ElementOf(MemberAt(r)) = AtRank(r)
      BY <3>1, MemberAtFacts
    <3>4. AtRank(r)[1] = member_to_score[MemberAt(r)]
      BY <3>3, PresentElement
    <3>. QED
      BY <3>2, <3>3, <3>4 DEF InRange, Present
  <2>. HIDE DEF S
  <2>. QED
    BY <2>1, <2>2
<1>. HIDE DEF S
<1>6. Listing(MembersAt(walk), S) /\ Cardinality(S) = n
  <2>1. /\ MembersAt(walk) \in [1..n -> Members]
        /\ \A i \in 1..n : MembersAt(walk)[i] = MemberAt(first + i - 1)
    <3>1. \A i \in 1..n : first + i - 1 \in 0..(Size - 1)
      BY <1>1, <1>2
    <3>2. \A i \in 1..n : MemberAt(first + i - 1) \in Members
      BY <3>1, MemberAtFacts DEF Present
    <3>. QED
      BY <3>2, <1>4
  <2>2. \A x : x \in S <=> \E r \in first..(first + n - 1) : x = MemberAt(r)
    BY <1>5
  <2>. QED
    BY <1>1, <2>1, <2>2, ListingOf, ZenonT(30)
<1>7. GetRangeByScore(range.min, range.max) = MembersAt(walk)
      /\ CountRange(range.min, range.max) = Len(walk)
  BY DEF GetRangeByScore, CountRange, walk
<1>. QED
  BY <1>3, <1>6, <1>7 DEF S

\* A member's rank is its place in the list of all members; GetByRank and
\* GetScoreByRank count from its beginning whatever reverse says.
LEMMA PlacesAreRanks ==
  ASSUME Settled, NEW i \in 1..Size
  PROVE  /\ GetRank(Forward[i], FALSE) = i - 1
         /\ GetRank(Forward[i], TRUE) = Size - i
         /\ \A reverse \in BOOLEAN :
              /\ GetByRank(i - 1, reverse) = Forward[i]
              /\ GetScoreByRank(i - 1, reverse) = GetScore(Forward[i])
<1>. DEFINE r == i - 1
            m == MemberAt(r)
<1>0. Size \in Nat /\ r \in 0..(Size - 1) /\ i \in Int /\ ~ (r >= Size)
  BY TreeFinite
<1>1. Forward[i] = m
  BY DEF Forward
<1>. HIDE DEF r
<1>2. /\ m \in Present /\ ElementOf(m) = AtRank(r) /\ RankOf(ElementOf(m)) = r
  BY <1>0, MemberAtFacts
<1>. HIDE DEF m
<1>3. Contains(m) /\ ElementOf(m) \in ordered_set /\ ElementOf(m)[1] = member_to_score[m]
  BY <1>2, PresentElement DEF Present
<1>4. GetRank(m, FALSE) = r /\ GetRank(m, TRUE) = Size - r - 1
  BY <1>2, <1>3 DEF GetRank, ElementOf
<1>5. Size - r - 1 = Size - i
  BY <1>0 DEF r
<1>6. \A reverse \in BOOLEAN : GetByRank(r, reverse) = m
  BY <1>0 DEF GetByRank, m, MemberAt
<1>7. \A reverse \in BOOLEAN : GetScoreByRank(r, reverse) = GetScore(m)
  BY <1>0, <1>2, <1>3 DEF GetScoreByRank, GetScore
<1>. QED
  BY <1>1, <1>4, <1>5, <1>6, <1>7 DEF r

LEMMA ForwardListing ==
  ASSUME Settled
  PROVE  /\ Size = Cardinality(Present)
         /\ Listing(Forward, Present)
         /\ Mirrored(Forward, Backward)
<1>0. Size \in Nat /\ 0 \in Nat /\ 0 + Size <= Size
  BY TreeFinite
<1>1. /\ Forward \in [1..Size -> Members]
      /\ \A i \in 1..Size : Forward[i] = MemberAt(0 + i - 1)
  <2>1. \A i \in 1..Size : i - 1 = 0 + i - 1
    BY <1>0
  <2>. QED
    BY <2>1, AllMembers DEF Forward
<1>2. \A x : x \in Present <=> \E r \in 0..(0 + Size - 1) : x = MemberAt(r)
  <2>1. 0 + Size - 1 = Size - 1
    BY <1>0
  <2>2. \A x \in Present : \E r \in 0..(Size - 1) : x = MemberAt(r)
    BY MemberRank
  <2>3. \A r \in 0..(Size - 1) : MemberAt(r) \in Present
    BY MemberAtFacts
  <2>. QED
    BY <2>1, <2>2, <2>3
<1>3. Listing(Forward, Present) /\ Cardinality(Present) = Size
  BY <1>0, <1>1, <1>2, ListingOf, ZenonT(30)
<1>4. Mirrored(Forward, Backward)
  <2>1. Len(Forward) = Size /\ Len(Backward) = Size /\ DOMAIN Forward = 1..Size
    BY <1>0 DEF Forward, Backward
  <2>2. \A i \in 1..Size : Size - i + 1 \in 1..Size /\ Size - (Size - i + 1) = i - 1
    BY <1>0
  <2>3. \A i \in 1..Size : Forward[i] = Backward[Size - i + 1]
    BY <2>2 DEF Forward, Backward
  <2>. QED
    BY <2>1, <2>3 DEF Mirrored
<1>. QED
  BY <1>3, <1>4

\* What a reading thread is told agrees with the scores: zrange, the ranks and
\* the ranges of scores of ZSetBPlus, for any number of members below the
\* range of its counters and whatever the other threads are about to do.
THEOREM ReadersSeeScores == Spec => []ReadsAgree
<1>1. IInv => ReadsAgree
  <2>. SUFFICES ASSUME IInv, NEW t \in Threads, pc[t] = "read"
                PROVE  LET present == {m \in Members : Contains(m)}
                           all     == zrange(0, -1, FALSE)
                           back    == zrange(0, -1, TRUE)
                           n       == Cardinality(present)
                       IN /\ Size = n
                          /\ Listing(all, present) /\ Mirrored(all, back)
                          /\ \A start \in 0..n : \A stop \in (start - 1)..n :
                               /\ stop >= 0 => zrange(start, stop, FALSE) = Slice(all, start, stop)
                               /\ stop >= 0 => zrange(start, stop, TRUE) = Slice(back, start, stop)
                               /\ zrange(-1, stop, FALSE) = <<>>
                          /\ \A i \in DOMAIN all :
                               /\ GetRank(all[i], FALSE) = i - 1
                               /\ GetRank(all[i], TRUE) = n - i
                               /\ \A reverse \in BOOLEAN :
                                    /\ GetByRank(i - 1, reverse) = all[i]
                                    /\ GetScoreByRank(i - 1, reverse) = GetScore(all[i])
                          /\ \A range \in Ranges :
                               LET S == {m \in Members : InRange(m, range)} IN
                               /\ Listing(GetRangeByScore(range.min, range.max), S)
                               /\ CountRange(range.min, range.max) = Cardinality(S)
    BY DEF ReadsAgree
  <2>1. Settled
    BY ReadSettled
  <2>2. Size = Cardinality(Present) /\ Listing(Forward, Present)
        /\ Mirrored(Forward, Backward)
    BY <2>1, ForwardListing
  <2>3. zrange(0, -1, FALSE) = Forward /\ zrange(0, -1, TRUE) = Backward
    BY <2>1, AllMembers
  <2>4. \A start \in 0..Size : \A stop \in (start - 1)..Size :
          /\ stop >= 0 => zrange(start, stop, FALSE) = Slice(Forward, start, stop)
          /\ stop >= 0 => zrange(start, stop, TRUE) = Slice(Backward, start, stop)
          /\ zrange(-1, stop, FALSE) = <<>>
    BY <2>1, ZRangeSlices
  <2>5. DOMAIN Forward = 1..Size
    BY DEF Forward
  <2>6. \A i \in DOMAIN Forward :
          /\ GetRank(Forward[i], FALSE) = i - 1
          /\ GetRank(Forward[i], TRUE) = Size - i
          /\ \A reverse \in BOOLEAN :
               /\ GetByRank(i - 1, reverse) = Forward[i]
               /\ GetScoreByRank(i - 1, reverse) = GetScore(Forward[i])
    BY <2>1, <2>5, PlacesAreRanks
  <2>7. \A range \in Ranges :
          LET S == {m \in Members : InRange(m, range)} IN
          /\ Listing(GetRangeByScore(range.min, range.max), S)
          /\ CountRange(range.min, range.max) = Cardinality(S)
    BY <2>1, ScoreRanges
  <2>. QED
    BY <2>2, <2>3, <2>4, <2>6, <2>7, Zenon DEF Present
<1>. QED
  BY <1>1, Invariant, PTL

=============================================================================
