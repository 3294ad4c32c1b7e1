-------------------------------- MODULE TwoQ --------------------------------
(***************************************************************************)
(* The 2Q structure of src/src/eviction_2q.cpp as operators on a value     *)
(*   q = [prob, prot, state]                                               *)
(* prob is probationary_queue_ and prot is protected_queue_ (front first), *)
(* and state is key_state_: its domain is the set of tracked keys.  Every  *)
(* method of the class runs under one mutex, so each is one operator.      *)
(* Eviction2Q.tla is the class as a state machine; Engine.tla uses the     *)
(* operators inside the operations that call the class.                    *)
(***************************************************************************)
EXTENDS Integers, Sequences, FiniteSets, SequencesExt

CONSTANTS ProtNum, ProtDen     \* 1 - probationary_ratio_ (933/1000 by default)

ASSUME RatioAssumption ==
  /\ ProtNum \in Nat
  /\ ProtDen \in Nat \ {0}
  /\ ProtNum < ProtDen

Probationary == "kProbationary"
Protected == "kProtected"
QState == {Probationary, Protected}

NoVictim == <<>>               \* std::nullopt; a victim k is <<k>>

-----------------------------------------------------------------------------

EmptyQ == [prob |-> <<>>, prot |-> <<>>, state |-> [k \in {} |-> Probationary]]

Tracked(q) == DOMAIN q.state

\* static_cast<size_t>(total * (1.0 - probationary_ratio_))
MaxProtected(total) == (total * ProtNum) \div ProtDen

\* A mutant: the loop's bound counts one protected key too many.
DemotedCountOffByOne(prob, prot) ==
  LET cap == MaxProtected(Len(prob) + Len(prot)) + 1
  IN  IF Len(prot) > cap THEN Len(prot) - cap ELSE 0

\* How many keys the demotion loop of promote_to_protected moves.
DemotedCount(prob, prot) ==
  LET cap == MaxProtected(Len(prob) + Len(prot))
  IN  IF Len(prot) > cap THEN Len(prot) - cap ELSE 0

\* A mutant: the most recently used protected keys are demoted.
PromotedDemotesMRU(q, k) ==
  LET prob == RemoveFirst(q.prob, k)
      keep == Len(q.prot) - DemotedCount(prob, q.prot)
  IN  [prob  |-> prob \o SubSeq(q.prot, keep + 1, Len(q.prot)),
       prot  |-> Append(SubSeq(q.prot, 1, keep), k),
       state |-> [j \in Tracked(q) |->
                    IF j = k THEN Protected
                    ELSE IF j \in ToSet(SubSeq(q.prot, keep + 1, Len(q.prot)))
                    THEN Probationary
                    ELSE q.state[j]]]

\* A mutant: a demoted key keeps its protected state.
PromotedKeepsState(q, k) ==
  LET prob == RemoveFirst(q.prob, k)
      d    == DemotedCount(prob, q.prot)
  IN  [prob  |-> prob \o SubSeq(q.prot, 1, d),
       prot  |-> Append(SubSeq(q.prot, d + 1, Len(q.prot)), k),
       state |-> [q.state EXCEPT ![k] = Protected]]

\* promote_to_protected: k leaves the probationary queue, the least recently
\* used protected keys are demoted to the back of it until the rest fits, and
\* k becomes the most recently used protected key.
Promoted(q, k) ==
  LET prob == RemoveFirst(q.prob, k)
      d    == DemotedCount(prob, q.prot)
  IN  [prob  |-> prob \o SubSeq(q.prot, 1, d),
       prot  |-> Append(SubSeq(q.prot, d + 1, Len(q.prot)), k),
       state |-> [j \in Tracked(q) |->
                    IF j = k THEN Protected
                    ELSE IF j \in ToSet(SubSeq(q.prot, 1, d)) THEN Probationary
                    ELSE q.state[j]]]

\* A mutant: the state of a new key is left unset.
EnteredUnset(q, k) ==
  [prob  |-> Append(q.prob, k),
   prot  |-> q.prot,
   state |-> [j \in Tracked(q) \cup {k} |->
                IF j = k THEN "unset" ELSE q.state[j]]]

\* First access: the key enters at the back of the probationary queue.
Entered(q, k) ==
  [prob  |-> Append(q.prob, k),
   prot  |-> q.prot,
   state |-> [j \in Tracked(q) \cup {k} |->
                IF j = k THEN Probationary ELSE q.state[j]]]

\* A mutant: an access to a protected key does not move it.
TouchedInPlace(q, k) == q

\* Access to a protected key: it moves to the most recently used end.
Touched(q, k) ==
  [prob |-> q.prob, prot |-> Append(RemoveFirst(q.prot, k), k),
   state |-> q.state]

\* RecordAccess(key, is_new): the code ignores is_new.
Accessed(q, k) ==
  IF k \notin Tracked(q) THEN Entered(q, k)
  ELSE IF q.state[k] = Probationary THEN Promoted(q, k)
  ELSE Touched(q, k)

Untracked(state, S) == [j \in DOMAIN state \ S |-> state[j]]

\* RemoveKey(key)
Removed(q, k) ==
  IF k \notin Tracked(q) THEN q
  ELSE IF q.state[k] = Probationary
  THEN [prob |-> RemoveFirst(q.prob, k), prot |-> q.prot,
        state |-> Untracked(q.state, {k})]
  ELSE [prob |-> q.prob, prot |-> RemoveFirst(q.prot, k),
        state |-> Untracked(q.state, {k})]

\* What GetVictim() returns: the oldest probationary key, else the least
\* recently used protected key.
Victim(q) ==
  IF q.prob # <<>> THEN <<Head(q.prob)>>
  ELSE IF q.prot # <<>> THEN <<Head(q.prot)>>
  ELSE NoVictim

\* A mutant: the protected queue is drained first.
AfterVictimProtectedFirst(q) ==
  IF q.prot # <<>>
  THEN [prob |-> q.prob, prot |-> Tail(q.prot),
        state |-> Untracked(q.state, {Head(q.prot)})]
  ELSE IF q.prob # <<>>
  THEN [prob |-> Tail(q.prob), prot |-> q.prot,
        state |-> Untracked(q.state, {Head(q.prob)})]
  ELSE q

\* ... and what GetVictim() leaves behind.
AfterVictim(q) ==
  IF q.prob # <<>>
  THEN [prob |-> Tail(q.prob), prot |-> q.prot,
        state |-> Untracked(q.state, {Head(q.prob)})]
  ELSE IF q.prot # <<>>
  THEN [prob |-> q.prob, prot |-> Tail(q.prot),
        state |-> Untracked(q.state, {Head(q.prot)})]
  ELSE q

=============================================================================
