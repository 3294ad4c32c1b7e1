----------------------------- MODULE Eviction2Q -----------------------------
(***************************************************************************)
(* The class Eviction2Q (src/src/eviction_2q.cpp) as a state machine: any  *)
(* number of threads call RecordAccess, RemoveKey and GetVictim, and the   *)
(* mutex makes each call one step.                                         *)
(***************************************************************************)
EXTENDS TwoQ

CONSTANT Keys

VARIABLES
  q,         \* the two queues and key_state_
  recency    \* history: the tracked keys, least recently accessed first

vars == <<q, recency>>

-----------------------------------------------------------------------------

Init ==
  /\ q = EmptyQ
  /\ recency = <<>>

RecordAccess(k) ==
  /\ q' = Accessed(q, k)
  /\ recency' = Append(RemoveFirst(recency, k), k)

RemoveKey(k) ==
  /\ q' = Removed(q, k)
  /\ recency' = RemoveFirst(recency, k)

GetVictim ==
  /\ q' = AfterVictim(q)
  /\ recency' = IF Victim(q) = NoVictim THEN recency
                ELSE RemoveFirst(recency, Head(Victim(q)))

Next ==
  \/ \E k \in Keys : RecordAccess(k) \/ RemoveKey(k)
  \/ GetVictim

Spec == Init /\ [][Next]_vars

-----------------------------------------------------------------------------
\* Properties

\* x stands somewhere before y in s.
Before(s, x, y) ==
  \E i, j \in 1..Len(s) : i < j /\ s[i] = x /\ s[j] = y

NoDuplicates(s) == \A i, j \in 1..Len(s) : s[i] = s[j] => i = j

TypeOK ==
  /\ q.prob \in Seq(Keys)
  /\ q.prot \in Seq(Keys)
  /\ Tracked(q) \subseteq Keys
  /\ q.state \in [Tracked(q) -> QState]
  /\ recency \in Seq(Keys)

\* Every queued key is queued once, in the queue key_state_ names for it, and
\* every tracked key is queued: RemoveKey searches only the queue the state
\* names and stops at the first match, so a key in the wrong queue, or twice
\* in one, would leave a ghost that GetVictim later returns.
QueuesMatchState ==
  /\ NoDuplicates(q.prob)
  /\ NoDuplicates(q.prot)
  /\ ToSet(q.prob) = {k \in Tracked(q) : q.state[k] = Probationary}
  /\ ToSet(q.prot) = {k \in Tracked(q) : q.state[k] = Protected}

\* x was last accessed before y.
LessRecent(x, y) == Before(recency, x, y)

\* protected_queue_ is an LRU list ("LRU - frequently accessed"): its keys lie
\* in the order of their last accesses, through promotions, touches, removals
\* and demotions.
ProtectedInLRUOrder ==
  \A x, y \in Keys : Before(q.prot, x, y) => LessRecent(x, y)

\* GetVictim gives up a protected key only when no key is on probation, and
\* then it is the key whose last access is the oldest of all tracked keys.
ProtectedVictimIsLRU ==
  [][GetVictim =>
       \A k \in Tracked(q) \ Tracked(q') :
         q.state[k] = Protected =>
           \A j \in Tracked(q) \ {k} :
             q.state[j] = Protected /\ LessRecent(k, j)]_vars

\* A promotion never empties the probationary queue while other keys are
\* tracked (the share of the protected queue is below one), so a burst of
\* re-accesses cannot make every key protected.
PromotionLeavesProbation ==
  [][\A k \in Tracked(q) \cap Tracked(q') :
       /\ q.state[k] = Probationary
       /\ q'.state[k] = Protected
       /\ Tracked(q) # {k}
       => q'.prob # <<>>]_vars

\* The history lists every tracked key once.
RecencyTracks ==
  /\ NoDuplicates(recency)
  /\ ToSet(recency) = Tracked(q)

\* The inductive invariant of Eviction2QProofs.
IInv ==
  /\ TypeOK
  /\ QueuesMatchState
  /\ RecencyTracks
  /\ ProtectedInLRUOrder

\* A key is demoted only by another key's promotion, and only the least
\* recently used protected keys are.
DemotionTakesLRU ==
  [][\A k \in Tracked(q) \cap Tracked(q') :
       q.state[k] = Protected /\ q'.state[k] = Probationary =>
         \A j \in ToSet(q'.prot) \cap ToSet(q.prot) : LessRecent(k, j)]_vars

=============================================================================
