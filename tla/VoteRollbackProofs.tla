-------------------------- MODULE VoteRollbackProofs --------------------------
(***************************************************************************)
(* The vote account never rolls back, and never votes at or below its      *)
(* root, for every value of VoteProgram's constants.                       *)
(*                                                                         *)
(* A Vote instruction moves a copy of the account over several steps and   *)
(* then overwrites the account with it, so the argument carries "the copy  *)
(* is no rollback of the account" as part of the inductive invariant; it   *)
(* is kept by each iteration because IsNoRollback is transitive.           *)
(***************************************************************************)
EXTENDS VoteProgramProofs

AboveRoot(v) == \A i \in DOMAIN v.votes : v.votes[i].slot > v.root_slot \/ v.root_slot = 0

\* An account that has rooted a slot has a vote.
RootHasVotes(v) == v.votes = << >> => v.root_slot = None

\* The inductive invariant.
RInv ==
    /\ IInv
    /\ AboveRoot(vs) /\ RootHasVotes(vs)
    /\ AboveRoot(tx.vs) /\ RootHasVotes(tx.vs)
    /\ tx.active => IsNoRollback(vs, tx.vs)

LEMMA VoteStateFields ==
    ASSUME NEW v \in VoteStates
    PROVE  /\ v.votes \in Seq(Lockout)
           /\ v.root_slot \in Nat \cup {None}
           /\ v.epoch_credits \in Seq(Nat \X Nat \X Nat)
           /\ credits(v.epoch_credits) \in Nat
           /\ \A i \in DOMAIN v.votes : /\ v.votes[i] \in Lockout
                                        /\ v.votes[i].slot \in Nat
                                        /\ v.votes[i].conf \in Nat
<1>1. /\ v.votes \in Seq(Lockout) /\ v.root_slot \in Nat \cup {None}
      /\ v.epoch_credits \in Seq(Nat \X Nat \X Nat)
  BY Zenon DEF VoteStates
<1>2. credits(v.epoch_credits) \in Nat
  BY <1>1 DEF credits
<1>3. \A i \in DOMAIN v.votes : v.votes[i] \in Lockout
  BY <1>1
<1>4. \A i \in DOMAIN v.votes : v.votes[i].slot \in Nat /\ v.votes[i].conf \in Nat
  <2>1. TAKE i \in DOMAIN v.votes
  <2>2. v.votes[i].slot \in Nat /\ v.votes[i].conf \in 0..MAX_LOCKOUT_HISTORY
    BY Zenon, <1>3, LockoutFields
  <2> QED
    BY <2>2, ConstantsAssumption
<1> QED
  BY Zenon, <1>1, <1>2, <1>3, <1>4

\* A vote that is expired at a slot is expired at every later one.
LEMMA ExpiredStaysExpired ==
    ASSUME NEW v \in Lockout, NEW s \in Nat, NEW t \in Nat, s <= t,
           ~ is_locked_out_at_slot(v, s)
    PROVE  ~ is_locked_out_at_slot(v, t)
<1>1. v.slot \in Nat /\ v.conf \in 0..MAX_LOCKOUT_HISTORY
  BY Zenon, LockoutFields
<1>2. v.conf <= v.conf
  BY <1>1, ConstantsAssumption
<1>3. INITIAL_LOCKOUT ^ v.conf \in Nat
  BY Zenon, <1>1, <1>2, LockoutGrows
<1> QED
  BY <1>1, <1>3 DEF is_locked_out_at_slot, last_locked_out_slot, lockout

LEMMA NoRollbackReflexive ==
    ASSUME NEW v \in VoteStates
    PROVE  IsNoRollback(v, v)
<1>1. v.root_slot >= v.root_slot /\ credits(v.epoch_credits) >= credits(v.epoch_credits)
  <2>1. v.root_slot \in Nat \cup {None} /\ credits(v.epoch_credits) \in Nat
    BY Zenon, VoteStateFields
  <2> DEFINE c == credits(v.epoch_credits)
  <2> HIDE DEF c
  <2>2. c >= c
    BY <2>1 DEF c
  <2> QED
    BY <2>1, <2>2 DEF c, None
<1>2. \A i \in DOMAIN v.votes : v.votes[i].conf >= v.votes[i].conf
  BY VoteStateFields
<1> QED
  BY Zenon, <1>1, <1>2 DEF IsNoRollback

\* One iteration of process_vote keeps everything voted on above the root.
LEMMA NextVoteAboveRoot ==
    ASSUME NEW v \in VoteStates, IsTower(v.votes), AboveRoot(v), RootHasVotes(v),
           NEW s \in Nat, NEW e \in Nat, s > last_voted_slot(v.votes)
    PROVE  LET new == process_next_vote_slot(v, s, e)
           IN  AboveRoot(new) /\ RootHasVotes(new) /\ IsNoRollback(v, new)
<1> DEFINE new == process_next_vote_slot(v, s, e)
<1>1. /\ new \in VoteStates
      /\ IsTower(new.votes)
      /\ new.votes # << >>
      /\ last_voted_slot(new.votes) = s
      /\ SlotsOf(new.votes) \subseteq SlotsOf(v.votes) \cup {s}
      /\ \/ new.root_slot = v.root_slot /\ new.epoch_credits = v.epoch_credits
         \/ /\ v.votes # << >>
            /\ new.root_slot = v.votes[1].slot
            /\ new.epoch_credits = increment_credits(v.epoch_credits, e, 1)
            /\ \A i \in DOMAIN new.votes : new.root_slot < new.votes[i].slot
      /\ \A j \in DOMAIN v.votes :
            \/ \E i \in DOMAIN new.votes : /\ new.votes[i].slot = v.votes[j].slot
                                           /\ new.votes[i].conf >= v.votes[j].conf
            \/ v.votes[j].slot = new.root_slot
            \/ ~ is_locked_out_at_slot(v.votes[j], s)
  BY NextVote, Zenon
<1> HIDE DEF new
<1>2. /\ v.votes \in Seq(Lockout) /\ v.root_slot \in Nat \cup {None}
      /\ credits(v.epoch_credits) \in Nat
      /\ v.epoch_credits \in Seq(Nat \X Nat \X Nat)
      /\ \A i \in DOMAIN v.votes : v.votes[i] \in Lockout /\ v.votes[i].slot \in Nat
  BY Zenon, VoteStateFields
<1>3. /\ new.votes \in Seq(Lockout) /\ new.root_slot \in Nat \cup {None}
      /\ \A i \in DOMAIN new.votes : new.votes[i].slot \in Nat
  BY Zenon, <1>1, VoteStateFields
<1>4. RootHasVotes(new)
  BY Zenon, <1>1 DEF RootHasVotes
<1>5. s > v.root_slot \/ v.root_slot = 0
  <2>1. CASE v.votes = << >>
    BY <2>1 DEF RootHasVotes, None
  <2>2. CASE v.votes # << >>
    <3>1. 1 \in DOMAIN v.votes
      BY <1>2, <2>2
    <3>2. v.votes[1].slot <= last_voted_slot(v.votes) /\ last_voted_slot(v.votes) \in Nat
      BY Zenon, <1>2, <2>2, <3>1, LastVotedSlot
    <3>3. v.votes[1].slot > v.root_slot \/ v.root_slot = 0
      BY Zenon, <3>1 DEF AboveRoot
    <3> QED
      BY <1>2, <3>1, <3>2, <3>3 DEF None
  <2> QED
    BY Zenon, <2>1, <2>2
<1>6. AboveRoot(new)
  <2>1. SUFFICES ASSUME NEW i \in DOMAIN new.votes
                 PROVE  new.votes[i].slot > new.root_slot \/ new.root_slot = 0
    BY Zenon DEF AboveRoot
  <2>2. CASE new.root_slot = v.root_slot
    <3>1. new.votes[i].slot \in SlotsOf(v.votes) \cup {s}
      BY Zenon, <1>1 DEF SlotsOf
    <3>2. CASE new.votes[i].slot = s
      BY Zenon, <1>5, <2>2, <3>2
    <3>3. CASE new.votes[i].slot \in SlotsOf(v.votes)
      BY Zenon, <2>2, <3>3 DEF SlotsOf, AboveRoot
    <3> QED
      BY Zenon, <3>1, <3>2, <3>3
  <2>3. CASE \A k \in DOMAIN new.votes : new.root_slot < new.votes[k].slot
    <3>1. new.root_slot < new.votes[i].slot
      BY Zenon, <2>3
    <3> QED
      BY Zenon, <1>3, <3>1 DEF None
  <2> QED
    BY Zenon, <1>1, <2>2, <2>3
<1>7. new.root_slot >= v.root_slot
  <2>1. CASE new.root_slot = v.root_slot
    BY <1>2, <2>1 DEF None
  <2>2. CASE v.votes # << >> /\ new.root_slot = v.votes[1].slot
    <3>1. 1 \in DOMAIN v.votes
      BY <1>2, <2>2
    <3>2. v.votes[1].slot > v.root_slot \/ v.root_slot = 0
      BY Zenon, <3>1 DEF AboveRoot
    <3> QED
      BY <1>2, <2>2, <3>1, <3>2 DEF None
  <2> QED
    BY Zenon, <1>1, <2>1, <2>2
<1>8. credits(new.epoch_credits) >= credits(v.epoch_credits)
  <2>1. CASE new.epoch_credits = v.epoch_credits
    BY <1>2, <2>1
  <2>2. CASE new.epoch_credits = increment_credits(v.epoch_credits, e, 1)
    <3> DEFINE ec == v.epoch_credits
    <3>1. ec \in Seq(Nat \X Nat \X Nat)
      BY Zenon, <1>2
    <3> HIDE DEF ec
    <3>2. credits(increment_credits(ec, e, 1)) = credits(ec) + 1
      BY Zenon, <3>1, IncrementCredits
    <3> QED
      BY <1>2, <2>2, <3>2 DEF ec
  <2> QED
    BY Zenon, <1>1, <2>1, <2>2
<1>9. \A j \in DOMAIN v.votes :
          \/ v.votes[j].slot <= new.root_slot
          \/ \E i \in DOMAIN new.votes : /\ new.votes[i].slot = v.votes[j].slot
                                         /\ new.votes[i].conf >= v.votes[j].conf
          \/ \E i \in DOMAIN new.votes : ~ is_locked_out_at_slot(v.votes[j], new.votes[i].slot)
  <2>1. TAKE j \in DOMAIN v.votes
  <2>2. v.votes[j].slot = new.root_slot => v.votes[j].slot <= new.root_slot
    BY <1>2
  <2>3. Len(new.votes) \in DOMAIN new.votes /\ new.votes[Len(new.votes)].slot = s
    BY <1>1, <1>3 DEF last_voted_slot
  <2> QED
    BY Zenon, <1>1, <2>2, <2>3
<1>10. IsNoRollback(v, new)
  BY Zenon, <1>1, <1>7, <1>8, <1>9 DEF IsNoRollback
<1> QED
  BY Zenon, <1>4, <1>6, <1>10 DEF new

\* A vote that left the tower in either of two steps left it for a reason that
\* still holds after both.
LEMMA NoRollbackTransitive ==
    ASSUME NEW a \in VoteStates, NEW b \in VoteStates, NEW c \in VoteStates,
           IsTower(a.votes), IsTower(b.votes), IsTower(c.votes),
           IsNoRollback(a, b), IsNoRollback(b, c)
    PROVE  IsNoRollback(a, c)
<1> DEFINE last(v) == last_voted_slot(v.votes)
           cr(v) == credits(v.epoch_credits)
<1>1. /\ a.root_slot \in Nat \cup {None} /\ b.root_slot \in Nat \cup {None}
      /\ c.root_slot \in Nat \cup {None}
      /\ cr(a) \in Nat /\ cr(b) \in Nat /\ cr(c) \in Nat
  BY Zenon, VoteStateFields
<1>2. /\ a.votes \in Seq(Lockout) /\ b.votes \in Seq(Lockout) /\ c.votes \in Seq(Lockout)
      /\ last(a) \in Nat \cup {None} /\ last(b) \in Nat \cup {None} /\ last(c) \in Nat \cup {None}
  BY Zenon, VoteStateFields, LastVotedSlot
<1>3. /\ b.root_slot >= a.root_slot /\ c.root_slot >= b.root_slot
      /\ cr(b) >= cr(a) /\ cr(c) >= cr(b)
      /\ b.votes # a.votes => last(b) > last(a)
      /\ c.votes # b.votes => last(c) > last(b)
  BY Zenon DEF IsNoRollback
<1>4. b.votes = a.votes => last(b) = last(a)
  BY Zenon
<1>5. c.votes = b.votes => last(c) = last(b)
  BY Zenon
<1> HIDE DEF last, cr
<1>6. last(c) >= last(b)
  BY <1>2, <1>3, <1>5 DEF None
<1>7. c.votes # a.votes => last(c) > last(a)
  BY <1>2, <1>3, <1>4, <1>5 DEF None
<1>8. c.root_slot >= a.root_slot /\ cr(c) >= cr(a)
  BY <1>1, <1>3 DEF None
<1>9. ASSUME NEW v \in Lockout, NEW j \in DOMAIN b.votes,
             ~ is_locked_out_at_slot(v, b.votes[j].slot)
      PROVE  \E k \in DOMAIN c.votes : ~ is_locked_out_at_slot(v, c.votes[k].slot)
  <2>1. b.votes[j].slot \in Nat /\ b.votes[j].slot <= last(b)
    BY Zenon, <1>2, VoteStateFields, LastVotedSlot DEF last
  <2>2. last(c) \in Nat /\ b.votes[j].slot <= last(c)
    BY <1>2, <1>6, <2>1 DEF None
  <2>3. c.votes # << >>
    BY <2>2 DEF last, last_voted_slot, None
  <2>4. Len(c.votes) \in DOMAIN c.votes /\ c.votes[Len(c.votes)].slot = last(c)
    BY <1>2, <2>3 DEF last, last_voted_slot
  <2>5. ~ is_locked_out_at_slot(v, last(c))
    BY Zenon, <1>9, <2>1, <2>2, ExpiredStaysExpired
  <2> QED
    BY Zenon, <2>4, <2>5
<1>10. ASSUME NEW i \in DOMAIN a.votes
       PROVE  \/ a.votes[i].slot <= c.root_slot
              \/ \E k \in DOMAIN c.votes : /\ c.votes[k].slot = a.votes[i].slot
                                             /\ c.votes[k].conf >= a.votes[i].conf
              \/ \E k \in DOMAIN c.votes : ~ is_locked_out_at_slot(a.votes[i], c.votes[k].slot)
  <2> DEFINE v == a.votes[i]
  <2>1. v \in Lockout /\ v.slot \in Nat /\ v.conf \in Nat
    BY Zenon, VoteStateFields
  <2>2. \/ v.slot <= b.root_slot
        \/ \E j \in DOMAIN b.votes : b.votes[j].slot = v.slot /\ b.votes[j].conf >= v.conf
        \/ \E j \in DOMAIN b.votes : ~ is_locked_out_at_slot(v, b.votes[j].slot)
    BY Zenon DEF IsNoRollback
  <2> HIDE DEF v
  <2>3. CASE v.slot <= b.root_slot
    <3>1. v.slot <= c.root_slot
      BY <1>1, <1>3, <2>1, <2>3 DEF None
    <3> QED
      BY Zenon, <3>1 DEF v
  <2>4. CASE \E j \in DOMAIN b.votes : ~ is_locked_out_at_slot(v, b.votes[j].slot)
    <3>1. \E k \in DOMAIN c.votes : ~ is_locked_out_at_slot(v, c.votes[k].slot)
      BY Zenon, <1>9, <2>1, <2>4
    <3> QED
      BY Zenon, <3>1 DEF v
  <2>5. CASE \E j \in DOMAIN b.votes : b.votes[j].slot = v.slot /\ b.votes[j].conf >= v.conf
    <3>1. PICK j \in DOMAIN b.votes : b.votes[j].slot = v.slot /\ b.votes[j].conf >= v.conf
      BY Zenon, <2>5
    <3> DEFINE w == b.votes[j]
    <3>2. w \in Lockout /\ w.slot = v.slot /\ w.conf >= v.conf /\ w.conf \in Nat
      BY Zenon, <3>1, VoteStateFields
    <3>3. \/ w.slot <= c.root_slot
          \/ \E k \in DOMAIN c.votes : c.votes[k].slot = w.slot /\ c.votes[k].conf >= w.conf
          \/ \E k \in DOMAIN c.votes : ~ is_locked_out_at_slot(w, c.votes[k].slot)
      BY Zenon DEF IsNoRollback
    <3> HIDE DEF w
    <3>4. CASE w.slot <= c.root_slot
      BY Zenon, <3>2, <3>4 DEF v
    <3>5. CASE \E k \in DOMAIN c.votes : c.votes[k].slot = w.slot /\ c.votes[k].conf >= w.conf
      <4>1. PICK k \in DOMAIN c.votes : c.votes[k].slot = w.slot /\ c.votes[k].conf >= w.conf
        BY Zenon, <3>5
      <4>2. c.votes[k].conf \in Nat
        BY Zenon, VoteStateFields
      <4>3. c.votes[k].conf >= v.conf
        BY <2>1, <3>2, <4>1, <4>2
      <4> QED
        BY Zenon, <3>2, <4>1, <4>3 DEF v
    <3>6. CASE \E k \in DOMAIN c.votes : ~ is_locked_out_at_slot(w, c.votes[k].slot)
      <4>1. PICK k \in DOMAIN c.votes : ~ is_locked_out_at_slot(w, c.votes[k].slot)
        BY Zenon, <3>6
      <4>2. c.votes[k].slot \in Nat
        BY Zenon, VoteStateFields
      <4>3. v.conf <= w.conf
        BY Zenon, <2>1, <3>2
      <4>4. ~ is_locked_out_at_slot(v, c.votes[k].slot)
        BY Zenon, <2>1, <3>2, <4>1, <4>2, <4>3, LockoutMonotone
      <4> QED
        BY Zenon, <4>4 DEF v
    <3> QED
      BY Zenon, <3>3, <3>4, <3>5, <3>6
  <2> QED
    BY Zenon, <2>2, <2>3, <2>4, <2>5
<1> QED
  BY Zenon, <1>7, <1>8, <1>10 DEF IsNoRollback, last, cr

\* retain drops nothing behind the last element it keeps.
LEMMA RetainKeepsLast ==
    ASSUME NEW S, NEW seq \in Seq(S), seq # << >>, NEW kept, kept \subseteq DOMAIN seq,
           Len(seq) \in kept
    PROVE  LET r == Retain(seq, kept)
           IN  r # << >> /\ r[Len(r)] = seq[Len(seq)]
<1> DEFINE n == Len(seq)
           c == Cardinality(kept)
           upTo(i) == {j \in kept : j <= i}
           r == Retain(seq, kept)
           top == CHOOSE i \in kept : Cardinality(upTo(i)) = c
<1>1. n \in Nat /\ kept \subseteq 1..n
  OBVIOUS
<1>2. IsFiniteSet(kept)
  <2>1. IsFiniteSet(1..n)
    BY <1>1, FS_Interval
  <2> QED
    BY Zenon, <1>1, <2>1, FS_Subset
<1>3. c \in Nat /\ c # 0
  <2>1. c \in Nat
    BY Zenon, <1>2, FS_CardinalityType
  <2>2. c = 0 <=> kept = {}
    BY Zenon, <1>2, FS_EmptySet
  <2> QED
    BY Zenon, <2>1, <2>2
<1>4. upTo(n) = kept
  BY <1>1
<1>5. top \in kept /\ Cardinality(upTo(top)) = c
  <2>1. \E i \in kept : Cardinality(upTo(i)) = c
    BY Zenon, <1>4
  <2> HIDE DEF upTo, c
  <2> QED
    BY Zenon, <2>1
<1> HIDE DEF top
<1>6. upTo(top) = kept
  <2>1. upTo(top) \subseteq kept
    BY Zenon
  <2> HIDE DEF upTo
  <2> QED
    BY Zenon, <1>2, <1>5, <2>1, FS_Subset
<1>7. top = n
  <2>1. n \in upTo(top)
    BY Zenon, <1>6
  <2> QED
    BY <1>1, <1>5, <2>1
<1>8. r = [k \in 1..c |-> seq[CHOOSE i \in kept : Cardinality(upTo(i)) = k]]
  BY Zenon DEF Retain
<1>9. r[c] = seq[top]
  <2>1. c \in 1..c
    BY <1>3
  <2> HIDE DEF c, r, upTo
  <2> QED
    BY Zenon, <1>8, <2>1 DEF top
<1>10. Len(r) = c /\ r \in Seq(S)
  BY Zenon, RetainDef
<1> HIDE DEF c, r
<1>11. r # << >>
  BY <1>3, <1>10
<1> QED
  BY Zenon, <1>7, <1>9, <1>10, <1>11 DEF r

\* The checks of process_new_vote_state: the update is no rollback.
LEMMA UpdateNoRollback ==
    ASSUME RInv, NEW lockouts \in Seq(ProposedLockout), NEW proposed_root \in Nat \cup {None},
           NEW hash, UpdateAccepted(lockouts, proposed_root, hash)
    PROVE  LET new == UpdatedState(FilteredLockouts(lockouts), VerifiedRoot(proposed_root))
           IN  IsNoRollback(vs, new) /\ AboveRoot(new) /\ RootHasVotes(new)
<1> DEFINE tower == FilteredLockouts(lockouts)
           root == VerifiedRoot(proposed_root)
           new == UpdatedState(tower, root)
           n == Len(lockouts)
           kept == {i \in DOMAIN lockouts : \/ lockouts[i].slot >= EarliestSlotHash
                                            \/ contains_slot(vs.votes, lockouts[i].slot)}
<1>1. /\ lockouts # << >>
      /\ lockouts[n].slot > last_voted_slot(vs.votes)
      /\ lockouts[n].slot >= EarliestSlotHash
      /\ SlotsOnThisFork(lockouts, root)
      /\ root >= vs.root_slot
      /\ IsWellFormed(tower, root)
      /\ HasNoLockoutConflict(vs.votes, tower, root)
  BY Zenon DEF UpdateAccepted, IsRecentUpdate
<1>2. root \in Nat \cup {None}
  BY Zenon, <1>1, VerifiedRootOnThisFork DEF RInv
<1>3. tower \in Seq(ProposedLockout)
  BY Zenon, <1>1, FilteredLockoutsOnThisFork DEF RInv
<1>4. tower \in Seq(Lockout) /\ IsTower(tower)
  BY Zenon, <1>1, <1>3, WellFormedIsTower
<1>5. tower # << >> /\ tower[Len(tower)] = lockouts[n]
  <2>1. n \in kept /\ kept \subseteq DOMAIN lockouts
    BY <1>1
  <2>2. tower = Retain(lockouts, kept)
    BY Zenon DEF FilteredLockouts
  <2> HIDE DEF kept, tower
  <2> QED
    BY Zenon, <1>1, <2>1, <2>2, RetainKeepsLast
<1> HIDE DEF tower, root, kept
<1>6. /\ new \in VoteStates /\ new.votes = tower /\ new.root_slot = root
      /\ credits(new.epoch_credits) >= credits(vs.epoch_credits)
  BY Zenon, <1>2, <1>4, UpdatedStateDef DEF RInv, IInv
<1> HIDE DEF new
<1>7. vs \in VoteStates /\ IsTower(vs.votes)
  BY Zenon DEF RInv, IInv, TypeOK, TowerWellFormed
<1>8. last_voted_slot(tower) = lockouts[n].slot
  BY Zenon, <1>5 DEF last_voted_slot
<1>9. AboveRoot(new) /\ RootHasVotes(new)
  BY Zenon, <1>1, <1>5, <1>6 DEF AboveRoot, RootHasVotes, IsWellFormed
<1>10. /\ Len(tower) \in DOMAIN tower /\ DOMAIN tower = 1..Len(tower) /\ Len(tower) \in Nat
       /\ \A j \in DOMAIN tower : tower[j] \in Lockout /\ tower[j].slot \in Nat
  <2>1. /\ Len(tower) \in DOMAIN tower /\ DOMAIN tower = 1..Len(tower) /\ Len(tower) \in Nat
        /\ \A j \in DOMAIN tower : tower[j] \in Lockout
    BY <1>4, <1>5
  <2> QED
    BY Zenon, <2>1, LockoutFields
<1>11. ASSUME NEW i \in DOMAIN vs.votes, ~ (vs.votes[i].slot <= root)
       PROVE  \/ \E j \in DOMAIN tower : /\ tower[j].slot = vs.votes[i].slot
                                          /\ tower[j].conf >= vs.votes[i].conf
              \/ \E j \in DOMAIN tower : ~ is_locked_out_at_slot(vs.votes[i], tower[j].slot)
  <2> DEFINE v == vs.votes[i]
             T == {j \in DOMAIN tower : tower[j].slot >= v.slot}
  <2>1. v.slot \in Nat /\ v.slot > root
    <3>1. v.slot \in Nat
      BY Zenon, <1>7, VoteStateFields
    <3> HIDE DEF v
    <3> QED
      BY <1>2, <1>11, <3>1 DEF v, None
  <2>2. v.slot <= last_voted_slot(vs.votes) /\ last_voted_slot(vs.votes) \in Nat \cup {None}
    BY Zenon, <1>7, VoteStateFields, LastVotedSlot
  <2>3. Len(tower) \in T
    <3>1. tower[Len(tower)].slot > last_voted_slot(vs.votes) /\ tower[Len(tower)].slot \in Nat
      BY Zenon, <1>1, <1>5, <1>10
    <3> HIDE DEF v
    <3>2. tower[Len(tower)].slot >= v.slot
      BY <2>1, <2>2, <3>1 DEF None
    <3> QED
      BY Zenon, <1>10, <3>2
  <2>4. T \subseteq Nat /\ T # {}
    BY <1>10, <2>3
  <2> HIDE DEF T
  <2>5. PICK j \in T : \A k \in T : j <= k
    BY Zenon, <2>4, NatMin
  <2>6. j \in DOMAIN tower /\ j \in Nat /\ tower[j].slot >= v.slot
    BY <1>10, <2>5 DEF T
  <2>7. \A k \in 1..(j - 1) : tower[k].slot < v.slot
    <3>1. TAKE k \in 1..(j - 1)
    <3>2. k \in DOMAIN tower /\ k \in Nat /\ ~ (j <= k)
      BY <1>10, <2>6
    <3>3. ~ (tower[k].slot >= v.slot)
      BY Zenon, <2>5, <3>2 DEF T
    <3>4. tower[k].slot \in Nat
      BY Zenon, <1>10, <3>2
    <3> HIDE DEF v
    <3> QED
      BY <2>1, <3>3, <3>4
  <2>8. IF tower[j].slot = v.slot THEN tower[j].conf >= v.conf
        ELSE ~ is_locked_out_at_slot(v, tower[j].slot)
    BY Zenon, <1>1, <2>1, <2>6, <2>7 DEF HasNoLockoutConflict
  <2> QED
    BY Zenon, <2>6, <2>8
<1>12. IsNoRollback(vs, new)
  BY Zenon, <1>1, <1>6, <1>8, <1>11 DEF IsNoRollback
<1> QED
  BY Zenon, <1>9, <1>12 DEF new, tower, root

\* IsNoRollback, AboveRoot and RootHasVotes do not look at the timestamp.
LEMMA TimestampIrrelevant ==
    ASSUME NEW a, NEW b, NEW c,
           b.votes = c.votes, b.root_slot = c.root_slot, b.epoch_credits = c.epoch_credits
    PROVE  /\ IsNoRollback(a, b) => IsNoRollback(a, c)
           /\ AboveRoot(b) => AboveRoot(c)
           /\ RootHasVotes(b) => RootHasVotes(c)
BY Zenon DEF IsNoRollback, AboveRoot, RootHasVotes

LEMMA EmptyAboveRoot == AboveRoot(EmptyVoteState) /\ RootHasVotes(EmptyVoteState)
BY DEF AboveRoot, RootHasVotes, EmptyVoteState

\* The part of RInv that is new.
RPart ==
    /\ AboveRoot(vs) /\ RootHasVotes(vs)
    /\ AboveRoot(tx.vs) /\ RootHasVotes(tx.vs)
    /\ tx.active => IsNoRollback(vs, tx.vs)

LEMMA RollbackInit == Init => RInv
<1>1. SUFFICES ASSUME Init
               PROVE  RInv
  BY Zenon
<1>2. vs = EmptyVoteState /\ tx.vs = EmptyVoteState /\ ~ tx.active
  BY Zenon, <1>1 DEF Init, Idle
<1> QED
  BY Zenon, <1>1, <1>2, InitInv, EmptyAboveRoot DEF RInv

\* One iteration of process_vote.
LEMMA ProcessNextSlotRPart ==
    ASSUME RInv, ProcessNextSlot
    PROVE  RPart' /\ IsNoRollback(vs, vs')
<1> DEFINE s == Head(tx.slots)
           old == tx.vs
           e == Epoch(slot)
           new == process_next_vote_slot(old, s, e)
<1>1. tx' = [tx EXCEPT !.vs = new, !.slots = Tail(tx.slots)] /\ vs' = vs
      /\ tx.active /\ tx.slots # << >>
  BY Zenon DEF ProcessNextSlot
<1>2. /\ old \in VoteStates /\ IsTower(old.votes) /\ tx.slots \in Seq(Nat) /\ slot \in Nat
      /\ vs \in VoteStates /\ IsTower(vs.votes)
      /\ tx \in [active : BOOLEAN, vs : VoteStates, slots : Seq(Nat),
                 max_slot : Nat, timestamp : Nat \cup {None}]
  BY Zenon DEF RInv, IInv, TypeOK, TowerWellFormed
<1>3. tx'.vs = new /\ tx'.active
  BY Zenon, <1>1, <1>2
<1>4. s \in Nat /\ e \in Nat
  BY <1>1, <1>2, EpochType
<1>5. /\ AboveRoot(old) /\ RootHasVotes(old) /\ AboveRoot(vs) /\ RootHasVotes(vs)
      /\ IsNoRollback(vs, old)
  BY Zenon, <1>1 DEF RInv
<1>6. last_voted_slot(old.votes) \in Nat \cup {None}
  BY Zenon, <1>2, VoteStateFields, LastVotedSlot
<1>7. IsNoRollback(vs, vs)
  BY Zenon, <1>2, NoRollbackReflexive
<1> HIDE DEF s, e, old
<1>8. AboveRoot(new) /\ RootHasVotes(new) /\ IsNoRollback(vs, new)
  <2>1. CASE s > last_voted_slot(old.votes)
    <3>1. AboveRoot(new) /\ RootHasVotes(new) /\ IsNoRollback(old, new)
      BY <1>2, <1>4, <1>5, <2>1, NextVoteAboveRoot, Zenon
    <3>2. new \in VoteStates /\ IsTower(new.votes)
      BY <1>2, <1>4, <2>1, NextVote, Zenon
    <3> HIDE DEF new
    <3> QED
      BY Zenon, <1>2, <1>5, <3>1, <3>2, NoRollbackTransitive
  <2>2. CASE ~ (s > last_voted_slot(old.votes))
    <3>1. s <= last_voted_slot(old.votes)
      BY <1>4, <1>6, <2>2 DEF None
    <3>2. new = old
      BY Zenon, <3>1 DEF process_next_vote_slot
    <3> HIDE DEF new
    <3> QED
      BY Zenon, <1>5, <3>2
  <2> QED
    BY Zenon, <2>1, <2>2
<1> HIDE DEF new
<1> QED
  BY Zenon, <1>1, <1>3, <1>5, <1>7, <1>8 DEF RPart

\* The end of process_vote writes the copy, or drops it.
LEMMA FinishVoteRPart ==
    ASSUME RInv, FinishVote
    PROVE  RPart' /\ IsNoRollback(vs, vs')
<1> DEFINE stamped == [tx.vs EXCEPT !.last_timestamp =
                           [slot |-> tx.max_slot, timestamp |-> tx.timestamp]]
<1>1. tx' = Idle /\ tx.active /\ (vs' = tx.vs \/ vs' = stamped \/ vs' = vs)
  BY Zenon DEF FinishVote
<1>2. vs \in VoteStates /\ tx.vs \in VoteStates
  BY Zenon, TxFields DEF RInv, IInv, TypeOK
<1>3. /\ stamped.votes = tx.vs.votes /\ stamped.root_slot = tx.vs.root_slot
      /\ stamped.epoch_credits = tx.vs.epoch_credits
  BY Zenon, <1>2 DEF VoteStates
<1> HIDE DEF stamped
<1>4. /\ AboveRoot(tx.vs) /\ RootHasVotes(tx.vs) /\ IsNoRollback(vs, tx.vs)
      /\ AboveRoot(vs) /\ RootHasVotes(vs) /\ IsNoRollback(vs, vs)
  BY Zenon, <1>1, <1>2, NoRollbackReflexive DEF RInv
<1>5. AboveRoot(stamped) /\ RootHasVotes(stamped) /\ IsNoRollback(vs, stamped)
  BY Zenon, <1>3, <1>4, TimestampIrrelevant
<1>6. ~ tx'.active /\ tx'.vs = EmptyVoteState
  BY Zenon, <1>1 DEF Idle
<1> QED
  BY Zenon, <1>1, <1>4, <1>5, <1>6, EmptyAboveRoot DEF RPart

LEMMA UpdateRPart ==
    ASSUME RInv, NEW lockouts \in ProposedLockouts, NEW root \in ProposedRoots,
           NEW hash, NEW timestamp,
           ProcessVoteStateUpdate(lockouts, root, hash, timestamp)
    PROVE  RPart' /\ IsNoRollback(vs, vs')
<1> DEFINE tower == FilteredLockouts(lockouts)
           verified == VerifiedRoot(root)
           updated == UpdatedState(tower, verified)
           last == lockouts[Len(lockouts)].slot
           stamped == [updated EXCEPT !.last_timestamp = [slot |-> last, timestamp |-> timestamp]]
<1>1. lockouts \in Seq(ProposedLockout) /\ root \in Nat \cup {None}
  BY Zenon, ProgramAssumption
<1>2. /\ UpdateAccepted(lockouts, root, hash) /\ ~ tx.active /\ tx' = tx
      /\ vs' = updated \/ vs' = stamped
  BY Zenon DEF ProcessVoteStateUpdate
<1>3. IsNoRollback(vs, updated) /\ AboveRoot(updated) /\ RootHasVotes(updated)
  BY Zenon, <1>1, <1>2, UpdateNoRollback
<1>4. updated \in VoteStates
  <2>1. SlotsOnThisFork(lockouts, verified) /\ IsWellFormed(tower, verified)
    BY Zenon, <1>2 DEF UpdateAccepted
  <2>2. verified \in Nat \cup {None}
    BY Zenon, <1>1, <2>1, VerifiedRootOnThisFork DEF RInv
  <2>3. tower \in Seq(ProposedLockout)
    BY Zenon, <1>1, <2>1, FilteredLockoutsOnThisFork DEF RInv
  <2>4. tower \in Seq(Lockout)
    BY Zenon, <2>1, <2>3, WellFormedIsTower
  <2> HIDE DEF tower, verified
  <2> QED
    BY Zenon, <2>2, <2>4, UpdatedStateDef DEF RInv, IInv
<1> HIDE DEF updated, last
<1>5. /\ stamped.votes = updated.votes /\ stamped.root_slot = updated.root_slot
      /\ stamped.epoch_credits = updated.epoch_credits
  BY Zenon, <1>4 DEF VoteStates
<1> HIDE DEF stamped
<1>6. IsNoRollback(vs, stamped) /\ AboveRoot(stamped) /\ RootHasVotes(stamped)
  BY Zenon, <1>3, <1>5, TimestampIrrelevant
<1> QED
  BY Zenon, <1>2, <1>3, <1>6 DEF RPart, RInv

\* Every step keeps the invariant and is no rollback.
LEMMA RollbackNext == RInv /\ [Next]_vars => RInv' /\ IsNoRollback(vs, vs')
<1>1. SUFFICES ASSUME RInv, [Next]_vars
               PROVE  RInv' /\ IsNoRollback(vs, vs')
  BY Zenon
<1>2. IInv'
  BY Zenon, <1>1, NextInv DEF RInv
<1>3. vs \in VoteStates
  BY Zenon, <1>1 DEF RInv, IInv, TypeOK
<1>4. IsNoRollback(vs, vs)
  BY Zenon, <1>3, NoRollbackReflexive
<1>5. ASSUME vs' = vs, tx' = tx
      PROVE  RPart' /\ IsNoRollback(vs, vs')
  BY Zenon, <1>1, <1>4, <1>5 DEF RInv, RPart
<1>6. ASSUME NEW slots, NEW timestamp, NEW hash, BeginVote(slots, hash, timestamp)
      PROVE  RPart' /\ IsNoRollback(vs, vs')
  <2>1. vs' = vs /\ tx'.vs = vs
    BY Zenon, <1>6 DEF BeginVote
  <2> QED
    BY Zenon, <1>1, <1>4, <2>1 DEF RInv, RPart
<1>7. RPart' /\ IsNoRollback(vs, vs')
  <2>1. CASE UNCHANGED vars
    BY Zenon, <1>5, <2>1 DEF vars
  <2>2. CASE \E s \in Slots, activated \in SUBSET FeatureIds : NewBank(s, activated)
    BY Zenon, <1>5, <2>2 DEF NewBank
  <2>3. CASE ProcessNextSlot
    BY Zenon, <1>1, <2>3, ProcessNextSlotRPart
  <2>4. CASE FinishVote
    BY Zenon, <1>1, <2>4, FinishVoteRPart
  <2>5. ASSUME NEW lockouts \in ProposedLockouts, NEW root \in ProposedRoots,
               NEW timestamp, NEW hash, ProcessVoteStateUpdate(lockouts, root, hash, timestamp)
        PROVE  RPart' /\ IsNoRollback(vs, vs')
    BY Zenon, <1>1, <2>5, UpdateRPart
  <2>6. CASE RejectInstruction
    BY Zenon, <2>1, <2>6 DEF RejectInstruction
  <2> QED
    BY Zenon, <1>1, <1>6, <2>1, <2>2, <2>3, <2>4, <2>5, <2>6 DEF Next
<1> QED
  BY Zenon, <1>2, <1>7 DEF RInv, RPart

LEMMA RollbackInvariance == Spec => []RInv
BY RollbackInit, RollbackNext, PTL DEF Spec

\* Everything an account has voted on is newer than what it has rooted.
THEOREM VotesStayAboveRoot == Spec => []VotesAboveRoot
<1>1. RInv => VotesAboveRoot
  BY Zenon DEF RInv, AboveRoot, VotesAboveRoot
<1> QED
  BY <1>1, RollbackInvariance, PTL

\* The comment above process_new_vote_state promises that an instruction introduces
\* no rollback; so it is, for Vote and VoteStateUpdate in any order, however
\* many slots a Vote carries and whatever SlotHashes has forgotten.
THEOREM NeverRollsBack == Spec => NoRollback
<1>1. RInv /\ [Next]_vars => [IsNoRollback(vs, vs')]_vars
  BY Zenon, RollbackNext
<1> QED
  BY <1>1, RollbackInvariance, PTL DEF Spec, NoRollback
=============================================================================
