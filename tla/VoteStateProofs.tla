--------------------------- MODULE VoteStateProofs ---------------------------
(***************************************************************************)
(* What the operators of VoteState return and preserve: the lemmas that    *)
(* the proofs about VoteProgram and Tower rest on.                         *)
(***************************************************************************)
EXTENDS VoteState, WellFoundedInduction, FiniteSetTheorems, SequenceTheorems, TLAPS

\* A nonempty set of naturals has a least element. It stands for induction
\* wherever one is needed.
LEMMA NatMin ==
    ASSUME NEW T, T \subseteq Nat, T # {}
    PROVE  \E x \in T : \A y \in T : x <= y
<1>1. \E x \in T : \A y \in T : ~ (<<y, x>> \in OpToRel(<, Nat))
  BY Zenon, NatLessThanWellFounded, WFMin
<1>2. PICK x \in T : \A y \in T : ~ (<<y, x>> \in OpToRel(<, Nat))
  BY Zenon, <1>1
<1>3. \A y \in T : ~ (y < x)
  <2>1. TAKE y \in T
  <2>2. x \in Nat /\ y \in Nat
    BY Zenon
  <2>3. <<y, x>> \in Nat \X Nat
    BY Zenon, <2>2
  <2>4. ~ (<<y, x>> \in OpToRel(<, Nat))
    BY Zenon, <1>2
  <2> QED
    BY Zenon, <2>2, <2>3, <2>4 DEF OpToRel
<1> QED
  BY <1>3

\* A lockout lasts at least one slot, and longer with more confirmations.
LEMMA LockoutGrows ==
    ASSUME NEW c \in 0..MAX_LOCKOUT_HISTORY, NEW d \in 0..MAX_LOCKOUT_HISTORY, d <= c
    PROVE  /\ INITIAL_LOCKOUT ^ c \in Nat
           /\ INITIAL_LOCKOUT ^ d \in Nat
           /\ INITIAL_LOCKOUT ^ d <= INITIAL_LOCKOUT ^ c
<1>1. d \in 0..c
  OBVIOUS
<1> QED
  BY Zenon, <1>1, ConstantsAssumption

\* Raising a vote's confirmation count never ends its lockout earlier.
LEMMA LockoutMonotone ==
    ASSUME NEW v \in Lockout, NEW w \in Lockout, NEW slot \in Nat,
           v.slot = w.slot, v.conf <= w.conf,
           is_locked_out_at_slot(v, slot)
    PROVE  is_locked_out_at_slot(w, slot)
<1>1. v.slot \in Nat /\ v.conf \in 0..MAX_LOCKOUT_HISTORY /\ w.conf \in 0..MAX_LOCKOUT_HISTORY
  BY Zenon DEF Lockout
<1>2. /\ INITIAL_LOCKOUT ^ w.conf \in Nat /\ INITIAL_LOCKOUT ^ v.conf \in Nat
      /\ INITIAL_LOCKOUT ^ v.conf <= INITIAL_LOCKOUT ^ w.conf
  BY Zenon, <1>1, LockoutGrows
<1> QED
  BY <1>1, <1>2 DEF is_locked_out_at_slot, last_locked_out_slot, lockout

\* KeptVotes is well defined: pop_expired_votes stops at a vote that is still
\* locked out, or at the bottom, and everything above it is expired.
LEMMA KeptVotesDef ==
    ASSUME NEW votes \in Seq(Lockout), NEW slot \in Nat
    PROVE  LET k == KeptVotes(votes, slot)
           IN  /\ k \in 0..Len(votes)
               /\ k > 0 => is_locked_out_at_slot(votes[k], slot)
               /\ \A i \in (k + 1)..Len(votes) : ~ is_locked_out_at_slot(votes[i], slot)
<1> DEFINE n == Len(votes)
           Expired(k) == \A i \in (k + 1)..n : ~ is_locked_out_at_slot(votes[i], slot)
           T == {k \in 0..n : Expired(k)}
<1>1. n \in Nat
  OBVIOUS
<1>2. n \in T
  BY <1>1
<1>3. T \subseteq Nat /\ T # {}
  BY <1>1, <1>2
<1>4. PICK k \in T : \A j \in T : k <= j
  BY Zenon, <1>3, NatMin
<1>5. k > 0 => is_locked_out_at_slot(votes[k], slot)
  <2>1. SUFFICES ASSUME k > 0, ~ is_locked_out_at_slot(votes[k], slot)
                 PROVE  FALSE
    BY Zenon
  <2>2. k - 1 \in 0..n
    BY <1>1, <1>4, <2>1
  <2>3. Expired(k - 1)
    <3>1. TAKE i \in ((k - 1) + 1)..n
    <3>2. i = k \/ i \in (k + 1)..n
      BY <1>1, <1>4
    <3> QED
      BY Zenon, <1>4, <2>1, <3>2
  <2>4. k - 1 \in T
    BY Zenon, <2>2, <2>3
  <2>5. k <= k - 1
    BY Zenon, <1>4, <2>4
  <2> QED
    BY <1>1, <1>4, <2>5
<1>6. k \in 0..Len(votes) /\ Expired(k)
  BY Zenon, <1>4
<1> HIDE DEF T
<1> QED
  BY Zenon, <1>5, <1>6 DEF KeptVotes

\* pop_expired_votes leaves a lower part of the tower, which is still a tower,
\* and whose top is locked out at the new slot.
LEMMA PopKeepsTower ==
    ASSUME NEW votes \in Seq(Lockout), NEW slot \in Nat, IsTower(votes)
    PROVE  LET popped == pop_expired_votes(votes, slot)
           IN  /\ popped \in Seq(Lockout)
               /\ Len(popped) <= Len(votes)
               /\ \A i \in 1..Len(popped) : popped[i] = votes[i]
               /\ IsTower(popped)
               /\ popped # << >> => is_locked_out_at_slot(popped[Len(popped)], slot)
               /\ \A i \in (Len(popped) + 1)..Len(votes) : ~ is_locked_out_at_slot(votes[i], slot)
<1> DEFINE k == KeptVotes(votes, slot)
           popped == pop_expired_votes(votes, slot)
<1>1. /\ k \in 0..Len(votes)
      /\ k > 0 => is_locked_out_at_slot(votes[k], slot)
      /\ \A i \in (k + 1)..Len(votes) : ~ is_locked_out_at_slot(votes[i], slot)
  BY Zenon, KeptVotesDef
<1> HIDE DEF k
<1>2. popped = SubSeq(votes, 1, k)
  BY Zenon DEF pop_expired_votes, k
<1>3. popped \in Seq(Lockout) /\ Len(popped) = k /\ \A i \in 1..k : popped[i] = votes[i]
  BY <1>1, <1>2
<1> HIDE DEF popped
<1>4. IsTower(popped)
  <2>1. Len(popped) <= MAX_LOCKOUT_HISTORY
    BY <1>1, <1>3, ConstantsAssumption DEF IsTower
  <2>2. DOMAIN popped = 1..k /\ DOMAIN votes = 1..Len(votes) /\ k <= Len(votes)
    BY <1>1, <1>3
  <2>3. \A i \in 1..(k - 1) : i \in 1..(Len(votes) - 1) /\ i \in 1..k /\ i + 1 \in 1..k
    BY <1>1
  <2>4. \A i \in 1..(k - 1) : is_locked_out_at_slot(popped[i], popped[i + 1].slot)
    BY Zenon, <1>3, <2>3 DEF IsTower
  <2> QED
    BY <1>1, <1>3, <2>1, <2>2, <2>4 DEF IsTower
<1>5. popped # << >> => is_locked_out_at_slot(popped[Len(popped)], slot)
  BY <1>1, <1>3
<1> QED
  BY <1>1, <1>3, <1>4, <1>5 DEF popped

\* A lockout is the record of its two fields, and counting one more confirmation
\* changes one of them.
LEMMA LockoutFields ==
    ASSUME NEW v \in Lockout
    PROVE  /\ v.slot \in Nat
           /\ v.conf \in 0..MAX_LOCKOUT_HISTORY
           /\ [v EXCEPT !.conf = @ + 1].slot = v.slot
           /\ [v EXCEPT !.conf = @ + 1].conf = v.conf + 1
           /\ v.conf < MAX_LOCKOUT_HISTORY => [v EXCEPT !.conf = @ + 1] \in Lockout
BY ConstantsAssumption DEF Lockout

\* Pushing a new vote on a tower with room for it, and doubling the lockouts
\* below, gives a tower whose top is the new vote and whose other votes keep
\* their slots and lose no confirmation.
LEMMA PushKeepsTower ==
    ASSUME NEW base \in Seq(Lockout), NEW slot \in Nat, IsTower(base),
           Len(base) < MAX_LOCKOUT_HISTORY,
           \A i \in DOMAIN base : base[i].slot < slot,
           base # << >> => is_locked_out_at_slot(base[Len(base)], slot)
    PROVE  LET new == double_lockouts(Append(base, [slot |-> slot, conf |-> 1]))
           IN  /\ new \in Seq(Lockout)
               /\ Len(new) = Len(base) + 1
               /\ IsTower(new)
               /\ new[Len(new)].slot = slot
               /\ \A i \in 1..Len(base) : /\ new[i].slot = base[i].slot
                                          /\ new[i].conf >= base[i].conf
<1> DEFINE top == [slot |-> slot, conf |-> 1]
           pushed == Append(base, top)
           new == double_lockouts(pushed)
           n == Len(base)
<1>1. n \in Nat /\ n < MAX_LOCKOUT_HISTORY /\ MAX_LOCKOUT_HISTORY \in Nat
  BY ConstantsAssumption
<1>2. top \in Lockout
  BY <1>1 DEF Lockout
<1>3. /\ Len(pushed) = n + 1
      /\ DOMAIN pushed = 1..(n + 1)
      /\ pushed[n + 1] = top
      /\ \A i \in 1..n : pushed[i] = base[i] /\ base[i] \in Lockout
  BY <1>1, <1>2
<1> HIDE DEF pushed, top
<1>4. /\ DOMAIN new = 1..(n + 1)
      /\ \A i \in 1..(n + 1) :
            new[i] = IF n + 1 > (i - 1) + pushed[i].conf
                     THEN [pushed[i] EXCEPT !.conf = @ + 1] ELSE pushed[i]
  BY Zenon, <1>3 DEF double_lockouts
<1> HIDE DEF new
<1>5. new[n + 1] = top
  BY <1>1, <1>3, <1>4 DEF top
<1>6. \A i \in 1..n :
         /\ new[i] \in Lockout
         /\ new[i].slot = base[i].slot
         /\ new[i].conf \in 1..MAX_LOCKOUT_HISTORY
         /\ new[i].conf = IF n + 1 > (i - 1) + base[i].conf THEN base[i].conf + 1
                                                           ELSE base[i].conf
  <2>1. TAKE i \in 1..n
  <2>2. base[i] \in Lockout /\ i \in DOMAIN base
    BY <1>1, <1>3
  <2>3. base[i].conf \in 1..MAX_LOCKOUT_HISTORY
    BY Zenon, <2>2 DEF IsTower
  <2>4. new[i] = IF n + 1 > (i - 1) + base[i].conf
                 THEN [base[i] EXCEPT !.conf = @ + 1] ELSE base[i]
    <3>1. i \in 1..(n + 1)
      BY <1>1
    <3>2. new[i] = IF n + 1 > (i - 1) + pushed[i].conf
                   THEN [pushed[i] EXCEPT !.conf = @ + 1] ELSE pushed[i]
      BY ONLY Zenon, <1>4, <3>1
    <3>3. pushed[i] = base[i]
      BY ONLY Zenon, <1>3, <2>1
    <3> QED
      BY ONLY Zenon, <3>2, <3>3
  <2>5. CASE n + 1 > (i - 1) + base[i].conf
    <3>1. base[i].conf < MAX_LOCKOUT_HISTORY
      BY <1>1, <2>3, <2>5
    <3> QED
      BY <1>1, <2>2, <2>3, <2>4, <2>5, <3>1, LockoutFields
  <2>6. CASE ~ (n + 1 > (i - 1) + base[i].conf)
    BY Zenon, <2>2, <2>3, <2>4, <2>6
  <2> QED
    BY Zenon, <2>5, <2>6
<1>7. new \in Seq(Lockout) /\ Len(new) = n + 1
  <2>1. \A i \in 1..(n + 1) : new[i] \in Lockout
    BY <1>1, <1>2, <1>5, <1>6
  <2>2. new = [i \in 1..(n + 1) |-> new[i]]
    BY Zenon, <1>4 DEF new, double_lockouts
  <2>3. new \in [1..(n + 1) -> Lockout]
    BY Zenon, <2>1, <2>2
  <2> QED
    BY <1>1, <2>3
<1>8. top.slot = slot /\ top.conf = 1
  BY Zenon DEF top
<1>9. \A i \in 1..n : /\ base[i].conf \in 1..MAX_LOCKOUT_HISTORY
                       /\ base[i].slot \in Nat
                       /\ base[i].slot < slot
  <2>1. TAKE i \in 1..n
  <2>2. base[i] \in Lockout /\ i \in DOMAIN base
    BY <1>1, <1>3
  <2>3. base[i].conf \in 1..MAX_LOCKOUT_HISTORY /\ base[i].slot < slot
    BY Zenon, <2>2 DEF IsTower
  <2> QED
    BY Zenon, <2>2, <2>3, LockoutFields
<1>10. \A i, j \in 1..(n + 1) : i < j => new[i].slot < new[j].slot
  <2>1. SUFFICES ASSUME NEW i \in 1..(n + 1), NEW j \in 1..(n + 1), i < j
                 PROVE  new[i].slot < new[j].slot
    BY Zenon
  <2>2. i \in 1..n
    BY <1>1, <2>1
  <2>3. new[i].slot = base[i].slot /\ base[i].slot < slot
    BY Zenon, <1>6, <1>9, <2>2
  <2>4. CASE j = n + 1
    BY Zenon, <1>5, <1>8, <2>3, <2>4
  <2>5. CASE j \in 1..n
    <3>1. new[j].slot = base[j].slot
      BY Zenon, <1>6, <2>5
    <3>2. base[i].slot < base[j].slot
      BY <2>1, <2>2, <2>5 DEF IsTower
    <3> QED
      BY Zenon, <2>3, <3>1, <3>2
  <2> QED
    BY <1>1, <2>4, <2>5
<1>11. \A i, j \in 1..(n + 1) : i < j => new[i].conf > new[j].conf
  <2>1. SUFFICES ASSUME NEW i \in 1..(n + 1), NEW j \in 1..(n + 1), i < j
                 PROVE  new[i].conf > new[j].conf
    BY Zenon
  <2>2. i \in 1..n
    BY <1>1, <2>1
  <2>3. new[i].conf = IF n + 1 > (i - 1) + base[i].conf THEN base[i].conf + 1
                                                       ELSE base[i].conf
    BY Zenon, <1>6, <2>2
  <2>4. CASE j = n + 1
    BY <1>1, <1>5, <1>8, <1>9, <2>2, <2>3, <2>4
  <2>5. CASE j \in 1..n
    <3>1. base[i].conf > base[j].conf
      BY <2>1, <2>2, <2>5 DEF IsTower
    <3>2. new[j].conf = IF n + 1 > (j - 1) + base[j].conf THEN base[j].conf + 1
                                                         ELSE base[j].conf
      BY Zenon, <1>6, <2>5
    <3>3. base[i].conf \in Nat /\ base[j].conf \in Nat
      BY ONLY <1>1, <1>9, <2>2, <2>5
    <3>4. i \in Nat /\ j \in Nat /\ i + 1 <= j
      BY <1>1, <2>1
    <3> DEFINE ci == base[i].conf
               cj == base[j].conf
    <3>5. new[i].conf = IF n + 1 > (i - 1) + ci THEN ci + 1 ELSE ci
      BY Zenon, <2>3
    <3>6. new[j].conf = IF n + 1 > (j - 1) + cj THEN cj + 1 ELSE cj
      BY Zenon, <3>2
    <3>7. ci \in Nat /\ cj \in Nat /\ ci > cj
      BY Zenon, <3>1, <3>3
    <3> HIDE DEF ci, cj, n
    <3> QED
      BY <1>1, <3>4, <3>5, <3>6, <3>7
  <2> QED
    BY <1>1, <2>4, <2>5
<1>12. \A i \in 1..n : is_locked_out_at_slot(new[i], new[i + 1].slot)
  <2>1. TAKE i \in 1..n
  <2>2. /\ base[i] \in Lockout /\ new[i] \in Lockout
        /\ base[i].slot = new[i].slot /\ base[i].conf <= new[i].conf
    <3>1. base[i] \in Lockout
      BY ONLY Zenon, <1>3, <2>1
    <3>2. /\ new[i] \in Lockout
          /\ new[i].slot = base[i].slot
          /\ new[i].conf = IF n + 1 > (i - 1) + base[i].conf THEN base[i].conf + 1
                                                             ELSE base[i].conf
      BY ONLY Zenon, <1>6, <2>1
    <3>3. base[i].conf \in Nat
      BY ONLY <1>1, <1>9, <2>1
    <3>4. base[i].conf <= new[i].conf
      BY ONLY <3>2, <3>3
    <3> QED
      BY ONLY Zenon, <3>1, <3>2, <3>4
  <2>3. new[i + 1].slot \in Nat
    <3>1. CASE i = n
      BY Zenon, <1>5, <1>8, <3>1
    <3>2. CASE i + 1 \in 1..n
      <4>1. new[i + 1] \in Lockout
        BY Zenon, <1>6, <3>2
      <4> QED
        BY Zenon, <4>1, LockoutFields
    <3> QED
      BY <1>1, <3>1, <3>2
  <2>4. is_locked_out_at_slot(base[i], new[i + 1].slot)
    <3>1. CASE i = n
      BY <1>1, <1>5, <1>8, <3>1
    <3>2. CASE i \in 1..(n - 1)
      <4>1. i + 1 \in 1..n
        BY <1>1, <3>2
      <4> QED
        BY Zenon, <1>6, <3>2, <4>1 DEF IsTower
    <3> QED
      BY <1>1, <3>1, <3>2
  <2> QED
    BY Zenon, <2>2, <2>3, <2>4, LockoutMonotone
<1>13. IsTower(new)
  <2>1. \A i \in DOMAIN new : new[i].conf \in 1..MAX_LOCKOUT_HISTORY
    BY <1>1, <1>4, <1>5, <1>6, <1>8
  <2>2. Len(new) - 1 = n
    BY <1>1, <1>7
  <2> QED
    BY <1>1, <1>4, <1>7, <1>10, <1>11, <1>12, <2>1, <2>2 DEF IsTower
<1>14. \A i \in 1..n : new[i].slot = base[i].slot /\ new[i].conf >= base[i].conf
  <2>1. TAKE i \in 1..n
  <2>2. base[i].conf \in Nat
    BY <1>1, <1>9
  <2>3. new[i].conf = base[i].conf + 1 \/ new[i].conf = base[i].conf
    BY Zenon, <1>6
  <2>4. new[i].slot = base[i].slot
    BY Zenon, <1>6
  <2> QED
    BY <2>2, <2>3, <2>4
<1> QED
  BY Zenon, <1>5, <1>7, <1>8, <1>13, <1>14 DEF new, pushed, top

\* A full tower without its oldest vote, the one that is rooted, is a tower.
LEMMA TailKeepsTower ==
    ASSUME NEW votes \in Seq(Lockout), IsTower(votes), votes # << >>
    PROVE  /\ Tail(votes) \in Seq(Lockout)
           /\ Len(Tail(votes)) = Len(votes) - 1
           /\ \A i \in 1..(Len(votes) - 1) : Tail(votes)[i] = votes[i + 1]
           /\ IsTower(Tail(votes))
<1> DEFINE n == Len(votes)
           rest == Tail(votes)
<1>1. n \in Nat /\ n > 0
  OBVIOUS
<1>2. rest \in Seq(Lockout) /\ Len(rest) = n - 1 /\ \A i \in 1..(n - 1) : rest[i] = votes[i + 1]
  BY <1>1
<1> HIDE DEF rest
<1>3. DOMAIN rest = 1..(n - 1) /\ DOMAIN votes = 1..n
  BY <1>1, <1>2
<1>4. \A i \in 1..(n - 1) : i + 1 \in 1..n
  BY <1>1
<1>5. Len(rest) <= MAX_LOCKOUT_HISTORY
  BY <1>1, <1>2, ConstantsAssumption DEF IsTower
<1>6. \A i \in DOMAIN rest : rest[i].conf \in 1..MAX_LOCKOUT_HISTORY
  BY Zenon, <1>2, <1>3, <1>4 DEF IsTower
<1>7. \A i, j \in DOMAIN rest :
         i < j => rest[i].slot < rest[j].slot /\ rest[i].conf > rest[j].conf
  <2>1. SUFFICES ASSUME NEW i \in 1..(n - 1), NEW j \in 1..(n - 1), i < j
                 PROVE  rest[i].slot < rest[j].slot /\ rest[i].conf > rest[j].conf
    BY Zenon, <1>3
  <2>2. i + 1 \in DOMAIN votes /\ j + 1 \in DOMAIN votes /\ i + 1 < j + 1
    BY <1>1, <1>3, <2>1
  <2>3. votes[i + 1].slot < votes[j + 1].slot /\ votes[i + 1].conf > votes[j + 1].conf
    BY Zenon, <2>2 DEF IsTower
  <2> QED
    BY Zenon, <1>2, <2>3
<1>8. \A i \in 1..(Len(rest) - 1) : is_locked_out_at_slot(rest[i], rest[i + 1].slot)
  <2>1. TAKE i \in 1..(Len(rest) - 1)
  <2>2. i + 1 \in 1..(n - 1) /\ i \in 1..(n - 1)
    BY <1>1, <1>2
  <2>3. rest[i] = votes[i + 1] /\ rest[i + 1] = votes[(i + 1) + 1]
    BY Zenon, <1>2, <2>2
  <2> QED
    BY Zenon, <2>2, <2>3 DEF IsTower
<1> QED
  BY Zenon, <1>2, <1>5, <1>6, <1>7, <1>8 DEF IsTower, rest

\* increment_credits keeps the type of the list and adds n to the credits, in an
\* entry it may have to make.
LEMMA IncrementCredits ==
    ASSUME NEW ec \in Seq(Nat \X Nat \X Nat), NEW epoch \in Nat, NEW n \in Nat
    PROVE  /\ increment_credits(ec, epoch, n) \in Seq(Nat \X Nat \X Nat)
           /\ credits(increment_credits(ec, epoch, n)) = credits(ec) + n
<1> DEFINE E == Nat \X Nat \X Nat
           rolled == CreditsRolledTo(ec, epoch)
           last == ec[Len(ec)]
           moved == IF last[2] # last[3] THEN Append(ec, <<epoch, last[2], last[2]>>)
                    ELSE [ec EXCEPT ![Len(ec)] = <<epoch, last[2], last[3]>>]
<1>1. /\ rolled \in Seq(E)
      /\ rolled # << >>
      /\ rolled[Len(rolled)][2] = credits(ec)
  <2>1. CASE ec = << >>
    <3>1. rolled = << <<epoch, 0, 0>> >>
      BY Zenon, <2>1 DEF CreditsRolledTo
    <3>2. credits(ec) = 0
      BY Zenon, <2>1 DEF credits
    <3> QED
      BY <3>1, <3>2
  <2>2. CASE ec # << >>
    <3>1. last \in E /\ Len(ec) \in Nat /\ Len(ec) > 0
      BY <2>2
    <3>2. last[2] \in Nat /\ last[3] \in Nat /\ credits(ec) = last[2]
      BY Zenon, <2>2, <3>1 DEF credits
    <3>3. moved \in Seq(E) /\ Len(moved) >= Len(ec) /\ moved[Len(moved)][2] = last[2]
      <4>1. CASE last[2] # last[3]
        <5>1. moved = Append(ec, <<epoch, last[2], last[2]>>) /\ <<epoch, last[2], last[2]>> \in E
          BY Zenon, <3>2, <4>1
        <5> QED
          BY <3>1, <5>1
      <4>2. CASE last[2] = last[3]
        <5> DEFINE same == <<epoch, last[2], last[3]>>
        <5>1. moved = [ec EXCEPT ![Len(ec)] = same] /\ same \in E /\ same[2] = last[2]
          BY Zenon, <3>2, <4>2
        <5>2. Len(ec) \in 1..Len(ec) /\ ec \in Seq(E)
          BY <3>1
        <5> HIDE DEF same, moved, E
        <5>3. /\ [ec EXCEPT ![Len(ec)] = same] \in Seq(E)
              /\ Len([ec EXCEPT ![Len(ec)] = same]) = Len(ec)
              /\ [ec EXCEPT ![Len(ec)] = same][Len(ec)] = same
          BY <5>1, <5>2, ExceptSeq
        <5> QED
          BY <3>1, <5>1, <5>3
      <4> QED
        BY Zenon, <4>1, <4>2
    <3>4. rolled = IF epoch = last[1] THEN ec
                   ELSE IF Len(moved) > MAX_EPOCH_CREDITS_HISTORY THEN Tail(moved) ELSE moved
      BY Zenon, <2>2 DEF CreditsRolledTo
    <3> HIDE DEF moved, rolled
    <3>5. CASE epoch # last[1] /\ Len(moved) > MAX_EPOCH_CREDITS_HISTORY
      <4>1. Len(moved) \in Nat /\ Len(moved) > 1
        <5>1. Len(moved) \in Nat
          BY <3>3
        <5>2. MAX_EPOCH_CREDITS_HISTORY \in Nat /\ MAX_EPOCH_CREDITS_HISTORY >= 1
          BY ConstantsAssumption
        <5> QED
          BY <3>5, <5>1, <5>2
      <4>2. rolled = Tail(moved)
        BY Zenon, <3>4, <3>5
      <4>3. /\ rolled \in Seq(E) /\ Len(rolled) = Len(moved) - 1
            /\ rolled[Len(rolled)] = moved[Len(moved)]
        BY <3>3, <4>1, <4>2
      <4> QED
        BY <3>2, <3>3, <4>1, <4>3
    <3>6. CASE ~ (epoch # last[1] /\ Len(moved) > MAX_EPOCH_CREDITS_HISTORY)
      <4>1. rolled = ec \/ rolled = moved
        BY Zenon, <3>4, <3>6
      <4>2. CASE rolled = ec
        BY Zenon, <2>2, <3>2, <4>2
      <4>3. CASE rolled = moved
        <5>1. moved # << >>
          BY <3>1, <3>3
        <5> QED
          BY Zenon, <3>2, <3>3, <4>3, <5>1
      <4> QED
        BY Zenon, <4>1, <4>2, <4>3
    <3> QED
      BY Zenon, <3>5, <3>6
  <2> QED
    BY Zenon, <2>1, <2>2
<1> HIDE DEF rolled
<1>2. Len(rolled) \in Nat /\ Len(rolled) > 0 /\ rolled[Len(rolled)] \in E
  BY <1>1
<1> DEFINE entry == <<rolled[Len(rolled)][1], rolled[Len(rolled)][2] + n, rolled[Len(rolled)][3]>>
           raised == [rolled EXCEPT ![Len(rolled)] = entry]
<1>3. entry \in E /\ entry[2] = rolled[Len(rolled)][2] + n
  BY <1>2
<1>4. increment_credits(ec, epoch, n) = raised
  BY Zenon DEF increment_credits, rolled
<1> HIDE DEF entry
<1>5. raised \in Seq(E) /\ Len(raised) = Len(rolled) /\ raised[Len(rolled)] = entry /\ raised # << >>
  <2>1. Len(rolled) \in 1..Len(rolled) /\ rolled \in Seq(E) /\ entry \in E
    BY <1>1, <1>2, <1>3
  <2> HIDE DEF E
  <2>2. raised \in Seq(E) /\ Len(raised) = Len(rolled) /\ raised[Len(rolled)] = entry
    BY <2>1, ExceptSeq
  <2>3. raised # << >>
    BY <1>2, <2>2
  <2> QED
    BY Zenon, <2>2, <2>3
<1> HIDE DEF raised
<1>6. credits(raised) = entry[2]
  BY Zenon, <1>5 DEF credits
<1> QED
  BY Zenon, <1>1, <1>3, <1>4, <1>5, <1>6

\* The last voted slot of a tower is its greatest.
LEMMA LastVotedSlot ==
    ASSUME NEW votes \in Seq(Lockout), IsTower(votes)
    PROVE  /\ last_voted_slot(votes) \in Nat \cup {None}
           /\ votes # << >> => /\ last_voted_slot(votes) \in SlotsOf(votes)
                               /\ last_voted_slot(votes) \in Nat
           /\ \A i \in DOMAIN votes : votes[i].slot <= last_voted_slot(votes)
<1>1. CASE votes = << >>
  BY <1>1 DEF last_voted_slot
<1>2. CASE votes # << >>
  <2>1. Len(votes) \in Nat /\ Len(votes) > 0 /\ DOMAIN votes = 1..Len(votes)
    BY <1>2
  <2>2. last_voted_slot(votes) = votes[Len(votes)].slot /\ Len(votes) \in DOMAIN votes
    BY <1>2, <2>1 DEF last_voted_slot
  <2>3. \A i \in DOMAIN votes : votes[i].slot \in Nat
    <3>1. TAKE i \in DOMAIN votes
    <3>2. votes[i] \in Lockout
      BY <2>1
    <3> QED
      BY Zenon, <3>2, LockoutFields
  <2>4. \A i \in DOMAIN votes : votes[i].slot <= votes[Len(votes)].slot
    <3>1. TAKE i \in DOMAIN votes
    <3>2. i = Len(votes) \/ i < Len(votes)
      BY <2>1
    <3>3. votes[i].slot \in Nat /\ votes[Len(votes)].slot \in Nat
      BY Zenon, <2>2, <2>3
    <3>4. i < Len(votes) => votes[i].slot < votes[Len(votes)].slot
      BY Zenon, <2>2 DEF IsTower
    <3> QED
      BY <3>2, <3>3, <3>4
  <2> QED
    BY Zenon, <1>2, <2>2, <2>3, <2>4 DEF SlotsOf
<1> QED
  BY Zenon, <1>1, <1>2

\* The votes process_next_vote_slot pushes on: the popped tower, without its
\* oldest vote when it is full.
LEMMA BaseOfNextVote ==
    ASSUME NEW votes \in Seq(Lockout), IsTower(votes), NEW slot \in Nat,
           slot > last_voted_slot(votes)
    PROVE  LET popped == pop_expired_votes(votes, slot)
               full   == Len(popped) = MAX_LOCKOUT_HISTORY
               base   == IF full THEN Tail(popped) ELSE popped
           IN  /\ base \in Seq(Lockout)
               /\ IsTower(base)
               /\ Len(base) < MAX_LOCKOUT_HISTORY
               /\ base # << >> => is_locked_out_at_slot(base[Len(base)], slot)
               /\ \A i \in 1..Len(base) : \E j \in DOMAIN votes : base[i] = votes[j]
               /\ \A j \in DOMAIN votes :
                     \/ \E i \in 1..Len(base) : base[i] = votes[j]
                     \/ full /\ votes[j] = popped[1]
                     \/ ~ is_locked_out_at_slot(votes[j], slot)
               /\ full => popped # << >> /\ popped[1] = votes[1] /\ 1 \in DOMAIN votes
               /\ full => \A i \in 1..Len(base) : votes[1].slot < base[i].slot
<1> DEFINE popped == pop_expired_votes(votes, slot)
           full == Len(popped) = MAX_LOCKOUT_HISTORY
           base == IF full THEN Tail(popped) ELSE popped
<1>1. /\ popped \in Seq(Lockout)
      /\ Len(popped) <= Len(votes)
      /\ \A i \in 1..Len(popped) : popped[i] = votes[i]
      /\ IsTower(popped)
      /\ popped # << >> => is_locked_out_at_slot(popped[Len(popped)], slot)
      /\ \A i \in (Len(popped) + 1)..Len(votes) : ~ is_locked_out_at_slot(votes[i], slot)
  BY Zenon, PopKeepsTower
<1> HIDE DEF popped
<1>2. /\ Len(popped) \in Nat /\ Len(votes) \in Nat /\ DOMAIN votes = 1..Len(votes)
      /\ Len(popped) <= MAX_LOCKOUT_HISTORY
      /\ MAX_LOCKOUT_HISTORY \in Nat \ {0}
  BY <1>1, ConstantsAssumption DEF IsTower
<1>3. \A j \in DOMAIN votes : j \in 1..Len(popped) \/ ~ is_locked_out_at_slot(votes[j], slot)
  BY <1>1, <1>2
<1>4. CASE full
  <2>1. popped # << >> /\ Len(popped) > 0
    BY <1>1, <1>2, <1>4
  <2>2. base = Tail(popped)
    BY Zenon, <1>4
  <2>3. /\ base \in Seq(Lockout) /\ Len(base) = Len(popped) - 1 /\ IsTower(base)
        /\ \A i \in 1..(Len(popped) - 1) : base[i] = popped[i + 1]
    BY <1>1, <2>1, <2>2, TailKeepsTower
  <2> HIDE DEF base
  <2>4. base # << >> => is_locked_out_at_slot(base[Len(base)], slot)
    <3>1. SUFFICES ASSUME base # << >>
                   PROVE  is_locked_out_at_slot(base[Len(base)], slot)
      BY Zenon
    <3>2. Len(base) \in 1..(Len(popped) - 1) /\ Len(base) + 1 = Len(popped)
      BY <1>2, <2>3, <3>1
    <3>3. base[Len(base)] = popped[Len(popped)]
      BY Zenon, <2>3, <3>2
    <3> QED
      BY Zenon, <1>1, <2>1, <3>3
  <2>5. \A i \in 1..Len(base) : \E j \in DOMAIN votes : base[i] = votes[j]
    <3>1. TAKE i \in 1..Len(base)
    <3>2. base[i] = votes[i + 1] /\ i + 1 \in DOMAIN votes
      BY <1>1, <1>2, <2>3
    <3> QED
      BY Zenon, <3>2
  <2>6. \A j \in 1..Len(popped) :
           \/ \E i \in 1..Len(base) : base[i] = votes[j]
           \/ votes[j] = popped[1]
    <3>1. TAKE j \in 1..Len(popped)
    <3>2. CASE j = 1
      BY Zenon, <1>1, <3>2
    <3>3. CASE j - 1 \in 1..Len(base)
      <4>1. base[j - 1] = popped[(j - 1) + 1] /\ (j - 1) + 1 = j
        BY <1>2, <2>3, <3>3
      <4> QED
        BY Zenon, <1>1, <3>3, <4>1
    <3> QED
      BY <1>2, <2>3, <3>2, <3>3
  <2>7. popped[1] = votes[1] /\ 1 \in DOMAIN votes
    BY <1>1, <1>2, <2>1
  <2>8. Len(base) < MAX_LOCKOUT_HISTORY
    BY <1>2, <1>4, <2>3
  <2>9. \A i \in 1..Len(base) : votes[1].slot < base[i].slot
    <3>1. TAKE i \in 1..Len(base)
    <3>2. base[i] = votes[i + 1] /\ i + 1 \in DOMAIN votes /\ 1 \in DOMAIN votes /\ 1 < i + 1
      BY <1>1, <1>2, <2>3, <2>7
    <3> QED
      BY Zenon, <3>2 DEF IsTower
  <2> QED
    BY Zenon, <1>2, <1>3, <1>4, <2>1, <2>3, <2>4, <2>5, <2>6, <2>7, <2>8, <2>9 DEF base, popped
<1>5. CASE ~ full
  <2>1. base = popped
    BY Zenon, <1>5
  <2>2. Len(base) < MAX_LOCKOUT_HISTORY
    BY <1>2, <1>5, <2>1
  <2>3. \A i \in 1..Len(base) : base[i] = votes[i] /\ i \in DOMAIN votes
    BY <1>1, <1>2, <2>1
  <2> HIDE DEF base
  <2>4. \A j \in DOMAIN votes :
           \/ \E i \in 1..Len(base) : base[i] = votes[j]
           \/ ~ is_locked_out_at_slot(votes[j], slot)
    BY Zenon, <1>3, <2>1, <2>3
  <2> QED
    BY Zenon, <1>1, <1>5, <2>1, <2>2, <2>3, <2>4 DEF base, popped
<1> QED
  BY Zenon, <1>4, <1>5

\* What process_next_vote_slot does to a vote state whose votes are a tower, for
\* a slot it does not ignore: the result is one too, its last vote is the slot,
\* its votes and root come from the old votes, the old root and the slot, a new root
\* is below every vote, and a vote that is gone was rooted or is expired at the slot.
LEMMA NextVote ==
    ASSUME NEW vs \in VoteStates, IsTower(vs.votes), NEW slot \in Nat, NEW epoch \in Nat,
           slot > last_voted_slot(vs.votes)
    PROVE  LET new == process_next_vote_slot(vs, slot, epoch)
           IN  /\ new \in VoteStates
               /\ IsTower(new.votes)
               /\ new.votes # << >>
               /\ last_voted_slot(new.votes) = slot
               /\ SlotsOf(new.votes) \subseteq SlotsOf(vs.votes) \cup {slot}
               /\ \/ new.root_slot = vs.root_slot /\ new.epoch_credits = vs.epoch_credits
                  \/ /\ vs.votes # << >>
                     /\ new.root_slot = vs.votes[1].slot
                     /\ new.epoch_credits = increment_credits(vs.epoch_credits, epoch, 1)
                     /\ \A i \in DOMAIN new.votes : new.root_slot < new.votes[i].slot
               /\ new.last_timestamp = vs.last_timestamp
               /\ \A j \in DOMAIN vs.votes :
                     \/ \E i \in DOMAIN new.votes : /\ new.votes[i].slot = vs.votes[j].slot
                                                    /\ new.votes[i].conf >= vs.votes[j].conf
                     \/ vs.votes[j].slot = new.root_slot
                     \/ ~ is_locked_out_at_slot(vs.votes[j], slot)
<1> DEFINE votes  == vs.votes
           popped == pop_expired_votes(votes, slot)
           full   == Len(popped) = MAX_LOCKOUT_HISTORY
           base   == IF full THEN Tail(popped) ELSE popped
           tower  == double_lockouts(Append(base, [slot |-> slot, conf |-> 1]))
           new    == process_next_vote_slot(vs, slot, epoch)
<1>1. /\ votes \in Seq(Lockout)
      /\ vs.root_slot \in Nat \cup {None}
      /\ vs.epoch_credits \in Seq(Nat \X Nat \X Nat)
      /\ vs.last_timestamp \in BlockTimestamp
  BY Zenon DEF VoteStates
<1>2. /\ base \in Seq(Lockout)
      /\ IsTower(base)
      /\ Len(base) < MAX_LOCKOUT_HISTORY
      /\ base # << >> => is_locked_out_at_slot(base[Len(base)], slot)
      /\ \A i \in 1..Len(base) : \E j \in DOMAIN votes : base[i] = votes[j]
      /\ \A j \in DOMAIN votes :
            \/ \E i \in 1..Len(base) : base[i] = votes[j]
            \/ full /\ votes[j] = popped[1]
            \/ ~ is_locked_out_at_slot(votes[j], slot)
      /\ full => popped # << >> /\ popped[1] = votes[1] /\ 1 \in DOMAIN votes
      /\ full => \A i \in 1..Len(base) : votes[1].slot < base[i].slot
  BY Zenon, <1>1, BaseOfNextVote
<1>3. \A j \in DOMAIN votes : votes[j].slot < slot
  <2>1. /\ last_voted_slot(votes) \in Nat \cup {None}
        /\ \A j \in DOMAIN votes : votes[j].slot <= last_voted_slot(votes)
    BY Zenon, <1>1, LastVotedSlot
  <2>2. TAKE j \in DOMAIN votes
  <2>3. votes[j] \in Lockout
    BY <1>1
  <2>4. votes[j].slot \in Nat
    BY Zenon, <2>3, LockoutFields
  <2> QED
    BY <2>1, <2>4 DEF None
<1> HIDE DEF popped, base
<1>4. \A i \in DOMAIN base : base[i].slot < slot
  BY <1>2, <1>3
<1>5. /\ tower \in Seq(Lockout)
      /\ Len(tower) = Len(base) + 1
      /\ IsTower(tower)
      /\ tower[Len(tower)].slot = slot
      /\ \A i \in 1..Len(base) : tower[i].slot = base[i].slot /\ tower[i].conf >= base[i].conf
  BY Zenon, <1>2, <1>4, PushKeepsTower
<1> HIDE DEF tower
<1>6. new = [vs EXCEPT !.votes = tower,
                       !.root_slot = IF full THEN popped[1].slot ELSE @,
                       !.epoch_credits = IF full THEN increment_credits(@, epoch, 1) ELSE @]
  <2>1. ~ (slot <= last_voted_slot(vs.votes))
    BY <1>1, LastVotedSlot DEF None
  <2> QED
    BY Zenon, <2>1 DEF process_next_vote_slot, tower, base, popped
<1>7. increment_credits(vs.epoch_credits, epoch, 1) \in Seq(Nat \X Nat \X Nat)
  BY Zenon, <1>1, IncrementCredits
<1>8. full => popped[1].slot \in Nat /\ popped[1].slot = votes[1].slot /\ votes # << >>
  <2>1. SUFFICES ASSUME full
                 PROVE  popped[1].slot \in Nat /\ popped[1].slot = votes[1].slot /\ votes # << >>
    BY Zenon
  <2>2. popped[1] = votes[1] /\ 1 \in DOMAIN votes /\ votes[1] \in Lockout
    BY <1>1, <1>2, <2>1
  <2>3. votes # << >>
    BY <1>1, <2>2
  <2> QED
    BY Zenon, <2>2, <2>3, LockoutFields
<1> HIDE DEF full
<1>9. /\ new.votes = tower
      /\ new.root_slot = IF full THEN popped[1].slot ELSE vs.root_slot
      /\ new.epoch_credits = IF full THEN increment_credits(vs.epoch_credits, epoch, 1)
                                     ELSE vs.epoch_credits
      /\ new.last_timestamp = vs.last_timestamp
  BY Zenon, <1>6 DEF VoteStates
<1>10. new \in VoteStates
  BY Zenon, <1>1, <1>5, <1>6, <1>7, <1>8 DEF VoteStates
<1> HIDE DEF new
<1>11. Len(base) \in Nat /\ DOMAIN tower = 1..(Len(base) + 1) /\ Len(tower) > 0
  BY <1>2, <1>5
<1>12. tower # << >> /\ last_voted_slot(tower) = slot
  <2>1. tower # << >>
    BY <1>5, <1>11
  <2> QED
    BY Zenon, <1>5, <2>1 DEF last_voted_slot
<1>13. SlotsOf(tower) \subseteq SlotsOf(votes) \cup {slot}
  <2>1. SUFFICES ASSUME NEW i \in 1..(Len(base) + 1)
                 PROVE  tower[i].slot \in SlotsOf(votes) \cup {slot}
    BY Zenon, <1>11 DEF SlotsOf
  <2>2. CASE i = Len(base) + 1
    BY Zenon, <1>5, <2>2
  <2>3. CASE i \in 1..Len(base)
    <3>1. PICK j \in DOMAIN votes : base[i] = votes[j]
      BY Zenon, <1>2, <2>3
    <3>2. tower[i].slot = votes[j].slot
      BY Zenon, <1>5, <2>3, <3>1
    <3> QED
      BY Zenon, <3>2 DEF SlotsOf
  <2> QED
    BY <1>11, <2>2, <2>3
<1>14. \A j \in DOMAIN votes :
          \/ \E i \in DOMAIN tower : tower[i].slot = votes[j].slot /\ tower[i].conf >= votes[j].conf
          \/ votes[j].slot = new.root_slot
          \/ ~ is_locked_out_at_slot(votes[j], slot)
  <2>1. TAKE j \in DOMAIN votes
  <2>2. CASE \E i \in 1..Len(base) : base[i] = votes[j]
    <3>1. PICK i \in 1..Len(base) : base[i] = votes[j]
      BY Zenon, <2>2
    <3>2. i \in DOMAIN tower /\ tower[i].slot = votes[j].slot /\ tower[i].conf >= votes[j].conf
      BY <1>5, <1>11, <3>1
    <3> QED
      BY Zenon, <3>2
  <2>3. CASE full /\ votes[j] = popped[1]
    BY Zenon, <1>9, <2>3
  <2> QED
    BY Zenon, <1>2, <2>2, <2>3
<1>15. full => \A i \in DOMAIN tower : votes[1].slot < tower[i].slot
  <2>1. SUFFICES ASSUME full, NEW i \in 1..(Len(base) + 1)
                 PROVE  votes[1].slot < tower[i].slot
    BY Zenon, <1>11
  <2>2. CASE i = Len(base) + 1
    BY Zenon, <1>2, <1>3, <1>5, <2>1, <2>2
  <2>3. CASE i \in 1..Len(base)
    BY Zenon, <1>2, <1>5, <2>1, <2>3
  <2> QED
    BY <1>11, <2>2, <2>3
<1>16. \/ new.root_slot = vs.root_slot /\ new.epoch_credits = vs.epoch_credits
       \/ /\ vs.votes # << >>
          /\ new.root_slot = vs.votes[1].slot
          /\ new.epoch_credits = increment_credits(vs.epoch_credits, epoch, 1)
          /\ \A i \in DOMAIN new.votes : new.root_slot < new.votes[i].slot
  BY Zenon, <1>8, <1>9, <1>15
<1> QED
  BY Zenon, <1>5, <1>9, <1>10, <1>12, <1>13, <1>14, <1>16 DEF new

\* Among finitely many indices there is one of each rank, so Retain takes each of
\* its elements from an index that was to be kept, and in order.
LEMMA RetainDef ==
    ASSUME NEW S, NEW seq \in Seq(S), NEW kept, kept \subseteq DOMAIN seq
    PROVE  /\ Retain(seq, kept) \in Seq(S)
           /\ Len(Retain(seq, kept)) = Cardinality(kept)
           /\ \A k \in 1..Len(Retain(seq, kept)) : \E i \in kept : Retain(seq, kept)[k] = seq[i]
           /\ Cardinality(kept) <= Len(seq)
<1> DEFINE n == Len(seq)
           upTo(m) == {j \in kept : j <= m}
           nth(k) == CHOOSE i \in kept : Cardinality({j \in kept : j <= i}) = k
<1>1. n \in Nat /\ DOMAIN seq = 1..n /\ kept \subseteq 1..n
  OBVIOUS
<1>2. IsFiniteSet(1..n) /\ Cardinality(1..n) = n
  <2>1. /\ IsFiniteSet(1..n)
        /\ Cardinality(1..n) = IF 1 > n THEN 0 ELSE n - 1 + 1
    BY <1>1, FS_Interval
  <2> QED
    BY <1>1, <2>1
<1>3. IsFiniteSet(kept) /\ Cardinality(kept) <= n /\ Cardinality(kept) \in Nat
  BY <1>1, <1>2, FS_Subset, FS_CardinalityType
<1>4. \A m \in Nat : IsFiniteSet(upTo(m)) /\ Cardinality(upTo(m)) \in Nat
  <2>1. TAKE m \in Nat
  <2>2. upTo(m) \subseteq kept
    BY Zenon
  <2> QED
    BY Zenon, <1>3, <2>2, FS_Subset, FS_CardinalityType
<1> DEFINE rank(m) == Cardinality(upTo(m))
<1>5. /\ rank(0) = 0
      /\ rank(n) = Cardinality(kept)
      /\ \A m \in Nat : rank(m) \in Nat
      /\ \A m \in 1..n : rank(m) = IF m \in kept THEN rank(m - 1) + 1 ELSE rank(m - 1)
  <2>1. upTo(0) = {} /\ upTo(n) = kept
    BY <1>1
  <2>2. rank(0) = 0 /\ rank(n) = Cardinality(kept)
    BY Zenon, <2>1, FS_EmptySet
  <2>3. ASSUME NEW m \in 1..n
        PROVE  rank(m) = IF m \in kept THEN rank(m - 1) + 1 ELSE rank(m - 1)
    <3>1. m - 1 \in Nat
      BY <1>1, <2>3
    <3>2. CASE m \in kept
      <4>1. upTo(m) = upTo(m - 1) \cup {m} /\ m \notin upTo(m - 1)
        BY <1>1, <2>3, <3>2
      <4> HIDE DEF upTo
      <4> QED
        BY Zenon, <1>4, <3>1, <3>2, <4>1, FS_AddElement
    <3>3. CASE m \notin kept
      <4>1. upTo(m) = upTo(m - 1)
        BY <1>1, <2>3, <3>3
      <4> QED
        BY Zenon, <3>3, <4>1
    <3> QED
      BY Zenon, <3>2, <3>3
  <2> QED
    BY Zenon, <1>4, <2>2, <2>3
<1>6. ASSUME NEW k \in 1..Cardinality(kept)
      PROVE  \E i \in kept : Cardinality({j \in kept : j <= i}) = k
  <2> DEFINE T == {m \in 0..n : rank(m) >= k}
  <2>1. \A i : rank(i) = Cardinality({j \in kept : j <= i})
    BY Zenon
  <2> HIDE DEF rank
  <2>2. n \in T
    BY <1>1, <1>3, <1>5, <1>6
  <2>3. T \subseteq Nat /\ T # {}
    BY <1>1, <2>2
  <2>4. PICK m \in T : \A y \in T : m <= y
    BY Zenon, <2>3, NatMin
  <2>5. m \in 1..n
    BY <1>1, <1>5, <1>6, <2>4
  <2>6. m - 1 \in 0..n /\ m - 1 \notin T
    BY <1>1, <2>4, <2>5
  <2>7. rank(m - 1) < k /\ rank(m) >= k /\ rank(m - 1) \in Nat
    BY <1>1, <1>5, <1>6, <2>4, <2>6
  <2>8. m \in kept /\ rank(m) = k
    <3>1. rank(m) = IF m \in kept THEN rank(m - 1) + 1 ELSE rank(m - 1)
      BY Zenon, <1>5, <2>5
    <3>2. k \in Nat
      BY <1>3, <1>6
    <3> HIDE DEF T
    <3> QED
      BY <2>7, <3>1, <3>2
  <2> QED
    BY Zenon, <2>1, <2>8
<1> HIDE DEF rank
<1>7. \A k \in 1..Cardinality(kept) : nth(k) \in kept
  BY Zenon, <1>6
<1>8. Retain(seq, kept) = [k \in 1..Cardinality(kept) |-> seq[nth(k)]]
  BY Zenon DEF Retain
<1> HIDE DEF nth
<1>9. \A k \in 1..Cardinality(kept) : seq[nth(k)] \in S
  BY <1>1, <1>7
<1>10. Retain(seq, kept) \in [1..Cardinality(kept) -> S]
  BY Zenon, <1>8, <1>9
<1>11. Retain(seq, kept) \in Seq(S) /\ Len(Retain(seq, kept)) = Cardinality(kept)
  BY <1>3, <1>10
<1> QED
  BY Zenon, <1>3, <1>7, <1>8, <1>11

\* process_new_vote_state compares neighbours only; that is enough to make the
\* whole sequence a tower.
LEMMA WellFormedIsTower ==
    ASSUME NEW votes \in Seq(ProposedLockout), NEW root, IsWellFormed(votes, root)
    PROVE  votes \in Seq(Lockout) /\ IsTower(votes)
<1> DEFINE n == Len(votes)
           Above(i, j) == votes[i].slot < votes[j].slot /\ votes[i].conf > votes[j].conf
<1>1. n \in Nat /\ DOMAIN votes = 1..n /\ MAX_LOCKOUT_HISTORY \in Nat
  BY ConstantsAssumption
<1>2. \A i \in 1..n : /\ votes[i] \in ProposedLockout
                      /\ votes[i].slot \in Nat
                      /\ votes[i].conf \in 1..MAX_LOCKOUT_HISTORY
  <2>1. TAKE i \in 1..n
  <2>2. votes[i] \in ProposedLockout
    BY <1>1
  <2>3. votes[i].conf \in 1..MAX_LOCKOUT_HISTORY
    BY Zenon, <1>1 DEF IsWellFormed
  <2> QED
    BY Zenon, <2>2, <2>3 DEF ProposedLockout
<1>3. \A i \in 1..n : votes[i] \in Lockout
  BY <1>1, <1>2 DEF Lockout, ProposedLockout
<1>4. votes \in Seq(Lockout)
  <2>1. votes \in [1..n -> Lockout]
    BY <1>1, <1>3
  <2> QED
    BY <1>1, <2>1
<1>5. \A i \in 1..(n - 1) : Above(i, i + 1)
  BY Zenon DEF IsWellFormed
<1>6. ASSUME NEW i \in 1..n, NEW j \in 1..n, i < j
      PROVE  Above(i, j)
  <2> DEFINE T == {k \in (i + 1)..n : ~ Above(i, k)}
  <2>1. SUFFICES ASSUME ~ Above(i, j)
                 PROVE  FALSE
    BY Zenon
  <2> HIDE DEF Above
  <2>2. j \in T
    BY <1>1, <1>6, <2>1
  <2>3. T \subseteq Nat /\ T # {}
    <3>1. T \subseteq (i + 1)..n
      BY Zenon
    <3> HIDE DEF T
    <3> QED
      BY <1>1, <1>6, <2>2, <3>1
  <2>4. PICK k \in T : \A y \in T : k <= y
    BY Zenon, <2>3, NatMin
  <2>5. k \in (i + 1)..n /\ ~ Above(i, k)
    BY Zenon, <2>4
  <2>6. k # i + 1
    BY <1>1, <1>5, <1>6, <2>5
  <2>7. k - 1 \in (i + 1)..n /\ k - 1 \in 1..(n - 1) /\ (k - 1) + 1 = k
    BY <1>1, <1>6, <2>5, <2>6
  <2>8. Above(i, k - 1)
    <3>1. k - 1 \notin T
      BY <1>1, <2>4, <2>5
    <3> QED
      BY Zenon, <2>7, <3>1
  <2>9. Above(k - 1, k)
    BY Zenon, <1>5, <2>7
  <2>10. i \in 1..n /\ k - 1 \in 1..n /\ k \in 1..n
    BY <1>1, <1>6, <2>5, <2>7
  <2>11. /\ votes[i].slot \in Nat /\ votes[k - 1].slot \in Nat /\ votes[k].slot \in Nat
         /\ votes[i].conf \in Nat /\ votes[k - 1].conf \in Nat /\ votes[k].conf \in Nat
    BY <1>1, <1>2, <2>10
  <2>12. Above(i, k)
    <3>1. /\ votes[i].slot < votes[k - 1].slot /\ votes[k - 1].slot < votes[k].slot
          /\ votes[i].conf > votes[k - 1].conf /\ votes[k - 1].conf > votes[k].conf
      BY Zenon, <2>7, <2>8, <2>9 DEF Above
    <3>2. votes[i].slot < votes[k].slot /\ votes[i].conf > votes[k].conf
      <4> DEFINE a == votes[i]
                 b == votes[k - 1]
                 c == votes[k]
      <4>1. /\ a.slot \in Nat /\ b.slot \in Nat /\ c.slot \in Nat
            /\ a.conf \in Nat /\ b.conf \in Nat /\ c.conf \in Nat
            /\ a.slot < b.slot /\ b.slot < c.slot
            /\ a.conf > b.conf /\ b.conf > c.conf
        BY Zenon, <2>11, <3>1
      <4> HIDE DEF a, b, c
      <4>2. a.slot < c.slot /\ a.conf > c.conf
        BY <4>1
      <4> QED
        BY Zenon, <4>2 DEF a, c
    <3> QED
      BY Zenon, <3>2 DEF Above
  <2> QED
    BY Zenon, <2>5, <2>12
<1>7. \A i, j \in DOMAIN votes :
         i < j => votes[i].slot < votes[j].slot /\ votes[i].conf > votes[j].conf
  BY Zenon, <1>1, <1>6
<1>8. \A i \in 1..(n - 1) : is_locked_out_at_slot(votes[i], votes[i + 1].slot)
  BY Zenon DEF IsWellFormed
<1>9. Len(votes) <= MAX_LOCKOUT_HISTORY
  BY Zenon DEF IsWellFormed
<1> QED
  BY Zenon, <1>1, <1>2, <1>4, <1>7, <1>8, <1>9 DEF IsTower

\* A nonempty list of slots has a greatest one.
LEMMA GreatestSlot ==
    ASSUME NEW slots \in Seq(Nat), slots # << >>
    PROVE  \E s \in {slots[i] : i \in DOMAIN slots} : \A i \in DOMAIN slots : slots[i] <= s
<1> DEFINE n == Len(slots)
           T == {m \in 0..n : \E i \in 1..n : \A j \in (m + 1)..n : slots[j] <= slots[i]}
<1>1. n \in Nat /\ n > 0 /\ DOMAIN slots = 1..n /\ \A i \in 1..n : slots[i] \in Nat
  OBVIOUS
<1>2. n \in T
  BY <1>1
<1>3. T \subseteq Nat /\ T # {}
  <2>1. T \subseteq 0..n
    BY Zenon
  <2> HIDE DEF T
  <2> QED
    BY <1>1, <1>2, <2>1
<1>4. PICK m \in T : \A y \in T : m <= y
  BY Zenon, <1>3, NatMin
<1>5. PICK i \in 1..n : \A j \in (m + 1)..n : slots[j] <= slots[i]
  BY Zenon, <1>4
<1>6. m \in 0..n
  BY Zenon, <1>4
<1>7. m = 0
  <2>1. SUFFICES ASSUME m # 0
                 PROVE  FALSE
    BY Zenon
  <2>2. m \in 1..n /\ m - 1 \in 0..n
    BY <1>1, <1>6, <2>1
  <2>3. \E k \in 1..n : \A j \in ((m - 1) + 1)..n : slots[j] <= slots[k]
    <3>1. CASE slots[m] <= slots[i]
      <4>1. \A j \in ((m - 1) + 1)..n : slots[j] <= slots[i]
        <5>1. TAKE j \in ((m - 1) + 1)..n
        <5>2. j = m \/ j \in (m + 1)..n
          BY <1>1, <2>2
        <5> QED
          BY Zenon, <1>5, <3>1, <5>2
      <4> QED
        BY Zenon, <4>1
    <3>2. CASE ~ (slots[m] <= slots[i])
      <4>1. \A j \in ((m - 1) + 1)..n : slots[j] <= slots[m]
        <5>1. TAKE j \in ((m - 1) + 1)..n
        <5>2. j = m \/ j \in (m + 1)..n
          BY <1>1, <2>2
        <5>3. slots[m] \in Nat /\ slots[i] \in Nat
          BY Zenon, <1>1, <2>2
        <5>4. CASE j = m
          BY <5>3, <5>4
        <5>5. CASE j \in (m + 1)..n
          <6>1. slots[j] <= slots[i] /\ slots[j] \in Nat
            BY <1>1, <1>5, <2>2, <5>5
          <6> QED
            BY <3>2, <5>3, <6>1
        <5> QED
          BY Zenon, <5>2, <5>4, <5>5
      <4> QED
        BY Zenon, <2>2, <4>1
    <3> QED
      BY Zenon, <3>1, <3>2
  <2>4. m - 1 \in T
    BY Zenon, <2>2, <2>3
  <2>5. m <= m - 1
    BY Zenon, <1>4, <2>4
  <2> QED
    BY <2>2, <2>5
<1>8. \A j \in DOMAIN slots : slots[j] <= slots[i]
  BY <1>1, <1>5, <1>7
<1> QED
  BY Zenon, <1>1, <1>8
=============================================================================
