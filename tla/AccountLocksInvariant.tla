----------------------- MODULE AccountLocksInvariant ------------------------
(***************************************************************************)
(* The inductive invariant of the account locks.                           *)
(***************************************************************************)
EXTENDS AccountLocks

Results == {"Ok", "AccountInUse", "CostLimit", "Fatal"}

\* What a thread with a batch looks like.
BatchType(t) ==
    /\ bank[t] \in Banks
    /\ batch[t] \in Seq(Txs)
    /\ lock_results[t] \in [1..Len(batch[t]) -> Results]
    /\ pos[t] \in 1..Len(batch[t])
    /\ pc[t] = "locked" => pos[t] = 1

LocksType ==
    /\ pc \in [Threads -> {"idle", "locking", "locked", "unlocking"}]
    /\ bank \in [Threads -> Banks \cup {NoBank}]
    /\ batch \in [Threads -> Seq(Txs)]
    /\ lock_results \in [Threads -> Seq(Results)]
    /\ pos \in [Threads -> Nat]
    /\ \A t \in Threads : pc[t] # "idle" => BatchType(t)
    /\ write_locks \in [Banks -> SUBSET Accounts]
    /\ readonly_locks \in [Banks -> [Accounts -> Nat]]
    /\ mutex \in [Banks -> Threads \cup {NoThread}]

HoldersFinite == \A b \in Banks : IsFiniteSet(Holders(b))

\* The two properties need each other: the table tells lock_account of every
\* conflict only if it is exact, and unlocking one transaction leaves the table
\* exact only if no other one holds the same accounts.
LocksInv ==
    /\ LocksType
    /\ HoldersFinite
    /\ LockTableMatchesHolders
    /\ HoldersNeverConflict
=============================================================================
