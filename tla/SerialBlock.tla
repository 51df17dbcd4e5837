---------------------------- MODULE SerialBlock -----------------------------
(***************************************************************************)
(* What producing a block promises: a block is a sequence of entries, each *)
(* a set of transactions, that anybody can replay one transaction after    *)
(* the other and end with the accounts of the frozen bank.                 *)
(*                                                                         *)
(* It is what the replay of a block checks of it (a transaction that was   *)
(* processed on this fork before, or whose nonce is not the stored one,    *)
(* or two conflicting transactions in an entry make the block dead:        *)
(* process_entries_with_callback and execute_batch of                      *)
(* ledger/src/blockstore_processor.rs), and what the bank hash compares.   *)
(***************************************************************************)
EXTENDS Transactions

CONSTANTS Banks,       \* banks to produce; Genesis is the bank they start from
          Genesis

VARIABLES parent,      \* per bank: the bank it was created on, or NotCreated
          ancestors,   \* per bank: its ancestors and itself
          block,       \* per bank: the entries so far
          state,       \* per bank: the accounts after replaying the entries
          final        \* per bank: the accounts of the frozen bank, or NotFrozen

serialVars == <<parent, ancestors, block, state, final>>

NotFrozen == << >>

Processed(b) == UNION UNION {{block[s][i] : i \in DOMAIN block[s]} : s \in ancestors[b]}

Init ==
    /\ parent = [b \in Banks \cup {Genesis} |-> NotCreated]
    /\ ancestors = [b \in Banks \cup {Genesis} |-> {b}]
    /\ block = [b \in Banks \cup {Genesis} |-> << >>]
    /\ state = [b \in Banks \cup {Genesis} |-> GenesisAccounts]
    /\ final = [b \in Banks \cup {Genesis} |->
                   IF b = Genesis THEN GenesisAccounts ELSE NotFrozen]

Create(b, p) ==
    /\ parent[b] = NotCreated
    /\ final[p] # NotFrozen
    /\ parent' = [parent EXCEPT ![b] = p]
    /\ ancestors' = [ancestors EXCEPT ![b] = ancestors[p] \cup {b}]
    /\ state' = [state EXCEPT ![b] = final[p]]
    /\ UNCHANGED <<block, final>>

AppendEntry(b, entry) ==
    /\ parent[b] # NotCreated
    /\ final[b] = NotFrozen
    /\ entry # {}
    /\ \A x \in entry : /\ x \notin Processed(b)
                        /\ check_age(x, state[b], parent[b])
                        /\ \A y \in entry \ {x} : ~ Conflict(x, y)
    /\ block' = [block EXCEPT ![b] = Append(@, entry)]
    /\ state' = [state EXCEPT ![b] = ReplayEntry(entry, @, parent[b])]
    /\ UNCHANGED <<parent, ancestors, final>>

\* The frozen accounts are the replayed ones, but for one thing the leader does
\* not promise: the nonce of a failing nonce transaction is advanced with the
\* blockhash that is last when the transaction commits, which is the bank's own
\* when the last tick came in between.
Close(b) ==
    LET late == {a \in {NonceAccount} :
                    \E i \in DOMAIN block[b] : \E x \in block[b][i] \cap Fails : NonceOf[x] # NoNonce}
    IN  /\ parent[b] # NotCreated
        /\ final[b] = NotFrozen
        /\ \E own \in SUBSET late :
              final' = [final EXCEPT ![b] =
                           [a \in Accounts |-> IF a \in own THEN Nonce(b) ELSE state[b][a]]]
        /\ UNCHANGED <<parent, ancestors, block, state>>

Next == \E b \in Banks : \/ \E p \in Banks \cup {Genesis} : Create(b, p)
                         \/ \E entry \in SUBSET Txs : AppendEntry(b, entry)
                         \/ Close(b)

Spec == Init /\ [][Next]_serialVars
=============================================================================
