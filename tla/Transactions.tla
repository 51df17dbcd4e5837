---------------------------- MODULE Transactions ----------------------------
(***************************************************************************)
(* What a transaction reads, writes and leaves in the accounts, as far as  *)
(* the order of transactions can be told from it.  An account holds its    *)
(* initial value, a durable nonce, or a term that names the transaction    *)
(* which wrote it and everything that transaction read.  Two executions    *)
(* leave equal accounts exactly when every transaction saw the same.       *)
(***************************************************************************)
EXTENDS Integers, FiniteSets, Sequences

CONSTANTS Txs,           \* transactions
          Accounts,      \* accounts
          Writable,      \* [Txs -> SUBSET Accounts]
          Readonly,      \* [Txs -> SUBSET Accounts]
          FeePayer,      \* [Txs -> Accounts], the first writable key
          NonceAccount,  \* the durable nonce account
          NonceOf,       \* [Txs -> durable nonce it was signed with, or NoNonce]
          Fails          \* transactions whose instructions fail

NoNonce == -2        \* Option::None
OldBlockhash == -1   \* a blockhash of before Genesis

ASSUME TxsAssumption ==
    /\ Writable \in [Txs -> SUBSET Accounts]
    /\ Readonly \in [Txs -> SUBSET Accounts]
    /\ NonceOf \in [Txs -> Int]
    /\ Fails \subseteq Txs
    /\ \A x \in Txs : /\ Writable[x] \cap Readonly[x] = {}
                      /\ FeePayer[x] \in Writable[x]
                      /\ NonceOf[x] # NoNonce => NonceAccount \in Writable[x]

InitValue(a) == <<"init", a, 0>>

\* DurableNonce::from_blockhash
Nonce(blockhash) == <<"nonce", blockhash>>

Conflict(x, y) == \/ Writable[x] \cap (Writable[y] \cup Readonly[y]) # {}
                  \/ Writable[y] \cap Readonly[x] # {}

\* check_age: a transaction with a recent blockhash is young enough; a nonce
\* transaction must name the stored nonce, which the bank can advance.
check_age(x, accounts, last_blockhash) ==
    \/ NonceOf[x] = NoNonce
    \/ /\ NonceOf[x] # last_blockhash
       /\ accounts[NonceAccount] = Nonce(NonceOf[x])

\* The accounts collect_accounts_to_store and the fee withdrawal write.
StoredKeys(x) ==
    IF x \notin Fails THEN Writable[x]
    ELSE {FeePayer[x]} \cup (IF NonceOf[x] = NoNonce THEN {} ELSE {NonceAccount})

\* What x leaves in its StoredKeys when it ran on accounts.  A successful
\* nonce transaction advances the nonce itself, with the blockhash of its
\* execution; a failing one is rolled back and its nonce advanced by
\* prepare_if_nonce_account, with the blockhash of its commit.
Stored(x, accounts, executed_at, committed_at) ==
    [a \in StoredKeys(x) |->
        CASE NonceOf[x] # NoNonce /\ a = NonceAccount
                 -> Nonce(IF x \in Fails THEN committed_at ELSE executed_at)
          [] x \in Fails /\ ~ (NonceOf[x] # NoNonce /\ a = NonceAccount)
                 -> <<"fee", x, accounts[a]>>
          [] OTHER
                 -> <<"out", x, a, [r \in Writable[x] \cup Readonly[x] |-> accounts[r]]>>]

-----------------------------------------------------------------------------
(* A block: entries, each a set of transactions that do not conflict.      *)

GenesisAccounts == [a \in Accounts |-> IF a = NonceAccount THEN Nonce(OldBlockhash)
                                       ELSE InitValue(a)]

NotCreated == -1     \* the parent of a bank that does not exist yet

\* One entry replayed on accounts.
ReplayEntry(entry, accounts, blockhash) ==
    [a \in Accounts |->
        LET writers == {x \in entry : a \in StoredKeys(x)}
        IN  IF writers = {} THEN accounts[a]
            ELSE Stored(CHOOSE x \in writers : TRUE, accounts, blockhash, blockhash)[a]]

ReplayBlock(entries, accounts, blockhash) ==
    LET after[n \in 0..Len(entries)] ==
            IF n = 0 THEN accounts ELSE ReplayEntry(entries[n], after[n - 1], blockhash)
    IN  after[Len(entries)]
=============================================================================
