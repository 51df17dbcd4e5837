---------------------------- MODULE LeaderSerial ----------------------------
(***************************************************************************)
(* The leader's pipeline implements the serial replay of its blocks: the   *)
(* refinement mapping from LeaderBlock to SerialBlock.                     *)
(***************************************************************************)
EXTENDS LeaderBlock

\* A frozen bank holds what the replay of its block gives, and the block is one
\* that replay accepts, entry by entry, as it grows (SerialBlock).
Serial ==
    INSTANCE SerialBlock WITH
        state <- [b \in AllBanks |->
                     IF Created(b) THEN ReplayBlock(block[b], accounts[parent[b]], parent[b])
                                   ELSE GenesisAccounts],
        final <- [b \in AllBanks |-> IF b \in frozen THEN accounts[b] ELSE << >>]

ImplementsSerialBlock == Serial!Spec
=============================================================================
