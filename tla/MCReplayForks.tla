--------------------------- MODULE MCReplayForks ---------------------------
(***************************************************************************)
(* Instances of ReplayForks.  Slot 1 has two versions.  In the first       *)
(* instance slots 2 and 3 stand as siblings on its first version and slot  *)
(* 4 on slot 3, so that votes move along a fork and weigh one sibling      *)
(* against the other.  In the second a version of slot 2 stands on each    *)
(* version of slot 1, so that a voter can be seen to vote for both.        *)
(***************************************************************************)
EXTENDS ReplayForks

CONSTANTS v1, v2

MCGenesis == <<0, 1>>
MCBlocks == {<<0, 1>>, <<1, 1>>, <<1, 2>>, <<2, 1>>, <<3, 1>>, <<4, 1>>}
MCParentOf == [k \in MCBlocks \ {MCGenesis} |->
                 CASE SlotOf(k) = 1 -> <<0, 1>>
                   [] SlotOf(k) \in {2, 3} -> <<1, 1>>
                   [] SlotOf(k) = 4 -> <<3, 1>>]

\* The chains the cluster may confirm: one on either version of slot 1.
MCChains == {{<<1, 1>>, <<3, 1>>}, {<<1, 2>>}}

TwinBlocks == {<<0, 1>>, <<1, 1>>, <<1, 2>>, <<2, 1>>, <<2, 2>>}
TwinParentOf == [k \in TwinBlocks \ {MCGenesis} |->
                   IF SlotOf(k) = 1 THEN <<0, 1>> ELSE <<1, HashOf(k)>>]
TwinChains == {{<<1, 1>>, <<2, 1>>}, {<<1, 2>>, <<2, 2>>}}

MCStake == [v \in Voters |-> IF v = v1 THEN 1 ELSE 2]
=============================================================================
