--------------------------- MODULE MCLeaderBlock ----------------------------
(***************************************************************************)
(* Two banking threads and two leader slots.                               *)
(*                                                                         *)
(* The first instance: pay writes the account shared, which spend reads,   *)
(* spend and advance have one fee payer, pay is in both buffers, and       *)
(* advance is a nonce transaction whose instructions fail.                 *)
(*                                                                         *)
(* The second, small enough for liveness and refinement: pay reads the fee *)
(* payer of advance.                                                       *)
(***************************************************************************)
EXTENDS LeaderSerial, TLC

CONSTANTS pay, spend, advance, p1, p2, shared, nonce, t1, t2

MCTxs == {pay, spend, advance}
MCAccounts == {p1, p2, shared, nonce}
MCWritable == pay :> {p1, shared} @@ spend :> {p2} @@ advance :> {p2, nonce}
MCReadonly == pay :> {} @@ spend :> {shared} @@ advance :> {}
MCFeePayer == pay :> p1 @@ spend :> p2 @@ advance :> p2
MCNonceOf == pay :> NoNonce @@ spend :> NoNonce @@ advance :> OldBlockhash
MCBuffers == t1 :> {pay, advance} @@ t2 :> {pay, spend}
MCBatches == {<<tx>> : tx \in MCTxs} \cup {<<pay, advance>>, <<pay, spend>>}

SmallTxs == {pay, advance}
SmallAccounts == {p1, p2, nonce}
SmallWritable == pay :> {p1} @@ advance :> {p2, nonce}
SmallReadonly == pay :> {p2} @@ advance :> {}
SmallFeePayer == pay :> p1 @@ advance :> p2
SmallNonceOf == pay :> NoNonce @@ advance :> OldBlockhash
SmallBuffers == t1 :> {pay, advance} @@ t2 :> {pay}
SmallBatches == {<<pay>>, <<advance>>, <<pay, advance>>}
=============================================================================
