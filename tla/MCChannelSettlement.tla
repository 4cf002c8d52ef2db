------------------------ MODULE MCChannelSettlement ------------------------
(***************************************************************************)
(* Instances of ChannelSettlement for TLC.                                 *)
(***************************************************************************)
EXTENDS ChannelSettlement, TLC

CONSTANTS A, B, x, y

\* proof 1 carries two locks, proof 2 the unlock of one of them
MCTransferred == 0 :> 0 @@ 1 :> 0 @@ 2 :> 1
MCPending == 0 :> {} @@ 1 :> {x, y} @@ 2 :> {y}
MCRegistered == {<<A, x>>, <<B, x>>}

\* the operations of one behaviour
MCScenarios ==
  {[ops |-> {"closeChannel"}, proofs |-> 1, horizon |-> 6],
   [ops |-> {"closeChannel"}, proofs |-> 2, horizon |-> 4],
   [ops |-> {"closeChannel", "stop"}, proofs |-> 0, horizon |-> 5],
   [ops |-> {"closeChannel", "monitor"}, proofs |-> 1, horizon |-> 4],
   [ops |-> {"closeChannel", "setTotalDeposit", "deprecate"}, proofs |-> 0, horizon |-> 3],
   [ops |-> {"closeChannel", "setTotalWithdraw"}, proofs |-> 0, horizon |-> 3],
   [ops |-> {"closeChannel", "cooperativeSettle"}, proofs |-> 0, horizon |-> 3],
   [ops |-> {"cooperativeSettle", "stop"}, proofs |-> 0, horizon |-> 2],
   [ops |-> {"openChannel", "setTotalDeposit"}, proofs |-> 0, horizon |-> 3]}

Swap == Permutations({A, B})
=============================================================================
