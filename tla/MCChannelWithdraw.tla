-------------------------- MODULE MCChannelWithdraw --------------------------
(* Small instances of ChannelWithdraw for TLC: the bounds of a behaviour are *)
(* those of a scenario chosen in the initial state.                          *)
EXTENDS ChannelWithdraw, TLC

CONSTANT h1            \* a secrethash

MCOneExpiration == h1 :> 4

MCTwoAndOne == Alice :> 2 @@ Bob :> 1

Bounds(alice, bob, blocks, transfers, deposits, totals) ==
    [messages |-> Alice :> alice @@ Bob :> bob, blocks |-> blocks,
     transfers |-> transfers, deposits |-> deposits, totals |-> totals]

(* Withdraws alone, long enough for them to expire. *)
Withdrawing == Bounds(3, 3, 7, FALSE, FALSE, {1, 2})

(* Withdraws among transfers and deposits. *)
Mixed == Bounds(3, 2, 4, TRUE, TRUE, {1, 3})

(* The same without deposits and with time for an unlock. *)
Unlocking == Bounds(3, 3, 6, TRUE, FALSE, {1, 2})

VARIABLE scenario      \* the bounds of this behaviour

Bounded ==
    /\ head' <= scenario.blocks
    /\ \A n \in Node :
        /\ Len(sent'[n]) <= scenario.messages[n]
        /\ \A m \in Range(sent'[n]) :
            m.type = "WithdrawRequest" /\ ~m.coop => m.total \in scenario.totals
        /\ ~scenario.deposits => total_deposit'[n][head'] = InitialDeposit[n]
        /\ ~scenario.transfers => Locks(our'[n]) = {}
    /\ ~scenario.transfers => \A h \in SecretHash : registered'[h] = 0

MCNext == WNext /\ Bounded /\ UNCHANGED scenario

MCVars == <<allvars, scenario>>

MCInit == WInit /\ scenario \in {Withdrawing, Mixed}

MCSpec == MCInit /\ [][MCNext]_MCVars

MCUnlockingInit == WInit /\ scenario = Unlocking

MCUnlockingSpec == MCUnlockingInit /\ [][MCNext]_MCVars
=============================================================================
