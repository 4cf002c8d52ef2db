-------------------------- MODULE MCNettingChannel --------------------------
(* Small instances of NettingChannel for TLC: the bounds of a behaviour are  *)
(* those of a scenario chosen in the initial state.                          *)
EXTENDS NettingChannel, TLC

CONSTANTS h1, h2        \* secrethashes

MCPaymentExpiration == h1 :> 3 @@ h2 :> 4

MCInitialDeposit == Alice :> 2 @@ Bob :> 1

Bounds(alice, bob, blocks, secrets, amounts, deposits) ==
    [messages |-> Alice :> alice @@ Bob :> bob, blocks |-> blocks, secrets |-> secrets,
     amounts |-> amounts, deposits |-> deposits]

(* Both pay at once, with deposits. *)
Crossing == Bounds(2, 2, 4, {h1, h2}, {1, 2}, TRUE)

(* Two locks of one node expire. *)
Expiring == Bounds(4, 0, 7, {h1, h2}, {1}, FALSE)

(* One node is paid back before its own lock expires. *)
Delivery == Bounds(3, 1, 7, {h1}, {1}, FALSE)

VARIABLE scenario       \* the bounds of this behaviour

Bounded ==
    /\ head' <= scenario.blocks
    /\ ~scenario.deposits => \A n \in Node : total_deposit'[n][head'] = InitialDeposit[n]
    /\ \A h \in SecretHash \ scenario.secrets : registered'[h] = 0
    /\ \A n \in Node :
        /\ Len(sent'[n]) <= scenario.messages[n]
        /\ \A lock \in Locks(our'[n]) :
            lock.amount \in scenario.amounts /\ lock.secrethash \in scenario.secrets

MCNext == Next /\ Bounded /\ UNCHANGED scenario

MCVars == <<vars, scenario>>

MCInit == Init /\ scenario \in {Crossing, Expiring}

MCSpec == MCInit /\ [][MCNext]_MCVars

DeliveryInit == Init /\ scenario = Delivery

MCFairSpec == DeliveryInit /\ [][MCNext]_MCVars /\ Fairness
=============================================================================
