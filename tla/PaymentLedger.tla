---------------------------- MODULE PaymentLedger ----------------------------
(***************************************************************************)
(* What a payment channel promises, with no messages, no delay and one     *)
(* copy of the state: each of two participants owns its deposit plus what  *)
(* it was paid minus what it paid, and may put under lock no more than it  *)
(* owns.  A locked amount ends up either paid or returned, never both.     *)
(***************************************************************************)
EXTENDS Integers

CONSTANTS Alice, Bob

VARIABLES
    deposit,      \* tokens each participant has put in the channel
    transferred,  \* tokens each participant has paid to the other
    locked        \* tokens each participant has under lock

ledger == <<deposit, transferred, locked>>

Participant == {Alice, Bob}

Counterparty(n) == IF n = Alice THEN Bob ELSE Alice

Spendable(n) == deposit[n] - transferred[n] + transferred[Counterparty(n)] - locked[n]

LInit ==
    /\ deposit \in [Participant -> Nat]
    /\ transferred = [n \in Participant |-> 0]
    /\ locked = [n \in Participant |-> 0]

Deposit(n) ==
    /\ deposit'[n] \in Nat
    /\ deposit'[n] >= deposit[n]
    /\ deposit' = [deposit EXCEPT ![n] = deposit'[n]]
    /\ UNCHANGED <<transferred, locked>>

Lock(n) ==
    \E a \in 1..Spendable(n) :
        /\ locked' = [locked EXCEPT ![n] = @ + a]
        /\ UNCHANGED <<deposit, transferred>>

Pay(n) ==
    \E a \in 1..locked[n] :
        /\ locked' = [locked EXCEPT ![n] = @ - a]
        /\ transferred' = [transferred EXCEPT ![n] = @ + a]
        /\ UNCHANGED deposit

Return(n) ==
    \E a \in 1..locked[n] :
        /\ locked' = [locked EXCEPT ![n] = @ - a]
        /\ UNCHANGED <<deposit, transferred>>

LNext == \E n \in Participant : Deposit(n) \/ Lock(n) \/ Pay(n) \/ Return(n)

LSpec == LInit /\ [][LNext]_ledger

(* No participant ever spends more than it owns, and no lock is ever paid  *)
(* out or returned twice: what the balance checks of channel.py are for.   *)
Solvent ==
    \A n \in Participant : Spendable(n) >= 0 /\ locked[n] >= 0
=============================================================================
