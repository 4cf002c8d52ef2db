------------------------------ MODULE Mediator ------------------------------
(***************************************************************************)
(* The mediator's task of one payment, mediated_transfer/mediator.py, and  *)
(* the locks of the payment in the mediator's channels.                    *)
(*                                                                         *)
(* A mediator receives the payment over one channel, the payer, and        *)
(* forwards it over the first usable channel of Routes, the payee; a payee *)
(* may refund it, which makes it the payer of a second pair.  received[c]  *)
(* and sent[c] are the payment's lock in partner_state and in our_state of *)
(* channel c.  The whole task is one record, and every handler of the code *)
(* is an operator from the task to the task after it, in the code's order. *)
(*                                                                         *)
(* The partners are free in when they act: a payee reveals the secret or   *)
(* refunds at any time, a payer unlocks once it may know the secret, and   *)
(* tries to expire its lock at any time.  Other users of the channels      *)
(* decide how much capacity is left (funded).                              *)
(***************************************************************************)
EXTENDS PaymentChain, Sequences, FiniteSetsExt

CONSTANTS
    Payer,          \* the channel the payment arrives on
    Routes,         \* the channels of the next hops, in order of preference
    SettleTimeout   \* settle_timeout of each channel

ASSUME MediatorAssumption ==
    /\ Routes \in Seq(Channel)
    /\ Payer \in Channel
    /\ SettleTimeout \in [Channel -> Nat]

VARIABLE task   \* MediatorTransferState and the payment's locks

vars == <<head, block, registered, requested, closed, settled, task>>

None == "none"

(* waiting holds the waiting transfer, if there is one.  register says     *)
(* that a handler wants the secret registered.  failed: an assertion of    *)
(* sanity_check does not hold and the node has stopped.  reveals, unlocks  *)
(* and claimed are history: the channels a SecretReveal was sent to, an    *)
(* Unlock was sent to and an Unlock was received from.                     *)
NoTask ==
    [running |-> FALSE, failed |-> FALSE, secret |-> FALSE, pairs |-> << >>,
     waiting |-> {}, refunded |-> {},
     received |-> [c \in Channel |-> None], sent |-> [c \in Channel |-> None],
     reveals |-> {}, unlocks |-> {}, claimed |-> {}, register |-> FALSE]

Init == ChainInit /\ task = NoTask

STATE_SECRET_KNOWN ==
    {"payee_secret_revealed", "payee_contract_unlock", "payee_balance_proof",
     "payer_secret_revealed", "payer_waiting_unlock", "payer_balance_proof"}

STATE_TRANSFER_PAID ==
    {"payee_contract_unlock", "payee_balance_proof", "payer_balance_proof"}

STATE_TRANSFER_FINAL ==
    {"payee_contract_unlock", "payee_balance_proof", "payee_expired",
     "payer_balance_proof", "payer_expired"}

(* since is history: the block in which the payment was forwarded. *)
MediationPair(payer, payee, b) ==
    [payer |-> payer, payee |-> payee, since |-> b,
     payer_state |-> "payer_pending", payee_state |-> "payee_pending"]

IsPendingPair(p) ==
    \/ p.payee_state \notin STATE_TRANSFER_FINAL
    \/ p.payer_state \notin STATE_TRANSFER_FINAL

(* The task t with f applied to every pair that satisfies test. *)
UpdatePairs(t, test(_), f(_)) ==
    [t EXCEPT !.pairs = [i \in DOMAIN @ |-> IF test(@[i]) THEN f(@[i]) ELSE @[i]]]

Pairs(t) == {t.pairs[i] : i \in DOMAIN t.pairs}

PayerChannels(t, b) == {c \in {p.payer : p \in Pairs(t)} : Exists(c, b)}

-----------------------------------------------------------------------------
(* Starting the mediation. *)

(* funded are the channels with the capacity for the payment.              *)
is_channel_usable_for_mediation(c, b, funded) ==
    /\ IsOpened(c, b)
    /\ SettleTimeout[c] >= 2 * RevealTimeout
    /\ c \in funded
    /\ Expiration - b <= SettleTimeout[c]
    /\ Expiration - b > RevealTimeout

(* The positions of the routes that are not blacklisted and whose channel  *)
(* can be used.                                                            *)
UsableRoutes(t, b, funded) ==
    {i \in DOMAIN Routes :
        /\ Routes[i] \notin t.refunded
        /\ Exists(Routes[i], b)
        /\ is_channel_usable_for_mediation(Routes[i], b, funded)}

(* The first usable route is taken. *)
mediate_transfer(t, payer, b, funded) ==
    LET usable == UsableRoutes(t, b, funded)
        payee == Routes[Min(usable)]
    IN  IF usable = {}
        THEN [t EXCEPT !.waiting = {[payer |-> payer, state |-> "waiting"]}]
        ELSE [t EXCEPT !.pairs = Append(@, MediationPair(payer, payee, b)),
                       !.sent[payee] = "locked"]

-----------------------------------------------------------------------------
(* Learning the secret. *)

set_offchain_secret(t, b) ==
    LET touched == {p.payer : p \in Pairs(t)} \cup {p.payee : p \in Pairs(t)}
                        \cup {w.payer : w \in t.waiting}
        Learn(locks) == [c \in Channel |->
            IF c \in touched /\ Exists(c, b) THEN register_offchain_secret(locks[c])
            ELSE locks[c]]
    IN  [t EXCEPT !.secret = TRUE, !.received = Learn(@), !.sent = Learn(@)]

(* set_onchain_secret if it only looked at the locks received. *)
set_onchain_secret_ReceivedOnly(t, b) ==
    [t EXCEPT !.secret = TRUE, !.received = [c \in Channel |->
        IF Exists(c, b) THEN register_onchain_secret(@[c], b) ELSE @[c]]]

set_onchain_secret(t, b) ==
    LET touched == {p.payer : p \in Pairs(t)} \cup {p.payee : p \in Pairs(t)}
                        \cup {w.payer : w \in t.waiting}
        Learn(locks) == [c \in Channel |->
            IF c \in touched /\ Exists(c, b) THEN register_onchain_secret(locks[c], b)
            ELSE locks[c]]
    IN  [t EXCEPT !.secret = TRUE, !.received = Learn(@), !.sent = Learn(@)]

set_offchain_reveal_state(t, payee) ==
    UpdatePairs(t, LAMBDA p : p.payee = payee,
                   LAMBDA p : [p EXCEPT !.payee_state = "payee_secret_revealed"])

has_secret_registration_started(t, b) ==
    \/ \E c \in PayerChannels(t, b) : t.received[c] = "onchain"
    \/ \E p \in Pairs(t) : p.payer_state = "payer_waiting_secret_reveal"

(* The node waits for the registration on behalf of some of the pairs, and *)
(* sends it if one of them needs it.                                       *)
WaitForSecretReveal(t, b, waiting, needing) ==
    LET u == UpdatePairs(t, LAMBDA p : p \in waiting,
                LAMBDA p : [p EXCEPT !.payer_state = "payer_waiting_secret_reveal"])
    IN  [u EXCEPT !.register = @ \/ /\ ~has_secret_registration_started(t, b)
                                    /\ needing # {}]

events_for_onchain_secretreveal_if_closed(t, b) ==
    LET closing == {p \in Pairs(t) : IsPendingPair(p) /\ IsClosed(p.payer, b)}
    IN  WaitForSecretReveal(t, b, closing,
            {p \in closing : is_lock_pending(t.received[p.payer])})

events_for_secretreveal(t) ==
    LET ShouldSend(p) == /\ p.payee_state \in STATE_SECRET_KNOWN
                         /\ p.payer_state = "payer_pending"
    IN  [UpdatePairs(t, ShouldSend,
                     LAMBDA p : [p EXCEPT !.payer_state = "payer_secret_revealed"])
         EXCEPT !.reveals = @ \cup {p.payer : p \in {q \in Pairs(t) : ShouldSend(q)}}]

events_for_balanceproof(t, b) ==
    LET ShouldSend(p) == /\ Exists(p.payee, b) /\ IsOpened(p.payee, b)
                         /\ p.payee_state \in STATE_SECRET_KNOWN
                         /\ p.payee_state \notin STATE_TRANSFER_PAID
                         /\ Exists(p.payer, b)
                         /\ is_safe_to_wait(b)
        payees == {p.payee : p \in {q \in Pairs(t) : ShouldSend(q)}}
    IN  [UpdatePairs(t, ShouldSend,
                     LAMBDA p : [p EXCEPT !.payee_state = "payee_balance_proof"])
         EXCEPT !.unlocks = @ \cup payees,
                !.sent = [c \in Channel |-> IF c \in payees THEN None ELSE @[c]]]

secret_learned(t, payee, b) ==
    events_for_balanceproof(
        events_for_secretreveal(
            events_for_onchain_secretreveal_if_closed(
                set_offchain_reveal_state(set_offchain_secret(t, b), payee), b)), b)

-----------------------------------------------------------------------------
(* A new block. *)

events_to_remove_expired_locks(t, b) ==
    LET IsExpired(p) == /\ Exists(p.payee, b) /\ IsOpened(p.payee, b)
                        /\ t.sent[p.payee] \in {"locked", "unlocked"}
                        /\ b >= get_sender_expiration_threshold
        payees == {p.payee : p \in {q \in Pairs(t) : IsExpired(q)}}
    IN  [UpdatePairs(t, IsExpired, LAMBDA p : [p EXCEPT !.payee_state = "payee_expired"])
         EXCEPT !.sent = [c \in Channel |-> IF c \in payees THEN None ELSE @[c]]]

events_for_onchain_secretreveal_if_dangerzone(t, b) ==
    LET endangered == {p \in Pairs(t) : /\ IsPendingPair(p)
                                        /\ Exists(p.payer, b)
                                        /\ ~is_safe_to_wait(b)
                                        /\ is_secret_known(t.received[p.payer])}
    IN  WaitForSecretReveal(t, b, endangered, endangered)

(* is_transfer_expired looks the payer's lock up in our_state. *)
is_transfer_expired(t, payer, b) ==
    is_lock_expired(t.sent[payer], b, get_sender_expiration_threshold)

events_for_expired_pairs(t, b) ==
    LET u == UpdatePairs(t,
                LAMBDA p : /\ IsPendingPair(p)
                           /\ Exists(p.payer, b)
                           /\ is_transfer_expired(t, p.payer, b),
                LAMBDA p : [p EXCEPT !.payer_state = "payer_expired"])
    IN  [u EXCEPT !.waiting = {[w EXCEPT !.state =
            IF get_receiver_expiration_threshold <= b THEN "expired" ELSE @] : w \in @}]

(* A waiting transfer is tried again. *)
RetryMediation(t, b, funded) ==
    LET w == CHOOSE x \in t.waiting : TRUE
        u == mediate_transfer(t, w.payer, b, funded)
    IN  IF t.waiting # {} /\ Exists(w.payer, b)
        THEN [u EXCEPT !.waiting = IF u.pairs # t.pairs THEN {} ELSE @]
        ELSE t

handle_block(t, b, funded) ==
    events_for_expired_pairs(
        events_for_onchain_secretreveal_if_dangerzone(
            events_to_remove_expired_locks(RetryMediation(t, b, funded), b), b), b)

(* Whether the payee's state must already be known is left to              *)
(* events_for_balanceproof: the registration does not change it.           *)
handle_onchain_secretreveal(t) ==
    events_for_balanceproof(set_onchain_secret(t, registered), registered)

-----------------------------------------------------------------------------
(* clear_if_finalized if it did not look at the waiting transfer. *)
clear_if_finalized_IgnoresWaiting(t, b) ==
    LET IsPending(c, lock) == Exists(c, b) /\ is_lock_pending(lock)
    IN  [t EXCEPT !.running = @ /\ \E p \in Pairs(t) :
                                        \/ IsPending(p.payer, t.received[p.payer])
                                        \/ IsPending(p.payee, t.sent[p.payee])]

(* The task ends when none of its locks is pending any more. *)
clear_if_finalized(t, b) ==
    LET IsPending(c, lock) == Exists(c, b) /\ is_lock_pending(lock)
    IN  [t EXCEPT !.running = @ /\ \/ \E p \in Pairs(t) :
                                        \/ IsPending(p.payer, t.received[p.payer])
                                        \/ IsPending(p.payee, t.sent[p.payee])
                                   \/ \E w \in t.waiting :
                                        IsPending(w.payer, t.received[w.payer])]

(* Each payer after the first one is a payee that refunded. *)
sanity_check(t) ==
    /\ (\E p \in Pairs(t) : {p.payer_state, p.payee_state} \cap STATE_TRANSFER_PAID # {})
            => t.secret
    /\ \A i \in 1 .. Len(t.pairs) - 1 : t.pairs[i].payee = t.pairs[i + 1].payer

(* The handler left the task t; a registration it wants is sent. *)
Finish(t) ==
    /\ task' = IF sanity_check(t)
               THEN [clear_if_finalized(t, block') EXCEPT !.register = FALSE]
               ELSE [t EXCEPT !.failed = TRUE, !.running = FALSE]
    /\ Request(t.register)
    /\ UNCHANGED chain

-----------------------------------------------------------------------------
(* Actions.  handle_init: the payer's LockedTransfer, dropped when the     *)
(* secret is already registered.                                           *)
ReceiveLockedTransfer(funded) ==
    /\ task = NoTask
    /\ registered = 0
    /\ IsOpened(Payer, block)
    /\ block' = block
    /\ Finish(mediate_transfer([NoTask EXCEPT !.running = TRUE, !.received[Payer] = "locked"],
                               Payer, block, funded))

(* transfers_pair[-1] *)
LastPair == task.pairs[Len(task.pairs)]

(* The last payee sends the payment back. *)
ReceiveTransferRefund(funded) ==
    LET payee == LastPair.payee
    IN  /\ task.running /\ ~task.secret
        /\ task.pairs # << >>
        /\ IsOpened(payee, block)
        /\ payee \notin task.refunded
        /\ block' = block
        /\ Finish(mediate_transfer([task EXCEPT !.refunded = @ \cup {payee},
                                                !.received[payee] = "locked"],
                                   payee, block, funded))

(* A payee reveals the secret; the reveal is ignored once it is known.     *)
ReceiveSecretReveal(payee) ==
    LET payer == LastPair.payer
    IN  /\ task.running /\ ~task.secret
        /\ payee \in {p.payee : p \in Pairs(task)}
        /\ Exists(payer, block)
        /\ ~is_transfer_expired(task, payer, block)
        /\ block' = block
        /\ Finish(secret_learned(task, payee, block))

(* A payer that may know the secret unlocks. *)
ReceiveUnlock(payer) ==
    /\ task.running
    /\ payer \in {p.payer : p \in Pairs(task)}
    /\ is_valid_unlock(payer, task.received[payer], block)
    /\ \/ payer \in task.reveals
       \/ Happened(registered, head - Confirmations) /\ RegisteredInTime
    /\ block' = block
    /\ Finish(UpdatePairs([task EXCEPT !.received[payer] = None, !.claimed = @ \cup {payer}],
                          LAMBDA p : p.payer = payer,
                          LAMBDA p : [p EXCEPT !.payer_state = "payer_balance_proof"]))

(* A payer removes its expired lock.  The handler stops at the first pair  *)
(* whose payer channel is gone; every pair before it without a lock is     *)
(* taken for expired.                                                      *)
ReceiveLockExpired(payer) ==
    LET pairs == task.pairs
        gone == {i \in DOMAIN pairs : ~Exists(pairs[i].payer, block)}
        reached == {i \in DOMAIN pairs : \A j \in gone : i < j}
        t == [task EXCEPT !.received[payer] = None]
    IN  /\ task.running
        /\ \/ \E i \in reached : pairs[i].payer = payer
           \/ gone = {} /\ \E w \in task.waiting : w.payer = payer
        /\ is_valid_lock_expired(payer, task.received[payer], task.sent[payer], block)
        /\ block' = block
        /\ Finish([t EXCEPT !.pairs = [i \in DOMAIN pairs |->
                IF i \in reached /\ ~is_lock_pending(t.received[pairs[i].payer])
                THEN [pairs[i] EXCEPT !.payer_state = "payer_expired"]
                ELSE pairs[i]]])

(* The node processes the blocks up to b: the registration of the secret   *)
(* if it is among them, then the block.                                    *)
Synchronize(b, funded) ==
    LET t == IF Happened(registered, b) /\ registered > block
             THEN clear_if_finalized(handle_onchain_secretreveal(task), registered)
             ELSE task
    IN  /\ b <= head - Confirmations
        /\ ~task.failed
        /\ block' = b
        /\ IF ~task.running THEN Finish(task)
           ELSE IF ~t.running THEN Finish(t)
           ELSE Finish(handle_block(t, b, funded))

Next ==
    \/ \E register \in BOOLEAN, closing, settling \in SUBSET Channel :
            MineBlock(register, closing, settling) /\ UNCHANGED task
    \/ \E funded \in SUBSET {Routes[i] : i \in DOMAIN Routes} :
            \/ ReceiveLockedTransfer(funded)
            \/ ReceiveTransferRefund(funded)
            \/ \E b \in block + 1 .. head : Synchronize(b, funded)
    \/ \E c \in Channel :
            \/ ReceiveSecretReveal(c)
            \/ ReceiveUnlock(c)
            \/ ReceiveLockExpired(c)

Spec == Init /\ [][Next]_vars

-----------------------------------------------------------------------------
(* Properties. *)

PairState ==
    [payer : Channel, payee : Channel, since : Nat,
     payer_state : {"payer_pending", "payer_secret_revealed", "payer_waiting_unlock",
                    "payer_waiting_secret_reveal", "payer_balance_proof", "payer_expired"},
     payee_state : {"payee_pending", "payee_secret_revealed", "payee_contract_unlock",
                    "payee_balance_proof", "payee_expired"}]

(* The task has the states mediated_transfer/state.py declares, and every  *)
(* lock is in at most one dictionary.                                      *)
TypeOK ==
    /\ ChainTypeOK
    /\ {task.running, task.failed, task.secret, task.register} \subseteq BOOLEAN
    /\ task.pairs \in Seq(PairState)
    /\ task.waiting \subseteq [payer : Channel, state : {"waiting", "expired"}]
    /\ task.received \in [Channel -> Lock] /\ task.sent \in [Channel -> Lock]
    /\ UNION {task.refunded, task.reveals, task.unlocks, task.claimed} \subseteq Channel

(* The payee of p got the payment, or can take it from the chain. *)
PayeePaid(p) ==
    \/ p.payee \in task.unlocks
    \/ is_lock_pending(task.sent[p.payee]) /\ RegisteredInTime

(* The mediator got the payment from the payer of p, or can take it from   *)
(* the chain.                                                              *)
PayerPays(p) ==
    \/ p.payer \in task.claimed
    \/ is_lock_pending(task.received[p.payer]) /\ RegisteredInTime

(* "If the payee has been paid, then the payer must pay too": once the     *)
(* locks have expired, no order of reveals, unlocks, expirations, refunds  *)
(* and closings leaves the mediator having paid without being paid.  It    *)
(* rests on events_for_balanceproof's is_safe_to_wait and on the           *)
(* registration that if_dangerzone sends RevealTimeout before the end.     *)
PayeePaidPayerPays ==
    head > Expiration => \A p \in Pairs(task) : PayeePaid(p) => PayerPays(p)

(* A lock is removed as expired only if nobody can claim it any more: the  *)
(* mediator, whose view of the chain is old, never sends LockExpired for a *)
(* secret that was registered in time after the payment was forwarded,     *)
(* which the payee would reject and the channel would be stuck.            *)
ExpiredPayeeCannotClaim ==
    \A p \in Pairs(task) :
        p.payee_state = "payee_expired" /\ p.since < registered => ~RegisteredInTime

(* clear_if_finalized: a task never ends while a channel of the payment    *)
(* that still exists has one of its locks, because no task would be left   *)
(* to unlock or expire it.                                                 *)
NoOrphanedLock ==
    task # NoTask /\ ~task.running /\ ~task.failed =>
        \A c \in Channel :
            Exists(c, block) => {task.received[c], task.sent[c]} = {None}

(* is_lock_expired says of a lock it calls expired that "The secret was    *)
(* not registered on-chain in time".  A waiting transfer is forwarded by   *)
(* handle_block whether or not the registration was processed before, and  *)
(* the new lock never learns of it.                                        *)
ExpiredLockNotRegistered ==
    \A p \in Pairs(task) : p.payee_state = "payee_expired" => ~RegisteredInTime

(* sanity_check: "if a transfer is paid we must know the secret". *)
PaidMeansSecretKnown == ~task.failed
=============================================================================
