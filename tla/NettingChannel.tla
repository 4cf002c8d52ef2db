--------------------------- MODULE NettingChannel ---------------------------
(***************************************************************************)
(* One open payment channel between two Raiden nodes: the transfers that   *)
(* raiden/transfer/channel.py sends and receives over it, each node's copy *)
(* of both ends, and each node's delayed view of the blockchain.           *)
(*                                                                         *)
(* our[n] and partner[n] are channel_state.our_state and                   *)
(* channel_state.partner_state of node n.  sent[n] is every message with a *)
(* balance proof that n ever sent, the message of nonce i at position i.   *)
(* The transport resends a message until it is acknowledged, so a node may *)
(* at any time receive any message its partner ever sent: delay, loss,     *)
(* duplication and reordering are all choices of the message received.     *)
(*                                                                         *)
(* The chain is its number of blocks (head), the block each secret was     *)
(* registered in (0 when it was not) and, block by block, the total        *)
(* deposits.  A node processes confirmed blocks only, in batches of any    *)
(* size, and at its own pace.                                              *)
(***************************************************************************)
EXTENDS ChannelState

CONSTANTS
    Alice, Bob,       \* the participants of the channel
    InitialDeposit,   \* what each has deposited when the model starts
    DepositAmount     \* amounts that may be deposited later

Node == {Alice, Bob}

Other(n) == IF n = Alice THEN Bob ELSE Alice

ASSUME NettingChannelAssumption ==
    /\ Alice # Bob
    /\ InitialDeposit \in [Node -> Nat]
    /\ DepositAmount \subseteq Nat

VARIABLES
    head,           \* number of blocks of the chain
    registered,     \* block in which each secret was registered, or 0
    total_deposit,  \* total_deposit[n][b]: deposit of n as of block b
    block,          \* chain_state.block_number of each node
    our,            \* channel_state.our_state of each node
    partner,        \* channel_state.partner_state of each node
    sent            \* messages each node has sent

chain == <<head, registered, total_deposit>>

vars == <<head, registered, total_deposit, block, our, partner, sent>>

Init ==
    /\ head = 1 + Confirmations
    /\ registered = [h \in SecretHash |-> 0]
    /\ total_deposit = [n \in Node |-> [b \in 1 .. 1 + Confirmations |-> InitialDeposit[n]]]
    /\ block = [n \in Node |-> 1]
    /\ our = [n \in Node |-> EmptyEndState(InitialDeposit[n])]
    /\ partner = [n \in Node |-> EmptyEndState(InitialDeposit[Other(n)])]
    /\ sent = [n \in Node |-> << >>]

-----------------------------------------------------------------------------
(* The chain: a new block is empty, registers a secret or adds a deposit. *)

MineEmptyBlock ==
    /\ head' = head + 1
    /\ total_deposit' = [n \in Node |-> Append(total_deposit[n], total_deposit[n][head])]
    /\ UNCHANGED <<registered, block, our, partner, sent>>

MineSecretReveal(h) ==
    /\ registered[h] = 0
    /\ head' = head + 1
    /\ registered' = [registered EXCEPT ![h] = head + 1]
    /\ total_deposit' = [n \in Node |-> Append(total_deposit[n], total_deposit[n][head])]
    /\ UNCHANGED <<block, our, partner, sent>>

MineDeposit(m, amount) ==
    /\ head' = head + 1
    /\ total_deposit' = [n \in Node |->
            Append(total_deposit[n],
                   total_deposit[n][head] + IF n = m THEN amount ELSE 0)]
    /\ UNCHANGED <<registered, block, our, partner, sent>>

-----------------------------------------------------------------------------
(* A node processes the confirmed blocks up to b: the events of all of     *)
(* them, then the Block state change, in one transaction.                  *)

NewlyRegistered(n, b) == {h \in SecretHash : registered[h] \in block[n] + 1 .. b}

ContractEvents(e, deposit, hashes) ==
    register_onchain_secret_endstate(update_contract_balance(e, deposit), hashes, registered)

Synchronize(n, b) ==
    /\ block[n] < b
    /\ b <= head - Confirmations
    /\ block' = [block EXCEPT ![n] = b]
    /\ our' = [our EXCEPT ![n] =
            ContractEvents(@, total_deposit[n][b], NewlyRegistered(n, b))]
    /\ partner' = [partner EXCEPT ![n] =
            ContractEvents(@, total_deposit[Other(n)][b], NewlyRegistered(n, b))]
    /\ UNCHANGED <<head, registered, total_deposit, sent>>

(* The node learns the secret of h from a message. *)
RegisterOffchainSecret(n, h) ==
    /\ our' = [our EXCEPT ![n] = register_secret_endstate(@, h)]
    /\ partner' = [partner EXCEPT ![n] = register_secret_endstate(@, h)]
    /\ UNCHANGED <<head, registered, total_deposit, block, sent>>

-----------------------------------------------------------------------------
(* Sending. *)

(* The bounds of an initiator and of a mediator together: a mediator gives *)
(* what is left of the expiration, an initiator the lock timeout, which is *)
(* one block more (get_safe_initial_expiration).                           *)
lock_timeout_valid(n, lock) ==
    /\ lock.expiration + 1 - block[n] > RevealTimeout
    /\ lock.expiration - block[n] <= SettleTimeout

(* Faulty: the balance is not looked at.                                   *)
is_channel_usable_for_new_transfer_NoBalanceCheck(n, lock) ==
    /\ SettleTimeout >= 2 * RevealTimeout
    /\ Len(our[n].pending_locks) < MAXIMUM_PENDING_TRANSFERS
    /\ is_valid_amount(our[n], lock.amount)
    /\ lock_timeout_valid(n, lock)

is_channel_usable_for_new_transfer(n, lock) ==
    /\ SettleTimeout >= 2 * RevealTimeout
    /\ Len(our[n].pending_locks) < MAXIMUM_PENDING_TRANSFERS
    /\ lock.amount <= get_distributable(our[n], partner[n])
    /\ is_valid_amount(our[n], lock.amount)
    /\ lock_timeout_valid(n, lock)

(* What the payment tasks guarantee: a channel has at most one pending     *)
(* lock of a payment.  Its secret may be registered already, and the node  *)
(* may know it: a mediator forwards a waiting transfer whenever a route is *)
(* free again.                                                             *)
IsNewPayment(n, h) == ~is_lock_pending(our[n], h)

SendLockedTransfer(n, lock) ==
    LET m == create_sendlockedtransfer(our[n], lock)
    IN  /\ IsNewPayment(n, lock.secrethash)
        /\ is_channel_usable_for_new_transfer(n, lock)
        /\ our' = [our EXCEPT ![n] = AddLock(@, m)]
        /\ sent' = [sent EXCEPT ![n] = Append(@, m)]
        /\ UNCHANGED <<head, registered, total_deposit, block, partner>>

SendUnlock(n, lock) ==
    LET m == create_unlock(our[n], lock)
    IN  /\ lock \in Locks(our[n])
        /\ ~is_lock_expired(our[n], lock, block[n], lock.expiration)
        /\ our' = [our EXCEPT ![n] = ClaimLock(@, m, lock)]
        /\ sent' = [sent EXCEPT ![n] = Append(@, m)]
        /\ UNCHANGED <<head, registered, total_deposit, block, partner>>

SendLockExpired(n, lock) ==
    LET m == create_sendexpiredlock(our[n], lock)
    IN  /\ lock \in our[n].locked \cup our[n].unlocked
        /\ is_lock_expired(our[n], lock, block[n],
                           get_sender_expiration_threshold(lock.expiration))
        /\ our' = [our EXCEPT ![n] = RemoveExpiredLock(@, m, lock)]
        /\ sent' = [sent EXCEPT ![n] = Append(@, m)]
        /\ UNCHANGED <<head, registered, total_deposit, block, partner>>

-----------------------------------------------------------------------------
(* Receiving.  An invalid message leaves the channel unchanged. *)

AcceptsLockedTransfer(n, m) ==
    /\ m.type = "LockedTransfer"
    /\ registered[m.lock.secrethash] = 0
    /\ is_valid_lockedtransfer(m, partner[n], our[n])

AcceptsUnlock(n, m, lock) ==
    /\ m.type = "Unlock"
    /\ lock.secrethash = m.secrethash
    /\ is_valid_unlock(m, lock, partner[n])

AcceptsLockExpired(n, m, lock) ==
    /\ m.type = "LockExpired"
    /\ lock.secrethash = m.secrethash
    /\ is_valid_lock_expired(m, lock, partner[n], our[n], block[n])

ReceiveLockedTransfer(n, m) ==
    /\ AcceptsLockedTransfer(n, m)
    /\ partner' = [partner EXCEPT ![n] = AddLock(@, m)]
    /\ UNCHANGED <<head, registered, total_deposit, block, our, sent>>

ReceiveUnlock(n, m) ==
    \E lock \in Locks(partner[n]) :
        /\ AcceptsUnlock(n, m, lock)
        /\ partner' = [partner EXCEPT ![n] = ClaimLock(@, m, lock)]
        /\ UNCHANGED <<head, registered, total_deposit, block, our, sent>>

ReceiveLockExpired(n, m) ==
    \E lock \in partner[n].locked \cup partner[n].unlocked :
        /\ AcceptsLockExpired(n, m, lock)
        /\ partner' = [partner EXCEPT ![n] = RemoveExpiredLock(@, m, lock)]
        /\ UNCHANGED <<head, registered, total_deposit, block, our, sent>>

Accepts(n, m) ==
    \/ AcceptsLockedTransfer(n, m)
    \/ \E lock \in Locks(partner[n]) : AcceptsUnlock(n, m, lock)
    \/ \E lock \in partner[n].locked \cup partner[n].unlocked :
            AcceptsLockExpired(n, m, lock)

RejectMessage(n, m) ==
    /\ ~Accepts(n, m)
    /\ UNCHANGED vars

Messages(n) == {sent[n][i] : i \in DOMAIN sent[n]}

-----------------------------------------------------------------------------
ChainNext ==
    \/ MineEmptyBlock
    \/ \E h \in SecretHash : MineSecretReveal(h)
    \/ \E m \in Node, amount \in DepositAmount : MineDeposit(m, amount)

ReceiveNext(n) ==
    \E m \in Messages(Other(n)) :
        \/ ReceiveLockedTransfer(n, m)
        \/ ReceiveUnlock(n, m)
        \/ ReceiveLockExpired(n, m)
        \/ RejectMessage(n, m)

SendNext(n) ==
    \/ \E h \in SecretHash, amount \in Amount :
            SendLockedTransfer(n, HashTimeLock(amount, h))
    \/ \E lock \in Locks(our[n]) : SendUnlock(n, lock)
    \/ \E lock \in Locks(our[n]) : SendLockExpired(n, lock)

Next ==
    \/ ChainNext
    \/ \E n \in Node :
        \/ \E b \in block[n] + 1 .. head : Synchronize(n, b)
        \/ \E h \in SecretHash : RegisterOffchainSecret(n, h)
        \/ SendNext(n)
        \/ ReceiveNext(n)

Spec == Init /\ [][Next]_vars

(* The alarm task keeps following the chain, and the transport resends a   *)
(* message until the partner has processed it.                             *)
Fairness ==
    \A n \in Node :
        /\ WF_vars(\E b \in block[n] + 1 .. head : Synchronize(n, b))
        /\ WF_vars(ReceiveNext(n))

-----------------------------------------------------------------------------
(* Type invariant: the two end states a node holds and the messages it     *)
(* sent are well formed, and a node is never ahead of the confirmed chain. *)
TypeOK ==
    /\ head \in Nat
    /\ registered \in [SecretHash -> Nat]
    /\ total_deposit \in [Node -> Seq(Nat)]
    /\ \A n \in Node : Len(total_deposit[n]) = head
    /\ block \in [Node -> Nat]
    /\ \A n \in Node : block[n] \in 1 .. head - Confirmations
    /\ our \in [Node -> NettingChannelEndState]
    /\ partner \in [Node -> NettingChannelEndState]
    /\ \A n \in Node : IsFiniteSet(Locks(our[n])) /\ IsFiniteSet(Locks(partner[n]))
    /\ sent \in [Node -> Seq(EnvelopeMessage)]

(* The state e of an end is the one its owner signed with nonce e.nonce:   *)
(* its transferred amount, the sum of its locks and its locksroot are      *)
(* those of the balance proof of that nonce.                               *)
IsSignedState(e, messages) ==
    IF e.nonce = 0
    THEN e.transferred = 0 /\ e.pending_locks = << >> /\ get_amount_locked(e) = 0
    ELSE /\ e.transferred = messages[e.nonce].transferred
         /\ e.pending_locks = messages[e.nonce].locksroot
         /\ get_amount_locked(e) = messages[e.nonce].locked_amount

(* A node's copy of its partner's end is always a state the partner was in *)
(* and signed, at most as recent as the partner's own: whatever messages   *)
(* are lost, repeated or overtaken, no balance proof is skipped, applied   *)
(* twice or combined with the locks of another.                            *)
ViewsAgree ==
    \A n \in Node :
        /\ our[n].nonce = Len(sent[n])
        /\ partner[Other(n)].nonce <= our[n].nonce
        /\ IsSignedState(our[n], sent[n])
        /\ IsSignedState(partner[Other(n)], sent[n])

(* The last assertions of sanity_check, "The lock mappings and the pending *)
(* locks must be synchronized": they hold of both ends in both nodes, and  *)
(* no lock is counted twice by get_amount_locked.                          *)
LocksSynchronized ==
    \A n \in Node : LocksInSync(our[n]) /\ LocksInSync(partner[n])

(* sanity_check: neither balance is negative, in either node's view, even  *)
(* when all pending locks are claimed, and no balance proof overflows when *)
(* they are.                                                               *)
BalancesCovered ==
    \A n \in Node : IsSolvent(our[n], partner[n]) /\ IsSolvent(partner[n], our[n])

(* The next message a node has to process, if its partner has sent it. *)
Undelivered(n) == partner[n].nonce < Len(sent[Other(n)])

NextMessage(n) == sent[Other(n)][partner[n].nonce + 1]

(* handle_message_lockedtransfer drops it for ever. *)
IsDropped(m) == m.type = "LockedTransfer" /\ registered[m.lock.secrethash] # 0

(* Up to its i-th message n has sent a lock of h that the partner did not  *)
(* take, and never will.                                                   *)
DroppedLock(n, h, i) ==
    \E j \in DOMAIN sent[n] :
        /\ partner[Other(n)].nonce < j /\ j <= i
        /\ IsDropped(sent[n][j]) /\ sent[n][j].lock.secrethash = h

(* A payment whose secret was registered on chain before its lock expired  *)
(* is never cancelled once the partner has taken the lock: no LockExpired  *)
(* is sent for it, however far the two nodes lag behind the chain and each *)
(* other.  Cancelled is only a lock that the partner dropped because the   *)
(* secret was registered before the lock arrived.                          *)
RegisteredLockNeverExpires ==
    \A n \in Node : \A i \in DOMAIN sent[n] :
        LET h == sent[n][i].secrethash
        IN  sent[n][i].type = "LockExpired" =>
                \/ registered[h] = 0
                \/ registered[h] > PaymentExpiration[h]
                \/ DroppedLock(n, h, i)

(* Once a node has processed every confirmed block it accepts the next     *)
(* message of its partner: sender and receiver never disagree about what a *)
(* valid balance proof is, so the nonces of a channel cannot get stuck.    *)
(* The exception is a LockedTransfer whose secret was registered while the *)
(* message was in flight, which the message handler drops.                 *)
NextMessageAcceptable ==
    \A n \in Node :
        Undelivered(n) /\ block[n] = head - Confirmations =>
            Accepts(n, NextMessage(n)) \/ IsDropped(NextMessage(n))

(* Every message is processed in the end: again and again a node has no    *)
(* unprocessed message, unless the next one is dropped for ever.  It       *)
(* needs the retries of the transport and a node that follows the chain.   *)
MessagesProcessed ==
    \A n \in Node : []<>(Undelivered(n) => IsDropped(NextMessage(n)))

-----------------------------------------------------------------------------
(* The channel implements the ledger: what each participant deposited,     *)
(* paid and holds under lock according to its own state moves as if there  *)
(* were a single copy of the channel.                                      *)
Ledger == INSTANCE PaymentLedger WITH
    deposit <- [n \in Node |-> total_deposit[n][head]],
    transferred <- [n \in Node |-> our[n].transferred],
    locked <- [n \in Node |-> get_amount_locked(our[n])]

ImplementsLedger == Ledger!LSpec
=============================================================================
