---------------------------- MODULE ChannelState ----------------------------
(***************************************************************************)
(* The pure part of raiden/transfer/channel.py: what one end of a payment  *)
(* channel (NettingChannelEndState) holds, the quantities computed from it *)
(* and the updates made to it.  The modules that model the behaviour of a  *)
(* channel build their actions from these operators.                       *)
(*                                                                         *)
(* Abstractions.  A lock is its amount, expiration and secrethash.  A      *)
(* secret and its hash are one value: knowing that a secret was revealed   *)
(* is knowing its hash was.  A locksroot is the list of locks it hashes.   *)
(* Addresses, signatures and chain ids always match for two correct nodes. *)
(* A Python dictionary from secrethashes to locks is the set of its values *)
(* and Insert overwrites the entry that has the same key.                  *)
(***************************************************************************)
EXTENDS Integers, Sequences, FiniteSets

CONSTANTS
    SecretHash,                \* the payments' secrethashes
    Amount,                    \* amounts a lock may carry
    PaymentExpiration,         \* the expiration block of each payment's locks
    UINT256_MAX,               \* largest amount the contracts represent
    MAXIMUM_PENDING_TRANSFERS, \* most locks pending in one direction
    Confirmations,             \* DEFAULT_NUMBER_OF_BLOCK_CONFIRMATIONS
    RevealTimeout,             \* reveal_timeout of the channel
    SettleTimeout              \* settle_timeout of the channel

ASSUME ChannelStateAssumption ==
    /\ Amount \subseteq Nat \ {0}
    /\ PaymentExpiration \in [SecretHash -> Nat]
    /\ UINT256_MAX \in Nat
    /\ MAXIMUM_PENDING_TRANSFERS \in Nat
    /\ Confirmations \in Nat
    /\ RevealTimeout \in Nat
    /\ SettleTimeout \in Nat

HashTimeLockState ==
    [amount : Amount, expiration : Nat, secrethash : SecretHash]

(* Every lock of a payment has the expiration its initiator chose: a       *)
(* mediator forwards the expiration of the payer's lock, a refund repeats  *)
(* it.                                                                     *)
HashTimeLock(amount, h) ==
    [amount |-> amount, expiration |-> PaymentExpiration[h], secrethash |-> h]

(***************************************************************************)
(* locked, unlocked and onchain are the dictionaries                       *)
(* secrethashes_to_lockedlocks, _to_unlockedlocks and                      *)
(* _to_onchain_unlockedlocks.  total_withdraw is the property of that name *)
(* (the larger of the off-chain and the on-chain withdraw).                *)
(***************************************************************************)
NettingChannelEndState ==
    [contract_balance : Nat,
     total_withdraw   : Nat,
     nonce            : Nat,
     transferred      : Nat,
     pending_locks    : Seq(HashTimeLockState),
     locked           : SUBSET HashTimeLockState,
     unlocked         : SUBSET HashTimeLockState,
     onchain          : SUBSET HashTimeLockState]

EmptyEndState(deposit) ==
    [contract_balance |-> deposit, total_withdraw |-> 0, nonce |-> 0,
     transferred |-> 0, pending_locks |-> << >>,
     locked |-> {}, unlocked |-> {}, onchain |-> {}]

-----------------------------------------------------------------------------
(* Quantities. *)

(* The tokens under the locks S, one element for each: their number is the *)
(* sum of the amounts of the locks.                                        *)
LockedTokens(S) == UNION {{l} \X (1 .. l.amount) : l \in S}

SumAmounts(S) == Cardinality(LockedTokens(S))

get_amount_locked(e) ==
    SumAmounts(e.locked) + SumAmounts(e.unlocked) + SumAmounts(e.onchain)

get_balance(sender, receiver) ==
    sender.contract_balance - sender.total_withdraw
        - sender.transferred + receiver.transferred

AtMost(a, b) == IF a <= b THEN a ELSE b

AtLeast(a, b) == IF a >= b THEN a ELSE b

(* Faulty variants, here and below, are what the checks must tell from the *)
(* code: this one lends out the amounts already locked.                    *)
get_distributable_IgnoresLocks(sender, receiver) ==
    AtMost(AtLeast(UINT256_MAX - sender.transferred - get_amount_locked(sender), 0),
           get_balance(sender, receiver))

get_distributable(sender, receiver) ==
    AtMost(AtLeast(UINT256_MAX - sender.transferred - get_amount_locked(sender), 0),
           get_balance(sender, receiver) - get_amount_locked(sender))

is_valid_amount(e, amount) ==
    e.transferred + get_amount_locked(e) + amount <= UINT256_MAX

Locks(e) == e.locked \cup e.unlocked \cup e.onchain

is_lock_pending(e, h) == \E l \in Locks(e) : l.secrethash = h

is_lock_expired(e, lock, block, threshold) ==
    /\ \A l \in e.onchain : l.secrethash # lock.secrethash
    /\ block >= threshold

(* Faulty: the sender does not wait for the receiver to confirm the block. *)
get_sender_expiration_threshold_NoWait(expiration) == expiration

get_sender_expiration_threshold(expiration) == expiration + 2 * Confirmations

get_receiver_expiration_threshold(expiration) == expiration + Confirmations

-----------------------------------------------------------------------------
(* The list of pending locks. *)

IsPending(locks, lock) == \E i \in DOMAIN locks : locks[i] = lock

compute_locks_with(locks, lock) == Append(locks, lock)

compute_locks_without(locks, lock) ==
    LET i == CHOOSE j \in DOMAIN locks : locks[j] = lock
    IN  [j \in 1 .. Len(locks) - 1 |-> IF j < i THEN locks[j] ELSE locks[j + 1]]

-----------------------------------------------------------------------------
(* Updates of an end state. *)

Insert(dict, lock) == {l \in dict : l.secrethash # lock.secrethash} \cup {lock}

Without(dict, h) == {l \in dict : l.secrethash # h}

(* Taking over the balance proof of message m, sent or received. *)
AddLock(e, m) ==
    [e EXCEPT !.nonce = m.nonce,
              !.transferred = m.transferred,
              !.pending_locks = compute_locks_with(@, m.lock),
              !.locked = Insert(@, m.lock)]

(* Faulty: the claimed lock stays in the list of pending locks.            *)
ClaimLock_KeepsPendingLock(e, m, lock) ==
    [e EXCEPT !.nonce = m.nonce,
              !.transferred = m.transferred,
              !.locked = Without(@, lock.secrethash),
              !.unlocked = Without(@, lock.secrethash),
              !.onchain = Without(@, lock.secrethash)]

ClaimLock(e, m, lock) ==
    [e EXCEPT !.nonce = m.nonce,
              !.transferred = m.transferred,
              !.pending_locks = compute_locks_without(@, lock),
              !.locked = Without(@, lock.secrethash),
              !.unlocked = Without(@, lock.secrethash),
              !.onchain = Without(@, lock.secrethash)]

RemoveExpiredLock(e, m, lock) ==
    [e EXCEPT !.nonce = m.nonce,
              !.transferred = m.transferred,
              !.pending_locks = compute_locks_without(@, lock),
              !.locked = Without(@, lock.secrethash),
              !.unlocked = Without(@, lock.secrethash)]

register_secret_endstate(e, h) ==
    [e EXCEPT !.locked = Without(@, h),
              !.unlocked = @ \cup {l \in e.locked : l.secrethash = h}]

(* Faulty: a registration in the expiration block itself comes too late.   *)
register_onchain_secret_endstate_OffByOne(e, hashes, reveal) ==
    LET moved == {l \in e.locked \cup e.unlocked :
                    /\ l.secrethash \in hashes
                    /\ reveal[l.secrethash] < l.expiration}
    IN  [e EXCEPT !.locked = @ \ moved,
                  !.unlocked = @ \ moved,
                  !.onchain = @ \cup moved]

(* The registrations processed together: reveal maps each secrethash to    *)
(* the block its secret was registered in.                                 *)
register_onchain_secret_endstate(e, hashes, reveal) ==
    LET moved == {l \in e.locked \cup e.unlocked :
                    /\ l.secrethash \in hashes
                    /\ reveal[l.secrethash] <= l.expiration}
    IN  [e EXCEPT !.locked = @ \ moved,
                  !.unlocked = @ \ moved,
                  !.onchain = @ \cup moved]

update_contract_balance(e, contract_balance) ==
    [e EXCEPT !.contract_balance = AtLeast(@, contract_balance)]

-----------------------------------------------------------------------------
(* Messages that carry a balance proof: nonce, transferred amount, locked  *)
(* amount and locksroot.                                                   *)

LockedTransferMessage ==
    [type : {"LockedTransfer"}, nonce : Nat, transferred : Nat,
     locked_amount : Int, locksroot : Seq(HashTimeLockState),
     lock : HashTimeLockState]

UnlockMessage ==
    [type : {"Unlock"}, nonce : Nat, transferred : Nat,
     locked_amount : Int, locksroot : Seq(HashTimeLockState),
     secrethash : SecretHash]

LockExpiredMessage ==
    [type : {"LockExpired"}, nonce : Nat, transferred : Nat,
     locked_amount : Int, locksroot : Seq(HashTimeLockState),
     secrethash : SecretHash]

EnvelopeMessage == LockedTransferMessage \cup UnlockMessage \cup LockExpiredMessage

create_sendlockedtransfer(e, lock) ==
    [type |-> "LockedTransfer", nonce |-> e.nonce + 1,
     transferred |-> e.transferred,
     locked_amount |-> get_amount_locked(e) + lock.amount,
     locksroot |-> compute_locks_with(e.pending_locks, lock),
     lock |-> lock]

create_unlock(e, lock) ==
    [type |-> "Unlock", nonce |-> e.nonce + 1,
     transferred |-> e.transferred + lock.amount,
     locked_amount |-> get_amount_locked(e) - lock.amount,
     locksroot |-> compute_locks_without(e.pending_locks, lock),
     secrethash |-> lock.secrethash]

create_sendexpiredlock(e, lock) ==
    [type |-> "LockExpired", nonce |-> e.nonce + 1,
     transferred |-> e.transferred,
     locked_amount |-> get_amount_locked(e) - lock.amount,
     locksroot |-> compute_locks_without(e.pending_locks, lock),
     secrethash |-> lock.secrethash]

is_balance_proof_safe_for_onchain_operations(m) ==
    m.transferred + m.locked_amount <= UINT256_MAX

is_balance_proof_usable_onchain(m, sender) ==
    /\ is_balance_proof_safe_for_onchain_operations(m)
    /\ m.nonce = sender.nonce + 1

(* Faulty: the receiver's limit is one lock below the sender's.            *)
is_valid_lockedtransfer_OffByOne(m, sender, receiver) ==
    /\ is_balance_proof_usable_onchain(m, sender)
    /\ ~IsPending(sender.pending_locks, m.lock)
    /\ Len(compute_locks_with(sender.pending_locks, m.lock)) < MAXIMUM_PENDING_TRANSFERS
    /\ m.locksroot = compute_locks_with(sender.pending_locks, m.lock)
    /\ m.transferred = sender.transferred
    /\ m.locked_amount = get_amount_locked(sender) + m.lock.amount
    /\ m.lock.amount <= get_distributable(sender, receiver)

is_valid_lockedtransfer(m, sender, receiver) ==
    /\ is_balance_proof_usable_onchain(m, sender)
    /\ ~IsPending(sender.pending_locks, m.lock)
    /\ Len(compute_locks_with(sender.pending_locks, m.lock)) <= MAXIMUM_PENDING_TRANSFERS
    /\ m.locksroot = compute_locks_with(sender.pending_locks, m.lock)
    /\ m.transferred = sender.transferred
    /\ m.locked_amount = get_amount_locked(sender) + m.lock.amount
    /\ m.lock.amount <= get_distributable(sender, receiver)

is_valid_unlock(m, lock, sender) ==
    /\ IsPending(sender.pending_locks, lock)
    /\ is_balance_proof_usable_onchain(m, sender)
    /\ m.locksroot = compute_locks_without(sender.pending_locks, lock)
    /\ m.transferred = sender.transferred + lock.amount
    /\ m.locked_amount = get_amount_locked(sender) - lock.amount

(* receiver is the node that validates: its dictionary is the one          *)
(* is_lock_expired looks the lock up in.                                   *)
is_valid_lock_expired(m, lock, sender, receiver, block) ==
    /\ \A l \in sender.onchain : l.secrethash # m.secrethash
    /\ is_balance_proof_usable_onchain(m, sender)
    /\ IsPending(sender.pending_locks, lock)
    /\ is_lock_expired(receiver, lock, block,
                       get_receiver_expiration_threshold(lock.expiration))
    /\ m.locksroot = compute_locks_without(sender.pending_locks, lock)
    /\ m.transferred = sender.transferred
    /\ m.locked_amount = get_amount_locked(sender) - lock.amount

-----------------------------------------------------------------------------
(* What sanity_check asserts of an end state. *)

UniqueHashes(locks) ==
    \A i, j \in DOMAIN locks : locks[i].secrethash = locks[j].secrethash => i = j

(* The lock dictionaries and the list of pending locks agree: each pending *)
(* lock is in exactly one dictionary and no two share a secrethash.        *)
LocksInSync(e) ==
    /\ Locks(e) = {e.pending_locks[i] : i \in DOMAIN e.pending_locks}
    /\ UniqueHashes(e.pending_locks)
    /\ e.locked \cap e.unlocked = {}
    /\ e.locked \cap e.onchain = {}
    /\ e.unlocked \cap e.onchain = {}

(* The owner of e can pay all its pending locks, and signing that does not *)
(* overflow.                                                               *)
IsSolvent(e, other) ==
    /\ get_amount_locked(e) <= get_balance(e, other)
    /\ e.transferred + get_amount_locked(e) <= UINT256_MAX
=============================================================================
