---------------------------- MODULE PaymentChain ----------------------------
(***************************************************************************)
(* The blockchain as one node sees it during one payment: the secret       *)
(* registry, the channels that are closed and settled, and the state of    *)
(* one hash time lock.  The payment tasks (Mediator, Target, Initiator)    *)
(* are written on top of it.                                               *)
(*                                                                         *)
(* head is the newest block and block the confirmed one the node has       *)
(* processed last.  The protocol relies on time: a node that is online     *)
(* processes a confirmed block before MaxLag more are confirmed, and a     *)
(* transaction it sends is mined at most TransactionTime blocks later.     *)
(* RevealTimeout must leave room for both.                                 *)
(***************************************************************************)
EXTENDS Integers

CONSTANTS
    Channel,          \* the channels the payment may use
    Expiration,       \* lock.expiration of every lock of the payment
    Confirmations,    \* DEFAULT_NUMBER_OF_BLOCK_CONFIRMATIONS
    RevealTimeout,    \* reveal_timeout of the channels
    MaxLag,           \* confirmed blocks a node may be behind
    TransactionTime   \* blocks until a transaction is mined

ASSUME PaymentChainAssumption ==
    /\ Confirmations \in Nat
    /\ MaxLag \in Nat \ {0}
    /\ TransactionTime \in Nat \ {0}
    /\ RevealTimeout \in Nat \ {0}
    /\ Expiration \in Nat
    /\ Expiration > RevealTimeout
    /\ RevealTimeout >= Confirmations + MaxLag + TransactionTime

VARIABLES
    head,        \* number of blocks of the chain
    block,       \* chain_state.block_number of the node
    registered,  \* block in which the secret was registered, or 0
    requested,   \* head when the node sent registerSecret, or 0
    closed,      \* block in which each channel was closed, or 0
    settled      \* block in which each channel was removed, or 0

chain == <<head, registered, closed, settled>>

ChainInit ==
    /\ head = 1 + Confirmations
    /\ block = 1
    /\ registered = 0
    /\ requested = 0
    /\ closed = [c \in Channel |-> 0]
    /\ settled = [c \in Channel |-> 0]

-----------------------------------------------------------------------------
(* Channels, as of block b. *)

Happened(event, b) == event # 0 /\ event <= b

(* The channel is in channelidentifiers_to_channels. *)
Exists(c, b) == ~Happened(settled[c], b)

IsOpened(c, b) == ~Happened(closed[c], b)

IsClosed(c, b) == Happened(closed[c], b) /\ Exists(c, b)

-----------------------------------------------------------------------------
(* One lock in an end state: it is in none of the dictionaries, or in the  *)
(* one for unknown secrets, for secrets known off chain or for secrets     *)
(* registered on chain.                                                    *)

Lock == {"none", "locked", "unlocked", "onchain"}

is_lock_pending(lock) == lock # "none"

is_secret_known(lock) == lock \in {"unlocked", "onchain"}

register_offchain_secret(lock) == IF lock = "locked" THEN "unlocked" ELSE lock

register_onchain_secret(lock, b) ==
    IF lock \in {"locked", "unlocked"} /\ b <= Expiration THEN "onchain" ELSE lock

get_sender_expiration_threshold == Expiration + 2 * Confirmations

get_receiver_expiration_threshold == Expiration + Confirmations

(* lock is the payment's lock in the end state looked at. *)
is_lock_expired(lock, b, threshold) == lock # "onchain" /\ b >= threshold

(* A LockExpired of the partner: received and sent are the payment's locks *)
(* in partner_state and in our_state of the channel.                       *)
is_valid_lock_expired(c, received, sent, b) ==
    /\ IsOpened(c, b)
    /\ received \in {"locked", "unlocked"}
    /\ is_lock_expired(sent, b, get_receiver_expiration_threshold)

is_valid_unlock(c, received, b) == IsOpened(c, b) /\ is_lock_pending(received)

(* is_safe_to_wait if it allowed to wait until the lock expires. *)
is_safe_to_wait_UntilExpiration(b) == Expiration - b > 0

is_safe_to_wait(b) == Expiration - b > RevealTimeout

-----------------------------------------------------------------------------
(* The secret was registered in time for the lock to be claimed. *)
RegisteredInTime == Happened(registered, Expiration)

(* A block that registers the secret, if register, closes the channels     *)
(* closing and settles the channels settling.                              *)
MineBlock(register, closing, settling) ==
    /\ head + 1 <= block + Confirmations + MaxLag
    /\ registered = 0 /\ requested # 0 /\ head + 1 >= requested + TransactionTime
            => register
    /\ register => registered = 0
    /\ closing \subseteq {c \in Channel : closed[c] = 0}
    /\ settling \subseteq {c \in Channel : closed[c] # 0 /\ settled[c] = 0}
    /\ settling # {} => head + 1 > Expiration
    /\ head' = head + 1
    /\ registered' = IF register THEN head + 1 ELSE registered
    /\ closed' = [c \in Channel |-> IF c \in closing THEN head + 1 ELSE closed[c]]
    /\ settled' = [c \in Channel |-> IF c \in settling THEN head + 1 ELSE settled[c]]
    /\ UNCHANGED <<block, requested>>

(* The node sends registerSecret. *)
Request(wanted) == requested' = IF wanted /\ requested = 0 THEN head ELSE requested

ChainTypeOK ==
    /\ head \in Nat
    /\ block \in 1 .. head
    /\ registered \in 0 .. head
    /\ requested \in 0 .. head
    /\ closed \in [Channel -> 0 .. head]
    /\ settled \in [Channel -> 0 .. head]
=============================================================================
