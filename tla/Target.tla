------------------------------- MODULE Target -------------------------------
(***************************************************************************)
(* The target's task of one payment, mediated_transfer/target.py, and the  *)
(* payment's lock in the channel to the last mediator, the payer.          *)
(*                                                                         *)
(* The payer and the initiator are free in when they act.  The initiator   *)
(* answers the SecretRequest, or put the encrypted secret in the           *)
(* LockedTransfer; the reveal may be late and may be delivered again.  The *)
(* payer unlocks once it may know the secret and tries to expire the lock  *)
(* at any time.                                                            *)
(***************************************************************************)
EXTENDS PaymentChain

CONSTANT Payer   \* the channel the payment arrives on

ASSUME TargetAssumption == Payer \in Channel

VARIABLE task   \* TargetTransferState and the payment's lock

vars == <<head, block, registered, requested, closed, settled, task>>

(* asked: a SecretRequest was sent.  safe: the target learned the secret   *)
(* from the initiator while it was safe to wait.  paid: an Unlock was      *)
(* accepted.  failed: an assertion of sanity_check does not hold and the   *)
(* node has stopped.                                                       *)
NoTask ==
    [running |-> FALSE, failed |-> FALSE, state |-> "secret_request",
     lock |-> "none", asked |-> FALSE, safe |-> FALSE, paid |-> FALSE]

Init == ChainInit /\ task = NoTask

State == {"secret_request", "reveal_secret", "onchain_secret_reveal",
          "onchain_unlock", "expired"}

(* is_transfer_expired looks the lock up in our_state, which never has it. *)
is_transfer_expired(b) == is_lock_expired("none", b, get_sender_expiration_threshold)

handle_offchain_secretreveal(t, b) ==
    IF is_transfer_expired(b) THEN t
    ELSE [t EXCEPT !.lock = register_offchain_secret(@), !.state = "reveal_secret",
                   !.safe = @ \/ is_safe_to_wait(b)]

handle_onchain_secretreveal(t) ==
    [t EXCEPT !.lock = register_onchain_secret(@, registered), !.state = "onchain_unlock"]

(* events_for_onchain_secretreveal if it waited for the channel to close. *)
events_for_onchain_secretreveal_WhenClosed(t, b) ==
    IsClosed(Payer, b) /\ ~is_safe_to_wait(b) /\ t.lock = "unlocked"

(* Whether the block makes the target register the secret. *)
events_for_onchain_secretreveal(t, b) ==
    /\ ~is_safe_to_wait(b)
    /\ t.lock = "unlocked"
    /\ t.state # "onchain_secret_reveal"

(* The lock is taken for expired. *)
IsExpiredNow(t, b) ==
    /\ is_lock_expired("none", b, get_receiver_expiration_threshold)
    /\ t.state # "expired"

handle_block(t, b) ==
    [t EXCEPT !.state =
        CASE IsExpiredNow(t, b) -> "expired"
          [] ~IsExpiredNow(t, b) /\ events_for_onchain_secretreveal(t, b)
                -> "onchain_secret_reveal"
          [] OTHER -> @]

(* A task runs exactly while its lock is pending. *)
sanity_check(old, new) ==
    /\ old.running /\ ~new.running => ~is_lock_pending(new.lock)
    /\ new.running => is_lock_pending(new.lock)

(* The handler left the task t; register: it sends registerSecret. *)
Finish(t, register) ==
    /\ task' = IF sanity_check(task, t) THEN t ELSE [t EXCEPT !.failed = TRUE]
    /\ Request(register)
    /\ UNCHANGED chain

-----------------------------------------------------------------------------
(* Actions.  handle_inittarget: the LockedTransfer is dropped when the     *)
(* secret is already registered.  An encrypted secret in it is handled as  *)
(* a reveal right after.                                                   *)
ReceiveLockedTransfer(encrypted) ==
    LET t == [NoTask EXCEPT !.running = TRUE, !.lock = "locked",
                            !.asked = ~encrypted /\ is_safe_to_wait(block)]
    IN  /\ task = NoTask
        /\ registered = 0
        /\ IsOpened(Payer, block)
        /\ UNCHANGED block
        /\ Finish(IF encrypted THEN handle_offchain_secretreveal(t, block) ELSE t, FALSE)

(* The initiator reveals the secret it was asked for, or a reveal is       *)
(* delivered again.                                                        *)
ReceiveSecretReveal ==
    /\ task.running /\ ~task.failed
    /\ Exists(Payer, block)
    /\ task.asked
    /\ UNCHANGED block
    /\ Finish(handle_offchain_secretreveal(task, block), FALSE)

(* The payer may know the secret from the target's reveal or the registry. *)
ReceiveUnlock ==
    /\ task.running /\ ~task.failed
    /\ is_valid_unlock(Payer, task.lock, block)
    /\ \/ is_secret_known(task.lock)
       \/ Happened(registered, head - Confirmations) /\ RegisteredInTime
    /\ UNCHANGED block
    /\ Finish([task EXCEPT !.running = FALSE, !.lock = "none", !.paid = TRUE], FALSE)

(* ReceiveLockExpired if the task were kept. *)
ReceiveLockExpired_KeepsTask ==
    /\ task.running /\ ~task.failed
    /\ is_valid_lock_expired(Payer, task.lock, "none", block)
    /\ UNCHANGED block
    /\ Finish([task EXCEPT !.lock = "none"], FALSE)

ReceiveLockExpired ==
    /\ task.running /\ ~task.failed
    /\ is_valid_lock_expired(Payer, task.lock, "none", block)
    /\ UNCHANGED block
    /\ Finish([task EXCEPT !.running = FALSE, !.lock = "none"], FALSE)

(* The node processes the blocks up to b: the registration of the secret   *)
(* if it is among them, then the block.  A task whose channel is gone gets *)
(* neither.                                                                *)
Synchronize(b) ==
    LET t == IF Happened(registered, b) /\ registered > block /\ Exists(Payer, registered)
             THEN handle_onchain_secretreveal(task)
             ELSE task
    IN  /\ b <= head - Confirmations
        /\ ~task.failed
        /\ block' = b
        /\ IF ~task.running THEN Finish(task, FALSE)
           ELSE IF ~Exists(Payer, b) THEN Finish(t, FALSE)
           ELSE Finish(handle_block(t, b),
                       ~IsExpiredNow(t, b) /\ events_for_onchain_secretreveal(t, b))

Next ==
    \/ \E register \in BOOLEAN, closing, settling \in SUBSET Channel :
            MineBlock(register, closing, settling) /\ UNCHANGED task
    \/ \E encrypted \in BOOLEAN : ReceiveLockedTransfer(encrypted)
    \/ ReceiveSecretReveal
    \/ ReceiveUnlock
    \/ ReceiveLockExpired
    \/ \E b \in block + 1 .. head : Synchronize(b)

Spec == Init /\ [][Next]_vars

-----------------------------------------------------------------------------
(* Properties. *)

(* The task has the states TargetTransferState declares. *)
TypeOK ==
    /\ ChainTypeOK
    /\ task.state \in State
    /\ task.lock \in Lock
    /\ {task.running, task.failed, task.asked, task.safe, task.paid} \subseteq BOOLEAN

(* A target that reveals the secret to its payer while it is safe to wait  *)
(* is paid: off chain, or it still has a lock it can claim on chain.  The  *)
(* registration that handle_block sends in the last RevealTimeout blocks   *)
(* is early enough however late the blocks are processed, and a reveal     *)
(* that is delivered again does not stop it.                               *)
RevealedSecretIsPaid ==
    head > Expiration /\ task.safe /\ ~task.failed =>
        \/ task.paid
        \/ is_lock_pending(task.lock) /\ RegisteredInTime

(* sanity_check: "The lock must be cleared once the task exists" and "The  *)
(* lock must not be cleared while the task is running" hold whatever the   *)
(* order of unlock, expiration, registration and settlement.               *)
TaskRunsWhileLockPending == ~task.failed
=============================================================================
