---------------------------- MODULE Target_proofs ----------------------------
(***************************************************************************)
(* Proofs about the target's task, for every expiration, reveal timeout,   *)
(* number of confirmations, lag and transaction time that                  *)
(* PaymentChainAssumption allows, and for any number of channels.          *)
(***************************************************************************)
EXTENDS Target, TLAPS

TaskState ==
    [running : BOOLEAN, failed : BOOLEAN, state : State, lock : Lock,
     asked : BOOLEAN, safe : BOOLEAN, paid : BOOLEAN]

(* What time allows.  The node is never further behind than MaxLag; it     *)
(* asks for the registration only when it is no longer safe to wait, and   *)
(* the registration is mined within TransactionTime; no channel is removed *)
(* before the lock has expired.                                            *)
ChainTime ==
    /\ block <= head - Confirmations
    /\ head <= block + Confirmations + MaxLag
    /\ requested # 0 => ~is_safe_to_wait(block)
    /\ requested # 0 /\ registered = 0 => head < requested + TransactionTime
    /\ requested # 0 /\ registered # 0 => registered <= requested + TransactionTime
    /\ \A c \in Channel : settled[c] # 0 => settled[c] > Expiration

(* A lock is claimable on chain only if the registration was in time, and  *)
(* a registration in time is never missed once its block is processed.     *)
LockFollowsChain(lock) ==
    /\ lock = "onchain" => RegisteredInTime
    /\ lock \in {"locked", "unlocked"} /\ Happened(registered, block)
            => registered > Expiration

(* There is still time to wait, or the secret is registered in time, or    *)
(* the registration was sent early enough to be mined in time.             *)
InTime ==
    \/ is_safe_to_wait(block)
    \/ RegisteredInTime
    \/ requested # 0 /\ requested + TransactionTime < Expiration

(* The inductive invariant.  A target that learned the secret while it was *)
(* safe to wait is paid, or has the lock on chain, or is in time for it.   *)
TaskInv ==
    /\ task \in TaskState
    /\ ~task.failed
    /\ task.running <=> is_lock_pending(task.lock)
    /\ task.state = "onchain_secret_reveal" => requested # 0
    /\ LockFollowsChain(task.lock)
    /\ task.safe => \/ task.paid
                    \/ task.lock = "onchain"
                    \/ task.lock = "unlocked" /\ InTime

TInv == ChainTypeOK /\ ChainTime /\ TaskInv

-----------------------------------------------------------------------------
(* The chain: mining a block keeps the time bounds, because MineBlock must *)
(* register the secret once TransactionTime has passed.                    *)
LEMMA MineBlockTime ==
    ASSUME ChainTypeOK, ChainTime,
           NEW register \in BOOLEAN, NEW closing, NEW settling,
           MineBlock(register, closing, settling)
    PROVE  ChainTypeOK' /\ ChainTime'
<1> USE PaymentChainAssumption
<1>1. ChainTypeOK'
  BY DEF ChainTypeOK, MineBlock
<1>2. \A c \in Channel : settled'[c] # 0 => settled'[c] > Expiration
  BY DEF ChainTypeOK, ChainTime, MineBlock
<1>3. /\ block' <= head' - Confirmations
      /\ head' <= block' + Confirmations + MaxLag
      /\ requested' # 0 => ~is_safe_to_wait(block')
      /\ requested' # 0 /\ registered' = 0 => head' < requested' + TransactionTime
      /\ requested' # 0 /\ registered' # 0 => registered' <= requested' + TransactionTime
  BY DEF ChainTypeOK, ChainTime, MineBlock, is_safe_to_wait
<1> QED
  BY <1>1, <1>2, <1>3 DEF ChainTime, is_safe_to_wait

(* The node processes blocks up to b and may ask for the registration: the *)
(* time bounds hold if it asks only when it is no longer safe to wait.     *)
LEMMA NodeStepTime ==
    ASSUME ChainTypeOK, ChainTime,
           NEW b \in block .. (head - Confirmations), block' = b,
           NEW wanted \in BOOLEAN, wanted => ~is_safe_to_wait(b),
           Request(wanted), UNCHANGED chain
    PROVE  ChainTypeOK' /\ ChainTime'
<1> USE PaymentChainAssumption
<1>1. ChainTypeOK'
  BY DEF ChainTypeOK, Request, chain
<1>2. \A c \in Channel : settled'[c] # 0 => settled'[c] > Expiration
  BY DEF ChainTime, chain
<1>3. requested' # 0 => ~is_safe_to_wait(block')
  BY DEF ChainTypeOK, ChainTime, Request, is_safe_to_wait
<1>4. /\ block' <= head' - Confirmations
      /\ head' <= block' + Confirmations + MaxLag
      /\ requested' # 0 /\ registered' = 0 => head' < requested' + TransactionTime
      /\ requested' # 0 /\ registered' # 0 => registered' <= requested' + TransactionTime
  BY DEF ChainTypeOK, ChainTime, Request, chain
<1> QED
  BY <1>1, <1>2, <1>3, <1>4 DEF ChainTime, is_safe_to_wait

(* A registration that is sent when the first block that is not safe is    *)
(* processed is early enough: this is what RevealTimeout is for.           *)
LEMMA RequestedEarlyEnough ==
    ASSUME ChainTypeOK, ChainTime, is_safe_to_wait(block)
    PROVE  head # 0 /\ head + TransactionTime < Expiration
BY PaymentChainAssumption DEF ChainTypeOK, ChainTime, is_safe_to_wait

(* What was in time stays in time while blocks are mined ...               *)
LEMMA MineBlockKeepsTask ==
    ASSUME TInv, NEW register \in BOOLEAN, NEW closing, NEW settling,
           MineBlock(register, closing, settling), UNCHANGED task
    PROVE  TaskInv'
<1> USE PaymentChainAssumption DEF TInv
<1>1. RegisteredInTime => RegisteredInTime'
  BY DEF ChainTypeOK, MineBlock, RegisteredInTime, Happened
<1>2. InTime => InTime'
  BY <1>1 DEF InTime, MineBlock, is_safe_to_wait
<1>3. Happened(registered, block)' => Happened(registered, block) /\ registered' = registered
  BY DEF ChainTypeOK, ChainTime, MineBlock, Happened
<1>4. LockFollowsChain(task.lock)'
  BY <1>1, <1>3 DEF LockFollowsChain, TaskInv
<1>5. requested' = requested
  BY DEF MineBlock
<1> QED
  BY <1>2, <1>4, <1>5 DEF TaskInv

(* ... and while the node handles messages at the same block.              *)
LEMMA SameBlock ==
    ASSUME TInv, UNCHANGED chain, UNCHANGED block, Request(FALSE)
    PROVE  /\ requested' = requested /\ block' = block
           /\ RegisteredInTime' <=> RegisteredInTime
           /\ InTime' <=> InTime
           /\ \A lock : LockFollowsChain(lock) => LockFollowsChain(lock)'
           /\ ChainTypeOK' /\ ChainTime'
<1>1. requested' = requested /\ block' = block /\ registered' = registered
  BY DEF Request, chain
<1>2. block \in block .. (head - Confirmations)
  BY PaymentChainAssumption DEF TInv, ChainTypeOK, ChainTime
<1>3. ChainTypeOK' /\ ChainTime'
  BY Zenon, <1>1, <1>2, NodeStepTime DEF TInv
<1> QED
  BY <1>1, <1>3
  DEF RegisteredInTime, InTime, LockFollowsChain, Happened, is_safe_to_wait

-----------------------------------------------------------------------------
(* The secret reaches the task t from the initiator.                       *)
LEMMA OffchainReveal ==
    ASSUME TInv, NEW t \in TaskState, ~t.failed, t.running, is_lock_pending(t.lock),
           LockFollowsChain(t.lock),
           t.state = "onchain_secret_reveal" => requested # 0,
           t.safe => \/ t.paid
                     \/ t.lock = "onchain"
                     \/ t.lock = "unlocked" /\ InTime,
           NEW u, u = handle_offchain_secretreveal(t, block)
    PROVE  /\ u \in TaskState /\ ~u.failed /\ u.running /\ is_lock_pending(u.lock)
           /\ LockFollowsChain(u.lock)
           /\ u.state = "onchain_secret_reveal" => requested # 0
           /\ u.safe => \/ u.paid
                        \/ u.lock = "onchain"
                        \/ u.lock = "unlocked" /\ InTime
<1>1. CASE is_transfer_expired(block)
  BY <1>1 DEF handle_offchain_secretreveal
<1>2. CASE ~is_transfer_expired(block)
  <2> DEFINE safe == t.safe \/ is_safe_to_wait(block)
  <2>1. u = [t EXCEPT !.lock = register_offchain_secret(@), !.state = "reveal_secret",
                      !.safe = safe]
    BY <1>2 DEF handle_offchain_secretreveal
  <2>2. safe \in BOOLEAN
    BY DEF TaskState, is_safe_to_wait
  <2> HIDE DEF safe
  <2>3. /\ u \in TaskState /\ u.failed = t.failed /\ u.running = t.running
        /\ u.paid = t.paid /\ u.safe = safe /\ u.state = "reveal_secret"
        /\ u.lock = IF t.lock = "locked" THEN "unlocked" ELSE t.lock
    BY Zenon, <2>1, <2>2 DEF TaskState, State, Lock, register_offchain_secret
  <2>4. u.lock \in {"unlocked", "onchain"}
    BY <2>3 DEF TaskState, Lock, is_lock_pending
  <2>5. LockFollowsChain(u.lock)
    BY <2>3 DEF LockFollowsChain
  <2>6. safe => t.safe \/ InTime
    BY DEF safe, InTime
  <2>7. u.safe => \/ u.paid
                  \/ u.lock = "onchain"
                  \/ u.lock = "unlocked" /\ InTime
    BY <2>3, <2>4, <2>6
  <2> QED
    BY <2>3, <2>4, <2>5, <2>7 DEF is_lock_pending
<1> QED
  BY <1>1, <1>2

(* A handler at the same block that leaves a running task keeps TInv. *)
LEMMA FinishRunning ==
    ASSUME TInv, UNCHANGED block, NEW t \in TaskState, ~t.failed, t.running,
           is_lock_pending(t.lock), LockFollowsChain(t.lock),
           t.state = "onchain_secret_reveal" => requested # 0,
           t.safe => \/ t.paid
                     \/ t.lock = "onchain"
                     \/ t.lock = "unlocked" /\ InTime,
           Finish(t, FALSE)
    PROVE  TInv'
<1>1. Request(FALSE) /\ UNCHANGED chain /\ task' = t
  BY Zenon DEF Finish, sanity_check
<1>2. TaskInv'
  BY <1>1, SameBlock DEF TaskInv
<1> QED
  BY <1>1, <1>2, SameBlock DEF TInv

-----------------------------------------------------------------------------
(* A new task has a lock whose secret is unknown, and nothing is           *)
(* registered yet.                                                         *)
LEMMA StartKeeps ==
    ASSUME TInv, NEW encrypted \in BOOLEAN, ReceiveLockedTransfer(encrypted)
    PROVE  TInv'
<1> DEFINE asked == ~encrypted /\ is_safe_to_wait(block)
           t == [NoTask EXCEPT !.running = TRUE, !.lock = "locked", !.asked = asked]
           u == IF encrypted THEN handle_offchain_secretreveal(t, block) ELSE t
<1>1. asked \in BOOLEAN
  BY DEF is_safe_to_wait
<1>2. registered = 0 /\ UNCHANGED block /\ Finish(u, FALSE)
  BY Zenon DEF ReceiveLockedTransfer
<1> HIDE DEF asked
<1>3. /\ t \in TaskState /\ t.failed = FALSE /\ t.running = TRUE /\ t.lock = "locked"
      /\ t.state = "secret_request" /\ t.safe = FALSE /\ t.paid = FALSE
  BY Zenon, <1>1 DEF TaskState, NoTask, State, Lock
<1> HIDE DEF t
<1>4. LockFollowsChain(t.lock) /\ is_lock_pending(t.lock)
  BY <1>2, <1>3 DEF LockFollowsChain, Happened, is_lock_pending
<1>5. /\ u \in TaskState /\ ~u.failed /\ u.running /\ is_lock_pending(u.lock)
      /\ LockFollowsChain(u.lock)
      /\ u.state = "onchain_secret_reveal" => requested # 0
      /\ u.safe => \/ u.paid
                   \/ u.lock = "onchain"
                   \/ u.lock = "unlocked" /\ InTime
  <2>1. CASE encrypted
    BY <2>1, <1>3, <1>4, OffchainReveal
  <2>2. CASE ~encrypted
    BY <2>2, <1>3, <1>4
  <2> QED
    BY <2>1, <2>2
<1> HIDE DEF u
<1> QED
  BY Zenon, <1>2, <1>5, FinishRunning

(* A RevealSecret of the initiator keeps the invariant: the task learns    *)
(* the secret, and is safe only if it is still safe to wait.              *)
LEMMA RevealKeeps ==
    ASSUME TInv, ReceiveSecretReveal
    PROVE  TInv'
<1> DEFINE u == handle_offchain_secretreveal(task, block)
<1>1. task.running /\ UNCHANGED block /\ Finish(u, FALSE)
  BY Zenon DEF ReceiveSecretReveal
<1>2. /\ u \in TaskState /\ ~u.failed /\ u.running /\ is_lock_pending(u.lock)
      /\ LockFollowsChain(u.lock)
      /\ u.state = "onchain_secret_reveal" => requested # 0
      /\ u.safe => \/ u.paid
                   \/ u.lock = "onchain"
                   \/ u.lock = "unlocked" /\ InTime
  BY <1>1, OffchainReveal DEF TInv, TaskInv
<1> HIDE DEF u
<1> QED
  BY Zenon, <1>1, <1>2, FinishRunning

(* An accepted Unlock ends the task with the payment.                      *)
LEMMA UnlockKeeps ==
    ASSUME TInv, ReceiveUnlock
    PROVE  TInv'
<1> DEFINE t == [task EXCEPT !.running = FALSE, !.lock = "none", !.paid = TRUE]
<1>1. UNCHANGED block /\ Finish(t, FALSE)
  BY Zenon DEF ReceiveUnlock
<1>2. /\ t \in TaskState /\ t.failed = task.failed /\ t.running = FALSE /\ t.lock = "none"
      /\ t.paid = TRUE /\ t.state = task.state
  BY Zenon DEF TInv, TaskInv, TaskState, Lock
<1> HIDE DEF t
<1>3. Request(FALSE) /\ UNCHANGED chain /\ task' = t
  BY Zenon, <1>1, <1>2 DEF Finish, sanity_check, is_lock_pending
<1>4. TaskInv'
  BY <1>1, <1>2, <1>3, SameBlock DEF TInv, TaskInv, is_lock_pending, LockFollowsChain
<1> QED
  BY <1>1, <1>3, <1>4, SameBlock DEF TInv

(* A LockExpired is accepted only Confirmations after the expiration.  By  *)
(* then a target that was safe has its lock on chain, so that it is not    *)
(* that target's lock that is removed.                                     *)
LEMMA ExpireKeeps ==
    ASSUME TInv, ReceiveLockExpired
    PROVE  TInv'
<1> USE PaymentChainAssumption
<1> DEFINE t == [task EXCEPT !.running = FALSE, !.lock = "none"]
<1>1. /\ UNCHANGED block /\ Finish(t, FALSE)
      /\ task.lock \in {"locked", "unlocked"} /\ block >= Expiration + Confirmations
  BY Zenon DEF ReceiveLockExpired, is_valid_lock_expired, is_lock_expired,
         get_receiver_expiration_threshold
<1>2. /\ t \in TaskState /\ t.failed = task.failed /\ t.running = FALSE /\ t.lock = "none"
      /\ t.paid = task.paid /\ t.state = task.state /\ t.safe = task.safe
  BY Zenon DEF TInv, TaskInv, TaskState, Lock
<1> HIDE DEF t
<1>3. Request(FALSE) /\ UNCHANGED chain /\ task' = t
  BY Zenon, <1>1, <1>2 DEF Finish, sanity_check, is_lock_pending
<1>4. ASSUME task.safe, ~task.paid PROVE FALSE
  <2>1. task.lock = "unlocked" /\ InTime
    BY <1>1, <1>4 DEF TInv, TaskInv
  <2>2. ~is_safe_to_wait(block)
    BY <1>1 DEF TInv, ChainTypeOK, is_safe_to_wait
  <2>3. RegisteredInTime
    BY <1>1, <2>1, <2>2
    DEF TInv, ChainTypeOK, ChainTime, InTime, RegisteredInTime, Happened
  <2> QED
    BY <1>1, <2>1, <2>3
    DEF TInv, TaskInv, ChainTypeOK, LockFollowsChain, RegisteredInTime, Happened
<1>5. TaskInv'
  BY <1>1, <1>2, <1>3, <1>4, SameBlock DEF TInv, TaskInv, is_lock_pending, LockFollowsChain
<1> QED
  BY <1>1, <1>3, <1>5, SameBlock DEF TInv

(* The registration, if it is among the blocks up to b, reaches the task:  *)
(* the payer's channel is still there, since it cannot be removed before   *)
(* the lock has expired.                                                   *)
LEMMA OnchainReveal ==
    ASSUME TInv, task.running, NEW b \in (block + 1) .. head, NEW t,
           t = IF Happened(registered, b) /\ registered > block
                    /\ Exists(Payer, registered)
               THEN handle_onchain_secretreveal(task)
               ELSE task
    PROVE  /\ t \in TaskState /\ ~t.failed /\ t.running /\ is_lock_pending(t.lock)
           /\ t.lock = "onchain" => RegisteredInTime
           /\ t.lock \in {"locked", "unlocked"} /\ Happened(registered, b)
                    => registered > Expiration
           /\ t.state = "onchain_secret_reveal" => requested # 0
           /\ t.safe => \/ t.paid
                        \/ t.lock = "onchain"
                        \/ t.lock = "unlocked" /\ InTime
<1> USE PaymentChainAssumption, TargetAssumption
<1>1. CASE Happened(registered, b) /\ registered > block /\ Exists(Payer, registered)
  <2>1. t = [task EXCEPT !.lock = register_onchain_secret(@, registered),
                         !.state = "onchain_unlock"]
    BY <1>1 DEF handle_onchain_secretreveal
  <2>2. register_onchain_secret(task.lock, registered)
            = IF task.lock \in {"locked", "unlocked"} /\ registered <= Expiration
              THEN "onchain" ELSE task.lock
    BY DEF register_onchain_secret
  <2>3. /\ t \in TaskState /\ t.failed = task.failed /\ t.running = task.running
        /\ t.safe = task.safe /\ t.paid = task.paid /\ t.state = "onchain_unlock"
        /\ t.lock = IF task.lock \in {"locked", "unlocked"} /\ registered <= Expiration
                    THEN "onchain" ELSE task.lock
    BY Zenon, <2>1, <2>2 DEF TInv, TaskInv, TaskState, State, Lock
  <2>4. /\ t.lock = "onchain" => RegisteredInTime
        /\ t.lock \in {"locked", "unlocked"} => registered > Expiration
    BY <1>1, <2>3
    DEF TInv, TaskInv, ChainTypeOK, LockFollowsChain, RegisteredInTime, Happened
  <2>5. /\ is_lock_pending(t.lock)
        /\ t.safe => \/ t.paid
                     \/ t.lock = "onchain"
                     \/ t.lock = "unlocked" /\ InTime
    BY <2>3 DEF TInv, TaskInv, is_lock_pending
  <2> QED
    BY Zenon, <2>3, <2>4, <2>5 DEF TInv, TaskInv
<1>2. CASE ~(Happened(registered, b) /\ registered > block /\ Exists(Payer, registered))
  <2>1. t = task
    BY <1>2
  <2>2. ASSUME Happened(registered, b), t.lock \in {"locked", "unlocked"}
        PROVE  registered > Expiration
    <3>1. CASE registered > block
      BY <1>2, <2>2, <3>1 DEF TInv, ChainTypeOK, ChainTime, Exists, Happened
    <3>2. CASE registered <= block
      BY <2>1, <2>2, <3>2 DEF TInv, TaskInv, LockFollowsChain, Happened
    <3> QED
      BY <3>1, <3>2 DEF TInv, ChainTypeOK
  <2> QED
    BY <2>1, <2>2 DEF TInv, TaskInv, LockFollowsChain
<1> QED
  BY <1>1, <1>2

(* Processing blocks.  The first block at which it is not safe to wait     *)
(* sends the registration, unless it is on chain already.                  *)
LEMMA SynchronizeKeeps ==
    ASSUME TInv, NEW b \in (block + 1) .. head, Synchronize(b)
    PROVE  TInv'
<1> USE PaymentChainAssumption, TargetAssumption
<1> DEFINE t == IF Happened(registered, b) /\ registered > block
                     /\ Exists(Payer, registered)
                THEN handle_onchain_secretreveal(task)
                ELSE task
           u == handle_block(t, b)
           want == ~IsExpiredNow(t, b) /\ events_for_onchain_secretreveal(t, b)
<1>0. b \in block .. (head - Confirmations) /\ block' = b
  BY DEF Synchronize, TInv, ChainTypeOK
<1>1. /\ b \in block .. (head - Confirmations) /\ block' = b
      /\ IF ~task.running THEN Finish(task, FALSE)
         ELSE IF ~Exists(Payer, b) THEN Finish(t, FALSE)
         ELSE Finish(u, want)
  BY Zenon, <1>0 DEF Synchronize
<1>2. CASE ~task.running
  <2>1. Request(FALSE) /\ UNCHANGED chain /\ task' = task
    BY Zenon, <1>1, <1>2 DEF Finish, sanity_check
  <2>2. ChainTypeOK' /\ ChainTime'
    BY Zenon, <1>1, <2>1, NodeStepTime DEF TInv
  <2>3. task.lock = "none" /\ requested' = requested
    BY <1>2, <2>1 DEF TInv, TaskInv, is_lock_pending, Request
  <2>4. TaskInv'
    BY <2>1, <2>3 DEF TInv, TaskInv, LockFollowsChain
  <2> QED
    BY <2>2, <2>4 DEF TInv
<1>3. CASE task.running
  <2>1. /\ t \in TaskState /\ ~t.failed /\ t.running /\ is_lock_pending(t.lock)
        /\ t.lock = "onchain" => RegisteredInTime
        /\ t.lock \in {"locked", "unlocked"} /\ Happened(registered, b)
                 => registered > Expiration
        /\ t.state = "onchain_secret_reveal" => requested # 0
        /\ t.safe => \/ t.paid
                     \/ t.lock = "onchain"
                     \/ t.lock = "unlocked" /\ InTime
    BY <1>3, OnchainReveal
  <2> HIDE DEF t
  <2>2. CASE ~Exists(Payer, b)
    <3>1. Request(FALSE) /\ UNCHANGED chain /\ task' = t
      BY Zenon, <1>1, <1>3, <2>1, <2>2 DEF Finish, sanity_check
    <3>2. ChainTypeOK' /\ ChainTime'
      BY Zenon, <1>1, <3>1, NodeStepTime DEF TInv
    <3>3. requested' = requested /\ registered' = registered
      BY <3>1 DEF Request, chain
    <3>4. ~is_safe_to_wait(block)
      BY <1>1, <2>2 DEF TInv, ChainTypeOK, ChainTime, Exists, Happened, is_safe_to_wait
    <3>5. InTime => InTime'
      BY <3>3, <3>4 DEF InTime, RegisteredInTime, Happened
    <3>6. LockFollowsChain(task.lock)'
      BY <1>1, <2>1, <3>1, <3>3 DEF LockFollowsChain, RegisteredInTime, Happened
    <3>7. TaskInv'
      BY <2>1, <3>1, <3>3, <3>5, <3>6 DEF TaskInv
    <3> QED
      BY <3>2, <3>7 DEF TInv
  <2>3. CASE Exists(Payer, b)
    <3>1. want \in BOOLEAN /\ (want => ~is_safe_to_wait(b))
      BY DEF IsExpiredNow, events_for_onchain_secretreveal
    <3>2. /\ u \in TaskState /\ u.failed = t.failed /\ u.running = t.running
          /\ u.safe = t.safe /\ u.paid = t.paid /\ u.lock = t.lock
          /\ u.state = "onchain_secret_reveal" => t.state = "onchain_secret_reveal" \/ want
      BY Zenon, <2>1 DEF handle_block, TaskState, State
    <3>3. want <=> /\ ~(b >= Expiration + Confirmations /\ t.state # "expired")
                   /\ ~is_safe_to_wait(b)
                   /\ t.lock = "unlocked"
                   /\ t.state # "onchain_secret_reveal"
      BY DEF IsExpiredNow, events_for_onchain_secretreveal, is_lock_expired,
             get_receiver_expiration_threshold
    <3> HIDE DEF u, want
    <3>4. Request(want) /\ UNCHANGED chain /\ task' = u
      BY <1>1, <1>3, <2>1, <2>3, <3>2 DEF Finish, sanity_check
    <3>5. ChainTypeOK' /\ ChainTime'
      BY <1>1, <3>1, <3>4, NodeStepTime DEF TInv
    <3>6. /\ registered' = registered
          /\ requested' = IF want /\ requested = 0 THEN head ELSE requested
          /\ head # 0
      BY <3>4 DEF Request, chain, TInv, ChainTypeOK
    <3>7. u.state = "onchain_secret_reveal" => requested' # 0
      BY <2>1, <3>2, <3>6
    <3>8. ASSUME t.lock = "unlocked", InTime PROVE InTime'
      <4>1. CASE is_safe_to_wait(b)
        BY <1>1, <4>1 DEF InTime
      <4>2. CASE ~is_safe_to_wait(b) /\ is_safe_to_wait(block)
        <5>1. head + TransactionTime < Expiration
          BY <4>2, RequestedEarlyEnough DEF TInv
        <5>2. requested = 0 /\ t.state # "onchain_secret_reveal"
          BY <2>1, <4>2 DEF TInv, ChainTime
        <5>3. want
          BY <1>1, <3>3, <3>8, <4>2, <5>1, <5>2 DEF TInv, ChainTypeOK
        <5> QED
          BY <3>6, <5>1, <5>2, <5>3 DEF InTime
      <4>3. CASE ~is_safe_to_wait(block)
        BY <3>6, <3>8, <4>3 DEF InTime, RegisteredInTime, Happened
      <4> QED
        BY <4>1, <4>2, <4>3
    <3>9. LockFollowsChain(task.lock)'
      BY <1>1, <2>1, <3>2, <3>4, <3>6 DEF LockFollowsChain, RegisteredInTime, Happened
    <3>10. TaskInv'
      BY Zenon, <2>1, <3>2, <3>4, <3>7, <3>8, <3>9 DEF TaskInv
    <3> QED
      BY <3>5, <3>10 DEF TInv
  <2> QED
    BY <2>2, <2>3
<1> QED
  BY <1>2, <1>3

-----------------------------------------------------------------------------
(* The chain is empty and there is no task.                                *)
LEMMA TargetInit == Init => TInv
BY PaymentChainAssumption
DEF Init, ChainInit, TInv, ChainTypeOK, ChainTime, TaskInv, TaskState, NoTask, State, Lock,
    LockFollowsChain, is_lock_pending

(* Every action keeps the invariant.                                       *)
LEMMA TargetStep == TInv /\ [Next]_vars => TInv'
<1> SUFFICES ASSUME TInv, [Next]_vars PROVE TInv'
  OBVIOUS
<1>1. ASSUME NEW register \in BOOLEAN, NEW closing \in SUBSET Channel,
             NEW settling \in SUBSET Channel,
             MineBlock(register, closing, settling), UNCHANGED task
      PROVE  TInv'
  BY <1>1, MineBlockTime, MineBlockKeepsTask DEF TInv
<1>2. ASSUME NEW encrypted \in BOOLEAN, ReceiveLockedTransfer(encrypted) PROVE TInv'
  BY <1>2, StartKeeps
<1>3. CASE ReceiveSecretReveal
  BY <1>3, RevealKeeps
<1>4. CASE ReceiveUnlock
  BY <1>4, UnlockKeeps
<1>5. CASE ReceiveLockExpired
  BY <1>5, ExpireKeeps
<1>6. ASSUME NEW b \in (block + 1) .. head, Synchronize(b) PROVE TInv'
  BY <1>6, SynchronizeKeeps
<1>7. CASE UNCHANGED vars
  BY <1>7 DEF vars, TInv, TaskInv, ChainTypeOK, ChainTime, LockFollowsChain, InTime,
              RegisteredInTime, Happened, is_safe_to_wait
<1> QED
  BY <1>1, <1>2, <1>3, <1>4, <1>5, <1>6, <1>7 DEF Next

(* A target that revealed the secret while it was safe to wait is paid,    *)
(* off chain or on chain, for every RevealTimeout that is at least the     *)
(* confirmations, the lag and the time of a transaction together           *)
(* (handle_offchain_secretreveal, events_for_onchain_secretreveal).        *)
THEOREM RevealedSecretAlwaysPaid == Spec => []RevealedSecretIsPaid
<1>1. TInv /\ head > Expiration /\ InTime => RegisteredInTime
  BY PaymentChainAssumption
  DEF TInv, ChainTypeOK, ChainTime, InTime, RegisteredInTime, Happened, is_safe_to_wait
<1>2. TInv => RevealedSecretIsPaid
  BY <1>1 DEF TInv, TaskInv, LockFollowsChain, RevealedSecretIsPaid, is_lock_pending
<1> QED
  BY <1>2, TargetInit, TargetStep, PTL DEF Spec

(* The assertions of sanity_check in target.py never fail.                 *)
THEOREM TaskAlwaysRunsWhileLockPending == Spec => []TaskRunsWhileLockPending
<1>1. TInv => TaskRunsWhileLockPending
  BY DEF TInv, TaskInv, TaskRunsWhileLockPending
<1> QED
  BY <1>1, TargetInit, TargetStep, PTL DEF Spec
=============================================================================
