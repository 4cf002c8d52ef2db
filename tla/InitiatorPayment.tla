-------------------------- MODULE InitiatorPayment --------------------------
(***************************************************************************)
(* Payments of one node: the initiator task                                *)
(* (transfer/mediated_transfer/initiator.py, initiator_manager.py), its    *)
(* dispatch in transfer/node.py and the life of a PaymentStatus in         *)
(* raiden_service.py and raiden_event_handler.py.                          *)
(*                                                                         *)
(* The node pays one target over one of its channels, each the first hop   *)
(* of one route.  A refund makes it try the next route with a new secret:  *)
(* the task is copied, so that a payment may have several tasks.  The next *)
(* hops and the target follow the protocol: a hop forwards a transfer or   *)
(* refunds it, never both, and learns a secret only after the node has     *)
(* revealed it to the target.  Everything they send may be late or         *)
(* repeated.                                                               *)
(***************************************************************************)
EXTENDS Integers, Sequences

CONSTANTS Channel,       \* channels of the node, 1 .. n, in the order of the routes
          MaxPayments,   \* calls of the payment API
          MaxSecrets,    \* secrets that are drawn
          Instances,     \* bounds of a behaviour: [payments, secrets, blocks, restarts,
                         \*   duplicates: refunds that are delivered again]
          LockTimeout,   \* blocks until a new lock expires
          RemovalWait,   \* DEFAULT_WAIT_BEFORE_LOCK_REMOVAL
          SameIdentifier \* do all payments have the same payment_identifier?

ASSUME ConstantsAssumption ==
  /\ Channel \subseteq Nat \ {0}
  /\ {MaxPayments, MaxSecrets, LockTimeout, RemovalWait} \subseteq Nat
  /\ Instances \subseteq [payments : 0 .. MaxPayments, secrets : 0 .. MaxSecrets, blocks : Nat,
                       restarts : Nat, duplicates : Nat]
  /\ SameIdentifier \in BOOLEAN

Payment == 1 .. MaxPayments
Secret == 1 .. MaxSecrets

VARIABLES
  inst,     \* the bounds of this behaviour
  block,    \* block number of the node
  chans,    \* [channel -> [status, locked, unlocked (on-chain): locks of ours,
            \*             theirs: locks of refunds, taken: refunds received]]
  usable,   \* channels with the capacity, and routes within the fee limit
  tasks,    \* secrethashes_to_task
  expiry,   \* [secret -> expiration of its lock]
  drawn,    \* secrets drawn so far
  statuses, \* targets_to_identifiers_to_statuses: [payment whose identifier it is -> payment or 0]
  result,   \* [payment -> what its caller was told]
  starting, \* payments between their status and their state change
  events,   \* payment events whose greenlets have not run
  refunds,  \* RefundTransfers read by the message handler, not yet dispatched
  hop,      \* [secret -> what the next hop did with the transfer]
  known,    \* secrets the target knows
  registered,
  paid,     \* [payment -> secrets that were unlocked for it]
  calls, duplicates, restarts,
  failure   \* the exception that stopped the node

fixed == <<usable, inst>>
payvars == <<statuses, result, starting, events, calls>>
envvars == <<hop, known, registered, duplicates>>
nodevars == <<block, chans, tasks, expiry, drawn, refunds, paid>>
vars == <<payvars, envvars, nodevars, fixed, restarts, failure>>

\* The identifier of a payment is the first payment that has it
Identifier(p) == IF SameIdentifier THEN 1 ELSE p

Attempt(c) == [channel |-> c, state |-> "pending", requested |-> FALSE]
Task(p, attempts) == [payment |-> p, attempts |-> attempts, cancelled |-> {}]
EmptyFunction == [x \in {} |-> x]
With(f, x, y) == [z \in DOMAIN f \cup {x} |-> IF z = x THEN y ELSE f[z]]
Without(f, x) == [z \in DOMAIN f \ {x} |-> f[z]]

Open(c) == chans[c].status = "opened"
Exists(c) == chans[c].status # "gone"

\* An event of the attempt s in the task t
Event(kind, p, t, s) == [kind |-> kind, payment |-> p, task |-> t, attempt |-> s]

\* channel.is_lock_expired of a lock of ours
IsLockExpired(cs, c, s, threshold) == s \notin cs[c].unlocked /\ block >= threshold

Init ==
  /\ inst \in Instances
  /\ block = 1
  /\ chans = [c \in Channel |-> [status |-> "opened", locked |-> {}, unlocked |-> {}, theirs |-> {},
                          taken |-> {}]]
  /\ usable \in SUBSET Channel
  /\ tasks = EmptyFunction /\ expiry = [s \in Secret |-> 0] /\ drawn = 0
  /\ statuses = [p \in Payment |-> 0] /\ result = [p \in Payment |-> "none"]
  /\ starting = {} /\ events = {} /\ refunds = <<>>
  /\ hop = [s \in Secret |-> "none"] /\ known = {} /\ registered = {}
  /\ paid = [p \in Payment |-> {}]
  /\ calls = 0 /\ duplicates = 0 /\ restarts = 0 /\ failure = "none"

Running == failure = "none"

(***************************************************************************)
(* initiator.py                                                            *)
(***************************************************************************)

\* try_new_route: the first route with a usable channel; 0 when there is none
TryNewRoute(candidates) ==
  LET fit == {c \in candidates : Open(c) /\ c \in usable} IN
  IF fit = {} THEN 0 ELSE CHOOSE c \in fit : \A d \in fit : c <= d

\* send_lockedtransfer; get_safe_initial_expiration
SendLockedTransfer(cs, c, s) ==
  /\ chans' = [cs EXCEPT ![c].locked = @ \cup {s}]
  /\ expiry' = [expiry EXCEPT ![s] = block + LockTimeout]
  /\ hop' = [hop EXCEPT ![s] = "has"]

\* events_for_unlock_lock: the lock is gone, the payment is done
Unlocked(cs, c, s) == [cs EXCEPT ![c].locked = @ \ {s}, ![c].unlocked = @ \ {s}]

\* filter_acceptable_routes
FilterAcceptableRoutes(task) == {c \in Channel : Exists(c) /\ c \notin task.cancelled}

\* cancel_other_transfers
CancelOtherTransfers(attempts) == [s \in DOMAIN attempts |-> [attempts[s] EXCEPT !.state = "cancelled"]]

\* can_cancel
CanCancel(attempt) == attempt.state # "revealed"

\* clear_if_finalized, and the deletion of the task in node.py
Finalized(ts, t, attempts) ==
  IF DOMAIN attempts = {} THEN Without(ts, t) ELSE [ts EXCEPT ![t].attempts = attempts]

\* The payment of the secret s is unlocked by the task that has it as its key
UnlockPayment(s) ==
  LET task == tasks[s]
      c == task.attempts[s].channel
  IN /\ chans' = Unlocked(chans, c, s)
     /\ paid' = [paid EXCEPT ![task.payment] = @ \cup {s}]
     /\ events' = events \cup {Event("success", task.payment, s, s)}
     /\ tasks' = Finalized(tasks, s, CancelOtherTransfers(Without(task.attempts, s)))

HasAttempt(s) == s \in DOMAIN tasks /\ s \in DOMAIN tasks[s].attempts

\* handle_offchain_secretreveal, from the partner of the channel
ReceiveSecretReveal(s) ==
  /\ Running /\ s \in known /\ HasAttempt(s)
  /\ LET c == tasks[s].attempts[s].channel IN
     IF tasks[s].attempts[s].state = "cancelled"
     THEN /\ failure' = "reveal for cancelled transfer"
          /\ UNCHANGED <<chans, paid, events, tasks>>
     ELSE /\ Open(c) /\ ~IsLockExpired(chans, c, s, expiry[s])
          /\ UnlockPayment(s)
          /\ UNCHANGED failure
  /\ UNCHANGED <<block, expiry, drawn, refunds, statuses, result, starting, calls, envvars, fixed,
                 restarts>>

\* handle_onchain_secretreveal: the registration is in the next block, whose
\* events are dispatched before its Block
ContractReceiveSecretReveal(s) ==
  /\ Running /\ s \in known \ registered
  /\ registered' = registered \cup {s}
  /\ IF ~HasAttempt(s) THEN UNCHANGED <<chans, paid, events, tasks, failure>>
     ELSE LET c == tasks[s].attempts[s].channel
              intime == block + 1 <= expiry[s]
              cs == IF intime /\ s \in chans[c].locked
                    THEN [chans EXCEPT ![c].locked = @ \ {s}, ![c].unlocked = @ \cup {s}]
                    ELSE chans
          IN IF tasks[s].attempts[s].state = "cancelled"
             THEN /\ failure' = "reveal for cancelled transfer"
                  /\ UNCHANGED <<chans, paid, events, tasks>>
             ELSE /\ UNCHANGED failure
                  /\ IF Exists(c) /\ intime /\ Open(c) /\ ~IsLockExpired(cs, c, s, expiry[s])
                     THEN UnlockPayment(s)
                     ELSE /\ chans' = IF Exists(c) THEN cs ELSE chans
                          /\ UNCHANGED <<paid, events, tasks>>
  /\ UNCHANGED <<block, expiry, drawn, refunds, statuses, result, starting, calls, hop, known,
                 duplicates, fixed, restarts>>

\* handle_secretrequest: the first one decides
ReceiveSecretRequest(s, valid) ==
  /\ Running /\ hop[s] = "forwarded" /\ HasAttempt(s)
  /\ LET attempt == tasks[s].attempts[s]
         c == attempt.channel
     IN /\ attempt.state # "cancelled" /\ Exists(c)
        /\ IF s \notin chans[c].locked \cup chans[c].unlocked
           THEN /\ failure' = "channel does not have the transfer's lock"
                /\ UNCHANGED <<tasks, known>>
           ELSE /\ UNCHANGED failure
                /\ ~attempt.requested
                /\ tasks' = [tasks EXCEPT ![s].attempts[s] =
                     [attempt EXCEPT !.requested = TRUE, !.state = IF valid THEN "revealed" ELSE @]]
                /\ known' = IF valid THEN known \cup {s} ELSE known
  /\ UNCHANGED <<block, chans, expiry, drawn, refunds, paid, payvars, hop, registered,
                 duplicates, fixed, restarts>>

\* The attempts a block is dispatched to: every attempt of every task, the
\* copies that reroutes have made included, in the order of the tasks
InTask(s, t) == t \in DOMAIN tasks /\ s \in DOMAIN tasks[t].attempts
FirstTask(s, t) == \A u \in 1 .. (t - 1) : ~InTask(s, u)

\* mutant: a revealed transfer does not expire
Expires_Pending(t, s) ==
  /\ InTask(s, t)
  /\ LET attempt == tasks[t].attempts[s]
         c == attempt.channel
     IN /\ Exists(c) /\ s \in chans[c].locked
        /\ block + 1 >= expiry[s] + RemovalWait /\ attempt.state = "pending"
        /\ Open(c) => FirstTask(s, t)

\* handle_block of the attempt s in the task t: the lock has expired.  In an
\* open channel the first copy sends the LockExpired, which removes the lock.
Expires(t, s) ==
  /\ InTask(s, t)
  /\ LET attempt == tasks[t].attempts[s]
         c == attempt.channel
     IN /\ Exists(c) /\ s \in chans[c].locked
        /\ block + 1 >= expiry[s] + RemovalWait /\ attempt.state # "expired"
        /\ Open(c) => FirstTask(s, t)

LocksAfterBlock(c) ==
  IF Open(c) THEN {s \in chans[c].locked : ~\E t \in Secret : Expires(t, s)} ELSE chans[c].locked

\* mutant: the lock of a refund does not count
StaysAfterBlock_OursOnly(t, s) ==
  LET c == tasks[t].attempts[s].channel IN ~Exists(c) \/ s \in LocksAfterBlock(c)

\* The attempt stays while its lock is on either side
StaysAfterBlock(t, s) ==
  LET c == tasks[t].attempts[s].channel IN
  ~Exists(c) \/ s \in LocksAfterBlock(c) \cup chans[c].theirs

AttemptsAfterBlock(t) ==
  [s \in {x \in DOMAIN tasks[t].attempts : StaysAfterBlock(t, x)} |->
     IF Expires(t, s) THEN [tasks[t].attempts[s] EXCEPT !.state = "expired"]
                      ELSE tasks[t].attempts[s]]

\* subdispatch_to_all_lockedtransfers, clear_if_finalized
HandleBlock ==
  /\ Running /\ block < inst.blocks
  /\ block' = block + 1
  /\ chans' = [c \in Channel |-> [chans[c] EXCEPT !.locked = LocksAfterBlock(c)]]
  /\ events' = events \cup
       {Event("failed", tasks[q[1]].payment, q[1], q[2]) : q \in {x \in Secret \X Secret : Expires(x[1], x[2])}}
  /\ tasks' = [t \in {u \in DOMAIN tasks : DOMAIN AttemptsAfterBlock(u) # {}} |->
                 [tasks[t] EXCEPT !.attempts = AttemptsAfterBlock(t)]]
  /\ UNCHANGED <<expiry, drawn, refunds, paid, statuses, result, starting, calls, envvars,
                 fixed, restarts, failure>>

(***************************************************************************)
(* Refunds                                                                 *)
(***************************************************************************)

\* handle_message_refundtransfer: the role is looked up and a secret drawn
\* before the state changes are dispatched with the rest of the batch
HandleMessageRefundTransfer(s) ==
  /\ Running /\ s \in DOMAIN tasks /\ drawn < inst.secrets
  /\ block + LockTimeout + RemovalWait <= inst.blocks
  /\ \/ hop[s] = "refunding" /\ hop' = [hop EXCEPT ![s] = "refunded"] /\ UNCHANGED duplicates
     \/ hop[s] = "refunded" /\ duplicates < inst.duplicates /\ duplicates' = duplicates + 1
          /\ UNCHANGED hop
  /\ drawn' = drawn + 1
  /\ refunds' = Append(refunds, [refunded |-> s, secret |-> drawn + 1])
  /\ UNCHANGED <<block, chans, tasks, expiry, paid, payvars, known, registered, fixed,
                 restarts, failure>>

\* handle_failroute, cancel_current_route
HandleFailRoute(task, s) ==
  IF s \in DOMAIN task.attempts /\ CanCancel(task.attempts[s])
  THEN [task EXCEPT !.cancelled = @ \cup {task.attempts[s].channel}]
  ELSE task

\* mutant: the nonce is not checked
RefundIsValid_AnyNonce(c, s) == Open(c)

\* handle_receive_lockedtransfer: a refund is taken once, by an open channel
RefundIsValid(c, s) == Open(c) /\ s \notin chans[c].taken

\* handle_transferreroute, in the copy of the task
HandleTransferReroute(copy, s, n) ==
  LET c == copy.attempts[s].channel
      cs == [chans EXCEPT ![c].theirs = @ \cup {s}, ![c].taken = @ \cup {s}]
      route == TryNewRoute(FilterAcceptableRoutes(copy))
  IN IF s \notin DOMAIN copy.attempts \/ ~RefundIsValid(c, s)
     THEN /\ tasks' = With([tasks EXCEPT ![s] = HandleFailRoute(tasks[s], s)], n, copy)
          /\ UNCHANGED <<chans, expiry, hop, events>>
     ELSE IF route = 0
     THEN /\ tasks' = With([tasks EXCEPT ![s] = HandleFailRoute(tasks[s], s)], n, copy)
          /\ chans' = cs
          /\ events' = events \cup {Event("failed", copy.payment, n, n)}
          /\ UNCHANGED <<expiry, hop>>
     ELSE /\ tasks' = With([tasks EXCEPT ![s] = HandleFailRoute(tasks[s], s)], n,
                           [copy EXCEPT !.attempts = With(@, n, Attempt(route))])
          /\ SendLockedTransfer(cs, route, n)
          /\ UNCHANGED events

\* ReceiveTransferCancelRoute, then ActionTransferReroute of the same batch:
\* handle_action_transfer_reroute copies the task
DispatchRefund ==
  /\ Running /\ refunds # <<>>
  /\ refunds' = Tail(refunds)
  /\ LET s == Head(refunds).refunded
         n == Head(refunds).secret
     IN IF s \notin DOMAIN tasks
        THEN failure' = "no task to reroute" /\ UNCHANGED <<tasks, chans, expiry, hop, events>>
        ELSE /\ HandleTransferReroute(HandleFailRoute(tasks[s], s), s, n)
             /\ UNCHANGED failure
  /\ UNCHANGED <<block, drawn, paid, statuses, result, starting, calls, known, registered,
                 duplicates, fixed, restarts>>

\* handle_lock_expired of a refund's lock
ReceiveLockExpired(s, c) ==
  /\ Running /\ s \in chans[c].theirs /\ Open(c)
  /\ block >= expiry[s] + RemovalWait
  /\ HasAttempt(s)
  /\ chans' = [chans EXCEPT ![c].theirs = @ \ {s}]
  /\ UNCHANGED <<block, tasks, expiry, drawn, refunds, paid, payvars, envvars, fixed, restarts,
                 failure>>

(***************************************************************************)
(* raiden_service.py: the status of a payment                              *)
(***************************************************************************)

\* mediated_transfer_async under payment_identifier_lock: a payment with the
\* identifier of one in flight gets the status of that one
MediatedTransferAsync ==
  LET p == calls + 1
      i == Identifier(p)
  IN /\ Running /\ calls < inst.payments
     /\ calls' = p
     /\ IF statuses[i] # 0
        THEN /\ result' = [result EXCEPT ![p] = "joined"]
             /\ UNCHANGED <<statuses, starting>>
        ELSE /\ statuses' = [statuses EXCEPT ![i] = p]
             /\ result' = [result EXCEPT ![p] = "waiting"]
             /\ starting' = starting \cup {p}
     /\ UNCHANGED <<nodevars, envvars, events, fixed, restarts, failure>>

\* initiator_init found no route: the caller is told, the status stays
NoRoute(p) ==
  /\ Running /\ p \in starting
  /\ starting' = starting \ {p}
  /\ result' = [result EXCEPT ![p] = IF @ = "waiting" THEN "failed" ELSE @]
  /\ UNCHANGED <<nodevars, envvars, statuses, events, calls, fixed, restarts, failure>>

\* initiator_init found the routes; handle_init
ActionInitInitiator(p) ==
  /\ Running /\ p \in starting /\ drawn < inst.secrets
  /\ block + LockTimeout + RemovalWait <= inst.blocks
  /\ starting' = starting \ {p}
  /\ drawn' = drawn + 1
  /\ LET c == TryNewRoute(Channel)
         s == drawn + 1
     IN IF c = 0
        THEN /\ events' = events \cup {Event("failed", p, s, s)}
             /\ UNCHANGED <<tasks, chans, expiry, hop>>
        ELSE /\ tasks' = With(tasks, s, Task(p, [x \in {s} |-> Attempt(c)]))
             /\ SendLockedTransfer(chans, c, s)
             /\ UNCHANGED events
  /\ UNCHANGED <<block, refunds, paid, statuses, result, calls, known, registered, duplicates,
                 fixed, restarts, failure>>

\* handle_paymentsentsuccess: the status of the identifier is popped
HandlePaymentSentSuccess(i) ==
  IF statuses[i] = 0
  THEN failure' = "no status for the payment" /\ UNCHANGED <<statuses, result>>
  ELSE /\ result' = [result EXCEPT ![statuses[i]] = IF @ = "waiting" THEN "success" ELSE @]
       /\ statuses' = [statuses EXCEPT ![i] = 0]
       /\ UNCHANGED failure

\* mutant: a failure is handled as a success
HandlePaymentSentFailed_Success(i) == HandlePaymentSentSuccess(i)

\* handle_paymentsentfailed: a missing status is ignored
HandlePaymentSentFailed(i) ==
  /\ statuses' = [statuses EXCEPT ![i] = 0]
  /\ result' = IF statuses[i] # 0 /\ result[statuses[i]] = "waiting"
               THEN [result EXCEPT ![statuses[i]] = "failed"] ELSE result
  /\ UNCHANGED failure

\* The greenlets of the events run in any order: the handler of a success
\* first posts feedback to the path finding service
HandleEvent(e) ==
  /\ Running
  /\ events' = events \ {e}
  /\ IF e.kind = "success" THEN HandlePaymentSentSuccess(Identifier(e.payment))
     ELSE HandlePaymentSentFailed(Identifier(e.payment))
  /\ UNCHANGED <<nodevars, envvars, starting, calls, fixed, restarts>>

\* The process ends and is started again: the state is restored, messages
\* that were not processed arrive again, and _initialize_payment_statuses
\* makes a status for every task
Restart ==
  /\ restarts < inst.restarts
  /\ restarts' = restarts + 1
  /\ failure' = "none" /\ starting' = {} /\ events' = {} /\ refunds' = <<>>
  /\ result' = [p \in Payment |-> IF result[p] = "waiting" THEN "lost" ELSE result[p]]
  /\ statuses' \in [Payment -> Payment \cup {0}]
  /\ \A i \in Payment :
       LET owners == {tasks[t].payment : t \in {u \in DOMAIN tasks : Identifier(tasks[u].payment) = i}}
       IN IF owners = {} THEN statuses'[i] = 0 ELSE statuses'[i] \in owners
  /\ hop' = [s \in Secret |-> IF \E k \in DOMAIN refunds : refunds[k].refunded = s
                               THEN "refunding" ELSE hop[s]]
  /\ UNCHANGED <<block, chans, tasks, expiry, drawn, paid, calls, known, registered, duplicates,
                 fixed>>

(***************************************************************************)
(* The environment (external): the next hops and the blockchain            *)
(***************************************************************************)
HopForwards(s) ==
  /\ hop[s] = "has" /\ hop' = [hop EXCEPT ![s] = "forwarded"]
  /\ UNCHANGED <<nodevars, payvars, known, registered, duplicates, fixed, restarts, failure>>

HopRefunds(s) ==
  /\ hop[s] = "has" /\ hop' = [hop EXCEPT ![s] = "refunding"]
  /\ UNCHANGED <<nodevars, payvars, known, registered, duplicates, fixed, restarts, failure>>

\* ContractReceiveChannelClosed
ChannelClosed(c) ==
  /\ Running /\ Open(c)
  /\ chans' = [chans EXCEPT ![c].status = "closed"]
  /\ UNCHANGED <<block, tasks, expiry, drawn, refunds, paid, payvars, envvars, fixed, restarts,
                 failure>>

\* The settled channel is removed from the state
ChannelSettled(c) ==
  /\ Running /\ chans[c].status = "closed"
  /\ chans' = [chans EXCEPT ![c].status = "gone"]
  /\ UNCHANGED <<block, tasks, expiry, drawn, refunds, paid, payvars, envvars, fixed, restarts,
                 failure>>

Next ==
  \/ MediatedTransferAsync \/ HandleBlock \/ DispatchRefund \/ Restart
  \/ \E p \in Payment : NoRoute(p) \/ ActionInitInitiator(p)
  \/ \E e \in events : HandleEvent(e)
  \/ \E s \in Secret :
       \/ ReceiveSecretReveal(s) \/ ContractReceiveSecretReveal(s)
       \/ \E valid \in BOOLEAN : ReceiveSecretRequest(s, valid)
       \/ HandleMessageRefundTransfer(s)
       \/ HopForwards(s) \/ HopRefunds(s)
  \/ \E c \in Channel :
       \/ ChannelClosed(c) \/ ChannelSettled(c)
       \/ \E s \in Secret : ReceiveLockExpired(s, c)

Spec == Init /\ [][Next]_vars

\* The greenlets of the node run and blocks are mined
Fairness ==
  /\ WF_vars(HandleBlock)
  /\ WF_vars(\E p \in Payment : NoRoute(p) \/ ActionInitInitiator(p))
  /\ WF_vars(\E e \in events : HandleEvent(e))

LiveSpec == Spec /\ Fairness

-----------------------------------------------------------------------------
Failures == {"none", "no status for the payment", "no task to reroute",
             "reveal for cancelled transfer", "channel does not have the transfer's lock"}

\* Types; a task is deleted with its last attempt (clear_if_finalized), as
\* _initialize_payment_statuses needs it.
TypeOK ==
  /\ block \in Nat /\ block <= inst.blocks + 1 /\ drawn \in 0 .. MaxSecrets /\ failure \in Failures
  /\ DOMAIN tasks \subseteq 1 .. drawn
  /\ \A t \in DOMAIN tasks :
       /\ tasks[t].payment \in Payment /\ tasks[t].cancelled \subseteq Channel
       /\ DOMAIN tasks[t].attempts \subseteq 1 .. t /\ DOMAIN tasks[t].attempts # {}
       /\ \A s \in DOMAIN tasks[t].attempts :
            tasks[t].attempts[s] \in [channel : Channel, requested : BOOLEAN,
                                     state : {"pending", "revealed", "cancelled", "expired"}]
  /\ statuses \in [Payment -> 0 .. MaxPayments]
  /\ result \in [Payment -> {"none", "waiting", "joined", "success", "failed", "lost"}]

\* However often a refund makes the node try another route, and however late
\* the messages of the earlier attempts are, a payment is paid once
\* (handle_transferreroute, cancel_other_transfers).
PaidAtMostOnce == \A p \in Payment : \A s, t \in paid[p] : s = t

\* A caller is told of a success only when a payment with its identifier was
\* unlocked, whatever events of earlier payments and attempts are still to be
\* handled (handle_paymentsentsuccess pops by identifier).
SuccessMeansPaid ==
  \A p \in Payment : result[p] = "success" =>
    \E q \in Payment : Identifier(q) = Identifier(p) /\ paid[q] # {}

\* A lock of ours in an open channel has a task with its attempt, which alone
\* can unlock it or let it expire; so has the lock of a refund, which alone
\* can take the LockExpired of the partner (handle_block keeps the task,
\* https://github.com/raiden-network/raiden/issues/3183).
LocksHaveTasks ==
  \A c \in Channel, s \in Secret :
    Open(c) /\ s \in chans[c].locked \cup chans[c].theirs =>
      HasAttempt(s) /\ tasks[s].attempts[s].channel = c

\* The assertions of initiator.py and initiator_manager.py hold: a cancelled
\* transfer is never revealed, a secret request finds the lock of its attempt.
AssertionsHold ==
  failure \notin {"reveal for cancelled transfer", "channel does not have the transfer's lock"}

\* Tasks and locks belong together: every pending lock has the task that ends it
\* (handle_block), and no task finds that its lock is gone or that it reveals a
\* secret after it was cancelled (the assertions of both files).
TasksMatchLocks == LocksHaveTasks /\ AssertionsHold

\* handle_paymentsentsuccess: "we should always get here only once per
\* identifier so payment_status should always exist".
StatusExistsOnSuccess == failure # "no status for the payment"

\* The payments that were called with the identifier of p
SharesIdentifier(p) == {q \in Payment : q <= calls /\ Identifier(q) = Identifier(p)}

\* As long as nothing was refunded, a payment that was reported as failed is
\* never paid, neither by a late reveal nor by a registration on the chain
\* (the lock stays until DEFAULT_WAIT_BEFORE_LOCK_REMOVAL blocks after its end).
\* A payment under an identifier that is used again has its own answer as long
\* as no channel is closed.
FailedIsNotPaid ==
  (\A s \in Secret : hop[s] \notin {"refunding", "refunded"}) =>
    \A p \in Payment :
      /\ result[p] = "failed"
      /\ SharesIdentifier(p) \subseteq {p} \/ \A c \in Channel : Open(c)
      => paid[p] = {}

\* handle_paymentsentfailed: a payment may fail twice, "the lock expiration
\* will generate a second EventPaymentSentFailed message which we can ignore
\* here", so that every failure is that of the payment.
SecondFailureIgnored == \A p \in Payment : result[p] = "failed" => paid[p] = {}

\* What the caller is told is what happened, success or failure
\* (handle_paymentsentsuccess, handle_paymentsentfailed).
AnswerIsRight == SuccessMeansPaid /\ FailedIsNotPaid

\* Every caller gets an answer while the channels stay open and no exception
\* ends the node (handle_block fails the payment of every lock that expires).
PaymentResolved ==
  \A p \in 1 .. MaxPayments :
    (result[p] = "waiting") ~>
      (result[p] # "waiting" \/ failure # "none" \/ \E c \in Channel : ~Open(c))
=============================================================================
