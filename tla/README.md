# A TLA+ model of the Raiden node

This directory holds TLA+ specifications of the code in `raiden/`, the TLC
configurations that check them on small instances, and TLAPS proofs about the
channel protocol, the three payment tasks, the contract proxies and the queries
for routes for every value of their constants. `PROJECT.json` is the machine-readable side: which
definition models which lines, which run checks which property, which mutated
definition each property is known to catch, and the hazards the properties were
chosen for.

## The system

A Raiden node is one process. A deterministic state machine, `transfer/`,
turns state changes (messages, confirmed blockchain events, user actions) into
a new state and events. Around it, `raiden_service.py` writes every state
change to a log, feeds it in, and hands the events to `raiden_event_handler.py`
(messages to the transport, transactions to the contract proxies). Everything
runs in greenlets of one process: another greenlet runs only where one waits
for the Ethereum node, a server, a lock or a timer. Those are the places where
a model has a step boundary.

| Part | Source | Model |
| --- | --- | --- |
| Channel end: balance proof, locks, checks | `transfer/channel.py`, `transfer/state.py` | `ChannelState` |
| Transfers between two nodes | `transfer/channel.py`, `message_handler.py`, `raiden_service.py` | `NettingChannel` |
| What a channel promises | | `PaymentLedger` (abstract) |
| Withdraw and cooperative settlement | `transfer/channel.py` | `ChannelWithdraw` |
| Chain as a payment task sees it | `mediator.py`, `channel.py`, `raiden_service.py` | `PaymentChain` |
| Mediator task | `mediated_transfer/mediator.py`, `node.py` | `Mediator` |
| Target task | `mediated_transfer/target.py`, `node.py` | `Target` |
| Initiator task, payment manager, payment status | `initiator.py`, `initiator_manager.py`, `raiden_service.py`, `raiden_event_handler.py` | `InitiatorPayment` |
| Token network proxy | `network/proxies/token_network.py` | `TokenNetworkProxy` |
| Open, deposit, close, update, settle, unlock | `channel.py`, `token_network.py`, `node.py`, `raiden_event_handler.py`, `storage/restore.py` | `ChannelSettlement` |
| Log, snapshots, restart, queues, transport | `raiden_service.py`, `storage/`, `node.py`, `network/transport/matrix/transport.py` | `NodeService` |
| Alarm task, event batches, state of the channels | `tasks.py`, `blockchain/`, `raiden_service.py` | `ChainSync` |
| Calls of the user | `api/rest.py`, `api/python.py`, `waiting.py` | `ChannelApi` |
| JSON-RPC client: nonces, polling | `network/rpc/client.py` | `EthClient` |
| User deposit, secret registry, token, registry proxies | `network/proxies/` | `ServiceContracts`, `ContractProxies` |
| Routes, IOUs, feedback | `routing.py`, `network/pathfinding.py` | `PathQueries` |

The compositions: `ChannelWithdraw` extends `NettingChannel`, with which it
shares nonces and locks. `ChannelSettlement` and `ChainSync` run the functions
of `TokenNetworkProxy` against the same contract record, `ChannelApi` extends
`ChainSync`, and `ContractProxies` extends `EthClient` over `ServiceContracts`.

## Modules

**`ChannelState`** holds the data and pure functions of one channel: a
`NettingChannelEndState` as a record, the three lock dictionaries as sets
(`locked`, `unlocked`, `onchain` for `secrethashes_to_lockedlocks`,
`..._unlockedlocks`, `..._onchain_unlockedlocks`), the list of pending locks
as a sequence, and the checks a receiver makes (`is_valid_lockedtransfer`,
`is_valid_unlock`, `is_valid_lock_expired`). Two abstractions: a locksroot is
the list of locks it is the hash of, and a signature is always that of the
sender. The sum of a set of locks is the number of its tokens, so that the
module needs no recursion.

**`NettingChannel`** is two nodes with `our` and `partner` end states each,
the chain (`head`, `registered`, `total_deposit` per block) and `sent`, every
message a node has sent. A node may receive any message that was ever sent,
at any time and any number of times: loss, delay, duplication and reordering
are all covered by that, and by never receiving it. `Synchronize(n, b)` is
one call of the alarm task: the node processes the confirmed blocks up to `b`
at once, in the code's order (secret registrations and deposits, then the
block). The two nodes are independent, so each sees a chain of its own age.
The payment tasks are free to send a lock, unlock it once the secret is known
and expire it once it may be expired. `IsNewPayment` is what they guarantee: a
channel has one pending lock of a payment at most. The secret of a new lock may
be registered already, because a mediator forwards a waiting transfer whenever a
route is free again (`mediator.py:1097`).

**`PaymentLedger`** is what a channel promises: one copy, no messages, and a
participant locks, pays and gets back only what it owns.

**`ChannelWithdraw`** extends `NettingChannel` with `withdraws_pending`,
`withdraws_expired`, `onchain_total_withdraw` and `initiated_coop_settle` of
both ends, and with the transactions the nodes send. Withdraw messages take
their nonces from the same sequence as transfers. A transaction may be mined
in any later block, or never, and the contract refuses it once it has expired.
A signature is the pair of total and expiration it signs.

**`PaymentChain`** is the chain for the task of one payment: `closed` and
`settled` of its channels, the block the secret was `registered` in, and the
node's own registration, `requested`. It has the two assumptions the timeouts
of the code are there for: a node processes a confirmed block within
`MaxLag` blocks, and a transaction is mined within `TransactionTime`, with
`RevealTimeout >= Confirmations + MaxLag + TransactionTime`.

**`Mediator`** is the mediator's task with its list of pairs, its waiting
transfer and the locks of the payment in every channel involved. Each handler
of `mediator.state_transition` is an operator from task to task with the
source's name, and every action ends with `clear_if_finalized` and
`sanity_check` as `state_transition` does. A failed assertion stops the node
(`failed`). Payers and payees do anything their own checks allow.
**`Target`** is the same for `target.py`.

**`InitiatorPayment`** has the tasks of one payer (`tasks`, one per secret,
copied by `mediated_transfer` reroutes with a new secret), the locks in its
channels, `PaymentStatus` objects and the greenlets of the event handler that
have not run yet (`events`). The next hops forward or refund, never both.
`failure` names a `KeyError` or an assertion that stopped the node.

**`TokenNetworkProxy`** gives each of the eight operations of the proxy as
functions of the channel's on-chain record: the preconditions at the
triggering block, what the contract requires (external), its effect, and the
diagnosis of a failed estimation and of a reverted transaction.
**`ChannelSettlement`** runs them for two nodes: a proxy call starts,
estimates, sends and is mined in separate steps. `pend` is
`pending_transactions`, `cs` the state machine's view, and a stopped node comes
back with both and sends what is pending again, as `raiden_service.py` does.

**`NodeService`** is one node between a payer and a payee: `db` (snapshot and
the state changes after it), `st` (the state in memory), `effects` and
`spawned` (greenlets), `retry` (the `_RetryQueue` of each peer) and the
broadcast worker. A crash empties memory at any step, a stop ends in order,
and `InitializeWal` replays the log. The network keeps everything that was
ever `sent`.

**`ChainSync`** is the chain with its confirmed part, the contracts of several
channels, and the alarm task: `maybe_run_callbacks`, batches whose size adapts
(`BlockBatchSizeAdjuster`), queries that time out, child queries for a contract
found in the same batch, and the dispatch of state changes with their `Block`.
**`ChannelApi`** adds the user's calls. `calls[i].phase` is the wait a call
is in. A call checks against the view, then again in the proxy, then waits for
the event in the view.

**`ServiceContracts`** is the storage of the token, `UserDeposit`, the secret
registry and the token network registry with the checks of the proxies, and
**`EthClient`** the pool, the last blocks and their replacement, the nonce
and `poll_transaction`. **`ContractProxies`** runs several greenlets over them
with their locks, in-flight deposits and open secret transactions.

**`PathQueries`** is the path finding service (external), the price the node
believes in, the semaphore, and one greenlet per payment that fetches the last
IOU, signs a larger one and posts it, retries, and sends feedback.

`MC*` modules bound the models and give the constants their values. Where one
run covers several situations, an instance or scenario is chosen in the initial
state. Definitions whose name has a suffix after an underscore
(`ClaimLock_KeepsPendingLock`) or a comment that begins with "Mutant" are faulty
variants. They stand next to the definition they distort and are used by the
mutation runs only.

## What is checked

| Run | Module | Properties | Distinct states |
| --- | --- | --- | --- |
| `transfers` | `NettingChannel` | `ViewsAgree`, `BalancesCovered`, `RegisteredLockNeverExpires`, `NextMessageAcceptable`, `ImplementsLedger` | 1 010 479 |
| `message_delivery` | `NettingChannel` | `MessagesProcessed` (liveness) | 64 515 |
| `withdraws` | `ChannelWithdraw` | `LocksSynchronized`, `WithdrawViewsAgree`, `MinedWithdrawNeverExpires`, `CoopSettleSignaturesMatch` | 1 015 509 |
| `mediation` | `Mediator` | `PayeePaidPayerPays`, `ExpiredPayeeCannotClaim`, `NoOrphanedLock` | 1 949 820 |
| `target` | `Target` | `RevealedSecretIsPaid`, `TaskRunsWhileLockPending` | 358 387 |
| `payment` | `InitiatorPayment` | `PaidAtMostOnce`, `AnswerIsRight`, `TasksMatchLocks`, `PaymentResolved` (liveness) | 1 298 332 |
| `settlement` | `ChannelSettlement` | `LatestProofsSettled`, `NeverAttemptedIllegally`, `NothingLeftBehind` | 1 523 197 |
| `node_service` | `NodeService` | `RestoreIsExact`, `SentIsDurable`, `NoMessageLost`, `RestartMonitorsFirst`, `EveryTransferForwarded` (liveness) | 543 681 |
| `transactions` | `ContractProxies` | `NoncesContiguous`, `SuccessIsFinal`, `CallsDoNotInterfere`, `RevertExplained`, `EveryCallReturns` (liveness) | 592 903 |
| `api` | `ChannelApi` | `PreconditionsHold`, `ViewFollowsChain`, `ReturnedMeansDone`, `NothingHangs` (liveness) | 441 324 |
| `pathfinding` | `PathQueries` | `RejectedOnlyForPrice`, `FeeBounded`, `RoutesAreSound`, `EveryQueryEnds` (liveness) | 1 503 478 |
| `withdraw_locked_balance` | `ChannelWithdraw` | `BalanceNeverNegative` is violated | |

Several of these are conjunctions of the smaller properties defined just above
them (`NothingLeftBehind`, `NoMessageLost`, `AnswerIsRight`, `TasksMatchLocks`,
`SuccessIsFinal`, `CallsDoNotInterfere`, `ViewFollowsChain`, `NothingHangs`,
`RoutesAreSound`). `LocksSynchronized` is checked in `withdraws`, whose model
contains every action of `transfers`. The modules' type invariants (`TypeOK`,
`WTypeOK`) hold on the same instances; the runs leave them out, and those of
`NettingChannel` and `Mediator` are proved.

**Transfers.** A node's copy of its partner's end is always a state the
partner signed (`ViewsAgree`). The locks of both ends pass the last assertions
of `sanity_check`. Both can pay all their locks without overflow
(`BalancesCovered`). Sender and receiver never disagree on whether the next
message is valid (`NextMessageAcceptable`), in particular about expiration,
where they use different thresholds and see different blocks. The one
exception is a `LockedTransfer` whose secret has been registered while it was
in flight. `message_handler.py` drops it for ever, so the nonces of that
channel stay stuck. A payment whose secret was registered in time is not
cancelled once the partner has the lock (`RegisteredLockNeverExpires`); one
whose `LockedTransfer` was dropped is. The channel implements `PaymentLedger`.

**Withdraws.** When two nodes have processed each other's messages and the
same blocks they agree on every total. A mined withdraw is never expired. A
coop-settle transaction carries signatures of exactly its withdraws, unless its
initiator asked for a larger withdraw meanwhile: the confirmation of that one
is then taken for the coop-settle's (`channel.py:2244`), and the contract would
refuse the transaction. `CoopSettleSignaturesMatch` names this case.

**Payments.** A mediator never pays without being paid, a target that
revealed the secret while it was safe is paid, and no task ends before its
locks do. A payer pays at most once however many routes it has tried, its
caller gets an answer, and the answer is right. `FailedIsNotPaid` has two
exceptions. A payment reported as failed after a refund may still be paid. And
when an identifier is used again, the failure of a lock in a closed channel may
reach the status of the later payment, which may then be paid.

**Settlement.** Once the settlement window is over the contract holds the
last balance proof each node received, whoever closed and whatever was in the
pool. No call is triggered that the proxy would call a bug, and a node that is
synchronised and idle has left nothing to settle.

**Persistence and transport.** Replaying the log gives the state in memory
(with the exception below), a message leaves the node only after it is
durable, and it stays in a queue until its receiver has it, over crashes,
stops and the exit of idle retry queues. `update_monitoring_service_from_balance_proof`
returns without a request when monitoring is off, the user deposit does not pay
the reward or the channel's balance is small (`inst.skips`). After a restart that
does make the request, no transfer goes out again before the request
(`RestartMonitorsFirst`); after one that does not, nothing is promised.

**Chain and contracts.** The view of the channels is what the contracts say at
the block processed last, for all batch sizes, timeouts, restarts and
reorganisations. A call of the API is not refused by the proxy's preconditions,
but for one: nobody but the proxy looks at the deposit limit of the token network
when a channel is opened (`PreconditionsHold`). A call that returned finds what it
waited for in a confirmed block (`ReturnedMeansDone`). For a withdraw that is a
withdraw of the same total from the same channel, which may be the partner's. A
transaction that a proxy reports as mined is final, nonces
have no gaps, and every call of a proxy or of the API returns unless what it
waits for cannot come any more (`Hopeless` lists those cases).

**Path finding.** Two greenlets never build on the same IOU unless one of them
scrapped a claimed one and did not ask for the last, and every query ends. A
request adds at most the fee it offers to the debt, and offers at most the larger
of the maximum fee and the price the node was started with: `configure_pfs_or_exit`
does not compare that price with the maximum, only a raised price is
(`pathfinding.py:681`).

### Where the code disagrees with itself

`withdraw_locked_balance` checks a sentence of `sanity_check` ("The balance can
never be negative"). TLC finds a behaviour that contradicts it: a withdraw may
take tokens that are under a lock.

The following statements of comments, docstrings and tests are written down in
the modules too, as properties that TLC refutes when they are added to the
module's run:

| Property | Statement, and what happens |
| --- | --- |
| `ExpiredConfirmationAccepted` | "must accept an confirmation for an expired withdraw request": it is rejected, and its nonce with it |
| `PaidMeansSecretKnown` | "if a transfer is paid we must know the secret": an `Unlock` overtakes the registration |
| `ExpiredLockNotRegistered` | "The secret was not registered on-chain in time": a waiting transfer is forwarded after the registration |
| `RestartSendsUnapplied` | another's transaction with the same effect is sufficient: a pending withdraw or coop-settle outlives its channel and is sent again |
| `RestoreAppliesOnce` | the snapshot's last state change is not applied yet: it is, and is applied again |
| `MonitoredBeforeForwarded` | the monitoring request goes before the forward: at run time it is only queued before it |
| `StatusExistsOnSuccess` | "payment_status should always exist": the events of a retry under the same identifier find none (`raiden_event_handler.py:366`) |
| `SecondFailureIgnored` | a second failure is one "which we can ignore here" (`raiden_event_handler.py:385`): it fails the payment that uses the identifier now, or one whose other attempt is still to be paid |
| `EventsOnce` | "the events will be processed only once": a child query that times out is repeated with its parent |
| `DepositFailureReported` | a recoverable error is raised when the channel was closed meanwhile: it is swallowed and the call waits for ever |
| `CoopSettleIsSet` | "must be set" (`ChannelExpiredCoopSettle`): the channel was settled and opened again with the same partner, the waiter looks it up by address, and the assertion fails |
| `NothingBroken` | a failed precondition "should never have been attempted" (`token_network.py`): `channel_open` does not look at the limit of the network, and the error is not one the REST API answers (`token_network.py:280`, `rest.py:657`) |
| `OwnWithdrawReturned` | "Wait until a withdraw with a specific identifier and amount is seen": a withdraw of the partner with the same total ends the wait (`waiting.py:658`) |
| `MaximumFeeKept` | "Set max fee per request paid to the path finding service" (`cli.py`): the price at the start may be above it |
| `CheapMeansConcurrent` | a request too cheap at the same price means "Concurrent Pathfinding Service requests by same node" (`pathfinding.py:688`): it may be a query that scrapped a claimed IOU and made a new one with the expiration of another query's |
| `UpdatedFeeOffered` | the client must update its fee: the retry offers the fee of the first attempt (`pathfinding.py:614`) |

The modules also contain smaller ones:

* `WithdrawTransactions`, `CoopSettleTransactions`: the comparison meant to
  leave time for the transaction allows it after the expiration
  (`channel.py:2259`).
* `PartnerTotalAsserted`: a deposit confirmed between a coop-settle and its
  answer makes the assertion about the partner's total fail (`channel.py:2166`).
* `OneInitiatorAsserted`: a node that has answered a coop-settle may initiate
  one, and the next confirmation fails "Only one party can initiate a coop
  settle" (`channel.py:2246`).
* `is_transfer_expired`, `IsExpiredNow`: mediator and target look a received
  lock up in `our_state`, where it never is, and call it expired although it
  was registered in time (`channel.py:348`, `target.py:273`). It only affects
  what they report: `RevealedSecretIsPaid` and `PayeePaidPayerPays` hold.
* `set_onchain_secret` leaves `payee_state` as it is, where the docstring of
  `handle_onchain_secretreveal` says all transfers become secret known.
* `InitiatorPayment`: the payment of a lock in a channel that is closed while
  the secret is registered on chain ends without an event, so its caller waits;
  `PaymentResolved` excepts closed channels. A reroute of a task that is gone
  is a `KeyError` (`node.py:621`). A route error leaves a stale status.
* `EthClient`: `poll_transaction` reads the receipt and the block number in two
  requests, so blocks mined in between weaken the confirmation
  (`ClientAssumption` has `PollDelay`). A lost answer to
  `send_raw_transaction` leaves `_available_nonce` behind. Most calls stop the
  node then, but the error of a secret registration is only logged in production
  (`raiden_service.py:1076`): the next transaction has the nonce of the lost one
  and may replace it.
* `deposit_estimation_error`: the branch for the limit needs `s.deposit >= total`,
  which is false when the limit is the cause.
* `ChainSync`: a secret registered in the batch that brings the first channel
  is not queried (`SecretsSeen` is about later ones).

### Bounds

* Transfers: two secrethashes and amounts 1 and 2 against deposits of 2 and 1,
  so that funds run out. `MAXIMUM_PENDING_TRANSFERS = 2`, `UINT256_MAX = 2` and
  `Confirmations = 1` put every limit within reach. In the scenario `Crossing`
  two messages of each node make a lock and its claim in both directions. In
  `Expiring` one node sends up to four messages and the chain has 7 blocks:
  expirations need `Expiration + 2 * Confirmations` plus the receiver's delay.
* Withdraws: expirations are `2 * RevealTimeout - 1` blocks away, 7 blocks let a
  withdraw be confirmed, mined or expire, and three messages of each node make
  a complete coop-settle (`Withdrawing`). `Mixed` adds transfers, deposits and
  a second, larger withdraw in 4 blocks.
* Payments: the lock of the payment expires in block 8 and the chain ends in
  block 11 (mediator) or 16 (target), after every threshold. `RevealTimeout`
  is the smallest value `PaymentChainAssumption` allows for the given
  lag. Channel B has a settle timeout that is too short at first, so that a
  transfer waits and is forwarded later. With three channels only B is closed.
* Initiator: two routes and three secrets are one reroute and one retry, a lock
  lasts two blocks and its removal waits one more. One instance has a repeated
  refund and a restart, the second a refund and a second payment with the same
  identifier. The third has no reroute and 7 blocks, so that the lock of the
  first payment expires, is removed, and the payment is tried again.
* Settlement: proof 1 carries two locks and proof 2 unlocks one of them, so the
  newer proof matters for amounts and locks. Nine scenarios each allow a few
  operations. A horizon is the last block that a close may wait for. The
  nodes are symmetric (`SYMMETRY Swap`; the run has no liveness property).
* Node service: `SnapshotCount = 1` takes a snapshot as often as the code can;
  one or two transfers, concurrent effects, and one crash or stop.
* Transactions: eight instances with up to three greenlets and six transactions,
  `Confirmations = 2` with reorganisations of one block, limits that two deposits
  exceed and a registry that two tokens fill. In `LostAnswers` and `LostInDeposit`
  an answer is lost to a registration, a mint or a deposit, with and without an
  error that stops the node. The
  chain is a window of its last blocks, so runs have no last block.
* API: thirteen instances of at most two calls, three foreign transactions, and the
  faults each needs. Batch sizes 1 to 4 make batches smaller and larger than
  the gap, and `Confirmations = 1` with one reorganisation.
* Path finding: two payments, to the same partner or to different nodes, prices
  0 to 3 around a maximum of 2, at the start too, two attempts, and at most two of: a changed
  price, a claim, a lost answer, an error, a closed channel. The service may
  have an IOU of an earlier payment, which a claim can take from under a query.

Deadlock is checked in `transfers`, `message_delivery` and `transactions`. It
is off where the system may really stop: a settled channel, a finished payment
task, a node or a chain that has used up its faults or blocks.

### Fairness

Weak fairness stands for a greenlet that is run again when what it waits for is
there. Beyond that:

* `message_delivery`: `Synchronize` (the alarm task polls for ever) and
  receiving (the retry queue resends until `Processed` arrives). Nothing is
  assumed about sending, mining or the payment tasks.
* `node_service`: start-up, effects and the queues of the process run. A queued
  message is sent strongly fairly, because the back-off of `_RetryQueue` is
  bounded, and of its copies one arrives. Nothing makes the node stop or crash.
* `payment`: blocks are processed, and spawned event handlers run. Next hops
  and the target need not do anything.
* `transactions`: greenlets run, the node is started again, and the miner
  takes what is executable again and again (strong fairness of `MineAll`,
  which a competing account or a reorganisation disables from time to time).
* `api`: blocks are mined with the node's transactions, the alarm task's loop
  runs. Partners, other accounts and the user need not act, and nobody has to
  start the node again.
* `pathfinding`: greenlets run, the semaphore wakes its waiters in turn
  (strong fairness of `Acquire`), the service answers or the request times
  out, and the service follows the chain.

## What is proved

### The channel

`NettingChannel_proofs` proves for all constants that satisfy
`NettingChannelAssumption`, and so for any number of payments, any amounts and
any length of the chain and the histories:

| Theorem | Statement |
| --- | --- |
| `TypeCorrectness` | `Spec => []TypeOK` |
| `ViewsAlwaysAgree` | `Spec => []ViewsAgree` |
| `LocksAlwaysSynchronized` | `Spec => []LocksSynchronized` |
| `BalancesAlwaysCovered` | `Spec => []BalancesCovered` |
| `RegisteredLocksNeverExpire` | `Spec => []RegisteredLockNeverExpires` |

`NettingChannel_histories` proves `ChannelImplementsLedger`,
`Spec => ImplementsLedger`, `ChannelSolvent`, `Spec => []Ledger!Solvent`, and
`NextMessageAlwaysAcceptable`, `Spec => []NextMessageAcceptable`.

The first four follow from one inductive invariant, `IInv`: the chain and the
ends are well formed, every end passes `sanity_check`, the i-th message of a
node has nonce i and signs locks with distinct secrethashes, and `ViewsAgree`.
The last but one is needed because a receiver does not check that a new lock's
secrethash is unused. It holds on the receiving side only because whatever
arrives was signed by a sender for which it held, and the nonce picks out
which state that was. Solvency is part of it because a node checks a transfer
against its own, older, copy of its partner's end. What makes that safe is
that a node's own transferred amount only grows, so the older copy
underestimates what it has received.

`RegisteredLocksNeverExpire` needs a second one, `JInv`, with two facts about
history. A lock a node may still expire is one it knows no registration in
time of, or one whose message the partner has not taken and drops
(`LockHistory`): a transfer that is sent after the registration of its secret is
of the second kind from the start. And when
`LockExpired` has been sent, a registration that comes later is later than the
expiration (`ExpiredHistory`), because the sender waited for
`2 * Confirmations` blocks after it and its own block is a confirmed one. What
is dropped once is dropped for ever, because the receiver's nonce does not pass
it and a secret stays registered (`HistoryStays`).

`ChannelImplementsLedger` adds two other facts to `IInv` (`LInv`): total
deposits never decrease and no node believes in a larger one than the last
(`DepositHistory`), and nothing a node signed transfers more than its present
state (`TransferHistory`). A node decides what it may lock from its own end, an
old copy of its partner's and a deposit seen some time ago, the ledger from the
present; with these two the node's figure is never the larger one
(`DistributableIsSpendable`). Mined blocks are `Deposit`, the three messages
`Lock`, `Pay` and `Return`, and every other step leaves the ledger as it is.

`NextMessageAlwaysAcceptable` is about a message that was created some time
ago. What its sender checked it against is gone when it arrives: the sender's
end has moved on, and its views of the chain and of the receiver were older
than the receiver's are now. So its invariant, `AInv`, adds to `JInv` and
`LInv` facts about the history of messages. Each message follows from the state
the one before it signed (`SignedChain`), and by `ViewsAgree` that is the
receiver's copy when the message is next. What it spends is covered by what is
confirmed by now (`SpendHistory`, `DepositView`). A `LockExpired` was sent so
late that a receiver that is up to date has confirmed the expiration too
(`ExpirationHistory`), and a lock held as registered on chain is one that was
registered in time (`OnchainHistory`), which no `LockExpired` is ever about.

The lemmas about the operators of `ChannelState` come first in
`NettingChannel_proofs`: what adding, claiming, expiring or registering a lock
does to the dictionaries, the pending list and the sum of the amounts. That sum
is a cardinality, so these rest on `FiniteSetTheorems`.

### The target and the mediator

These hold for any set of channels, any routes and settle timeouts, any
expiration and any timing that `PaymentChainAssumption` allows. The assumption
is essential: `RevealTimeout` has to cover the confirmations, the lag of the
node and the time of a transaction, and the lock must expire later than
`RevealTimeout`.

| Module | Theorem | Statement |
| --- | --- | --- |
| `Target_proofs` | `RevealedSecretAlwaysPaid` | `Spec => []RevealedSecretIsPaid` |
| `Target_proofs` | `TaskAlwaysRunsWhileLockPending` | `Spec => []TaskRunsWhileLockPending` |
| `Mediator_proofs` | `PayeePaidMeansPayerPays` | `Spec => []PayeePaidPayerPays` |
| `Mediator_proofs` | `ExpiredPayeeNeverClaims` | `Spec => []ExpiredPayeeCannotClaim` |
| `Mediator_proofs` | `NoLockIsOrphaned` | `Spec => []NoOrphanedLock` |
| `Mediator_proofs` | `MediatorTypes` | `Spec => []TypeOK` |

Both arguments are about time. `ChainTime` bounds how far the node is behind
the chain and how long its registration takes. `InTime` says that it is still
safe to wait, or the secret is registered in time, or the registration was sent
early enough to be. The first block at which it is no longer safe to wait sends
the registration, and `RevealTimeout` is just large enough for that to be early
enough, even when the node processes many blocks at once
(`RequestedEarlyEnough`). After the expiration only the second alternative of
`InTime` can be true.

The target's invariant, `TInv`, says that one who was safe is paid, or has the
lock on chain, or has it unlocked and is in time; and that the task runs
exactly while the lock is pending.

The mediator's, `MInv`, has the same at its centre (`Covered`): for every payee
that was paid, its payer paid, or the secret is registered in time, or the
payer's lock is unlocked and there is time. It is not inductive by itself,
because the handlers decide from the states of the pairs and not from the
locks. The rest of `MInv` ties these together: the pairs form a chain in which
each payee but the last has refunded (`Shape`), a lock belongs to a pair or to
the waiting transfer and, if it is gone, is paid or expired without a
registration (`Locks`), what a final, waiting or expired state says about the
chain (`States`), nobody is paid before the secret is known (`Secret`), and a
registration the node has processed has reached all locks (`Learned`). The
handlers are compositions of operators on the task, so there is a lemma for each
operator on what it changes (`...Effect`) and one on that it keeps the part of
`MInv` that also holds inside a handler, `Core` (`...Keeps`), and the actions
are put together from these. `MInv` was checked with
TLC on the instance of `mediation`, and `TInv` on that of `target`, before they
were proved.

### The initiator

For any number of payments, channels, secrets, blocks, repeated refunds and
restarts, and whether the payments have one identifier or different ones
(`ConstantsAssumption`):

| Theorem of `InitiatorPayment_proofs` | Statement |
| --- | --- |
| `NoPaymentTwice` | `Spec => []PaidAtMostOnce` |
| `CallerIsToldTheTruth` | `Spec => []AnswerIsRight` |
| `LocksAreWatched` | `Spec => []TasksMatchLocks` |

All follow from the invariant `PInv`. That a payment is paid once is not a
matter of one task: a reroute copies the task, and the copy keeps the attempts
of the original, so that several tasks hold attempts of one payment. What
excludes a second payment is the lock. An attempt is `Live` while its lock is
in the channel and no refund of it was taken, `PaidInv` says that a payment has
at most one of these, and none once it is paid; a reroute makes a new one only
after the refund of the old one was taken, which the nonce of the refund allows
once. To keep that, a secret must be new when it is drawn (`FreshInv`: one that
is reserved for a refund still to be dispatched is used nowhere), a hop that
has forwarded does not refund (`HopInv`), and locks and attempts belong
together (`LockInv`). `AnswerInv` ties the statuses to payments of the same
identifier. The answer "failed" needs two more parts, which hold as long as no
hop refunds: a payment that failed is `Over`, with nothing left that could pay
it (`FailInv`), and while the channels are open one payment of an identifier at
a time has a task or an event (`TurnInv`), since the events do not say which of
them they are about. `PInv` was checked with TLC on the instance of `payment`.

### The contract proxies and the JSON-RPC client

For any number of greenlets, transactions and secrets, any arguments, contents
of the contracts and faults (`InstancesAssumption`), and any confirmations,
reorganisations and poll delays with `MaxReorg + PollDelay <= Confirmations`
(`ClientAssumption`):

| Theorem of `ContractProxies_proofs` | Statement |
| --- | --- |
| `NoncesHaveNoGap` | `Spec => []NoncesContiguous` |
| `WhatIsReportedIsFinal` | `Spec => []SuccessIsFinal` |

Both follow from the invariant `CInv`, which has three arguments in it.
`ContractProxies_calls` defines it and shows that the steps of the calls keep
it, `ContractProxies_proofs` that the chain and a restart do.

The nonces in use are `1 .. k`, and the client's next nonce is `k + 1` unless
an answer was lost. Then it is too small, and what is at or above it belongs to
no greenlet (`NonceInv`). A node that goes on all the same has only logged the
error of a registration, and its client is behind by one (`LostRegistration`): the
next transaction with that nonce replaces the lost one, which nobody polls, or is
rejected because the lost one was mined. So the transaction a greenlet polls is
the one it sent.

A receipt that `poll_transaction` accepts was `MaxReorg` blocks deep when it
was read, the blocks mined since then not counted, so that no reorganisation
could move the transaction in between (`PollInv`). That an accepted transaction
has its effect needs `ChainInv`: a transaction is in one block at most, the
effect of a successful one is in the storage of its block, and the effects in a
block's storage are in that of the next (`Later`: secrets and tokens stay
registered, the total deposit never decreases). Mining and reorganisations,
which execute blocks anew, have to keep this, and a transaction that leaves the
window of blocks takes its effect into the storage of the first one.

A call may succeed without a transaction of its own: the secrets it asks for
are being registered by other greenlets, or a larger deposit is in flight.
`EffectInv` says that every secret of a call is registered for good, or in the
batch of the call itself, or promised by a greenlet it waits for (`SecretInv`,
`Promises`), that an open secret belongs to a greenlet that is sending it
(`OpenInv`), and that a deposit waits for one at least as large (`WaitsFor`).
`PhaseInv` relates the phase of a greenlet to its results. `CInv` was checked
with TLC on the instance of `transactions`.

### The queries for routes

For any set of payments, targets and partners, any prices, numbers of attempts,
time-outs and faults (`QueriesAssumption`):

| Theorem of `PathQueries_proofs` | Statement |
| --- | --- |
| `TooCheapOnlyForPrice` | `Spec => []RejectedOnlyForPrice` |
| `OwesAtMostTheFee` | `Spec => FeeBounded` |
| `RoutesSound` | `Spec => RoutesAreSound` |
| `SemaphoreIsHeld` | `Spec => []TypeOK` |

The invariants are `QInv` and, for the fee, `FeeInv`. The debt is about requests the node has given up as
well, which the service may take at any later time, when other IOUs have been
accepted or claimed. `Fair` is what is true of every IOU on its way from its
creation on: it is worth no more than the fee by itself, or it was claimed, or
it replaces the present one and adds no more than the fee to it. A claim and an
accepted IOU keep that for all others (`KeptMoves`). That a request adds
exactly its fee (`Exact`) is only true as long as no request was given up,
because then what is on its way belongs to the query inside the semaphore; and
only of a query that asked for the last IOU, which one that scrapped an IOU
does not. `FeeInv` says that nothing the node believes, offers or has offered is
above `FeeCap`, the larger of the maximum fee and the price at the start, of which
nothing is assumed. `TokenOf` says that a token belongs to a query that has found the
route and is over, so that what it found does not change any more. `QInv` was
checked with TLC on the instance of `pathfinding`.

### Only model-checked

Liveness is out of the prover's reach: `MessagesProcessed`, `PaymentResolved`,
`EveryTransferForwarded`, `EveryCallReturns`, `NothingHangs`,
`EveryQueryEnds`.

These safety properties are checked on the instances above and have no proof:

* `ContractProxies`: `CallsDoNotInterfere` and `RevertExplained` are about what
  a diagnosis reads in a block some time after the failure. Their invariant
  has to follow every value of the storage through all pending transactions,
  which the proof of `SuccessIsFinal` avoids by using only what grows.
* `ChannelWithdraw`: its actions come on top of all of `NettingChannel`'s, and
  `LocksSynchronized` is proved for the latter only. The withdraws need a
  history invariant of their own, over requests, confirmations, expirations and
  mined transactions.
* `ChannelSettlement`, `NodeService` and `ChannelApi`: their invariants range
  over the queues, greenlets and logs of whole nodes, with the positions a crash
  may leave them in, and have not been worked out. The replay of the log is
  moreover a fold over a sequence, and what it computes for every input is
  beyond the prover, which has no induction over data.

## Not modelled

* Mediation fees (`mediation_fee.py`): piecewise linear interpolation over
  fractions and floating point, numeric code without state. Routes are usable
  or not, fees included.
* `ActionCancelPayment`: nothing dispatches it.
* Serialization and database migrations: conversions of data. SQL is reduced to
  the transaction around a batch and the range read at start. The identifiers
  of state changes (ULIDs) are taken as ordered.
* WebRTC, login, rooms, presence and the sync loop of the Matrix client: another
  carrier for the same messages, or I/O with a third-party server. The protocol
  modules assume no order and no reliability of either.
* Allowances and a lack of ether in `TokenNetworkProxy` (both are modelled for
  `UserDeposit` in `ContractProxies`), gas prices, functions only deployment
  scripts call.
* Batches of several state changes in `NodeService` (the alarm task's batches
  are in `ChainSync`), PFS capacity and fee updates, which are broadcasts
  without an answer, and the withdraw messages in the queues of `node.py`.
* The choice of the path finding service at start, the choice among usable
  routes, resolvers.
* Command line, configuration, logging, greenlet supervision, cryptography and
  byte packing. Chain reorganisations deeper than the confirmations.
