----------------------------- MODULE ChannelApi -----------------------------
(***************************************************************************)
(* The calls a user makes (api/rest.py, api/python.py): register a token,  *)
(* open a channel with a first deposit, deposit, withdraw, close, leave    *)
(* the token network.  A call checks its arguments against the node's view *)
(* and against the confirmed chain, sends a transaction or a state change, *)
(* joins the transaction and then waits (waiting.py) until the node has    *)
(* processed the event.  The calls run beside each other and beside the    *)
(* alarm task of module ChainSync; they are greenlets, which lose control  *)
(* when they talk to the Ethereum node or sleep: there is one step between *)
(* two such points.                                                        *)
(*                                                                         *)
(* An exception that RestAPI does not catch kills the API's greenlet and   *)
(* with it the node.                                                       *)
(***************************************************************************)
EXTENDS ChainSync

CONSTANTS Window,    \* get_safe_initial_expiration: 2 * reveal_timeout
          MaxCalls   \* the most calls an instance has

ASSUME ApiAssumption ==
  /\ Window \in Nat \ {0}
  /\ \A k \in DOMAIN Instances : Len(Instances[k].calls) <= MaxCalls

VARIABLE calls       \* what has become of Instance.calls[i]

vars == <<chain, txs, node, sync, faults, inst, calls>>

\* phase: todo, again (open, now about its deposit), checked, sent, waiting, coop,
\*   collect, coopwait, close, closing, done
\* id, ids: the channels it is about; block: the block it was checked at
\* left: the waiters or the transactions of several channels that are still running
\* result: none, returned, refused (an error for the user), broken (a broken
\*   precondition), assertion, stopped (another exception nobody catches),
\*   aborted (the node stopped)
NewCall(c) ==
  [op |-> c.op, peer |-> c.peer, amount |-> c.amount, phase |-> "todo", ids |-> {},
   block |-> 0, left |-> {}, result |-> "none"]

-----------------------------------------------------------------------------
(***************************************************************************)
(* Views and checks.                                                       *)
(***************************************************************************)
\* views.get_channelstate_by_token_network_and_partner and get_channelstate_for:
\* the last channel with the peer
ChannelsWith(p) == {c \in node.chans : c.id[1] = p}
HasChannel(p) == ChannelsWith(p) # {}
ChannelWith(p) == CHOOSE c \in ChannelsWith(p) : \A d \in ChannelsWith(p) : d.id[2] <= c.id[2]

\* NettingChannelState.our_total_withdraw and channel.get_balance, without payments
OurTotalWithdraw(c) == Max({c.withdrawn[Us]} \union {w.total : w \in c.pending})
OurBalance(c) == c.deposit[Us] - OurTotalWithdraw(c)

\* RaidenAPI.set_total_channel_deposit
DepositRefused(p, total) ==
  \/ ~HasChannel(p)
  \/ LET c == ChannelWith(p)  g == Record(confirmed, c.id)
         rest == Elsewhere(confirmed, c.id) IN
     \/ c.status # "opened"
     \/ total <= c.deposit[Us]
     \/ Wallet(Us, g, rest) < total - c.deposit[Us]
     \/ NetworkDeposit(g, rest) + total - c.deposit[Us] > NetworkLimit
     \/ total > ParticipantLimit

\* RestAPI._withdraw and RaidenAPI.set_total_channel_withdraw
WithdrawRefused(p, total) ==
  \/ ~HasChannel(p)
  \/ LET c == ChannelWith(p) IN
     \/ c.status # "opened"
     \/ total <= OurTotalWithdraw(c)
     \/ total - OurTotalWithdraw(c) > OurBalance(c)

\* is_valid_total_withdraw
ValidTotalWithdraw(c, total, allow_zero) ==
  /\ c.status = "opened"
  /\ total > OurTotalWithdraw(c) \/ (allow_zero /\ total = OurTotalWithdraw(c))
  /\ OurBalance(c) >= total - OurTotalWithdraw(c)

\* RaidenAPI.is_already_existing_channel
ChannelExistsIn(s, p) == s.chan[p].state \in {OPENED, CLOSED}

-----------------------------------------------------------------------------
(***************************************************************************)
(* Steps of a call.  Set changes it, Finish ends it; an exception nobody   *)
(* catches also stops the node and aborts the others.                      *)
(***************************************************************************)
Served == sync.pc \in {"idle", "loop"} /\ ~sync.booting

Aborted(cs) ==
  [i \in DOMAIN cs |-> IF cs[i].phase \in {"todo", "done"} THEN cs[i]
                       ELSE [cs[i] EXCEPT !.phase = "done", !.result = "aborted"]]

Set(i, c) == calls' = [calls EXCEPT ![i] = c] /\ UNCHANGED sync
Finish(i, result) == Set(i, [calls[i] EXCEPT !.phase = "done", !.result = result])
Raise(i, result) ==
  /\ calls' = Aborted([calls EXCEPT ![i].phase = "done", ![i].result = result])
  /\ sync' = Stopped

\* the node's durable state changes only through state changes
Quiet == UNCHANGED <<chain, txs, node, faults, inst>>

Tx(i, op, id, arg) ==
  [by |-> Us, op |-> op, id |-> id, arg |-> arg, call |-> i, block |-> 0, ok |-> FALSE]

\* mutant: the block before the one whose events are in the view
Checked_BlockBefore(c, ids) ==
  [c EXCEPT !.phase = "checked", !.ids = ids, !.block = Max({0, node.block - 1})]

\* views.get_confirmed_blockhash, read together with the view
Checked(c, ids) == [c EXCEPT !.phase = "checked", !.ids = ids, !.block = node.block]

\* RestAPI.register_token, RaidenAPI.token_network_register
StartRegister(i) ==
  /\ calls[i].op = "register"
  /\ IF node.net THEN Finish(i, "refused") ELSE Set(i, Checked(calls[i], {}))

\* RestAPI.open and RaidenAPI.channel_open: with a channel that is already open
\* the call goes on with the deposit
StartOpen(i) ==
  LET c == calls[i] IN
  /\ c.op = "open"
  /\ CASE c.amount > Wallet(Us, latest.chan[c.peer], Elsewhere(latest, Current(latest, c.peer))) ->
            Finish(i, "refused")
       [] ~confirmed.net -> Finish(i, "refused")
       [] ChannelExistsIn(confirmed, c.peer) ->
            (IF ChannelWith(c.peer).status # "opened" THEN Finish(i, "refused")
             ELSE IF c.amount = 0 THEN Finish(i, "returned")
             ELSE Set(i, [c EXCEPT !.op = "deposit", !.phase = "again"]))
       [] OTHER -> Set(i, Checked(c, {}))

\* RestAPI._deposit, RaidenAPI.set_total_channel_deposit
StartDeposit(i) ==
  LET c == calls[i] IN
  /\ c.op = "deposit"
  /\ IF DepositRefused(c.peer, c.amount) THEN Finish(i, "refused")
     ELSE Set(i, Checked(c, {ChannelWith(c.peer).id}))

StartWithdraw(i) ==
  LET c == calls[i] IN
  /\ c.op = "withdraw"
  /\ IF WithdrawRefused(c.peer, c.amount) THEN Finish(i, "refused")
     ELSE Set(i, Checked(c, {ChannelWith(c.peer).id}))

\* RestAPI._close, up to _batch_coop_settle
StartClose(i) ==
  LET c == calls[i] IN
  /\ c.op = "close"
  /\ IF ~HasChannel(c.peer) \/ ChannelWith(c.peer).status # "opened" THEN Finish(i, "refused")
     ELSE Set(i, [c EXCEPT !.phase = "coop", !.ids = {ChannelWith(c.peer).id}])

\* RaidenAPI.token_network_leave; RestAPI.leave does not catch UnknownTokenAddress
StartLeave(i) ==
  LET c == calls[i] IN
  /\ c.op = "leave"
  /\ IF ~node.net THEN Raise(i, "stopped")
     ELSE Set(i, [c EXCEPT !.phase = "coop",
                           !.ids = {ChannelWith(p).id : p \in {p \in Peers : HasChannel(p)}}])

StartCall(i) ==
  /\ calls[i].phase \in {"todo", "again"}
  /\ \/ StartRegister(i) \/ StartOpen(i) \/ StartDeposit(i) \/ StartWithdraw(i)
     \/ StartClose(i) \/ StartLeave(i)
  /\ Quiet

\* the proxies' operations: the preconditions at the block of the checks, then
\* the gas estimation on the last block
Send(i, tx, broken, onFailure) ==
  CASE broken -> Raise(i, "broken") /\ UNCHANGED txs
    [] ~broken /\ Possible(tx, latest, head + 1) ->
         Set(i, [calls[i] EXCEPT !.phase = "sent"]) /\ txs' = txs \union {tx}
    [] OTHER -> onFailure /\ UNCHANGED txs

\* wait_for_channels leaves out a channel that is gone
Wait(i) ==
  Set(i, [calls[i] EXCEPT !.phase = "waiting", !.left = {id \in calls[i].ids : Known(node, id)}])

\* add_token failed because somebody else was faster: a RaidenRecoverableError
RegisterFailed(i) == Finish(i, "refused")
\* channel_open catches a RaidenRecoverableError if the channel exists by now
OpenFailed(i) ==
  IF ChannelExistsIn(latest, calls[i].peer) THEN Wait(i) ELSE Raise(i, "stopped")
\* set_total_channel_deposit only logs it
DepositFailed(i, fatal) ==
  IF fatal THEN Raise(i, "stopped") ELSE Wait(i)

SendTransaction(i) ==
  LET c == calls[i]  g == StorageAt(c.block) IN
  /\ c.phase = "checked"
  /\ \/ /\ c.op = "register"
        /\ Send(i, Tx(i, "createERC20TokenNetwork", <<>>, <<>>), FALSE, RegisterFailed(i))
     \/ /\ c.op = "open"
        /\ Send(i, Tx(i, "openChannel", <<c.peer, 0>>, <<>>),
                OpenPrecheckFails(g.chan[c.peer], Elsewhere(g, Current(g, c.peer))), OpenFailed(i))
     \/ /\ c.op = "deposit"
        /\ \E id \in c.ids :
             Send(i, Tx(i, "setTotalDeposit", id, <<c.amount>>),
                  DepositPrecheckFails(Us, c.amount, Record(g, id), Elsewhere(g, id)),
                  DepositFailed(i, DepositEstimationFatal(Us, c.amount, Record(latest, id),
                                                          Elsewhere(latest, id))))
  /\ UNCHANGED <<chain, node, faults, inst>>

\* poll_transaction returns once the transaction's block is confirmed
Confirmed(t) == t.block # 0 /\ t.block + Confirmations <= head
TxsOf(i) == {t \in txs : t.call = i}

\* a transaction that was mined and failed raises a
\* RaidenRecoverableError, but for a channel the partner did not close
JoinTransaction(i) ==
  LET c == calls[i] IN
  /\ c.phase = "sent"
  /\ \A t \in TxsOf(i) : Confirmed(t)
  /\ \/ (\A t \in TxsOf(i) : t.ok) /\ Wait(i)
     \/ /\ \E t \in TxsOf(i) : ~t.ok
        /\ \/ c.op = "register" /\ RegisterFailed(i)
           \/ c.op = "open" /\ OpenFailed(i)
           \/ c.op = "deposit" /\ Wait(i)
           \/ /\ c.op \in {"close", "leave"}
              /\ IF \E t \in TxsOf(i) : ~t.ok /\
                       CloseRevertFatal(Us, Record(StorageAt(t.block), t.id))
                 THEN Raise(i, "stopped") ELSE Wait(i)
  /\ Quiet

-----------------------------------------------------------------------------
(***************************************************************************)
(* Withdraw and cooperative settlement: state changes, and the partner's   *)
(* answer (ChannelWithdraw has the exchange of messages).                  *)
(***************************************************************************)
Expiration == node.block + Window

\* an instance says which peers are offline during which of the calls
Reachable(c, p) == <<c.op, p>> \notin Instance.offline

\* query_address_metadata fails (ServiceRequestFailed) when the partner is offline
\* and may fail at any time; then _handle_action_withdraw, of which an invalid one
\* is only an event nobody waits for
ActWithdraw(i) ==
  LET c == calls[i]  ch == {d \in node.chans : d.id \in c.ids} IN
  /\ c.phase = "checked" /\ c.op = "withdraw"
  /\ \/ Finish(i, "refused") /\ UNCHANGED node
     \/ /\ Reachable(c, c.peer)
        /\ node' = [node EXCEPT !.chans =
             {IF d \in ch /\ ValidTotalWithdraw(d, c.amount, FALSE)
              THEN [d EXCEPT !.pending = @ \union {[total |-> c.amount, expiration |-> Expiration]}]
              ELSE d : d \in @}]
        /\ Wait(i)
  /\ UNCHANGED <<chain, txs, faults, inst>>

\* _handle_action_coop_settle for every partner that is online
\* get_max_withdraw_amount is the whole deposit, as there are no payments
HandleCoopSettle(d) ==
  LET total == d.deposit[Us] IN
  IF ValidTotalWithdraw(d, total, TRUE) /\ \A w \in d.pending : w.total = 0
  THEN [d EXCEPT !.coop = Expiration,
                 !.pending = {w \in @ : w.total # total}
                               \union {[total |-> total, expiration |-> Expiration]}]
  ELSE d

CoopSettle(i) ==
  LET c == calls[i] IN
  /\ c.phase = "coop"
  /\ \E online \in SUBSET {id \in c.ids : Reachable(c, id[1])} :
       /\ node' = [node EXCEPT !.chans =
            {IF d.id \in online THEN HandleCoopSettle(d) ELSE d : d \in @}]
       /\ Set(i, [c EXCEPT !.phase = "collect", !.left = online])
  /\ UNCHANGED <<chain, txs, faults, inst>>

\* _batch_coop_settle collects the channels to wait for.  The states it judges
\* in the end are these, in which no channel is settled: it returns nothing to
\* close only if there is no channel any more.
CollectCoopSettle(i) ==
  LET c == calls[i]  there == {d \in node.chans : d.id \in c.ids} IN
  /\ c.phase = "collect"
  /\ IF there = {} THEN Finish(i, "returned")
     ELSE Set(i, [c EXCEPT !.phase = "coopwait",
                           !.left = {d.id : d \in {d \in there : d.id \in @ /\ d.coop # 0}}])
  /\ Quiet

\* ChannelStateWaiter.wait with Or(ChannelExpiredCoopSettle, ChannelCoopSettleSuccess):
\* the channel is looked up by the partner's address, the settlement in the log
CoopExpired(id) == node.block > ChannelWith(id[1]).coop
CoopSucceeded(id) == \E k \in DOMAIN node.log :
                        node.log[k].ev.kind = "settled" /\ node.log[k].ev.id = id

WaitCoopSettle(i) ==
  LET c == calls[i] IN
  /\ c.phase = "coopwait"
  /\ \/ \E id \in c.left :
          IF HasChannel(id[1]) /\ ChannelWith(id[1]).coop = 0
          THEN Raise(i, "assertion")
          ELSE /\ (HasChannel(id[1]) /\ CoopExpired(id)) \/ CoopSucceeded(id)
               /\ Set(i, [c EXCEPT !.left = @ \ {id}])
     \/ c.left = {} /\ Set(i, [c EXCEPT !.phase = "close"])
  /\ Quiet

\* the partner has answered: the transaction is sent from a message handler, and
\* what its failure means is in ChannelSettlement
PartnerAnswers ==
  \E d \in node.chans : \E w \in d.pending :
    LET tx == IF d.coop = w.expiration THEN Tx(0, "cooperativeSettle", d.id, <<w.expiration>>)
              ELSE Tx(0, "setTotalWithdraw", d.id, <<w.total, w.expiration>>) IN
    /\ Served
    /\ \A t \in txs : <<t.op, t.id, t.arg>> # <<tx.op, tx.id, tx.arg>>
    /\ Possible(tx, latest, head + 1)
    /\ txs' = txs \union {tx}
    /\ UNCHANGED <<chain, node, sync, faults, inst, calls>>

-----------------------------------------------------------------------------
(***************************************************************************)
(* Closing, and the end of the calls.                                      *)
(***************************************************************************)
\* the ActionChannelClose of every channel, settled in the meantime or not:
\* events_for_close sends the transaction if the channel is not closed
CloseChannels(i) ==
  LET c == calls[i]
      open == {d \in node.chans : d.id \in c.ids /\ d.status \in {"opened", "closing"}} IN
  /\ c.phase = "close"
  /\ node' = [node EXCEPT !.chans =
       {IF d \in open THEN [d EXCEPT !.status = "closing"] ELSE d : d \in @}]
  /\ Set(i, [c EXCEPT !.phase = "closing", !.block = node.block, !.left = {d.id : d \in open}])
  /\ UNCHANGED <<chain, txs, faults, inst>>

\* TokenNetwork.close for each of them; what is closed already is not an error
SendClose(i) ==
  LET c == calls[i] IN
  /\ c.phase = "closing"
  /\ \/ \E id \in c.left :
          LET tx == Tx(i, "closeChannel", id, <<0>>)  rest == [c EXCEPT !.left = @ \ {id}] IN
          CASE ClosePrecheckFatal(Record(StorageAt(c.block), id)) ->
                 Raise(i, "broken") /\ UNCHANGED txs
            [] Possible(tx, latest, head + 1) -> Set(i, rest) /\ txs' = txs \union {tx}
            [] OTHER ->
                 /\ IF CloseEstimationFatal(Record(latest, id)) THEN Raise(i, "stopped")
                    ELSE Set(i, rest)
                 /\ UNCHANGED txs
     \/ /\ c.left = {}
        /\ Set(i, [c EXCEPT !.phase = "sent"])
        /\ UNCHANGED txs
  /\ UNCHANGED <<chain, node, faults, inst>>

\* mutant: a channel that is being closed counts as closed
ClosedForWaiter_Closing(p) == ~HasChannel(p) \/ ChannelWith(p).status # "opened"

\* ChannelInTargetStates(CHANNEL_AFTER_CLOSE_STATES), by the partner's address;
\* a channel that is gone is not waited for
ClosedForWaiter(p) == ~HasChannel(p) \/ ChannelWith(p).status = "closed"

\* mutant: the deposit has to exceed the target
DepositedForWaiter_Exceeds(c) == HasChannel(c.peer) /\ ChannelWith(c.peer).deposit[Us] > c.amount

\* ChannelHasDeposit
DepositedForWaiter(c) == HasChannel(c.peer) /\ ChannelWith(c.peer).deposit[Us] >= c.amount

\* a withdraw of the call's total from its channel, by either participant
IsItsWithdraw(c, e) == e.kind = "withdraw" /\ e.amount = c.amount /\ e.id \in c.ids

\* wait_for_withdraw_complete: such a state change is in the log
WithdrawnInLog(c) == \E k \in DOMAIN node.log : IsItsWithdraw(c, node.log[k].ev)

\* wait_for_token_network, and ChannelExists
RegisteredForWaiter == node.net
OpenedForWaiter(c) == HasChannel(c.peer)

WaitOver(c) ==
  CASE c.op = "register" -> RegisteredForWaiter
    [] c.op = "open" -> OpenedForWaiter(c)
    [] c.op = "deposit" -> DepositedForWaiter(c)
    [] c.op = "withdraw" -> WithdrawnInLog(c)
    [] c.op \in {"close", "leave"} -> c.left = {}

\* wait_for_close: one waiter for each channel
WaitClosed(i) ==
  LET c == calls[i] IN
  /\ c.phase = "waiting" /\ c.op \in {"close", "leave"}
  /\ \E id \in c.left : ClosedForWaiter(id[1]) /\ Set(i, [c EXCEPT !.left = @ \ {id}])
  /\ Quiet

\* the wait is over; RestAPI.open continues with the deposit
Return(i) ==
  LET c == calls[i] IN
  /\ c.phase = "waiting" /\ WaitOver(c)
  /\ IF c.op = "open" /\ c.amount > 0 THEN Set(i, [c EXCEPT !.op = "deposit", !.phase = "again"])
     ELSE Finish(i, "returned")
  /\ Quiet

CallStep(i) ==
  /\ Served
  /\ \/ StartCall(i) \/ SendTransaction(i) \/ JoinTransaction(i) \/ ActWithdraw(i)
     \/ CoopSettle(i) \/ CollectCoopSettle(i) \/ WaitCoopSettle(i)
     \/ CloseChannels(i) \/ SendClose(i) \/ WaitClosed(i) \/ Return(i)

-----------------------------------------------------------------------------
Init ==
  /\ SyncInit
  /\ calls = [i \in DOMAIN Instance.calls |-> NewCall(Instance.calls[i])]

\* whatever stops the node aborts the calls
NodeStep ==
  /\ SyncStep \/ Crash
  /\ calls' = IF sync'.pc = "down" THEN Aborted(calls) ELSE calls

Environment == (ChainStep \/ Start) /\ UNCHANGED calls

Next == Environment \/ NodeStep \/ PartnerAnswers \/ \E i \in DOMAIN calls : CallStep(i)

Spec == Init /\ [][Next]_vars

\* Blocks are mined and with them the node's transactions, the alarm task's loop
\* and the greenlets of the calls run.  Nobody has to make a call, to answer, to
\* send a transaction of their own or to start the node again.
Fairness ==
  /\ WF_vars(MineEmpty /\ UNCHANGED calls)
  /\ WF_vars(MineTransaction(Us) /\ UNCHANGED calls)
  /\ WF_vars(/\ BootSynchronize \/ maybe_run_callbacks \/ EndSynchronize
             /\ calls' = IF sync'.pc = "down" THEN Aborted(calls) ELSE calls)
  /\ []<>~Fetching \/ []<><<sync' # sync>>_vars  \* the loop goes on while it is fetching
  /\ \A i \in 1..MaxCalls : WF_vars(i \in DOMAIN calls /\ calls[i].phase # "todo" /\ CallStep(i))

LiveSpec == Spec /\ Fairness

-----------------------------------------------------------------------------
(***************************************************************************)
(* Properties.                                                             *)
(***************************************************************************)
Phases == {"todo", "again", "checked", "sent", "waiting", "coop", "collect", "coopwait",
           "close", "closing", "done"}
Results == {"none", "returned", "refused", "broken", "assertion", "stopped", "aborted"}

\* The type invariant.  A node that has fetched blocks in memory has dispatched
\* them, so a restart goes on where the last run stopped.
TypeOK ==
  /\ node.block \in 0..head
  /\ sync.pc \in {"down", "boot", "idle", "loop"}
  /\ Running => sync.fetched = node.block
  /\ \A c \in node.chans : c.status \in {"opened", "closing", "closed"}
  /\ \A c, d \in node.chans : c.id = d.id => c = d
  /\ \A i \in DOMAIN calls :
       /\ calls[i].phase \in Phases /\ calls[i].result \in Results
       /\ calls[i].phase = "done" <=> calls[i].result # "none"
       /\ calls[i].phase \notin {"todo", "done"} => Served

\* What the node believes about its channels is what the contracts say at the
\* block it has processed last, whatever the sizes of the batches, the rounds a
\* batch takes, timeouts in the middle of one, restarts, and reorganisations of
\* unconfirmed blocks (BlockchainEvents, _best_effort_synchronize_with_confirmed_head).
ViewMatchesChain ==
  /\ node.net = confirmed.net
  /\ {<<c.id, c.deposit, c.withdrawn, c.status = "closed">> : c \in node.chans}
       = {<<c.id, c.deposit, c.withdrawn, c.status = "closed">> : c \in ViewOf(confirmed)}

\* A secret that is registered after the batch that brought a channel, while that
\* channel is there, reaches the state machine (new_filters_from_events: "Now that
\* we have a channel, we need to watch for registered secrets").
SecretsSeen ==
  \A b \in 1..node.block : \A e \in Range(chain[b].event) :
    (/\ e.kind = "secret"
     /\ \E k \in DOMAIN node.log :
          /\ node.log[k].ev.kind = "opened" /\ node.log[k].at < b
          /\ StorageAt(b).gen[node.log[k].ev.id[1]] = node.log[k].ev.id[2]
          /\ StorageAt(b).chan[node.log[k].ev.id[1]].state \in {OPENED, CLOSED})
    => \E k \in DOMAIN node.log : node.log[k].ev = e

\* The state changes of a batch are about the blocks between the last processed
\* one and the new one, and are on the chain: no event is applied again by a later
\* batch, and none of a block that was replaced (fetch_logs_in_batch).
BatchIsNew ==
  \A k \in DOMAIN node.log' \ DOMAIN node.log :
    LET e == node.log'[k].ev IN
    e.b \in node.block + 1..node'.block /\ chain[e.b].event = <<e>>

\* The view of the node follows the chain: it has every channel and every secret it
\* needs, from blocks of the chain, each block once (_best_effort_synchronize).
ViewFollowsChain == [][ViewMatchesChain' /\ SecretsSeen' /\ BatchIsNew]_vars

\* A new channel in a network whose balance is at its limit: channel_open does not
\* look at the limit.
NetworkIsFull(c) ==
  LET g == StorageAt(c.block) IN
  /\ c.op = "open" /\ ~ChannelExistsIn(g, c.peer)
  /\ NetworkDeposit(g.chan[c.peer], Elsewhere(g, Current(g, c.peer))) >= NetworkLimit

\* A transaction is never tried when its preconditions do not hold at the block
\* the node checked them at: the events of a block and its number are dispatched
\* together (comment in _best_effort_synchronize_with_confirmed_head).  The limit
\* of the network is the one precondition a caller does not check.
PreconditionsHold ==
  \A i \in DOMAIN calls : calls[i].result = "broken" => NetworkIsFull(calls[i])

\* BrokenPreconditionError is for what "should never have been attempted"
\* (token_network.py): no call of the user ends with one.
NothingBroken == \A i \in DOMAIN calls : calls[i].result # "broken"

\* What the user asked for is there at the confirmed block.
Done(c) ==
  CASE c.op = "register" -> confirmed.net
    [] c.op = "open" -> ChannelExistsIn(confirmed, c.peer)
    [] c.op = "deposit" -> confirmed.chan[c.peer].deposit[Us] >= c.amount
    [] c.op = "withdraw" ->
         \E b \in 1..node.block : \E e \in Range(chain[b].event) : IsItsWithdraw(c, e)
    [] c.op \in {"close", "leave"} ->
         \A id \in c.ids : Record(confirmed, id).state \in {CLOSED, REMOVED}

\* What a call returns for is confirmed, when it returns: the deposit is there, the
\* channel is closed or settled, a withdraw of the total that was asked for was
\* executed (waiting.py).
ReturnedMeansDone ==
  [][\A i \in DOMAIN calls :
       calls[i].phase # "done" /\ calls'[i].result = "returned" => Done(calls'[i])]_vars

\* "Wait until a withdraw with a specific identifier and amount is seen in the WAL"
\* (wait_for_withdraw_complete): the withdraw a call returns for is the node's own.
OwnWithdrawReturned ==
  [][\A i \in DOMAIN calls :
       /\ calls[i].phase # "done" /\ calls'[i].result = "returned" /\ calls[i].op = "withdraw"
       => \E b \in 1..node.block : \E e \in Range(chain[b].event) :
            IsItsWithdraw(calls[i], e) /\ e.by = Us]_vars

Behind == Running /\ ~sync.cut /\ node.block < head - Confirmations

\* The node catches up with the confirmed head whenever no new blocks come, unless
\* it stops or SyncTimeout has cut the last synchronisation short (AlarmTask,
\* _best_effort_synchronize).
SyncCatchesUp == Behind ~> ~Behind

\* What a call waits for can not come any more: the waiters have no timeout.
Hopeless(c) ==
  /\ c.phase = "waiting"
  /\ \/ c.op = "open" /\ ~ChannelExistsIn(latest, c.peer)
     \/ c.op = "deposit" /\ latest.chan[c.peer].deposit[Us] < c.amount
     \/ /\ c.op = "withdraw"
        /\ \A b \in 1..head : \A e \in Range(chain[b].event) : ~IsItsWithdraw(c, e)
        /\ \A t \in txs : t.op = "setTotalWithdraw" /\ t.by = Us => t.block # 0
        /\ \/ \A id \in c.ids : Record(latest, id).state # OPENED
           \/ \A d \in node.chans : d.id \in c.ids => \A w \in d.pending : w.total # c.amount
     \/ c.op \in {"close", "leave"} /\ \E id \in c.left : latest.gen[id[1]] > id[2]

InProgress(i) == i \in DOMAIN calls /\ calls[i].phase \notin {"todo", "done"}

\* A call ends, unless what it waits for can not come any more, or the node is not
\* synchronised with the last block: no step of checking, sending, joining and
\* waiting leaves it hanging (api/python.py, waiting.py).
CallsEnd == \A i \in 1..MaxCalls :
  InProgress(i) ~> (~InProgress(i) \/ Hopeless(calls[i]) \/ sync.cut)

\* Neither the synchronisation (AlarmTask) nor a call of the user (waiting.py) hangs.
NothingHangs == SyncCatchesUp /\ CallsEnd

\* Every event is given to the state machine once: "This lock also guarantees that
\* the events will be processed only once" (BlockchainEvents.__init__).
EventsOnce == \A k, l \in DOMAIN node.log : node.log[k].ev = node.log[l].ev => k = l

FailedDeposit(i) == /\ InProgress(i) /\ calls[i].op = "deposit" /\ calls[i].phase = "waiting"
                    /\ latest.chan[calls[i].peer].state = CLOSED

\* set_total_channel_deposit says that it raises a RaidenRecoverableError when "The
\* channel was closed/settled between the allowance call and the deposit call": a
\* call whose transaction failed ends.
DepositFailureReported == \A i \in 1..MaxCalls : FailedDeposit(i) ~> ~InProgress(i)

\* The user's call of close does not fail an assertion (ChannelExpiredCoopSettle:
\* "must be set").
CoopSettleIsSet == \A i \in DOMAIN calls : calls[i].result # "assertion"

=============================================================================
