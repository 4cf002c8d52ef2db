------------------------- MODULE ChannelSettlement -------------------------
(***************************************************************************)
(* The on-chain life of one channel, seen from its two nodes: the state    *)
(* machine's side (transfer/channel.py, transfer/token_network.py and the  *)
(* pending transactions of transfer/node.py), the event handlers that turn *)
(* ContractSend events into proxy calls (raiden_event_handler.py), the     *)
(* proxy calls themselves (module TokenNetworkProxy), the blockchain, and  *)
(* restarts of a node (raiden_service.py).                                 *)
(*                                                                         *)
(* A proxy call is several steps, because every query of the chain yields  *)
(* to other greenlets and to the rest of the world: it starts, estimates   *)
(* the gas on the pending block, and then either diagnoses the failure or  *)
(* sends the transaction, which is mined later and reported when its block *)
(* is complete.  Blocks are never reverted here.                           *)
(***************************************************************************)
EXTENDS TokenNetworkProxy, SequencesExt

CONSTANTS MaxNonce,     \* largest nonce of a balance proof
          MaxLag,       \* blocks a running node may be behind when one is mined
          MaxDowns,     \* crashes and restarts of a node
          Scenarios,    \* records of the operations allowed, and the number of
                        \* blocks mined (horizon) and balance proofs sent (proofs)
          Expiration,   \* expiration block of withdraws and cooperative settles
          Registered    \* locks, as <<sender, lock>>, whose secret is on-chain

VARIABLES
  chan,    \* the contract's record of the channel, in the pending block
  blocks,  \* the record at the end of each mined block
  sent,    \* [Node -> nonce of the last balance proof sent]
  rcvd,    \* [Node -> nonce of the partner's last proof, in partner_state]
  up,      \* [Node -> BOOLEAN]: the node is running
  downs,   \* [Node -> number of times the node stopped]
  view,    \* [Node -> last block whose events were processed]
  cs,      \* [Node -> its NettingChannelState, as far as settling needs it]
  pend,    \* [Node -> pending_transactions]
  calls,   \* [Node -> proxy calls in progress]
  used,    \* the users' operations that were called, as <<node, operation>>
  scn      \* the scenario: what may happen in this behaviour, and how often

vars == <<chan, blocks, sent, rcvd, up, downs, view, cs, pend, calls, used, scn>>

block == Len(blocks) + 1     \* number of the pending block
latest == blocks[Len(blocks)]

NoChannel == [status |-> "none", closed |-> 0, updated |-> FALSE,
              locks |-> [n \in Node |-> 0]]
OpenChannel == [NoChannel EXCEPT !.status = "opened"]

TransactionType ==
  {"openChannel", "setTotalDeposit", "setTotalWithdraw", "cooperativeSettle",
   "closeChannel", "updateNonClosingBalanceProof", "settleChannel", "unlock"}

\* the operations that hold channel_operations_lock while they run
Locking == {"openChannel", "setTotalDeposit", "setTotalWithdraw", "closeChannel",
            "settleChannel"}

\* the operations a user calls: exceptions go back to the API
Interactive == {"openChannel", "setTotalDeposit"}

\* The type invariant.  A node never holds a balance proof its partner did not send
\* (handle_receive_balance_proof checks the nonce) and is not ahead of the chain.
TypeOK ==
  /\ chan.state \in NONEXISTENT..REMOVED
  /\ \A n \in Node :
       /\ rcvd[n] \in 0..sent[Partner(n)] /\ sent[n] \in 0..MaxNonce
       /\ view[n] \in 1..Len(blocks)
       /\ cs[n].status \in {"none", "opened", "closing", "closed", "settling", "settled"}
       /\ \A c \in calls[n] \cup pend[n] : c.op \in TransactionType

-----------------------------------------------------------------------------
(***************************************************************************)
(* What the node does with the events of a block.  A node's state while a  *)
(* batch of events is processed is s = [cs, pend, sends]; sends are the    *)
(* ContractSend events emitted by the batch.                               *)
(***************************************************************************)

\* is_transaction_effect_satisfied, for the contract event ev; the state s is
\* the one after the event was applied.  The branch for an update of the balance
\* proof is never reached, see EventsOf
EffectSatisfied(s, tx, ev) ==
  \/ ev.type = "closed" /\ tx.op = "closeChannel"
  \/ ev.type = "settled" /\ tx.op = "settleChannel"
  \/ ev.type = "unlocked" /\ tx.op = "unlock" /\ s.cs.status = "none"

Invalidated(tx, ev) ==
  \/ ev.type = "settled" /\ tx.op = "updateNonClosingBalanceProof"
  \/ ev.type = "closed" /\ tx.op = "setTotalWithdraw"

\* the update's expiration is the end of the settlement window; now is the
\* block of the last Block state change
Expired(tx, now) ==
  tx.op = "updateNonClosingBalanceProof" /\ tx.g + SettleTimeout < now

\* update_queues: transactions that are done or cannot be done any more leave
\* the queue, the new ones are appended
UpdateQueues(s, ev, now, events) ==
  [s EXCEPT !.pend = {tx \in @ : ~(\/ EffectSatisfied(s, tx, ev)
                                   \/ Invalidated(tx, ev)
                                   \/ Expired(tx, now))} \cup events,
            !.sends = @ \cup events]

\* handle_channelnew: a channel that is already known is ignored
HandleNew(s) ==
  [s EXCEPT !.cs = IF @.status = "none" THEN OpenChannel ELSE @]

\* mutant: a node that lost the race to close does not update
HandleClosed_NotWhenClosing(n, s, ev) ==
  LET just_closed == s.cs.status \in {"opened", "closing"}
      call_update == s.cs.status = "opened" /\ ev.closer # n /\ rcvd[n] # 0 /\ ~s.cs.updated
      update == [op |-> "updateNonClosingBalanceProof", arg |-> <<rcvd[n]>>, g |-> ev.b]
      s1 == IF just_closed
            THEN [s EXCEPT !.cs.status = "closed", !.cs.closed = ev.b,
                           !.cs.updated = @ \/ call_update]
            ELSE s
  IN  [st |-> s1, events |-> IF call_update THEN {update} ELSE {}]

\* _handle_channel_closed
HandleClosed(n, s, ev) ==
  LET just_closed == s.cs.status \in {"opened", "closing"}
      call_update == /\ just_closed /\ ev.closer # n
                     /\ rcvd[n] # 0 /\ ~s.cs.updated
      update == [op |-> "updateNonClosingBalanceProof", arg |-> <<rcvd[n]>>, g |-> ev.b]
      s1 == IF just_closed
            THEN [s EXCEPT !.cs.status = "closed", !.cs.closed = ev.b,
                           !.cs.updated = @ \/ call_update]
            ELSE s
  IN  [st |-> s1, events |-> IF call_update THEN {update} ELSE {}]

\* _handle_channel_settled
HandleSettled(n, s, ev) ==
  LET unlock == [op |-> "unlock", arg |-> <<>>, g |-> ev.b]
  IN  IF \A m \in Node : ev.locks[m] = 0
      THEN [st |-> [s EXCEPT !.cs = NoChannel], events |-> {}]
      ELSE [st |-> [s EXCEPT !.cs.status = "settled", !.cs.locks = ev.locks],
            events |-> {unlock}]

\* mutant: the first unlock clears the channel
HandleUnlocked_OneSide(s, ev) ==
  IF s.cs.status = "settled" THEN [s EXCEPT !.cs = NoChannel] ELSE s

\* _handle_channel_batch_unlock
HandleUnlocked(s, ev) ==
  LET locks == [s.cs.locks EXCEPT ![ev.sender] = 0]
  IN  IF s.cs.status # "settled" THEN s
      ELSE IF \A m \in Node : locks[m] = 0 THEN [s EXCEPT !.cs = NoChannel]
      ELSE [s EXCEPT !.cs.locks = locks]

\* one contract event: state_transition of node.py.  Events of a channel the
\* node does not know are discarded, and leave the queue alone
HandleEvent(n, s, ev, now) ==
  LET known == s.cs.status # "none" \/ ev.type \in {"new", "unlocked"}
      r == CASE ev.type = "new" -> [st |-> HandleNew(s), events |-> {}]
             [] ev.type = "closed" -> HandleClosed(n, s, ev)
             [] ev.type = "settled" -> HandleSettled(n, s, ev)
             [] ev.type = "unlocked" -> [st |-> HandleUnlocked(s, ev), events |-> {}]
             [] OTHER -> [st |-> s, events |-> {}]
  IN  IF known THEN UpdateQueues(r.st, ev, now, r.events) ELSE s

\* mutant: the settlement does not wait for the timeout
HandleBlock_NoTimeout(s, b) ==
  LET settle == [op |-> "settleChannel", arg |-> <<>>, g |-> b]
  IN  IF s.cs.status = "closed" /\ b >= s.cs.closed
      THEN [s EXCEPT !.cs.status = "settling", !.pend = @ \cup {settle},
                     !.sends = @ \cup {settle}]
      ELSE s
\* _handle_block, with the queue of the Block state change
HandleBlock(s, b) ==
  LET settle == [op |-> "settleChannel", arg |-> <<>>, g |-> b]
  IN  IF s.cs.status = "closed" /\ b > s.cs.closed + SettleTimeout
      THEN [s EXCEPT !.cs.status = "settling", !.pend = @ \cup {settle},
                     !.sends = @ \cup {settle}]
      ELSE s

-----------------------------------------------------------------------------
\* the contract events between two records of the channel; what a settlement
\* leaves locked is read from the contract, at the block of the event
On(cond, ev) == IF cond THEN <<ev>> ELSE <<>>
Event(type, b, new) ==
  [type |-> type, b |-> b, closer |-> new.closer, locks |-> new.locks, sender |-> None]
NewEvents(b, old, new) ==
  On(old.state = NONEXISTENT /\ new.state # NONEXISTENT, Event("new", b, new))
BalanceEvents(b, old, new) ==
  On(new.state < SETTLED /\ old.deposit # new.deposit, Event("deposit", b, new))
  \o On(new.state < SETTLED /\ old.withdrawn # new.withdrawn, Event("withdraw", b, new))
ClosedEvents(b, old, new) ==
  On(old.state < CLOSED /\ new.state = CLOSED, Event("closed", b, new))
SettledEvents(b, old, new) ==
  On(old.state < SETTLED /\ new.state >= SETTLED, Event("settled", b, new))
UnlockedEvents(b, old, new) ==
  FoldSet(LAMBDA m, q : q \o On(old.locks[m] # 0 /\ new.locks[m] = 0,
                                [Event("unlocked", b, new) EXCEPT !.sender = m]),
          <<>>, Node)

\* the events of block b, in the order the contract can emit them.  The filter
\* of the node (RaidenContractFilter.to_web3_filters) does not ask for
\* NonClosingBalanceProofUpdated, so no ContractReceiveUpdateTransfer arrives
EventsOf(b) ==
  LET old == blocks[b - 1]
      new == blocks[b]
  IN  NewEvents(b, old, new) \o BalanceEvents(b, old, new) \o ClosedEvents(b, old, new)
      \o SettledEvents(b, old, new) \o UnlockedEvents(b, old, new)

\* the events of the blocks from..to, then one Block state change for to:
\* a batch of _best_effort_synchronize_with_confirmed_head
Batch(n, from, to) ==
  LET events == FoldLeft(LAMBDA q, b : q \o EventsOf(b), <<>>,
                         [i \in 1..(to - from) |-> from + i])
      s0 == [cs |-> cs[n], pend |-> pend[n], sends |-> {}]
  IN  HandleBlock(FoldLeft(LAMBDA s, ev : HandleEvent(n, s, ev, from), s0, events), to)

-----------------------------------------------------------------------------
(***************************************************************************)
(* The event handlers.                                                     *)
(***************************************************************************)

\* the amount n gains when the locks of balance proof k of m are unlocked
Gain(n, m, k) ==
  Cardinality({l \in Pending[k] : (<<m, l>> \in Registered) <=> (n # m)})

\* get_state_change_with_balance_proof_by_locksroot and its siblings: the last
\* proof in the database with the same locks or the same amounts
ByLocksroot(limit, k) == {j \in 1..limit : Pending[j] = Pending[k]}
ByBalanceHash(limit, k) == {j \in 1..limit : BalanceHash(j) = BalanceHash(k)}

\* proofs of m that n finds in its own database
Stored(n, m) == IF m = n THEN sent[n] ELSE rcvd[n]

\* handle_contract_send_channelunlock: first the partner's locks, then ours,
\* when there is something to gain.  locks are the on-chain locksroots; their
\* proof is always in the database (Max of an empty set would stop TLC)
Unlocks(n, locks) ==
  LET Side(m) ==
        IF locks[m] = 0 THEN <<>>
        ELSE LET k == Max(ByLocksroot(Stored(n, m), locks[m]))
             IN  IF Gain(n, m, k) > 0 THEN <<<<m, k>>>> ELSE <<>>
  IN  Side(Partner(n)) \o Side(n)

\* one greenlet for every ContractSend event (async_handle_events)
Spawn(n, txs, locks) ==
  {[op |-> tx.op, arg |-> IF tx.op = "unlock" THEN Head(Unlocks(n, locks)) ELSE tx.arg,
    g |-> tx.g, b |-> 0, pc |-> "start",
    todo |-> IF tx.op = "unlock" THEN Tail(Unlocks(n, locks)) ELSE <<>>] :
       tx \in {t \in txs : t.op = "unlock" => Unlocks(n, locks) # <<>>}}

\* handle_contract_send_channelsettle: the proofs behind the on-chain hashes at
\* the triggering block, or at the last one if that block is pruned
SettleProofs(n, b) ==
  LET g == IF b = 0 THEN latest ELSE blocks[b]
      Find(m) == IF g.nonce[m] = 0 THEN {0} ELSE ByBalanceHash(Stored(n, m), g.nonce[m])
  IN  [mine |-> Find(n), theirs |-> Find(Partner(n))]

-----------------------------------------------------------------------------
(***************************************************************************)
(* The steps of a proxy call c of node n.                                  *)
(***************************************************************************)
Replace(n, c, d) == [calls EXCEPT ![n] = (@ \ {c}) \cup {d}]
Finish(n, c) == [calls EXCEPT ![n] = @ \ {c}]

\* the node stops: a transaction that was sent stays in the pool
Down(n) ==
  /\ up' = [up EXCEPT ![n] = FALSE]
  /\ downs' = [downs EXCEPT ![n] = @ + 1]
  /\ calls' = [calls EXCEPT ![n] = {[c EXCEPT !.pc = "orphan"] :
                                      c \in {d \in @ : d.pc \in {"sent", "orphan"}}}]

\* an exception that is not recoverable ends the node, unless it is raised to
\* the API; a recoverable one is logged
Raise(n, c, fatal) ==
  IF fatal /\ c.op \notin Interactive
  THEN Down(n)
  ELSE calls' = Finish(n, c) /\ UNCHANGED <<up, downs>>

PrecheckFatal(n, c, g) ==
  CASE c.op = "setTotalWithdraw" -> WithdrawPrecheckFatal(n, c.arg[1], c.arg[2], g, c.g)
    [] c.op = "closeChannel" -> ClosePrecheckFatal(g)
    [] c.op = "updateNonClosingBalanceProof" -> UpdatePrecheckFatal(c.arg[1], g, c.g)
    [] c.op = "unlock" -> UnlockPrecheckFatal(c.arg[1], c.arg[2], g)
    [] OTHER -> FALSE

PrecheckFails(n, c, g) ==
  CASE c.op = "openChannel" -> OpenPrecheckFails(g, Alone)
    [] c.op = "setTotalDeposit" -> DepositPrecheckFails(n, c.arg[1], g, Alone)
    [] c.op = "setTotalWithdraw" -> WithdrawMismatch(n, c.arg[1], g)
    [] c.op = "updateNonClosingBalanceProof" -> UpdateAlreadyDone(n, c.arg[1], g)
    [] OTHER -> FALSE

\* channel_operations_lock of the partner's address
LockFree(n, c) ==
  c.op \in Locking => \A d \in calls[n] : d.op \in Locking => d.pc \in {"start", "orphan"}

\* the handler of a settle looks the proofs up before it calls the proxy
StartSettle(n, c) ==
  LET proofs == SettleProofs(n, c.g)
      found == proofs.mine # {} /\ proofs.theirs # {}
      mine == Max(proofs.mine)
      theirs == Max(proofs.theirs)
  IN  IF ~found \/ (c.g # 0 /\ SettlePrecheckFatal(n, mine, theirs, blocks[c.g], c.g))
      THEN Raise(n, c, TRUE)
      ELSE /\ calls' = Replace(n, c, [c EXCEPT !.pc = "estimate",
                                               !.arg = SettleArguments(n, mine, theirs)])
           /\ UNCHANGED <<up, downs>>

\* the event handler and the precondition checks; a pruned block (0) cannot be
\* checked.  Events of a channel that is gone are fatal
Start(n, c) ==
  /\ up[n] /\ c.pc = "start" /\ LockFree(n, c)
  /\ \/ /\ c.op \notin Interactive /\ cs[n].status = "none"
        /\ Raise(n, c, TRUE)
     \/ /\ c.op = "settleChannel" /\ cs[n].status # "none"
        /\ StartSettle(n, c)
     \/ /\ c.op # "settleChannel"
        /\ c.op \in Interactive \/ cs[n].status # "none"
        /\ IF c.g # 0 /\ (PrecheckFatal(n, c, blocks[c.g]) \/ PrecheckFails(n, c, blocks[c.g]))
           THEN Raise(n, c, PrecheckFatal(n, c, blocks[c.g]))
           ELSE calls' = Replace(n, c, [c EXCEPT !.pc = "estimate"]) /\ UNCHANGED <<up, downs>>
  /\ UNCHANGED <<chan, blocks, sent, rcvd, view, cs, pend, used, scn>>

\* estimate_gas runs on the pending block; with an estimate the transaction is
\* sent, without one the last block is queried next
Estimate(n, c) ==
  /\ up[n] /\ c.pc = "estimate"
  /\ calls' = Replace(n, c, [c EXCEPT !.pc = IF Require(n, c.op, c.arg, chan, block, Alone)
                                             THEN "sent" ELSE "diagnose"])
  /\ UNCHANGED <<chan, blocks, sent, rcvd, up, downs, view, cs, pend, used, scn>>

\* whose proof is ours in the arguments of a settle
OurProof(n, arg) == IF arg[1] = n THEN arg[2] ELSE arg[4]

EstimationFatal(n, c) ==
  CASE c.op = "openChannel" -> OpenFailureFatal
    [] c.op = "cooperativeSettle" -> CoopSettleFailureFatal
    [] c.op = "setTotalDeposit" -> DepositEstimationFatal(n, c.arg[1], latest, Alone)
    [] c.op = "setTotalWithdraw" ->
         WithdrawEstimationFatal(n, c.arg[1], c.arg[2], latest, Len(blocks))
    [] c.op = "closeChannel" -> CloseEstimationFatal(latest)
    [] c.op = "updateNonClosingBalanceProof" -> UpdateEstimationFatal(latest, Len(blocks))
    [] c.op = "unlock" -> UnlockEstimationFatal(c.arg[1], latest)
    [] c.op = "settleChannel" ->
         SettleFailureFatal(n, OurProof(n, c.arg), OurProof(Partner(n), c.arg), latest, Len(blocks))

Diagnose(n, c) ==
  /\ up[n] /\ c.pc = "diagnose"
  /\ Raise(n, c, EstimationFatal(n, c))
  /\ UNCHANGED <<chan, blocks, sent, rcvd, view, cs, pend, used, scn>>

\* a transaction of the pool enters the pending block
MineTransaction(n, c) ==
  /\ c.pc \in {"sent", "orphan"}
  /\ LET ok == Require(n, c.op, c.arg, chan, block, Alone) IN
     /\ chan' = IF ok THEN Execute(n, c.op, c.arg, chan, block) ELSE chan
     /\ calls' = IF c.pc = "orphan" THEN Finish(n, c)
                 ELSE Replace(n, c, [c EXCEPT !.pc = IF ok THEN "mined" ELSE "reverted",
                                              !.b = block])
  /\ UNCHANGED <<blocks, sent, rcvd, up, downs, view, cs, pend, used, scn>>

RevertFatal(n, c) ==
  LET r == blocks[c.b] IN
  CASE c.op = "openChannel" -> OpenFailureFatal
    [] c.op = "cooperativeSettle" -> CoopSettleFailureFatal
    [] c.op = "setTotalDeposit" -> DepositRevertFatal
    [] c.op = "unlock" -> UnlockRevertFatal
    [] c.op = "setTotalWithdraw" -> WithdrawRevertFatal(n, c.arg[1], c.arg[2], r, c.b)
    [] c.op = "closeChannel" -> CloseRevertFatal(n, r)
    [] c.op = "updateNonClosingBalanceProof" -> UpdateRevertFatal(r, c.b)
    [] c.op = "settleChannel" ->
         SettleFailureFatal(n, OurProof(n, c.arg), OurProof(Partner(n), c.arg), r, c.b)

\* poll_transaction returns once the block of the receipt is complete; the
\* handler of an unlock goes on with the other side's locks
Poll(n, c) ==
  /\ up[n] /\ c.pc \in {"mined", "reverted"} /\ c.b < block
  /\ \/ /\ c.pc = "reverted"
        /\ Raise(n, c, RevertFatal(n, c))
     \/ /\ c.pc = "mined"
        /\ calls' = IF c.todo = <<>> THEN Finish(n, c)
                    ELSE Replace(n, c, [c EXCEPT !.pc = "start", !.arg = Head(c.todo),
                                                 !.todo = Tail(c.todo), !.b = 0])
        /\ UNCHANGED <<up, downs>>
  /\ UNCHANGED <<chan, blocks, sent, rcvd, view, cs, pend, used, scn>>

-----------------------------------------------------------------------------
(***************************************************************************)
(* The blockchain.                                                         *)
(***************************************************************************)

\* the node whose partner closed still has its update to do
UpdateOutstanding(n) ==
  /\ up[n] /\ chan.closer = Partner(n) /\ rcvd[n] # 0
  /\ \/ view[n] < chan.closed
     \/ \E c \in calls[n] : /\ c.op = "updateNonClosingBalanceProof"
                            /\ c.pc \in {"start", "estimate", "diagnose", "sent"}

\* The settlement window is long enough for a running node to see the close
\* and to have its update mined: the assumption behind settle_timeout.
NewBlock ==
  /\ Len(blocks) < scn.horizon
  /\ \A n \in Node : up[n] => Len(blocks) - view[n] <= MaxLag
  /\ chan.state = CLOSED /\ block >= SettleBlock(chan) => \A n \in Node : ~UpdateOutstanding(n)
  /\ blocks' = Append(blocks, chan)
  /\ UNCHANGED <<chan, sent, rcvd, up, downs, view, cs, pend, calls, used, scn>>

\* updateNonClosingBalanceProof sent by a monitoring service for n
MonitoringServiceUpdate(n) ==
  /\ "monitor" \in scn.ops
  /\ \E k \in 1..rcvd[n] :
       /\ Require(n, "updateNonClosingBalanceProof", <<k>>, chan, block, Alone)
       /\ chan' = Execute(n, "updateNonClosingBalanceProof", <<k>>, chan, block)
  /\ UNCHANGED <<blocks, sent, rcvd, up, downs, view, cs, pend, calls, used, scn>>

\* the owner of the token network sets the safety deprecation switch
Deprecate ==
  /\ "deprecate" \in scn.ops /\ ~chan.deprecated
  /\ chan' = [chan EXCEPT !.deprecated = TRUE]
  /\ UNCHANGED <<blocks, sent, rcvd, up, downs, view, cs, pend, calls, used, scn>>

-----------------------------------------------------------------------------
(***************************************************************************)
(* The node: synchronisation, restarts, the users' operations and the      *)
(* off-chain balance proofs.                                               *)
(***************************************************************************)

\* the alarm task: the blocks up to the confirmed head are fetched and
\* dispatched in one database transaction, then the events are handled
Synchronize(n) ==
  /\ up[n] /\ view[n] < Len(blocks)
  /\ LET s == Batch(n, view[n], Len(blocks)) IN
     /\ view' = [view EXCEPT ![n] = Len(blocks)]
     /\ cs' = [cs EXCEPT ![n] = s.cs]
     /\ pend' = [pend EXCEPT ![n] = s.pend]
     /\ calls' = [calls EXCEPT ![n] = @ \cup Spawn(n, s.sends, s.cs.locks)]
  /\ UNCHANGED <<chan, blocks, sent, rcvd, up, downs, used, scn>>

Stop(n) ==
  /\ "stop" \in scn.ops /\ up[n] /\ downs[n] < MaxDowns
  /\ Down(n)
  /\ UNCHANGED <<chan, blocks, sent, rcvd, view, cs, pend, used, scn>>

\* start: the state is restored and synchronized with the chain; only then
\* are the pending transactions, old and new, sent again.  The blocks that
\* triggered them may have been pruned meanwhile
Restart(n) ==
  /\ "stop" \in scn.ops /\ ~up[n] /\ downs[n] <= MaxDowns
  /\ up' = [up EXCEPT ![n] = TRUE]
  /\ LET s == IF view[n] = Len(blocks)
              THEN [cs |-> cs[n], pend |-> pend[n], sends |-> {}]
              ELSE Batch(n, view[n], Len(blocks))
     IN
     /\ view' = [view EXCEPT ![n] = Len(blocks)]
     /\ cs' = [cs EXCEPT ![n] = s.cs]
     /\ pend' = [pend EXCEPT ![n] = s.pend]
     /\ \E pruned \in BOOLEAN :
          calls' = [calls EXCEPT ![n] = @ \cup
                      Spawn(n, {[tx EXCEPT !.g = IF pruned THEN 0 ELSE @] : tx \in s.pend},
                            s.cs.locks)]
  /\ UNCHANGED <<chan, blocks, sent, rcvd, downs, used, scn>>

\* a user's operation starts a proxy call at the confirmed block
UserCall(n, op, arg) ==
  /\ up[n] /\ op \in scn.ops
  /\ <<n, op>> \notin used /\ used' = used \cup {<<n, op>>}
  /\ calls' = [calls EXCEPT ![n] = @ \cup {[op |-> op, arg |-> arg, g |-> view[n], b |-> 0,
                                            pc |-> "start", todo |-> <<>>]}]
  /\ UNCHANGED <<chan, blocks, sent, rcvd, up, downs, view, cs, pend, scn>>

ChannelOpen(n) == cs[n].status = "none" /\ UserCall(n, "openChannel", <<>>)

SetTotalDeposit(n) ==
  /\ cs[n].status = "opened"
  /\ \E total \in 1..Tokens : UserCall(n, "setTotalDeposit", <<total>>)

\* an operation of the state machine: its ContractSend event is queued and
\* handled
Dispatch(n, op, arg, status) ==
  LET tx == [op |-> op, arg |-> arg, g |-> view[n]] IN
  /\ up[n] /\ op \in scn.ops /\ cs[n].status = "opened"
  /\ <<n, op>> \notin used /\ used' = used \cup {<<n, op>>}
  /\ cs' = [cs EXCEPT ![n].status = status]
  /\ pend' = [pend EXCEPT ![n] = @ \cup {tx}]
  /\ calls' = [calls EXCEPT ![n] = @ \cup Spawn(n, {tx}, cs[n].locks)]
  /\ UNCHANGED <<chan, blocks, sent, rcvd, up, downs, view, scn>>

\* _handle_action_close and events_for_close: the proof is the last received
ActionChannelClose(n) == Dispatch(n, "closeChannel", <<rcvd[n]>>, "closing")

\* the partner confirmed a withdraw of one token
WithdrawConfirmed(n) ==
  /\ chan.withdrawn[n] = 0
  /\ Dispatch(n, "setTotalWithdraw", <<1, Expiration>>, "opened")

\* both withdraws of a cooperative settle are signed: no locks are pending and
\* both sides have the same balances
CoopSettleConfirmed(n) ==
  /\ \A m \in Node : sent[m] = rcvd[Partner(m)] /\ Pending[sent[m]] = {}
  /\ Dispatch(n, "cooperativeSettle", <<Expiration>>, "opened")

\* a balance proof is sent (nothing is left to send once both withdraws of a
\* cooperative settle are signed), or arrives: is_balance_proof_usable_onchain
\* refuses it unless the channel is open
SendBalanceProof(n) ==
  /\ up[n] /\ cs[n].status = "opened" /\ sent[n] < scn.proofs
  /\ \A m \in Node : \A tx \in pend[m] : tx.op # "cooperativeSettle"
  /\ sent' = [sent EXCEPT ![n] = @ + 1]
  /\ UNCHANGED <<chan, blocks, rcvd, up, downs, view, cs, pend, calls, used, scn>>
ReceiveBalanceProof(n) ==
  /\ up[n] /\ cs[n].status = "opened" /\ rcvd[n] < sent[Partner(n)]
  /\ rcvd' = [rcvd EXCEPT ![n] = @ + 1]
  /\ UNCHANGED <<chan, blocks, sent, up, downs, view, cs, pend, calls, used, scn>>

-----------------------------------------------------------------------------
OpenedChannel ==
  [EmptyChannel EXCEPT !.state = OPENED, !.deposit = [n \in Node |-> Spent(MaxNonce)]]

Init ==
  /\ scn \in Scenarios
  /\ chan = IF "openChannel" \in scn.ops THEN EmptyChannel ELSE OpenedChannel
  /\ cs = [n \in Node |-> IF "openChannel" \in scn.ops THEN NoChannel ELSE OpenChannel]
  /\ blocks = <<chan>> /\ used = {}
  /\ sent = [n \in Node |-> 0] /\ rcvd = [n \in Node |-> 0]
  /\ up = [n \in Node |-> TRUE] /\ downs = [n \in Node |-> 0]
  /\ view = [n \in Node |-> 1]
  /\ pend = [n \in Node |-> {}] /\ calls = [n \in Node |-> {}]

CallStep(n) ==
  \E c \in calls[n] : Start(n, c) \/ Estimate(n, c) \/ Diagnose(n, c)
                     \/ MineTransaction(n, c) \/ Poll(n, c)

NodeStep(n) ==
  \/ Synchronize(n) \/ Restart(n) \/ CallStep(n)

UserStep(n) ==
  \/ ChannelOpen(n) \/ SetTotalDeposit(n) \/ ActionChannelClose(n)
  \/ WithdrawConfirmed(n) \/ CoopSettleConfirmed(n)
  \/ SendBalanceProof(n) \/ ReceiveBalanceProof(n)
  \/ MonitoringServiceUpdate(n) \/ Stop(n)

Next == NewBlock \/ Deprecate \/ \E n \in Node : NodeStep(n) \/ UserStep(n)

Spec == Init /\ [][Next]_vars

-----------------------------------------------------------------------------
\* Once the settlement window is over, the contract holds the last balance
\* proof each node received, whoever closed and whoever lost the race to
\* close: nothing a node accepted (is_balance_proof_usable_onchain) is left
\* out of the settlement.  Nodes that were down during the window, for which
\* only a monitoring service can act, are exempt.
LatestProofsSettled ==
  chan.state = CLOSED /\ block > SettleBlock(chan) =>
    \A n \in Node : downs[n] = 0 => chan.nonce[Partner(n)] = rcvd[n]

\* The branches of the proxy that say "This call should never have been
\* attempted" are not reached: a call that the state machine triggered was
\* legal at the block that triggered it, also when it is sent again by
\* _initialize_transactions_queues after a restart.
NeverAttemptedIllegally ==
  \A n \in Node : \A c \in calls[n] :
    c.pc = "start" /\ c.g # 0 /\ cs[n].status # "none" =>
      /\ ~PrecheckFatal(n, c, blocks[c.g])
      /\ c.op = "settleChannel" =>
           LET p == SettleProofs(n, c.g) IN
           /\ p.mine # {} /\ p.theirs # {}
           /\ ~SettlePrecheckFatal(n, Max(p.mine), Max(p.theirs), blocks[c.g], c.g)

\* _handle_channel_batch_unlock: "only clear the channel state once all
\* unlocks have been done".  A node forgets a channel only when the contract
\* holds nothing of it any more.
ForgottenOnlyWhenEmpty ==
  \A n \in Node : cs[n].status = "none" => blocks[view[n]].state \in {NONEXISTENT, REMOVED}

\* Nothing is forgotten: when every node runs, has processed the chain and has
\* no transaction under way, no channel is left whose settlement window is
\* over.  _handle_block emits the settlement, update_queues keeps it until
\* somebody's is mined, and a restart sends it again.
IdleMeansSettled ==
  (\A n \in Node : up[n] /\ view[n] = Len(blocks) /\ calls[n] = {})
    => (chan.state = CLOSED => Len(blocks) <= SettleBlock(chan))

\* Nothing of a channel is left behind, neither by a node that forgot it
\* (_handle_channel_batch_unlock) nor by nodes that have nothing to do any more
\* (_handle_block, update_queues).
NothingLeftBehind == ForgottenOnlyWhenEmpty /\ IdleMeansSettled

\* is_transaction_effect_satisfied: "the transaction from a different address
\* which achieves the same side-effect is sufficient, otherwise unnecessary
\* transactions would be sent by the node."  The transactions that a node would
\* send again after a restart are never about a channel that is gone.
RestartSendsUnapplied ==
  \A n \in Node : cs[n].status = "none" => pend[n] = {}
=============================================================================
