----------------------------- MODULE ChainSync -----------------------------
(***************************************************************************)
(* How a node follows the blockchain: the AlarmTask, the fetching of event *)
(* logs in batches (blockchain/events.py, filters.py, utils.py), their     *)
(* dispatch together with the Block state change in one transaction of the *)
(* write-ahead log (raiden_service.py), and what the state changes do to   *)
(* the node's view of its channels.  The chain, whose last blocks may be   *)
(* replaced, and the contracts (module TokenNetworkProxy) are external.    *)
(*                                                                         *)
(* A batch is fetched and dispatched in one step: what was fetched is only *)
(* in memory until it is dispatched, and nobody reads it there.  A block   *)
(* holds at most one transaction that concerns the node.                   *)
(***************************************************************************)
EXTENDS TokenNetworkProxy, SequencesExt, FiniteSetsExt

CONSTANTS Us, Them,        \* the two roles in a channel: Node = {Us, Them}
          Peers,           \* the partners of the node
          Confirmations,   \* confirmation_blocks
          Grace,           \* blocks between an expiration and its processing
          MinBatch, MaxBatch,  \* BlockBatchSizeConfig
          InitialScale,    \* log2 of the initial batch size
          Instances        \* sequence of records: what may happen in a behaviour

ASSUME SyncAssumption ==
  /\ Node = {Us, Them} /\ Us # Them
  /\ Confirmations \in Nat /\ Grace \in Nat \ {0}
  /\ MinBatch \in Nat \ {0} /\ MaxBatch \in Nat /\ MinBatch <= MaxBatch

VARIABLES
  chain,   \* the blocks: [event, a sequence of at most one; storage, after it;
           \*   full, whether it has a transaction]
  txs,     \* transactions, of the node and of others; block 0 is the pool
  node,    \* the durable state: [block, net, chans, log]
  sync,    \* the alarm task and the BlockchainEvents, in memory
  faults,  \* crashes, timeouts and reorganisations that are left
  inst     \* the number of the instance

syncVars == <<chain, txs, node, sync, faults, inst>>

Instance == Instances[inst]
head == Len(chain)
StorageAt(b) == IF b = 0 THEN Instance.storage ELSE chain[b].storage
latest == StorageAt(head)
confirmed == StorageAt(node.block)

-----------------------------------------------------------------------------
(***************************************************************************)
(* The contracts.  A channel is known by <<peer, k>>: the k-th channel     *)
(* opened with that peer.                                                  *)
(***************************************************************************)
RemovedChannel == [EmptyChannel EXCEPT !.state = REMOVED]

\* the record of a channel identifier: an earlier channel with the peer is removed
Record(s, id) ==
  CASE s.gen[id[1]] = id[2] -> s.chan[id[1]]
    [] s.gen[id[1]] > id[2] -> RemovedChannel
    [] OTHER -> EmptyChannel

\* the tokens in the channels other than the one with this identifier
NetDeposit(ch, n) == ch.deposit[n] - ch.withdrawn[n]
Elsewhere(s, id) ==
  LET others == {p \in Peers : <<p, s.gen[p]>> # id}
      ours == MapThenSumSet(LAMBDA p : NetDeposit(s.chan[p], Us), others)
      theirs == MapThenSumSet(LAMBDA p : NetDeposit(s.chan[p], Them), others)
  IN  [held |-> ours + theirs, by |-> [n \in Node |-> IF n = Us THEN ours ELSE 0]]
Current(s, p) == <<p, s.gen[p]>>

Possible(tx, s, b) ==
  CASE tx.op = "createERC20TokenNetwork" -> ~s.net
    [] tx.op = "registerSecret" -> tx.arg \notin s.secrets
    [] tx.op = "openChannel" ->
         s.net /\ ~OpenPrecheckFails(s.chan[tx.id[1]], Elsewhere(s, Current(s, tx.id[1])))
    [] OTHER -> Require(tx.by, tx.op, tx.arg, Record(s, tx.id), b, Elsewhere(s, tx.id))

\* a new channel gets the next identifier
TargetId(tx, s) ==
  IF tx.op = "openChannel" THEN <<tx.id[1], s.gen[tx.id[1]] + 1>> ELSE tx.id

Effect(tx, s, b) ==
  CASE tx.op = "createERC20TokenNetwork" -> [s EXCEPT !.net = TRUE]
    [] tx.op = "registerSecret" -> [s EXCEPT !.secrets = @ \union {tx.arg}]
    [] tx.op = "openChannel" ->
         [s EXCEPT !.gen[tx.id[1]] = @ + 1,
                   !.chan[tx.id[1]] = Execute(tx.by, tx.op, tx.arg, EmptyChannel, b)]
    [] OTHER -> [s EXCEPT !.chan[tx.id[1]] = Execute(tx.by, tx.op, tx.arg, @, b)]

Kind(op) ==
  CASE op = "createERC20TokenNetwork" -> "network" [] op = "registerSecret" -> "secret"
    [] op = "openChannel" -> "opened"              [] op = "setTotalDeposit" -> "deposit"
    [] op = "setTotalWithdraw" -> "withdraw"       [] op = "closeChannel" -> "closed"
    [] op \in {"settleChannel", "cooperativeSettle"} -> "settled"

EventOf(tx, s, b) ==
  [kind |-> Kind(tx.op), id |-> TargetId(tx, s), by |-> tx.by, b |-> b,
   amount |-> IF tx.op \in {"setTotalDeposit", "setTotalWithdraw"} THEN tx.arg[1] ELSE 0]

-----------------------------------------------------------------------------
(***************************************************************************)
(* The filters: which logs are asked for.                                  *)
(***************************************************************************)
\* RaidenContractFilter; there is one registry and one token network
NoFilter == [registry |-> FALSE, networks |-> FALSE, channels |-> {},
             secrets |-> FALSE, ignore |-> TRUE]

\* RaidenContractFilter.__bool__
Truthy(f) == f.registry \/ f.networks \/ f.channels # {} \/ f.secrets

\* RaidenContractFilter.to_web3_filters
Matches(f, e) ==
  \/ e.kind = "network" /\ f.registry
  \/ e.kind = "secret" /\ f.secrets /\ ~f.ignore
  \/ e.kind = "opened" /\ f.networks
  \/ e.kind \in {"closed", "settled", "deposit", "withdraw"} /\ e.id \in f.channels

\* RaidenContractFilter.union
Union(f, g) ==
  [registry |-> f.registry \/ g.registry, networks |-> f.networks \/ g.networks,
   channels |-> f.channels \union g.channels, secrets |-> f.secrets \/ g.secrets,
   ignore |-> f.ignore /\ g.ignore]

\* mutant: a token network of this batch is followed from the next batch on
new_filters_from_events_NoNetworks(events) ==
  LET opened == {i \in DOMAIN events : events[i].kind = "opened"}
  IN  [NoFilter EXCEPT !.channels = {events[i].id : i \in opened}, !.ignore = opened = {}]

\* the child filter has no secret registry: ignore only matters once it is merged
new_filters_from_events(events) ==
  LET kinds == {events[i].kind : i \in DOMAIN events}
      opened == {i \in DOMAIN events : events[i].kind = "opened"}
  IN  [NoFilter EXCEPT !.networks = "network" \in kinds,
                       !.channels = {events[i].id : i \in opened},
                       !.ignore = opened = {}]

\* smart_contract_filters_from_node_state
smart_contract_filters_from_node_state(n) ==
  LET channels == {c.id : c \in n.chans}
  IN  [registry |-> TRUE, networks |-> n.net, channels |-> channels,
       secrets |-> TRUE, ignore |-> channels = {}]

-----------------------------------------------------------------------------
(***************************************************************************)
(* BlockchainEvents.                                                       *)
(***************************************************************************)
\* BlockBatchSizeAdjuster.batch_size
batch_size(scale) == Max({MinBatch, Min({MaxBatch, 2^scale})})

\* increase does nothing at the maximum; decrease raises at the minimum
increase(scale) == IF batch_size(scale) >= MaxBatch THEN scale ELSE scale + 1
BlockBatchSizeTooSmall(scale) == batch_size(scale) <= MinBatch

\* one eth_getLogs for every part of the filter, decoded and sorted by block
Logs(f, from, to) ==
  SelectSeq(FlattenSeq([i \in 1..(to - from + 1) |-> chain[from + i - 1].event]),
            LAMBDA e : Matches(f, e))

\* _query_and_track: the filter, then the filters of the contracts found, until
\* nothing new is found.  A registry leads to networks, these to channels, and
\* channels to nothing: there are at most three rounds.
Rounds(f, from, to) ==
  LET e1 == Logs(f, from, to)    f1 == new_filters_from_events(e1)
      e2 == IF Truthy(f1) THEN Logs(f1, from, to) ELSE <<>>
      f2 == new_filters_from_events(e2)
      e3 == IF Truthy(f2) THEN Logs(f2, from, to) ELSE <<>>
  IN  <<[asked |-> TRUE, before |-> f, events |-> e1],
        [asked |-> Truthy(f1), before |-> Union(f, f1), events |-> e2],
        [asked |-> Truthy(f2), before |-> Union(Union(f, f1), f2), events |-> e3]>>

\* the range of the next request: both ends are included
FromBlock == sync.fetched + 1
ToBlock == Min({FromBlock + batch_size(sync.scale), sync.target})

-----------------------------------------------------------------------------
(***************************************************************************)
(* The state changes: v is the part [net, chans, log] of the durable state *)
(* that a batch changes.                                                   *)
(***************************************************************************)
NewChannel(id) ==
  [id |-> id, status |-> "opened", deposit |-> [n \in Node |-> 0],
   withdrawn |-> [n \in Node |-> 0], pending |-> {}, coop |-> 0]

Known(v, id) == \E c \in v.chans : c.id = id
Updated(v, id, f(_)) == {IF c.id = id THEN f(c) ELSE c : c \in v.chans}

\* blockchainevent_to_statechange: a close or a settlement of an unknown
\* channel is discarded
Discarded(v, e) == e.kind \in {"closed", "settled"} /\ ~Known(v, e.id)

\* handle_channelnew ignores a channel that is known; the others are dispatched
\* to the channel, if there is one.  Settled without pending locks, it is gone.
HandleEvent(v, e) ==
  CASE e.kind = "network" -> [v EXCEPT !.net = TRUE]
    [] e.kind = "opened" ->
         [v EXCEPT !.chans = IF Known(v, e.id) THEN @ ELSE @ \union {NewChannel(e.id)}]
    [] e.kind = "deposit" ->
         [v EXCEPT !.chans = Updated(v, e.id, LAMBDA c :
            [c EXCEPT !.deposit[e.by] = Max({@, e.amount})])]
    [] e.kind = "withdraw" ->
         [v EXCEPT !.chans = Updated(v, e.id, LAMBDA c :
            [c EXCEPT !.withdrawn[e.by] = e.amount,
                      !.pending = {w \in @ : e.by = Us => w.total # e.amount}])]
    [] e.kind = "closed" ->
         [v EXCEPT !.chans = Updated(v, e.id, LAMBDA c : [c EXCEPT !.status = "closed"])]
    [] e.kind = "settled" -> [v EXCEPT !.chans = {c \in @ : c.id # e.id}]
    [] OTHER -> v

\* the events one after the other; what reaches the log is a state change
HandleEvents(v, events, to) ==
  LET step[i \in 0..Len(events)] ==
        IF i = 0 THEN v
        ELSE LET u == step[i - 1] IN
             IF Discarded(u, events[i]) THEN u
             ELSE [HandleEvent(u, events[i])
                     EXCEPT !.log = Append(u.log, [ev |-> events[i], at |-> to])]
  IN  step[Len(events)]

\* _handle_block: events_for_expired_withdraws
ExpireWithdraws(c, b) ==
  IF c.status # "opened" THEN c
  ELSE LET live == {w \in c.pending : b < w.expiration + Grace}
       IN  [c EXCEPT !.pending = live,
                     !.coop = IF \E w \in live : w.expiration = @ THEN @ ELSE 0]

\* process_state_change_atomically: the events and the Block, or nothing
Dispatch(events, to) ==
  LET v == HandleEvents([net |-> node.net, chans |-> node.chans, log |-> node.log], events, to)
  IN  [block |-> to, net |-> v.net, chans |-> {ExpireWithdraws(c, to) : c \in v.chans},
       log |-> v.log]

-----------------------------------------------------------------------------
(***************************************************************************)
(* The chain's steps.                                                      *)
(***************************************************************************)
\* blocks at the end of the chain without a transaction
Trailing == head - Max({0} \union {b \in 1..head : chain[b].full})

\* the last block whose processing expires a pending withdraw
WantedBlock ==
  LET pending == UNION {c.pending : c \in node.chans}
  IN  Max({0} \union {w.expiration + Grace + Confirmations : w \in pending})

\* blocks without a transaction go on until what is on the chain is confirmed
\* and every pending withdraw has expired
MineEmpty ==
  /\ Trailing < Instance.quiet \/ head < WantedBlock
  /\ chain' = Append(chain, [event |-> <<>>, storage |-> StorageAt(head), full |-> FALSE])
  /\ UNCHANGED <<txs, node, sync, faults, inst>>

\* others only send what works; a transaction of the node may be overtaken by
\* another one, is then mined all the same and fails
MineTransaction(by) ==
  \E t \in txs :
    /\ t.block = 0 /\ t.by = by
    /\ LET s == StorageAt(head)  ok == Possible(t, s, head + 1) IN
       /\ ok \/ by = Us
       /\ chain' = Append(chain,
            [event |-> IF ok THEN <<EventOf(t, s, head + 1)>> ELSE <<>>,
             storage |-> IF ok THEN Effect(t, s, head + 1) ELSE s, full |-> TRUE])
       /\ txs' = (txs \ {t}) \union {[t EXCEPT !.block = head + 1, !.ok = ok]}
    /\ UNCHANGED <<node, sync, faults, inst>>

\* the last blocks are replaced, their transactions are in the pool again
Reorganise ==
  /\ faults.reorgs > 0
  /\ \E d \in 1..Min({Confirmations, head}) :
       /\ chain' = SubSeq(chain, 1, head - d)
       /\ txs' = {[t EXCEPT !.block = IF @ > head - d THEN 0 ELSE @] : t \in txs}
  /\ faults' = [faults EXCEPT !.reorgs = @ - 1]
  /\ UNCHANGED <<node, sync, inst>>

-----------------------------------------------------------------------------
(***************************************************************************)
(* The node's steps.  pc is "down", "boot" (about to synchronise before it *)
(* serves anybody), "idle" (the alarm task sleeps) or "loop" (it fetches). *)
(***************************************************************************)
Stopped ==
  [pc |-> "down", booting |-> TRUE, latest |-> 0, target |-> 0, fetched |-> 0,
   filter |-> NoFilter, scale |-> 0, known |-> -1, cut |-> FALSE]

Running == sync.pc # "down"

\* _synchronize_with_blockchain: a new BlockchainEvents from the durable state
Start ==
  /\ sync.pc = "down" /\ faults.starts > 0
  /\ faults' = [faults EXCEPT !.starts = @ - 1]
  /\ sync' = [Stopped EXCEPT !.pc = "boot", !.fetched = node.block, !.scale = InitialScale,
                             !.filter = smart_contract_filters_from_node_state(node)]
  /\ UNCHANGED <<chain, txs, node, inst>>

\* _best_effort_synchronize
Synchronize(latest_block) ==
  sync' = [sync EXCEPT !.pc = "loop", !.latest = latest_block, !.cut = FALSE,
                       !.target = Max({0, latest_block - Confirmations})]

BootSynchronize ==
  /\ sync.pc = "boot"
  /\ Synchronize(head)
  /\ UNCHANGED <<chain, txs, node, faults, inst>>

\* AlarmTask._maybe_run_callbacks: on its first run, and when there is a new block
maybe_run_callbacks ==
  /\ sync.pc = "idle"
  /\ sync.known = -1 \/ head > sync.known   \* -1: no block is known yet
  /\ Synchronize(head)
  /\ UNCHANGED <<chain, txs, node, faults, inst>>

Fetching == sync.pc = "loop" /\ sync.fetched < sync.target

\* fetch_logs_in_batch and the dispatch of its result.  A slow answer decreases
\* the batch size before anything is kept: at the minimum the node stops.
FetchBatch(pace) ==
  LET rounds == Rounds(sync.filter, FromBlock, ToBlock)
      bigger == sync.target - FromBlock > batch_size(sync.scale)
      scale == CASE pace = "fast" /\ bigger -> increase(sync.scale)
                 [] pace = "slow" -> sync.scale - 1
                 [] OTHER -> sync.scale
  IN  IF pace = "slow" /\ BlockBatchSizeTooSmall(sync.scale)
      THEN sync' = Stopped /\ UNCHANGED node
      ELSE /\ node' = Dispatch(rounds[1].events \o rounds[2].events \o rounds[3].events, ToBlock)
           /\ sync' = [sync EXCEPT !.fetched = ToBlock, !.scale = scale,
                                   !.filter = rounds[3].before]

Fetch ==
  /\ Fetching
  /\ \/ FetchBatch("fast") /\ UNCHANGED faults
     \/ /\ faults.slow > 0
        /\ FetchBatch("slow")
        /\ faults' = [faults EXCEPT !.slow = @ - 1]
  /\ UNCHANGED <<chain, txs, inst>>

\* EthGetLogsTimeout in one of the rounds: the filters found by the rounds before
\* stay merged, nothing is dispatched
FetchTimeout ==
  /\ Fetching /\ faults.slow > 0
  /\ faults' = [faults EXCEPT !.slow = @ - 1]
  /\ \E r \in 1..3 :
       LET rounds == Rounds(sync.filter, FromBlock, ToBlock) IN
       /\ rounds[r].asked
       /\ sync' = IF BlockBatchSizeTooSmall(sync.scale) THEN Stopped
                  ELSE [sync EXCEPT !.scale = @ - 1, !.filter = rounds[r].before]
  /\ UNCHANGED <<chain, txs, node, inst>>

\* the end of _best_effort_synchronize_with_confirmed_head, with its assertion,
\* and what its callers do: the boot repeats it until it is complete
EndSynchronize ==
  /\ sync.pc = "loop"
  /\ \/ ~Fetching /\ UNCHANGED faults
     \/ /\ Fetching /\ faults.cuts > 0   \* SyncTimeout.should_continue
        /\ faults' = [faults EXCEPT !.cuts = @ - 1]
  /\ sync' = CASE node.block > sync.target -> Stopped
               [] node.block < sync.target /\ sync.booting -> [sync EXCEPT !.pc = "boot"]
               [] OTHER -> [sync EXCEPT !.pc = "idle", !.booting = FALSE, !.cut = Fetching,
                                        !.known = IF sync.booting THEN @ ELSE sync.latest]
  /\ UNCHANGED <<chain, txs, node, inst>>

Crash ==
  /\ Running /\ faults.crashes > 0
  /\ faults' = [faults EXCEPT !.crashes = @ - 1]
  /\ sync' = Stopped
  /\ UNCHANGED <<chain, txs, node, inst>>

\* the channels a storage has, as a node that has followed the chain sees them
ViewOf(s) ==
  {[NewChannel(<<p, s.gen[p]>>) EXCEPT !.deposit = s.chan[p].deposit,
      !.withdrawn = s.chan[p].withdrawn,
      !.status = IF s.chan[p].state = CLOSED THEN "closed" ELSE "opened"]
   : p \in {p \in Peers : s.chan[p].state \in {OPENED, CLOSED}}}

SyncInit ==
  /\ inst \in DOMAIN Instances
  /\ chain = <<>>
  /\ txs = Instance.others
  /\ node = [block |-> 0, net |-> Instance.storage.net, chans |-> ViewOf(Instance.storage),
             log |-> <<>>]
  /\ sync = Stopped
  /\ faults = Instance.faults

ChainStep == MineEmpty \/ MineTransaction(Us) \/ MineTransaction(Them) \/ Reorganise
SyncStep == BootSynchronize \/ maybe_run_callbacks \/ Fetch \/ FetchTimeout \/ EndSynchronize

=============================================================================
