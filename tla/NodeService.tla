---------------------------- MODULE NodeService ----------------------------
(***************************************************************************)
(* One running node: raiden_service.py with its write-ahead log            *)
(* (storage/wal.py, storage/sqlite.py), the message queues of the state    *)
(* machine (transfer/node.py) and the sending half of the Matrix transport *)
(* (one _RetryQueue per receiver and the broadcast worker), through        *)
(* crashes, graceful stops and restarts.                                   *)
(*                                                                         *)
(* The node has one neighbour that pays it and one that it pays.  The      *)
(* state machine is reduced to what decides which messages are queued: the *)
(* number of transfers received, the queues, the generator of message      *)
(* identifiers and whether the payee's channel is closed.  As a mediator   *)
(* the node forwards what it receives; as a target it asks for the secret  *)
(* and, when the secret arrives, reveals it to the payer.                  *)
(*                                                                         *)
(* The network delivers what was ever sent, in any order and any number    *)
(* of times, or not at all: `sent' only grows, and an acknowledgement may  *)
(* arrive once the peer has the message.                                   *)
(***************************************************************************)
EXTENDS Integers, FiniteSets, Sequences, SequencesExt

CONSTANTS SnapshotCount,  \* SNAPSHOT_STATE_CHANGES_COUNT
          Instances       \* the bounds of a behaviour, one of:
\* [role, transfers the payer sends, ids drawn, stale: deliveries that change
\*  nothing, effects: state changes whose effects are pending at once,
\*  downs: crashes and stops, skips: monitoring requests may be skipped]

ASSUME ConstantsAssumption ==
  /\ SnapshotCount \in Nat
  /\ Instances \subseteq [role : {"mediator", "target"}, transfers : Nat, ids : Nat,
                          stale : Nat, effects : Nat, downs : Nat, skips : BOOLEAN]

VARIABLES
  inst,       \* the bounds of this behaviour, and what the node is in its payments
  phase,      \* down, syncing, synced, up, stopping
  db,         \* [snap, tail]: latest snapshot, state changes from its own one on
  st,         \* WriteAheadLog.state
  since,      \* state_change_qty - state_change_qty_snapshot
  effects,    \* state changes in _trigger_state_change_effects
  spawned,    \* greenlets of async_handle_events
  retry,      \* [peer -> _message_queue of its _RetryQueue]
  retrier,    \* [peer -> off, waiting, joining]
  broadcasts, \* _broadcast_queue: monitoring requests, by the transfer they are for
  multicast,  \* the requests the broadcast worker is sending
  prio,       \* _prioritize_broadcast_messages
  monitored,  \* latest transfer the monitoring service knows
  sent,       \* messages ever put on the wire
  received,   \* those the peers have
  onchain,    \* the payee's channel was closed
  boot,       \* forwards queued when this process started, if it asked for monitoring
  resent,     \* those of them it has sent
  downs, stale

durable == <<db, monitored, sent, received, onchain, inst>>
process == <<st, since, effects, spawned, retry, retrier, broadcasts, multicast, prio,
             boot, resent>>
vars == <<durable, process, phase, downs, stale>>

Peer == {"payer", "payee"}
Transfer == 1 .. inst.transfers
AnyTransfer == 1 .. Max({i.transfers : i \in Instances})

Msg(to, kind, k, id) == [to |-> to, kind |-> kind, k |-> k, id |-> id]
\* Delivered is sent once and not tracked: one entry stands for all of them
Delivered(p) == Msg(p, "Delivered", 0, 0)

(***************************************************************************)
(* transfer/node.py: the queues                                            *)
(***************************************************************************)
InitialState == [recv |-> 0, queue |-> [p \in Peer |-> <<>>], ids |-> 0, closed |-> FALSE]

\* update_queues: every SendMessageEvent is appended to its queue
Queue(s, out) ==
  [s EXCEPT !.queue = [p \in Peer |-> s.queue[p] \o SelectSeq(out, LAMBDA m : m.to = p)]]

\* inplace_delete_message: the identifier and the recipient must match
Delete(s, p, id) ==
  [s EXCEPT !.queue[p] = SelectSeq(@, LAMBDA m : m.id # id)]

\* A transfer with the next nonce is acknowledged (under the payer's own
\* identifier, here negative) and forwarded or answered with a secret
\* request; any other is refused.
TransferEvents(s, k) ==
  IF k # s.recv + 1 THEN <<>>
  ELSE <<Msg("payer", "Processed", k, -k)>> \o
       IF inst.role = "target" THEN <<Msg("payer", "SecretRequest", k, s.ids + 1)>>
       ELSE IF s.closed THEN <<>>
       ELSE <<Msg("payee", "LockedTransfer", k, s.ids + 1)>>

RevealEvents(s, k) ==
  IF k <= s.recv THEN <<Msg("payer", "RevealSecret", k, s.ids + 1)>> ELSE <<>>

Events(s, c) ==
  CASE c.kind = "transfer" -> TransferEvents(s, c.k)
    [] c.kind = "reveal" -> RevealEvents(s, c.k)
    [] OTHER -> <<>>

\* message_identifier_from_prng, once for every message of our own
Drawn(out) == Len(SelectSeq(out, LAMBDA m : m.id > 0))

\* Only the payer's queue is unordered; a Processed is looked up everywhere
HandleReceiveDelivered(s, p, id) == IF p = "payer" THEN Delete(s, p, id) ELSE s
HandleReceiveProcessed(s, p, id) == Delete(s, p, id)

\* the queue of a closed channel is dropped
HandleContractReceiveChannelClosed(s) ==
  [s EXCEPT !.closed = TRUE, !.queue["payee"] = <<>>]

\* handle_state_change, then update_queues
StateTransition(s, c) ==
  LET out == Events(s, c)
      n == CASE c.kind = "transfer" /\ out # <<>> -> [s EXCEPT !.recv = c.k]
             [] c.kind = "delivered" -> HandleReceiveDelivered(s, c.from, c.k)
             [] c.kind = "processed" -> HandleReceiveProcessed(s, c.from, c.k)
             [] c.kind = "closed" -> HandleContractReceiveChannelClosed(s)
             [] OTHER -> s
  IN Queue([n EXCEPT !.ids = @ + Drawn(out)], out)

Change(kind, from, k) == [kind |-> kind, from |-> from, k |-> k]

(***************************************************************************)
(* storage: a snapshot is stored with the identifier of the last state     *)
(* change it contains.  replay_state_changes applies an inclusive range    *)
(* that starts at this identifier, so that change is applied once more.    *)
(* The state changes before it are never read again.                       *)
(***************************************************************************)
RestoreOrInitSnapshot(d) == d.snap
GetStateChangesByRange(d) == d.tail
ReplayStateChanges(s, changes) == FoldLeft(StateTransition, s, changes)
Replay(d) == ReplayStateChanges(RestoreOrInitSnapshot(d), GetStateChangesByRange(d))

\* write_state_change
WriteStateChange(d, c) == [d EXCEPT !.tail = Append(@, c)]

\* mutant: stored with the identifier of the first change since the last one
Snapshot_FirstChange(s, d) == [snap |-> s, tail |-> d.tail]

\* write_state_snapshot under the lock of the log
Snapshot(s, d) == [snap |-> s, tail |-> <<Last(d.tail)>>]

EmptyProcess ==
  /\ st = InitialState /\ since = 0 /\ effects = <<>> /\ spawned = <<>>
  /\ retry = [p \in Peer |-> <<>>] /\ retrier = [p \in Peer |-> "off"]
  /\ broadcasts = <<>> /\ multicast = <<>> /\ prio = TRUE
  /\ boot = {} /\ resent = {}

\* the memory of a process that has ended
ForgetProcess ==
  /\ st' = InitialState /\ since' = 0 /\ effects' = <<>> /\ spawned' = <<>>
  /\ retry' = [p \in Peer |-> <<>>] /\ retrier' = [p \in Peer |-> "off"]
  /\ broadcasts' = <<>> /\ multicast' = <<>> /\ prio' = TRUE
  /\ boot' = {} /\ resent' = {}

Init ==
  /\ inst \in Instances /\ phase = "down" /\ EmptyProcess
  /\ db = [snap |-> InitialState, tail |-> <<>>]
  /\ monitored = 0 /\ sent = {} /\ received = {} /\ onchain = FALSE
  /\ downs = 0 /\ stale = 0

(***************************************************************************)
(* raiden_service.py: dispatching a state change                           *)
(***************************************************************************)

\* async_handle_events: a SecretRequest may block, each has a greenlet of its
\* own; all other messages of the batch share one
Blocking(m) == m.kind = "SecretRequest"
Greenlets(out) ==
  LET slow == SelectSeq(out, LAMBDA m : Blocking(m))
      fast == SelectSeq(out, LAMBDA m : ~Blocking(m))
  IN [i \in 1 .. Len(slow) |-> <<slow[i]>>] \o IF fast = <<>> THEN <<>> ELSE <<fast>>

MaybeSnapshot(n) == n > SnapshotCount

\* The end of _trigger_state_change_effects: _maybe_snapshot, then the events.
\* The snapshot is of the state the log has by then.
Finish(s, d, out) ==
  LET n == since + 1
      due == MaybeSnapshot(n)
  IN /\ since' = IF due THEN 0 ELSE n
     /\ db' = IF due THEN Snapshot(s, d) ELSE d
     /\ spawned' = spawned \o Greenlets(out)

\* process_state_change_atomically: state change and new state are committed
\* in one transaction, or none of them is
Commit(c) == st' = StateTransition(st, c) /\ StateTransition(st, c).ids <= inst.ids

\* handle_state_changes: a balance proof updates the monitoring service, which
\* asks the blockchain for the deposit first and so gives up control.
HandleStateChange(c) ==
  LET d == WriteStateChange(db, c)
      out == Events(st, c)
  IN /\ Commit(c)
     /\ IF c.kind = "transfer"
        THEN /\ Len(effects) < inst.effects
             /\ db' = d
             /\ effects' = Append(effects, [k |-> c.k, out |-> out])
             /\ UNCHANGED <<since, spawned>>
        ELSE /\ Finish(StateTransition(st, c), d, out)
             /\ UNCHANGED effects

\* update_monitoring_service_from_balance_proof: a request is broadcast, or the
\* function returns without one: monitoring is off, the user deposit does not
\* pay the reward, or the channel's balance is below the production minimum
UpdateMonitoringService(k) ==
  \/ broadcasts' = Append(broadcasts, k)
  \/ inst.skips /\ broadcasts' = broadcasts

\* _trigger_state_change_effects
TriggerEffects(i) ==
  /\ phase \in {"up", "stopping"}
  /\ UpdateMonitoringService(effects[i].k)
  /\ Finish(st, db, effects[i].out)
  /\ effects' = RemoveAt(effects, i)
  /\ UNCHANGED <<inst, phase, st, retry, retrier, multicast, prio, monitored, sent, received,
                 onchain, boot, resent, downs, stale>>

\* _RetryQueue.enqueue: a message that is already queued is ignored
Enqueue(q, m) == IF m \in Range(q) THEN q ELSE Append(q, m)

\* mutant: an idle _RetryQueue is kept although it has exited
GetRetrier_Exited(p) == retrier[p]

\* _get_retrier: a _RetryQueue that has exited is replaced by a new one
GetRetrier(p) == IF retrier[p] = "off" THEN "waiting" ELSE retrier[p]

\* send_async
EnqueueAll(out) ==
  /\ retry' = [p \in Peer |->
       FoldLeft(Enqueue, retry[p], SelectSeq(out, LAMBDA m : m.to = p))]
  /\ retrier' = [p \in Peer |->
       IF \E m \in Range(out) : m.to = p THEN GetRetrier(p) ELSE retrier[p]]

\* _handle_events: greenlets that do not block run in the order of their start
HandleEvents(i) ==
  /\ phase \in {"up", "stopping"}
  /\ \/ Blocking(spawned[i][1])
     \/ \A j \in 1 .. (i - 1) : Blocking(spawned[j][1])
  /\ EnqueueAll(spawned[i])
  /\ spawned' = RemoveAt(spawned, i)
  /\ UNCHANGED <<durable, phase, st, since, effects, broadcasts, multicast, prio, boot, resent,
                 downs, stale>>

\* What the network may deliver to the node
Arrivals ==
  {Change("transfer", "payer", k) : k \in Transfer}
    \cup {Change("reveal", "payer", m.k) : m \in {x \in received : x.kind = "SecretRequest"}}
    \cup {Change("delivered", "payer", m.id) : m \in {x \in received : x.to = "payer"}}
    \cup {Change("processed", "payee", m.id) : m \in {x \in received : x.to = "payee"}}

\* _process_raiden_messages: a Delivered is queued, then the message handled
ReceiveMessage(c) ==
  /\ phase = "up"
  /\ IF StateTransition(st, c) = st THEN stale < inst.stale /\ stale' = stale + 1
                                    ELSE stale' = stale
  /\ HandleStateChange(c)
  /\ EnqueueAll(IF c.kind = "delivered" THEN <<>> ELSE <<Delivered(c.from)>>)
  /\ UNCHANGED <<inst, phase, broadcasts, multicast, prio, monitored, sent, received,
                 onchain, boot, resent, downs>>

\* The alarm task sees the close of the payee's channel
ReceiveChannelClosed ==
  /\ phase = "up" /\ onchain /\ ~st.closed
  /\ HandleStateChange(Change("closed", "payee", 0))
  /\ UNCHANGED <<inst, phase, retry, retrier, broadcasts, multicast, prio, monitored, sent,
                 received, onchain, boot, resent, downs, stale>>

(***************************************************************************)
(* The transport                                                           *)
(***************************************************************************)
BroadcastsPending == broadcasts # <<>> \/ multicast # <<>>

\* message_is_in_queue: the state machine still wants the message sent
InQueue(m) == m.id \in {x.id : x \in Range(st.queue[m.to])}

\* _check_and_send: a Delivered is sent once, a message that has left the
\* state's queue is dropped, the others are sent when their timeout is over.
CheckAndSend(p, due) ==
  /\ retry' = [retry EXCEPT ![p] = SelectSeq(@, LAMBDA m : m.kind # "Delivered" /\ InQueue(m))]
  /\ due \subseteq Range(retry'[p])
  /\ sent' = sent \cup due
  /\ resent' = resent \cup {m.k : m \in {x \in due : x.kind = "LockedTransfer" /\ x.k \in boot}}
  /\ retrier' = [retrier EXCEPT ![p] = "waiting"]
  /\ UNCHANGED <<inst, phase, db, st, since, effects, spawned, broadcasts, multicast, prio,
                 monitored, received, onchain, boot, downs, stale>>

\* mutant: messages do not wait for the broadcasts
MustJoin_Never == FALSE

\* On start-up a _RetryQueue first waits for the broadcasts
MustJoin == prio /\ BroadcastsPending

Retry(p, due) ==
  /\ phase \in {"up", "stopping"} /\ retry[p] # <<>>
  /\ \/ retrier[p] = "waiting" /\ ~MustJoin
     \/ retrier[p] = "joining" /\ ~BroadcastsPending
  /\ CheckAndSend(p, due)

Join(p) ==
  /\ phase \in {"up", "stopping"} /\ retrier[p] = "waiting" /\ retry[p] # <<>> /\ MustJoin
  /\ retrier' = [retrier EXCEPT ![p] = "joining"]
  /\ UNCHANGED <<durable, phase, st, since, effects, spawned, retry, broadcasts, multicast,
                 prio, boot, resent, downs, stale>>

\* _run: nothing to send for RETRY_QUEUE_IDLE_AFTER rounds
ExitIdle(p) ==
  /\ phase \in {"up", "stopping"} /\ retrier[p] = "waiting" /\ retry[p] = <<>>
  /\ retrier' = [retrier EXCEPT ![p] = "off"]
  /\ UNCHANGED <<durable, phase, st, since, effects, spawned, retry, broadcasts, multicast,
                 prio, boot, resent, downs, stale>>

\* _broadcast_worker: takes all that is queued, sends it, marks it as done
TakeBroadcasts ==
  /\ phase \in {"up", "stopping"} /\ multicast = <<>> /\ broadcasts # <<>>
  /\ multicast' = broadcasts /\ broadcasts' = <<>>
  /\ UNCHANGED <<durable, phase, st, since, effects, spawned, retry, retrier, prio, boot,
                 resent, downs, stale>>

\* mutant: task_done is not called
MulticastServices_NotDone ==
  /\ phase \in {"up", "stopping"} /\ multicast # <<>>
  /\ monitored' = Max({monitored} \cup Range(multicast))
  /\ prio' = FALSE
  /\ UNCHANGED <<inst, phase, db, st, since, effects, spawned, retry, retrier, broadcasts, sent,
                 multicast, received, onchain, boot, resent, downs, stale>>

MulticastServices ==
  /\ phase \in {"up", "stopping"} /\ multicast # <<>>
  /\ monitored' = Max({monitored} \cup Range(multicast))
  /\ multicast' = <<>> /\ prio' = FALSE
  /\ UNCHANGED <<inst, phase, db, st, since, effects, spawned, retry, retrier, broadcasts, sent,
                 received, onchain, boot, resent, downs, stale>>

NothingToBroadcast ==
  /\ phase = "up" /\ ~BroadcastsPending /\ prio
  /\ prio' = FALSE
  /\ UNCHANGED <<durable, phase, st, since, effects, spawned, retry, retrier, broadcasts,
                 multicast, boot, resent, downs, stale>>

(***************************************************************************)
(* Start, stop and crash                                                   *)
(***************************************************************************)

\* mutant: the changes since the snapshot are dropped
InitializeWal_Drop ==
  /\ phase = "down"
  /\ phase' = "syncing"
  /\ st' = db.snap /\ db' = [db EXCEPT !.tail = <<>>]
  /\ since' = 0
  /\ UNCHANGED <<inst, monitored, sent, received, onchain, effects, spawned, retry, retrier,
                 broadcasts, multicast, prio, boot, resent, downs, stale>>

\* _initialize_wal: restore_or_init_snapshot and replay_state_changes
InitializeWal ==
  /\ phase = "down"
  /\ phase' = "syncing"
  /\ st' = Replay(db)
  /\ since' = Len(db.tail)
  /\ UNCHANGED <<durable, effects, spawned, retry, retrier, broadcasts, multicast, prio, boot,
                 resent, downs, stale>>

\* _synchronize_with_blockchain: state changes are logged, but events are not
\* handled before ready_to_process_events is set
Synchronize ==
  /\ phase = "syncing"
  /\ phase' = "synced"
  /\ IF onchain /\ ~st.closed
     THEN HandleStateChange(Change("closed", "payee", 0))
     ELSE UNCHANGED <<st, db, since, spawned, effects>>
  /\ UNCHANGED <<inst, retry, retrier, broadcasts, multicast, prio, monitored, sent, received,
                 onchain, boot, resent, downs, stale>>

\* all that the state has queued is given to the transport before it starts
InitializeMessagesQueues == retry' = st.queue

\* the latest balance proof received, by update_monitoring_service_from_balance_proof
InitializeMonitoringServicesQueue ==
  /\ IF st.recv = 0 THEN UNCHANGED broadcasts ELSE UpdateMonitoringService(st.recv)
  /\ boot' = IF broadcasts' = broadcasts THEN {} ELSE {m.k : m \in Range(st.queue["payee"])}

\* MatrixTransport.start: the _RetryQueues that were initialized
StartRetriers ==
  retrier' = [p \in Peer |-> IF st.queue[p] = <<>> THEN "off" ELSE "waiting"]

\* _start_transport
StartTransport ==
  /\ phase = "synced"
  /\ phase' = "up"
  /\ InitializeMessagesQueues /\ InitializeMonitoringServicesQueue /\ StartRetriers
  /\ UNCHANGED <<durable, st, since, effects, spawned, multicast, prio, resent, downs, stale>>

\* RaidenService.stop: the broadcasts are sent before the transport stops
Stop ==
  /\ phase = "up" /\ downs < inst.downs
  /\ phase' = "stopping" /\ downs' = downs + 1
  /\ UNCHANGED <<durable, process, stale>>

Stopped ==
  /\ phase = "stopping" /\ ~BroadcastsPending
  /\ phase' = "down" /\ ForgetProcess
  /\ UNCHANGED <<durable, downs, stale>>

\* The process dies: only the database is left
Crash ==
  /\ phase # "down" /\ downs < inst.downs
  /\ phase' = "down" /\ downs' = downs + 1 /\ ForgetProcess
  /\ UNCHANGED <<durable, stale>>

(***************************************************************************)
(* The peers (external): the payee takes balance proofs in the order of    *)
(* their nonces.                                                           *)
(***************************************************************************)
PeerReceives(m) ==
  /\ m \in sent \ received
  /\ m.kind = "LockedTransfer" =>
       \A k \in 1 .. (m.k - 1) : \E x \in received : x.kind = "LockedTransfer" /\ x.k = k
  /\ received' = received \cup {m}
  /\ UNCHANGED <<inst, db, monitored, sent, onchain, process, phase, downs, stale>>

CloseOnChain ==
  /\ inst.role = "mediator" /\ ~onchain
  /\ onchain' = TRUE
  /\ UNCHANGED <<inst, db, monitored, sent, received, process, phase, downs, stale>>

Next ==
  \/ InitializeWal \/ Synchronize \/ StartTransport \/ Stop \/ Stopped \/ Crash
  \/ \E c \in Arrivals : ReceiveMessage(c)
  \/ ReceiveChannelClosed
  \/ \E i \in DOMAIN effects : TriggerEffects(i)
  \/ \E i \in DOMAIN spawned : HandleEvents(i)
  \/ \E p \in Peer : Join(p) \/ ExitIdle(p) \/ \E due \in SUBSET Range(retry[p]) : Retry(p, due)
  \/ TakeBroadcasts \/ MulticastServices \/ NothingToBroadcast
  \/ \E m \in sent : PeerReceives(m)
  \/ CloseOnChain

Spec == Init /\ [][Next]_vars

\* Greenlets of the process run and a stopped node is started again; timeouts
\* of a queued message elapse (the back-off is bounded by retry_interval_max)
\* and of the copies that are sent again and again one arrives.
Forwards == {Msg("payee", "LockedTransfer", k, k) : k \in AnyTransfer}
SendsForward(m) == \E due \in SUBSET Range(retry["payee"]) : m \in due /\ Retry("payee", due)
Fairness ==
  /\ WF_vars(InitializeWal) /\ WF_vars(Synchronize) /\ WF_vars(StartTransport)
  /\ WF_vars(Stopped)
  /\ WF_vars(\E i \in DOMAIN effects : TriggerEffects(i))
  /\ WF_vars(\E i \in DOMAIN spawned : HandleEvents(i))
  /\ WF_vars(Join("payee"))
  /\ WF_vars(TakeBroadcasts) /\ WF_vars(MulticastServices) /\ WF_vars(NothingToBroadcast)
  /\ \A m \in Forwards : SF_vars(SendsForward(m)) /\ WF_vars(PeerReceives(m))

LiveSpec == Spec /\ Fairness

-----------------------------------------------------------------------------
Running == phase \in {"syncing", "synced", "up", "stopping"}

Messages ==
  [to : Peer, kind : {"Processed", "SecretRequest", "RevealSecret", "LockedTransfer", "Delivered"},
   k : 0 .. inst.transfers, id : (-inst.transfers) .. (inst.ids + inst.downs)]
Changes == [kind : {"transfer", "reveal", "delivered", "processed", "closed"}, from : Peer,
            k : (-inst.transfers) .. (inst.ids + inst.downs)]
StateOK(s) ==
  /\ s.recv \in 0 .. inst.transfers /\ s.ids \in Nat /\ s.closed \in BOOLEAN
  /\ \A p \in Peer : Range(s.queue[p]) \subseteq Messages

\* Types; the log never holds more than one snapshot's worth of changes and
\* the ones whose effects are pending (_maybe_snapshot runs with each), and
\* identifiers are drawn only while they last.
TypeOK ==
  /\ inst \in Instances /\ phase \in {"down", "syncing", "synced", "up", "stopping"}
  /\ StateOK(st) /\ StateOK(db.snap) /\ Range(db.tail) \subseteq Changes
  /\ Len(db.tail) <= SnapshotCount + 2 + inst.effects
  /\ retrier \in [Peer -> {"off", "waiting", "joining"}]
  /\ \A p \in Peer : Range(retry[p]) \subseteq Messages
  /\ received \subseteq sent /\ sent \subseteq Messages
  /\ monitored \in 0 .. inst.transfers /\ resent \subseteq boot

\* A crash at any moment loses nothing: replaying the database gives exactly
\* the state in memory (process_state_change_atomically commits the change
\* before it replaces the state; snapshot reads state and identifier together),
\* unless the last change of the snapshot is a secret reveal.
RestoreIsExact ==
  Running /\ (db.tail # <<>> => db.tail[1].kind # "reveal") => Replay(db) = st

\* restore_or_init_snapshot is documented to return the state change that is
\* not applied yet: replaying would then always give the state in memory.
RestoreAppliesOnce == Running => Replay(db) = st

\* The payer is told that a transfer was processed, and the payee gets its
\* transfer, only when the state that a restart would restore has the transfer.
SentIsDurable ==
  \A m \in sent : m.kind \in {"Processed", "LockedTransfer"} => m.k <= Replay(db).recv

\* No message is forgotten: what the state has queued is held by a running
\* _RetryQueue or on its way to one (enqueue, _get_retrier, the exit of an idle
\* _RetryQueue, _initialize_messages_queues).
NoForgottenMessage ==
  phase = "up" =>
    \A p \in Peer :
      /\ \A m \in Range(st.queue[p]) :
           \/ m \in Range(retry[p])
           \/ \E i \in DOMAIN effects : m \in Range(effects[i].out)
           \/ \E i \in DOMAIN spawned : m \in Range(spawned[i])
      /\ retry[p] # <<>> => retrier[p] # "off"

\* A message stays queued, over restarts too, until its receiver has it or the
\* channel is closed (inplace_delete_message).
QueuedUntilReceived ==
  Running => \A k \in 1 .. st.recv :
    LET held == Range(st.queue["payer"]) \cup Range(st.queue["payee"]) \cup received IN
    /\ \E m \in held : m.kind = "Processed" /\ m.k = k
    /\ inst.role = "mediator" /\ ~onchain => \E m \in held : m.kind = "LockedTransfer" /\ m.k = k

\* A message is never lost: until its receiver has it, it is in the queue of the
\* state, over restarts too, and a running _RetryQueue holds it or is about to.
NoMessageLost == NoForgottenMessage /\ QueuedUntilReceived

\* After a restart that asks for monitoring no forward goes out again before the
\* monitoring service has the balance proof it depends on
\* (_prioritize_broadcast_messages and _initialize_monitoring_services_queue).
RestartMonitorsFirst == \A k \in resent : k <= monitored

\* "The node must always send the *received* balance proof to the monitoring
\* service, *before* sending its own locked transfer forward".
MonitoredBeforeForwarded == \A m \in sent : m.kind = "LockedTransfer" => m.k <= monitored

\* Every transfer that was taken over is forwarded in the end, whatever crashes
\* happen on the way, unless the payee's channel is closed.
EveryTransferForwarded ==
  \A k \in AnyTransfer :
    (inst.role = "mediator" /\ Replay(db).recv >= k)
      ~> (onchain \/ \E m \in received : m.kind = "LockedTransfer" /\ m.k = k)
=============================================================================
