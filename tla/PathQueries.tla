---------------------------- MODULE PathQueries ----------------------------
(***************************************************************************)
(* How a payment gets its routes (raiden/routing.py) and pays for them     *)
(* (raiden/network/pathfinding.py): every payment is a greenlet that asks  *)
(* the pathfinding service (PFS) for paths and attaches an IOU.  An IOU    *)
(* replaces the one before it and its amount grows by the fee of every     *)
(* request, so the service is asked for the last one first.  The greenlets *)
(* share a semaphore and the price they know (pfs_config.info); they lose  *)
(* control at every request, at the semaphore and when they sleep.         *)
(*                                                                         *)
(* The service is external: it accepts an IOU that pays its price on top   *)
(* of the last one, and may answer late, not at all or with an error.      *)
(***************************************************************************)
EXTENDS Integers, FiniteSets, Sequences, FiniteSetsExt

CONSTANTS Payment,      \* the payments: each makes one query
          Targets,      \* functions [Payment -> where it goes to]
          Hop,          \* partners; a route is known by its first hop and its target
          Price,        \* fees the service may ask for
          MaximumFee,   \* pathfinding_max_fee
          IouTimeout,   \* pathfinding_iou_timeout
          MinExpiration,\* blocks an IOU has to be valid for, at least
          Attempts,     \* MAX_PATHS_QUERY_ATTEMPTS
          EarlierIous,  \* IOUs of earlier payments that the service may have
          MaxBlock,     \* bound of the block number
          Budget        \* how often [price, claim, lost, error, close, total] may happen

ASSUME QueriesAssumption ==
  /\ Price \subseteq Nat /\ MaximumFee \in Nat
  /\ Attempts \in Nat \ {0} /\ IouTimeout \in Nat \ {0} /\ MinExpiration \in Nat
  /\ \A f \in Targets : DOMAIN f = Payment
  /\ EarlierIous \subseteq [amount : Nat, expiration : Nat]
  /\ MaxBlock \in Nat \ {0}
  /\ Budget \in [{"price", "claim", "lost", "error", "close", "total"} -> Nat]

VARIABLES
  target,   \* where the payments go to, chosen once
  block,    \* the node's confirmed block
  chan,     \* [Hop -> [status, opened]]: the node's channels
  price,    \* pfs_config.info.price
  startPrice, \* its value at the start of the node
  lock,     \* the holder of iou_semaphore, a set of at most one payment
  query,    \* the greenlets
  tokens,   \* route_to_feedback_token: [route -> the query it is from, 0 for none]
  pfs,      \* the service: [price, block, iou, claimed, debt]
  flight,   \* requests the service has not handled yet
  budget

vars == <<target, startPrice, block, chan, price, lock, query, tokens, pfs, flight, budget>>

NoChannel == [status |-> "absent", opened |-> 0]
NoIou == [amount |-> 0, expiration |-> 0]
NoQuery ==
  [pc |-> "todo", view |-> [h \in Hop |-> NoChannel], block |-> 0, offered |-> 0, scrap |-> FALSE, tries |-> 0,
   iou |-> NoIou, updated |-> FALSE, result |-> "none", route |-> "none", found |-> {},
   feedback |-> 0]

Spend(what) ==
  /\ budget[what] > 0 /\ budget["total"] > 0
  /\ budget' = [budget EXCEPT ![what] = @ - 1, !["total"] = @ - 1]

-----------------------------------------------------------------------------
(***************************************************************************)
(* The node's views.                                                       *)
(***************************************************************************)
\* is_channel_usable_for_new_transfer, as far as the channel's state decides it
Usable(view, h) == view[h].status = "opened"
UsableHops(view) == {h \in Hop : Usable(view, h)}

\* get_best_routes: a direct channel comes first
IsDirect(view, i) == target[i] \in Hop /\ Usable(view, target[i])

\* latest_channel_opened_at, over all channels of the token network
LatestOpened(view) ==
  Max({0} \union {view[h].opened : h \in {h \in Hop : view[h].status # "absent"}})

\* make_route_state: only routes over an open channel, as the query saw it
RouteStates(view, hops) == {h \in hops : Usable(view, h)}

\* tuple(route_state.route)
RouteKey(h, i) == <<h, target[i]>>

\* make_iou, update_iou
make_iou(offered, at) == [amount |-> offered, expiration |-> at + IouTimeout]
update_iou(iou, offered) == [iou EXCEPT !.amount = @ + offered]

-----------------------------------------------------------------------------
(***************************************************************************)
(* The end of a query: Release leaves the block of the semaphore.          *)
(***************************************************************************)
Set(i, q) == query' = [query EXCEPT ![i] = q]
Release(i) == lock' = lock \ {i}
\* what the greenlet kept is gone; found, route and feedback are for the properties
Ended(q, result) ==
  [NoQuery EXCEPT !.pc = "done", !.result = result, !.found = q.found, !.route = q.route]
Failed(q) == Ended(q, "failed")

\* mutant: the channel is not looked at again
Chosen_Stale(q, hops) == {h \in hops : Usable(q.view, h)}

\* handle_and_track_state_changes follows without a pause: the initiator takes a
\* route whose channel is usable now, as try_new_route looks again
Chosen(q, hops) == {h \in hops : Usable(chan, h)}

Pay(i, q, hops) ==
  IF Chosen(q, hops) = {} THEN Set(i, Failed(q))
  ELSE \E h \in Chosen(q, hops) : Set(i, [Ended(q, "none") EXCEPT !.pc = "paying", !.route = h])

-----------------------------------------------------------------------------
(***************************************************************************)
(* get_best_routes and _query_paths.                                       *)
(***************************************************************************)
\* chain_state and the offered fee are read here and used to the end
Start(i) ==
  LET q == [query[i] EXCEPT !.view = chan, !.block = block, !.offered = price, !.tries = Attempts] IN
  /\ query[i].pc = "todo"
  /\ Set(i, CASE IsDirect(chan, i) -> [q EXCEPT !.pc = "metadata"]
              [] ~IsDirect(chan, i) /\ UsableHops(chan) = {} -> Failed(q)
              [] OTHER -> [q EXCEPT !.pc = "info"])
  /\ UNCHANGED <<target, startPrice, block, chan, price, lock, tokens, pfs, flight, budget>>

\* _query_address_metadata for the direct route
Metadata(i) ==
  /\ query[i].pc = "metadata"
  /\ \/ Pay(i, query[i], {target[i]}) /\ UNCHANGED budget
     \/ Spend("error") /\ Set(i, Failed(query[i]))
  /\ UNCHANGED <<target, startPrice, block, chan, price, lock, tokens, pfs, flight>>

\* mutant: the service must be at that very block
ServiceReady_Exact(q) == pfs.block = LatestOpened(q.view)

\* confirmed_block_number has reached pfs_wait_for_block
ServiceReady(q) == pfs.block >= LatestOpened(q.view)

\* get_pfs_info, until the service has seen the last channel that was opened
GetInfo(i) ==
  /\ query[i].pc = "info"
  /\ \/ /\ ServiceReady(query[i])
        /\ Set(i, [query[i] EXCEPT !.pc = "acquire"])
        /\ UNCHANGED budget
     \/ Spend("error") /\ Set(i, Failed(query[i]))
  /\ UNCHANGED <<target, startPrice, block, chan, price, lock, tokens, pfs, flight>>

Ready(q, iou) == [q EXCEPT !.pc = "post", !.iou = iou]

\* mutant: the semaphore lets everybody in
CanAcquire_Always == TRUE

CanAcquire == lock = {}

\* the semaphore, and create_current_iou up to the request for the last IOU
Acquire(i) ==
  LET q == query[i] IN
  /\ q.pc = "acquire" /\ CanAcquire
  /\ lock' = lock \union {i}
  /\ Set(i, CASE q.offered = 0 -> Ready(q, NoIou)
              [] q.offered > 0 /\ q.scrap -> Ready(q, make_iou(q.offered, q.block))
              [] OTHER -> [q EXCEPT !.pc = "last_iou"])
  /\ UNCHANGED <<target, startPrice, block, chan, price, tokens, pfs, flight, budget>>

\* get_last_iou
LastIou(i) ==
  LET q == query[i] IN
  /\ q.pc = "last_iou"
  /\ \/ /\ Set(i, Ready(q, IF pfs.iou = NoIou THEN make_iou(q.offered, q.block)
                           ELSE update_iou(pfs.iou, q.offered)))
        /\ UNCHANGED <<lock, budget>>
     \/ Spend("error") /\ Set(i, Failed(q)) /\ Release(i)
  /\ UNCHANGED <<target, startPrice, block, chan, price, tokens, pfs, flight>>

\* post_pfs_paths
Post(i) ==
  LET q == query[i] IN
  /\ q.pc = "post"
  /\ flight' = flight \union {[by |-> i, iou |-> q.iou, offered |-> q.offered, left |-> FALSE]}
  /\ Set(i, [q EXCEPT !.pc = "answer", !.tries = @ - 1])
  /\ UNCHANGED <<target, startPrice, block, chan, price, lock, tokens, pfs, budget>>

\* the request timed out or its connection was lost; it may be handled all the same
PostTimeout(i) ==
  /\ query[i].pc = "answer"
  /\ Spend("lost")
  /\ Set(i, Failed(query[i])) /\ Release(i)
  /\ flight' = {IF r.by = i THEN [r EXCEPT !.left = TRUE] ELSE r : r \in flight}
  /\ UNCHANGED <<target, startPrice, block, chan, price, tokens, pfs>>

\* leaving the semaphore to come back for another attempt
Again(i, q) == Set(i, [q EXCEPT !.pc = "acquire"]) /\ Release(i)

GiveUp(i, q) == Set(i, Failed(q)) /\ Release(i)

\* ServiceRequestIOURejected
Rejected(i, code) ==
  LET q == query[i] IN
  \/ q.tries = 0 /\ GiveUp(i, q)
  \/ /\ q.tries > 0
     /\ \/ code \in {"already_claimed", "expired_too_early"} /\ Again(i, [q EXCEPT !.scrap = TRUE])
        \/ code = "insufficient" /\ Set(i, [q EXCEPT !.pc = "new_info"]) /\ UNCHANGED lock
        \/ code \in {"missing_iou", "use_this_iou", "bad_iou"} /\ Again(i, q)

\* mutant: whatever the service asks for is paid
TooHigh_Never(p) == FALSE

TooHigh(p) == p > MaximumFee

\* the price is asked for again.  The fee that this query offers stays the same.
NewInfo(i) ==
  LET q == query[i] IN
  /\ q.pc = "new_info"
  /\ \/ TooHigh(pfs.price) /\ GiveUp(i, q) /\ UNCHANGED <<price, budget>>
     \/ /\ ~TooHigh(pfs.price)
        /\ price' = Max({price, pfs.price})
        /\ Again(i, [q EXCEPT !.updated = TRUE])
        /\ UNCHANGED budget
     \/ Spend("error") /\ GiveUp(i, q) /\ UNCHANGED price
  /\ UNCHANGED <<target, startPrice, block, chan, tokens, pfs, flight>>

\* the outcome of the payment: PFSFeedbackEventHandler reports on the route, with
\* the token that is kept for it
Feedback(i) ==
  LET q == query[i] IN
  /\ q.pc = "paying"
  /\ Set(i, [Ended(q, "paid") EXCEPT !.feedback = tokens[RouteKey(q.route, i)]])
  /\ UNCHANGED <<target, startPrice, block, chan, price, lock, tokens, pfs, flight, budget>>

-----------------------------------------------------------------------------
(***************************************************************************)
(* The service (external) and the surroundings.                            *)
(***************************************************************************)
\* an IOU that is to replace the last one
NextVerdict(r) ==
  IF pfs.iou.expiration # r.iou.expiration THEN "use_this_iou"
  ELSE IF r.iou.amount < pfs.iou.amount + pfs.price THEN "insufficient"
  ELSE "accepted"

\* the first IOU, or the first since the last one was claimed
FirstVerdict(r) ==
  IF r.iou.expiration \in pfs.claimed THEN "already_claimed"
  ELSE IF r.iou.expiration < pfs.block + MinExpiration THEN "expired_too_early"
  ELSE IF r.iou.amount < pfs.price THEN "insufficient"
  ELSE "accepted"

Verdict(r) ==
  CASE pfs.price = 0 -> "accepted"
    [] pfs.price > 0 /\ r.iou = NoIou -> "missing_iou"
    [] pfs.price > 0 /\ r.iou # NoIou /\ pfs.iou # NoIou -> NextVerdict(r)
    [] OTHER -> FirstVerdict(r)

\* the IOU is kept in place of the last one
Kept(r) ==
  IF pfs.price = 0 THEN pfs
  ELSE [pfs EXCEPT !.iou = r.iou, !.debt = @ + r.iou.amount - pfs.iou.amount]

\* the paths arrive: get_best_routes_pfs, initiator_init and the payment
Found(i, hops) ==
  LET routes == RouteStates(query[i].view, hops) IN
  /\ tokens' = [k \in DOMAIN tokens |-> IF k \in {RouteKey(h, i) : h \in routes} THEN i ELSE tokens[k]]
  /\ Pay(i, [query[i] EXCEPT !.found = hops], routes)
  /\ Release(i)

\* one request is handled; its answer is lost when nobody waits for it any more
Handle(r) ==
  LET i == r.by  verdict == Verdict(r) IN
  /\ r \in flight
  /\ flight' = flight \ {r}
  /\ pfs' = IF verdict = "accepted" THEN Kept(r) ELSE pfs
  /\ \/ r.left /\ UNCHANGED <<query, lock, tokens, budget>>
     \/ /\ ~r.left /\ verdict = "accepted"
        /\ \E hops \in SUBSET Hop : Found(i, hops)
        /\ UNCHANGED budget
     \/ ~r.left /\ verdict # "accepted" /\ Rejected(i, verdict) /\ UNCHANGED <<tokens, budget>>
     \/ ~r.left /\ Spend("error") /\ GiveUp(i, query[i]) /\ UNCHANGED tokens
     \/ /\ ~r.left /\ verdict # "accepted" /\ Spend("error")
        /\ Rejected(i, "bad_iou") /\ UNCHANGED tokens
  /\ UNCHANGED <<target, startPrice, block, chan, price>>

ChangePrice ==
  /\ Spend("price")
  /\ \E p \in Price \ {pfs.price} : pfs' = [pfs EXCEPT !.price = p]
  /\ UNCHANGED <<target, startPrice, block, chan, price, lock, query, tokens, flight>>

Claim ==
  /\ pfs.iou # NoIou /\ Spend("claim")
  /\ pfs' = [pfs EXCEPT !.iou = NoIou, !.claimed = @ \union {pfs.iou.expiration}]
  /\ UNCHANGED <<target, startPrice, block, chan, price, lock, query, tokens, flight>>

ServiceBlock ==
  /\ pfs.block < MaxBlock
  /\ pfs' = [pfs EXCEPT !.block = @ + 1]
  /\ UNCHANGED <<target, startPrice, block, chan, price, lock, query, tokens, flight, budget>>

\* a block of the node, with a channel that is opened in it or without
NodeBlock ==
  /\ block < MaxBlock
  /\ block' = block + 1
  /\ \/ UNCHANGED chan
     \/ \E h \in Hop : /\ chan[h].status = "absent"
                       /\ chan' = [chan EXCEPT ![h] = [status |-> "opened", opened |-> block + 1]]
  /\ UNCHANGED <<target, startPrice, price, lock, query, tokens, pfs, flight, budget>>

CloseChannel ==
  /\ Spend("close")
  /\ \E h \in Hop : Usable(chan, h) /\ chan' = [chan EXCEPT ![h].status = "closed"]
  /\ UNCHANGED <<target, startPrice, block, price, lock, query, tokens, pfs, flight>>

-----------------------------------------------------------------------------
\* configure_pfs_or_exit keeps the price of the service without comparing it with
\* the maximum: an explicit URL is not checked at all, and one that
\* get_valid_pfs_url has chosen is asked once more
Init ==
  /\ target \in Targets
  /\ block = 1
  /\ chan \in [Hop -> {NoChannel, [status |-> "opened", opened |-> 1]}]
  /\ startPrice \in Price /\ price = startPrice
  /\ lock = {}
  /\ query = [i \in Payment |-> NoQuery]
  /\ tokens = [k \in Hop \X (Hop \union {target[i] : i \in Payment}) |-> 0]
  /\ \E iou \in {NoIou} \union EarlierIous :
       pfs = [price |-> price, block |-> 0, iou |-> iou, claimed |-> {}, debt |-> iou.amount]
  /\ flight = {}
  /\ budget = Budget

QueryStep(i) ==
  \/ Metadata(i) \/ GetInfo(i) \/ Acquire(i) \/ LastIou(i) \/ Post(i) \/ NewInfo(i) \/ Feedback(i)

Next ==
  \/ \E i \in Payment : Start(i) \/ QueryStep(i) \/ PostTimeout(i)
  \/ \E r \in flight : Handle(r)
  \/ ChangePrice \/ Claim \/ ServiceBlock \/ NodeBlock \/ CloseChannel

Spec == Init /\ [][Next]_vars

\* The greenlets run, and the semaphore wakes its waiters one after the other; a
\* request is answered, or times out, which ends it; the service follows the chain.
Fairness ==
  /\ \A i \in Payment : WF_vars(QueryStep(i)) /\ SF_vars(Acquire(i))
  /\ WF_vars(\E r \in flight : Handle(r))
  /\ WF_vars(ServiceBlock)

LiveSpec == Spec /\ Fairness

-----------------------------------------------------------------------------
(***************************************************************************)
(* Properties.                                                             *)
(***************************************************************************)
Inside(i) == query[i].pc \in {"last_iou", "post", "answer", "new_info"}

\* The type invariant.  The semaphore is held by exactly the queries between
\* reading the last IOU and the answer, and a query makes at most
\* MAX_PATHS_QUERY_ATTEMPTS requests.
TypeOK ==
  /\ block \in 1..MaxBlock /\ price \in Price /\ startPrice \in Price
  /\ lock = {i \in Payment : Inside(i)}
  /\ \A i \in Payment :
       /\ query[i].tries \in 0..Attempts
       /\ query[i].pc \in {"todo", "metadata", "info", "acquire", "last_iou", "post", "answer",
                           "new_info", "paying", "done"}
       /\ query[i].pc = "done" <=> query[i].result # "none"
  /\ \A r \in flight : r.by \in Payment /\ (~r.left => query[r.by].pc = "answer")

\* As long as no request was given up, a request is only rejected as too cheap when
\* the service has raised its price: no two queries build on the same IOU ("only a
\* single greenlet can be in charge of increasing it at the same time", _query_paths).
\* The exception is a query that scrapped a claimed IOU: it makes a new one without
\* asking for the last, which another query may have made of the same expiration.
RejectedOnlyForPrice ==
  \A r \in flight : ~r.left /\ Verdict(r) = "insufficient" =>
    \/ pfs.price > r.offered
    \/ budget["lost"] < Budget["lost"]
    \/ query[r.by].scrap /\ pfs.iou # NoIou

\* A request that is too cheap although the price was not raised, nor a request given up,
\* is a sign of "Concurrent Pathfinding Service requests by same node" (_query_paths).
CheapMeansConcurrent ==
  \A r \in flight : ~r.left /\ Verdict(r) = "insufficient"
                      => pfs.price > r.offered \/ budget["lost"] < Budget["lost"]

\* the most a request may cost: the price the node was started with, or the maximum
FeeCap == Max({startPrice, MaximumFee})

\* What the node owes grows by at most the fee a request offers, and never by more
\* than the maximum fee of the configuration or the price the operator was shown at
\* the start, whatever is claimed, lost, retried or handled late (create_current_iou,
\* _query_paths).
FeeBounded ==
  [][\A r \in flight \ flight' : pfs'.debt - pfs.debt <= Min({r.offered, FeeCap})]_vars

\* "Set max fee per request paid to the path finding service" (cli.py).
MaximumFeeKept ==
  [][\A r \in flight \ flight' : pfs'.debt - pfs.debt <= MaximumFee]_vars

\* The service is asked only after it has processed the block of every channel the
\* query knows of ("Make sure that the PFS knows about the last channel we opened",
\* get_best_routes).
ServiceKnowsChannels ==
  \A i \in Payment : \A h \in Hop :
    (Inside(i) \/ query[i].pc = "acquire") /\ query[i].view[h].status # "absent"
      => query[i].view[h].opened <= pfs.block

\* A payment starts over a channel that is open, although the query keeps the view of
\* its beginning over all its requests (get_best_routes, make_route_state).
RouteIsOpen ==
  \A i \in Payment : query[i].pc # "paying" /\ query'[i].pc = "paying"
    => Usable(chan, query'[i].route)

\* The feedback on a payment names a query that found its very route
\* (route_to_feedback_token).
FeedbackForRoute ==
  \A i \in Payment : query[i].feedback # 0 =>
    LET t == query[i].feedback IN target[t] = target[i] /\ query[i].route \in query[t].found

\* Routes and feedback are about the present: they come from a service that knows
\* the channels, lead over an open one, and the feedback names the right query.
RoutesAreSound == [][ServiceKnowsChannels' /\ RouteIsOpen /\ FeedbackForRoute']_vars

\* Every query ends: the semaphore is passed on whatever happens to its holder
\* (_query_paths).  As a payment makes one query, it is enough that again and again
\* none is under way.
EveryQueryEnds == []<>(\A i \in Payment : query[i].pc \in {"todo", "done"})

\* The second attempt offers what the service asks for: "When the PFS complains about
\* insufficient fees, the client must update it's fee info" (test_insufficient_payment).
UpdatedFeeOffered ==
  \A i \in Payment : query[i].updated /\ query[i].pc = "post" => query[i].offered >= price

=============================================================================
