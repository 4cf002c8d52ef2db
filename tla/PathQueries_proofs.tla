------------------------ MODULE PathQueries_proofs ------------------------
(***************************************************************************)
(* Proofs about the queries for paths, for any set of payments, any prices *)
(* and any faults: what the node owes the service, why a request is turned *)
(* down, and what the routes and the feedback are about.                   *)
(***************************************************************************)
EXTENDS PathQueries, TLAPS

-----------------------------------------------------------------------------
(***************************************************************************)
(* The inductive invariant.                                                *)
(***************************************************************************)
Ious == [amount : Nat, expiration : Nat]
Channels == [status : {"absent", "opened", "closed"}, opened : 0..MaxBlock]
Pcs == {"todo", "metadata", "info", "acquire", "last_iou", "post", "answer", "new_info", "paying", "done"}
Queries ==
  [pc : Pcs, view : [Hop -> Channels], block : Nat, offered : Nat, scrap : BOOLEAN,
   tries : 0..Attempts, iou : Ious, updated : BOOLEAN, result : {"none", "failed", "paid"},
   route : Hop \union {"none"}, found : SUBSET Hop, feedback : Payment \union {0}]
Requests == [by : Payment, iou : Ious, offered : Nat, left : BOOLEAN]
Services == [price : Price, block : Nat, iou : Ious, claimed : SUBSET Nat, debt : Int]
Budgets == [{"price", "claim", "lost", "error", "close", "total"} -> Nat]

Types ==
  /\ target \in Targets
  /\ block \in 1..MaxBlock
  /\ chan \in [Hop -> Channels]
  /\ price \in Price
  /\ lock \subseteq Payment
  /\ query \in [Payment -> Queries]
  /\ tokens \in [Hop \X (Hop \union {target[i] : i \in Payment}) -> Payment \union {0}]
  /\ pfs \in Services
  /\ flight \subseteq Requests
  /\ budget \in Budgets /\ budget["lost"] <= Budget["lost"]

NothingLost == budget["lost"] = Budget["lost"]

\* an IOU adds at most the fee that is offered to whatever the service would take it for
Fair(iou, offered) ==
  \/ iou.amount <= offered
  \/ iou.expiration \in pfs.claimed
  \/ /\ pfs.iou # NoIou /\ pfs.iou.expiration = iou.expiration
     /\ iou.amount <= pfs.iou.amount + offered

\* ... and exactly that fee, if no request was given up and the query has asked for the
\* last IOU, as all do that have not scrapped one
Exact(q) ==
  q.offered > 0 =>
    IF pfs.iou = NoIou THEN q.iou.amount = q.offered \/ q.iou.expiration \in pfs.claimed
    ELSE \/ q.scrap /\ q.iou.amount = q.offered
         \/ q.iou.expiration = pfs.iou.expiration /\ q.iou.amount = pfs.iou.amount + q.offered

InsidePcs == {"last_iou", "post", "answer", "new_info"}

\* what a query keeps about itself
Local(i, q) ==
  /\ q.pc = "metadata" => target[i] \in Hop
  /\ q.pc = "paying" => q.route \in Hop
  /\ q.pc = "done" <=> q.result # "none"
  /\ q.pc \in {"info", "acquire", "last_iou", "post", "new_info"} => q.tries > 0
  /\ q.pc = "last_iou" => q.offered > 0

\* the service has seen the channels of the query's view
Known(q) ==
  q.pc \in InsidePcs \union {"acquire"} =>
    \A h \in Hop : q.view[h].status # "absent" => q.view[h].opened <= pfs.block

\* the IOU that a query sends
Pays(q) ==
  q.pc \in {"post", "answer"} =>
    /\ Fair(q.iou, q.offered)
    /\ q.offered = 0 => q.iou = NoIou
    /\ NothingLost => Exact(q)

\* the request is the one that its query waits for, unless the query has left it
Flying(r) ==
  /\ Fair(r.iou, r.offered)
  /\ r.left => ~NothingLost
  /\ ~r.left => /\ query[r.by].pc = "answer"
                /\ r.iou = query[r.by].iou
                /\ r.offered = query[r.by].offered

\* query t has found the route over h to x, and is over
TokenOf(t, h, x) ==
  t \in Payment /\ target[t] = x /\ h \in query[t].found /\ query[t].pc \in {"paying", "done"}

Semaphore ==
  /\ \A i \in Payment : i \in lock <=> query[i].pc \in InsidePcs
  /\ \A i, j \in lock : i = j

TokensInv == \A k \in DOMAIN tokens : tokens[k] # 0 => TokenOf(tokens[k], k[1], k[2])

ServiceInv == pfs.iou # NoIou => pfs.iou.expiration \notin pfs.claimed

QueryInv(i) ==
  /\ Local(i, query[i])
  /\ Known(query[i])
  /\ Pays(query[i])
  /\ query[i].feedback # 0 => TokenOf(query[i].feedback, query[i].route, target[i])

QInv ==
  /\ Types
  /\ Semaphore
  /\ ServiceInv
  /\ TokensInv
  /\ \A r \in flight : Flying(r)
  /\ \A i \in Payment : QueryInv(i)

-----------------------------------------------------------------------------
(***************************************************************************)
(* The operators.                                                          *)
(***************************************************************************)
(* The larger of two numbers, as the price that is kept (_query_paths). *)
LEMMA MaxOfTwo ==
  ASSUME NEW a \in Nat, NEW b \in Nat
  PROVE  Max({a, b}) = IF a >= b THEN a ELSE b
<1>1. CASE a >= b
  <2>1. \E x \in {a, b} : \A y \in {a, b} : x >= y
    BY <1>1
  <2>2. Max({a, b}) \in {a, b} /\ \A y \in {a, b} : Max({a, b}) >= y
    BY <2>1 DEF Max
  <2> QED
    BY <1>1, <2>2
<1>2. CASE ~(a >= b)
  <2>1. \E x \in {a, b} : \A y \in {a, b} : x >= y
    BY <1>2
  <2>2. Max({a, b}) \in {a, b} /\ \A y \in {a, b} : Max({a, b}) >= y
    BY <2>1 DEF Max
  <2> QED
    BY <1>2, <2>2
<1> QED
  BY <1>1, <1>2

(* The smaller of two numbers, as FeeBounded uses it for the fee of a request. *)
LEMMA MinOfTwo ==
  ASSUME NEW a \in Nat, NEW b \in Nat, a <= b
  PROVE  Min({a, b}) = a
<1>1. \E x \in {a, b} : \A y \in {a, b} : x =< y
  OBVIOUS
<1>2. Min({a, b}) \in {a, b} /\ \A y \in {a, b} : Min({a, b}) =< y
  BY <1>1 DEF Min
<1> QED
  BY <1>2

(* One unit of the budget of a fault: only a lost request is spent from "lost". *)
LEMMA SpendLemma ==
  ASSUME budget \in Budgets, NEW what \in {"price", "claim", "error", "close"}, Spend(what)
  PROVE  budget' \in Budgets /\ budget'["lost"] = budget["lost"]
<1>1. budget[what] \in Nat \ {0} /\ budget["total"] \in Nat \ {0}
  BY DEF Spend, Budgets
<1> QED
  BY <1>1 DEF Spend, Budgets

(* A request that is given up is spent from "lost". *)
LEMMA SpendLost ==
  ASSUME budget \in Budgets, Spend("lost")
  PROVE  budget' \in Budgets /\ budget'["lost"] < budget["lost"]
<1>1. budget["lost"] \in Nat \ {0} /\ budget["total"] \in Nat \ {0}
  BY DEF Spend, Budgets
<1> QED
  BY <1>1 DEF Spend, Budgets

(* A query that has not begun. *)
LEMMA NoQueryType == NoQuery \in Queries
<1>1. NoChannel \in Channels
  BY QueriesAssumption DEF NoChannel, Channels
<1>2. [h \in Hop |-> NoChannel] \in [Hop -> Channels]
  BY <1>1
<1>3. NoIou \in Ious
  BY DEF NoIou, Ious
<1>4. 0 \in 0..Attempts
  BY QueriesAssumption
<1> QED
  BY <1>2, <1>3, <1>4 DEF NoQuery, Queries, Pcs

(* What is kept of a query that is over (Ended). *)
LEMMA EndedFields ==
  ASSUME NEW q \in Queries, NEW result \in {"none", "failed", "paid"}
  PROVE  /\ Ended(q, result) \in Queries
         /\ Ended(q, result).pc = "done" /\ Ended(q, result).result = result
         /\ Ended(q, result).found = q.found /\ Ended(q, result).route = q.route
         /\ Ended(q, result).feedback = 0
<1>1. q.found \in SUBSET Hop /\ q.route \in Hop \union {"none"}
  BY DEF Queries
<1>2. PICK n : n = NoQuery
  OBVIOUS
<1>3. n \in Queries /\ n.feedback = 0
  BY <1>2, NoQueryType DEF NoQuery
<1>4. Ended(q, result) = [n EXCEPT !.pc = "done", !.result = result, !.found = q.found, !.route = q.route]
  BY <1>2 DEF Ended
<1> QED
  BY Zenon, <1>1, <1>3, <1>4 DEF Queries, Pcs

(* A query that fails leaves what it found as it was (Failed). *)
LEMMA FailedFields ==
  ASSUME NEW q \in Queries
  PROVE  /\ Failed(q) \in Queries
         /\ Failed(q).pc = "done" /\ Failed(q).result = "failed"
         /\ Failed(q).found = q.found /\ Failed(q).route = q.route
         /\ Failed(q).feedback = 0
BY EndedFields DEF Failed

(* A payment that begins (Pay): its route leads over a channel that is open now. *)
LEMMA PayFields ==
  ASSUME NEW i \in Payment, NEW q \in Queries, NEW hops, hops \subseteq Hop, Pay(i, q, hops)
  PROVE  \E n \in Queries :
           /\ Set(i, n)
           /\ n.found = q.found /\ n.feedback = 0
           /\ \/ n.pc = "done" /\ n.result = "failed"
              \/ n.pc = "paying" /\ n.result = "none" /\ n.route \in hops /\ Usable(chan, n.route)
<1>1. CASE Chosen(q, hops) = {}
  <2>1. Set(i, Failed(q))
    BY <1>1 DEF Pay
  <2> QED
    BY <2>1, FailedFields
<1>2. CASE Chosen(q, hops) # {}
  <2>1. PICK h \in Chosen(q, hops) : Set(i, [Ended(q, "none") EXCEPT !.pc = "paying", !.route = h])
    BY Zenon, <1>2 DEF Pay
  <2>2. h \in hops /\ h \in Hop /\ Usable(chan, h)
    BY <2>1 DEF Chosen
  <2>3. PICK e : e = Ended(q, "none")
    OBVIOUS
  <2>4. e \in Queries /\ e.result = "none" /\ e.found = q.found /\ e.feedback = 0
    BY <2>3, EndedFields
  <2>5. PICK n : n = [e EXCEPT !.pc = "paying", !.route = h]
    OBVIOUS
  <2>6. /\ n \in Queries /\ n.found = q.found /\ n.feedback = 0
        /\ n.pc = "paying" /\ n.result = "none" /\ n.route = h
    BY Zenon, <2>2, <2>4, <2>5 DEF Queries, Pcs
  <2>7. Set(i, n)
    BY <2>1, <2>3, <2>5
  <2> QED
    BY <2>2, <2>6, <2>7
<1> QED
  BY <1>1, <1>2

-----------------------------------------------------------------------------
(***************************************************************************)
(* Steps of one query.                                                     *)
(***************************************************************************)
\* the service's side of a step: its IOUs only lose worth by being claimed
ServiceMoves ==
  /\ pfs' \in Services
  /\ pfs'.block >= pfs.block
  /\ ServiceInv'
  /\ \A iou \in Ious : \A offered \in Nat : Fair(iou, offered) => Fair(iou, offered)'

\* the requests after query i has moved on to q
FlightMoves(i, q) ==
  \A r \in flight' :
    /\ r \in Requests
    /\ Fair(r.iou, r.offered)
    /\ r.left => ~NothingLost'
    /\ ~r.left => \/ r \in flight /\ r.by # i
                  \/ r.by = i /\ q.pc = "answer" /\ r.iou = q.iou /\ r.offered = q.offered

\* route_to_feedback_token after query i has moved on to q
TokensMove(i, q) ==
  /\ tokens' \in [Hop \X (Hop \union {target[j] : j \in Payment}) -> Payment \union {0}]
  /\ \A k \in DOMAIN tokens' :
       \/ tokens'[k] = tokens[k]
       \/ tokens'[k] = i /\ target[i] = k[2] /\ k[1] \in q.found /\ q.pc \in {"paying", "done"}

\* the semaphore after query i has moved on to q
LockMoves(i, q) ==
  /\ lock' = IF q.pc \in InsidePcs THEN lock \union {i} ELSE lock \ {i}
  /\ q.pc \in InsidePcs => i \in lock \/ lock = {}

\* query i moves on to q
Moves(i, q) ==
  /\ query' = [query EXCEPT ![i] = q]
  /\ UNCHANGED <<target, block, chan>>
  /\ price' \in Price
  /\ budget' \in Budgets /\ budget'["lost"] <= budget["lost"]
  /\ ServiceMoves
  /\ (pfs'.iou = pfs.iou /\ pfs'.claimed = pfs.claimed) \/ i \in lock
  /\ FlightMoves(i, q)
  /\ TokensMove(i, q)
  /\ LockMoves(i, q)
  /\ Local(i, q) /\ Known(q)
  /\ q.pc = "paying" => Usable(chan, q.route)
  /\ Pays(q) /\ (q.pc \in {"post", "answer"} => pfs'.iou = pfs.iou /\ pfs'.claimed = pfs.claimed)
  /\ q.feedback # 0 => TokenOf(q.feedback, q.route, target[i])
  /\ query[i].pc \in {"paying", "done"} => q.pc \in {"paying", "done"} /\ q.found = query[i].found

(* The query that moves, and the ones that stay. *)
LEMMA MovedQuery ==
  ASSUME Types, NEW i \in Payment, NEW q \in Queries, query' = [query EXCEPT ![i] = q]
  PROVE  /\ query' \in [Payment -> Queries]
         /\ query'[i] = q
         /\ \A j \in Payment : j # i => query'[j] = query[j]
BY DEF Types

(* A query that is over stays over, and keeps what it found. *)
LEMMA TokenStays ==
  ASSUME Types, NEW i \in Payment, NEW q \in Queries, Moves(i, q),
         NEW t, NEW h, NEW x, TokenOf(t, h, x)
  PROVE  /\ t \in Payment /\ target'[t] = x
         /\ h \in query'[t].found /\ query'[t].pc \in {"paying", "done"}
<1>1. t \in Payment /\ target[t] = x /\ h \in query[t].found /\ query[t].pc \in {"paying", "done"}
  BY DEF TokenOf
<1>2. target' = target
  BY DEF Moves
<1>3. query'[i] = q /\ \A j \in Payment : j # i => query'[j] = query[j]
  BY Zenon, MovedQuery DEF Moves
<1>4. query[i].pc \in {"paying", "done"} => q.pc \in {"paying", "done"} /\ q.found = query[i].found
  BY DEF Moves
<1>5. CASE t = i
  BY <1>1, <1>2, <1>3, <1>4, <1>5
<1>6. CASE t # i
  BY <1>1, <1>2, <1>3, <1>6
<1> QED
  BY <1>5, <1>6

(* The IOU of a query is as good as before when the service's IOUs are the same. *)
LEMMA PaysStays ==
  ASSUME NEW q \in Queries, Pays(q), pfs'.iou = pfs.iou, pfs'.claimed = pfs.claimed,
         budget'["lost"] <= budget["lost"], Types, budget' \in Budgets
  PROVE  Pays(q)'
<1>1. NothingLost' => NothingLost
  <2>1. budget["lost"] \in Nat /\ budget'["lost"] \in Nat /\ Budget["lost"] \in Nat
    BY QueriesAssumption DEF Types, Budgets
  <2>2. budget["lost"] <= Budget["lost"]
    BY DEF Types
  <2> QED
    BY <2>1, <2>2 DEF NothingLost
<1>2. Fair(q.iou, q.offered) => Fair(q.iou, q.offered)'
  BY DEF Fair
<1>3. Exact(q) => Exact(q)'
  BY DEF Exact
<1> QED
  BY <1>1, <1>2, <1>3 DEF Pays

(* The semaphore still has at most one holder. *)
LEMMA SemaphoreStays ==
  ASSUME Types, Semaphore, NEW i \in Payment, NEW q \in Queries,
         query' = [query EXCEPT ![i] = q], LockMoves(i, q)
  PROVE  lock' \subseteq Payment /\ Semaphore'
<1>1. query'[i] = q /\ \A j \in Payment : j # i => query'[j] = query[j]
  BY Zenon, MovedQuery
<1>2. lock \subseteq Payment /\ (\A j \in Payment : j \in lock <=> query[j].pc \in InsidePcs)
      /\ \A j, k \in lock : j = k
  BY DEF Types, Semaphore
<1>3. CASE q.pc \in InsidePcs
  <2>1. lock' = lock \union {i} /\ (i \in lock \/ lock = {})
    BY <1>3 DEF LockMoves
  <2>2. \A j, k \in lock' : j = k
    BY <1>2, <2>1
  <2>3. ASSUME NEW j \in Payment PROVE j \in lock' <=> query'[j].pc \in InsidePcs
    BY <1>1, <1>2, <1>3, <2>1
  <2> QED
    BY <1>2, <2>1, <2>2, <2>3 DEF Semaphore
<1>4. CASE q.pc \notin InsidePcs
  <2>1. lock' = lock \ {i}
    BY <1>4 DEF LockMoves
  <2>2. \A j, k \in lock' : j = k
    BY <1>2, <2>1
  <2>3. ASSUME NEW j \in Payment PROVE j \in lock' <=> query'[j].pc \in InsidePcs
    BY <1>1, <1>2, <1>4, <2>1
  <2> QED
    BY <1>2, <2>1, <2>2, <2>3 DEF Semaphore
<1> QED
  BY <1>3, <1>4

(* A query that moves on keeps the types. *)
LEMMA TypesStay ==
  ASSUME QInv, NEW i \in Payment, NEW q \in Queries, Moves(i, q)
  PROVE  Types'
<1>1. target' \in Targets /\ block' \in 1..MaxBlock /\ chan' \in [Hop -> Channels]
  BY DEF QInv, Types, Moves
<1>2. price' \in Price
  BY DEF Moves
<1>3. lock' \subseteq Payment
  BY Zenon, SemaphoreStays DEF QInv, Moves
<1>4. query' \in [Payment -> Queries]
  BY Zenon, MovedQuery DEF QInv, Moves
<1>5. tokens' \in [Hop \X (Hop \union {target'[j] : j \in Payment}) -> Payment \union {0}]
  <2>1. target' = target /\ tokens' \in [Hop \X (Hop \union {target[j] : j \in Payment}) -> Payment \union {0}]
    BY DEF Moves, TokensMove
  <2> QED
    BY <2>1
<1>6. pfs' \in Services
  BY DEF Moves, ServiceMoves
<1>7. flight' \subseteq Requests
  BY DEF Moves, FlightMoves
<1>8. budget' \in Budgets /\ budget'["lost"] <= Budget["lost"]
  <2>1. budget' \in Budgets /\ budget'["lost"] <= budget["lost"]
    BY DEF Moves
  <2>2. budget \in Budgets /\ budget["lost"] <= Budget["lost"]
    BY DEF QInv, Types
  <2>3. budget["lost"] \in Nat /\ budget'["lost"] \in Nat /\ Budget["lost"] \in Nat
    BY <2>1, <2>2, QueriesAssumption DEF Budgets
  <2> QED
    BY <2>1, <2>2, <2>3
<1> QED
  BY <1>1, <1>2, <1>3, <1>4, <1>5, <1>6, <1>7, <1>8 DEF Types

(* ... and the requests. *)
LEMMA FlightStays ==
  ASSUME QInv, NEW i \in Payment, NEW q \in Queries, Moves(i, q), NEW r \in flight'
  PROVE  Flying(r)'
<1>1. query'[i] = q /\ \A j \in Payment : j # i => query'[j] = query[j]
  BY Zenon, MovedQuery DEF QInv, Moves
<1>2. /\ r \in Requests /\ Fair(r.iou, r.offered) /\ (r.left => ~NothingLost')
      /\ ~r.left => \/ r \in flight /\ r.by # i
                    \/ r.by = i /\ q.pc = "answer" /\ r.iou = q.iou /\ r.offered = q.offered
  BY DEF Moves, FlightMoves
<1>3. r.iou \in Ious /\ r.offered \in Nat /\ r.by \in Payment
  BY <1>2 DEF Requests
<1>4. Fair(r.iou, r.offered)'
  <2>1. \A iou \in Ious : \A offered \in Nat : Fair(iou, offered) => Fair(iou, offered)'
    BY DEF Moves, ServiceMoves
  <2> QED
    BY <1>2, <1>3, <2>1, Zenon
<1>5. ASSUME ~r.left
      PROVE  query'[r.by].pc = "answer" /\ r.iou = query'[r.by].iou /\ r.offered = query'[r.by].offered
  <2>1. CASE r \in flight /\ r.by # i
    <3>1. query[r.by].pc = "answer" /\ r.iou = query[r.by].iou /\ r.offered = query[r.by].offered
      BY <1>5, <2>1 DEF QInv, Flying
    <3> QED
      BY <1>1, <1>3, <2>1, <3>1
  <2>2. CASE r.by = i /\ q.pc = "answer" /\ r.iou = q.iou /\ r.offered = q.offered
    BY <1>1, <2>2
  <2> QED
    BY <1>2, <1>5, <2>1, <2>2
<1> QED
  BY <1>2, <1>4, <1>5 DEF Flying

(* ... and the tokens. *)
LEMMA TokensStay ==
  ASSUME QInv, NEW i \in Payment, NEW q \in Queries, Moves(i, q)
  PROVE  TokensInv'
<1>1. query'[i] = q
  BY Zenon, MovedQuery DEF QInv, Moves
<1>2. target' = target
  BY DEF Moves
<1>3. DOMAIN tokens' = DOMAIN tokens
  BY DEF Moves, TokensMove, QInv, Types
<1>4. ASSUME NEW k \in DOMAIN tokens', tokens'[k] # 0
      PROVE  /\ tokens'[k] \in Payment /\ target'[tokens'[k]] = k[2]
             /\ k[1] \in query'[tokens'[k]].found /\ query'[tokens'[k]].pc \in {"paying", "done"}
  <2>1. CASE tokens'[k] = tokens[k]
    <3>1. TokenOf(tokens[k], k[1], k[2])
      BY <1>3, <1>4, <2>1 DEF QInv, TokensInv
    <3>2. PICK t : t = tokens[k]
      OBVIOUS
    <3>3. TokenOf(t, k[1], k[2])
      BY <3>1, <3>2
    <3>4. /\ t \in Payment /\ target'[t] = k[2]
          /\ k[1] \in query'[t].found /\ query'[t].pc \in {"paying", "done"}
      BY <3>3, TokenStays DEF QInv
    <3> QED
      BY <2>1, <3>2, <3>4
  <2>2. CASE tokens'[k] = i /\ target[i] = k[2] /\ k[1] \in q.found /\ q.pc \in {"paying", "done"}
    BY <1>1, <1>2, <2>2
  <2> QED
    BY <2>1, <2>2 DEF Moves, TokensMove
<1> QED
  BY <1>4 DEF TokensInv, TokenOf

(* ... and what holds of every query. *)
LEMMA QueriesStay ==
  ASSUME QInv, NEW i \in Payment, NEW q \in Queries, Moves(i, q), NEW j \in Payment
  PROVE  QueryInv(j)'
<1>1. query'[i] = q /\ (j # i => query'[j] = query[j]) /\ query[j] \in Queries
  BY MovedQuery DEF QInv, Moves, Types
<1>2. target' = target
  BY DEF Moves
<1>3. QueryInv(j)
  BY DEF QInv
<1>4. PICK n \in Queries : n = query'[j]
  BY <1>1
<1>5. Local(j, n)
  BY <1>1, <1>3, <1>4 DEF QueryInv, Moves
<1>6. Known(n)
  BY <1>1, <1>3, <1>4 DEF QueryInv, Moves
<1>7. Known(n)'
  <2>1. pfs.block \in Nat /\ pfs'.block \in Nat /\ pfs'.block >= pfs.block
    BY DEF QInv, Types, Moves, ServiceMoves, Services
  <2>2. ASSUME NEW h \in Hop, n.view[h].opened <= pfs.block PROVE n.view[h].opened <= pfs'.block
    <3>1. n.view[h].opened \in Nat
      <4>1. n.view[h] \in Channels
        BY DEF Queries
      <4> QED
        BY <4>1, QueriesAssumption DEF Channels
    <3> QED
      BY <2>1, <2>2, <3>1
  <2> QED
    BY <1>6, <2>2 DEF Known
<1>8. Pays(n)'
  <2>1. Types /\ budget' \in Budgets /\ budget'["lost"] <= budget["lost"]
    BY DEF QInv, Moves
  <2>2. CASE j = i
    <3>1. n = q
      BY <1>1, <1>4, <2>2
    <3>2. CASE q.pc \in {"post", "answer"}
      <4>1. pfs'.iou = pfs.iou /\ pfs'.claimed = pfs.claimed /\ Pays(q)
        BY <3>2 DEF Moves
      <4> QED
        BY <2>1, <3>1, <4>1, PaysStays
    <3>3. CASE q.pc \notin {"post", "answer"}
      BY <3>1, <3>3 DEF Pays
    <3> QED
      BY <3>2, <3>3
  <2>3. CASE j # i
    <3>1. n = query[j] /\ Pays(n)
      BY <1>1, <1>3, <1>4, <2>3 DEF QueryInv
    <3>2. CASE pfs'.iou = pfs.iou /\ pfs'.claimed = pfs.claimed
      BY <2>1, <3>1, <3>2, PaysStays
    <3>3. CASE i \in lock
      <4>1. j \notin lock
        BY <2>3, <3>3 DEF QInv, Semaphore
      <4>2. n.pc \notin InsidePcs
        BY <3>1, <4>1 DEF QInv, Semaphore
      <4> QED
        BY <4>2 DEF Pays, InsidePcs
    <3> QED
      BY <3>2, <3>3 DEF Moves
  <2> QED
    BY <2>2, <2>3
<1>9. ASSUME n.feedback # 0
      PROVE  /\ n.feedback \in Payment /\ target'[n.feedback] = target'[j]
             /\ n.route \in query'[n.feedback].found /\ query'[n.feedback].pc \in {"paying", "done"}
  <2>1. TokenOf(n.feedback, n.route, target[j])
    BY <1>1, <1>3, <1>4, <1>9 DEF QueryInv, Moves
  <2> QED
    BY <1>2, <2>1, TokenStays DEF QInv
<1>10. Local(j, n)'
  BY <1>2, <1>5 DEF Local
<1> QED
  BY <1>4, <1>7, <1>8, <1>9, <1>10 DEF QueryInv, TokenOf

(* Whatever a query does, it keeps the invariant if it moves as Moves says. *)
LEMMA MovesKeep ==
  ASSUME QInv, NEW i \in Payment, NEW q \in Queries, Moves(i, q)
  PROVE  QInv' /\ RouteIsOpen
<1>1. Types'
  BY TypesStay
<1>2. Semaphore'
  BY Zenon, SemaphoreStays DEF QInv, Moves
<1>3. ServiceInv'
  BY DEF Moves, ServiceMoves
<1>4. TokensInv'
  BY TokensStay
<1>5. \A r \in flight' : Flying(r)'
  BY FlightStays
<1>6. \A j \in Payment : QueryInv(j)'
  BY QueriesStay
<1>7. QInv'
  BY <1>1, <1>2, <1>3, <1>4, <1>5, <1>6 DEF QInv
<1>8. RouteIsOpen
  <2>1. query'[i] = q /\ \A j \in Payment : j # i => query'[j] = query[j]
    BY Zenon, MovedQuery DEF QInv, Moves
  <2>2. q.pc = "paying" => Usable(chan, q.route)
    BY DEF Moves
  <2> QED
    BY <2>1, <2>2 DEF RouteIsOpen
<1> QED
  BY <1>7, <1>8

(* A step that leaves the service and the tokens alone. *)
LEMMA QuietMoves ==
  ASSUME QInv, NEW i \in Payment, NEW q \in Queries, query' = [query EXCEPT ![i] = q],
         UNCHANGED <<target, block, chan, tokens, pfs>>,
         price' \in Price,
         budget' \in Budgets, budget'["lost"] <= budget["lost"],
         FlightMoves(i, q), LockMoves(i, q), Local(i, q), Known(q), Pays(q),
         q.pc = "paying" => Usable(chan, q.route),
         q.feedback # 0 => TokenOf(q.feedback, q.route, target[i]),
         query[i].pc \in {"paying", "done"} => q.pc \in {"paying", "done"} /\ q.found = query[i].found
  PROVE  QInv' /\ RouteIsOpen
<1>1. pfs' = pfs /\ tokens' = tokens /\ pfs \in Services
      /\ tokens \in [Hop \X (Hop \union {target[j] : j \in Payment}) -> Payment \union {0}]
  BY DEF QInv, Types
<1>2. ServiceMoves
  <2>1. pfs.block \in Nat
    BY <1>1 DEF Services
  <2>2. ServiceInv'
    BY <1>1 DEF QInv, ServiceInv
  <2>3. \A iou \in Ious : \A offered \in Nat : Fair(iou, offered) => Fair(iou, offered)'
    BY <1>1 DEF Fair
  <2> QED
    BY <1>1, <2>1, <2>2, <2>3 DEF ServiceMoves
<1>3. TokensMove(i, q)
  BY <1>1 DEF TokensMove
<1>4. Moves(i, q)
  BY <1>1, <1>2, <1>3 DEF Moves
<1> QED
  BY <1>4, MovesKeep

(* A query that waits for no answer has no request on its way. *)
LEMMA SameFlight ==
  ASSUME QInv, NEW i \in Payment, NEW q \in Queries, flight' = flight,
         budget'["lost"] = budget["lost"], query[i].pc # "answer"
  PROVE  FlightMoves(i, q)
<1>1. ASSUME NEW r \in flight'
      PROVE  /\ r \in Requests /\ Fair(r.iou, r.offered) /\ (r.left => ~NothingLost')
             /\ ~r.left => r \in flight /\ r.by # i
  <2>1. r \in flight /\ r \in Requests /\ Flying(r)
    BY DEF QInv, Types
  <2>2. NothingLost' <=> NothingLost
    BY DEF NothingLost
  <2> QED
    BY <2>1, <2>2 DEF Flying
<1> QED
  BY <1>1 DEF FlightMoves

(* What the invariant says of the query that takes a step. *)
LEMMA TheQuery ==
  ASSUME QInv, NEW i \in Payment
  PROVE  /\ query[i] \in Queries /\ QueryInv(i)
         /\ budget \in Budgets /\ budget["lost"] \in Nat
         /\ price \in Price /\ price \in Nat
         /\ pfs \in Services /\ chan \in [Hop -> Channels] /\ block \in Nat
         /\ lock \subseteq Payment
         /\ i \in lock <=> query[i].pc \in InsidePcs
<1>1. /\ query[i] \in Queries /\ QueryInv(i)
      /\ budget \in Budgets
      /\ price \in Price
      /\ pfs \in Services /\ chan \in [Hop -> Channels] /\ block \in 1..MaxBlock
      /\ lock \subseteq Payment
  BY DEF QInv, Types
<1>2. i \in lock <=> query[i].pc \in InsidePcs
  BY DEF QInv, Semaphore
<1>3. budget["lost"] \in Nat
  BY <1>1 DEF Budgets
<1> QED
  BY <1>1, <1>2, <1>3, QueriesAssumption

(* A query that ends, in failure, before it waits for an answer. *)
LEMMA FailureKeeps ==
  ASSUME QInv, NEW i \in Payment, NEW q \in Queries, Set(i, Failed(q)),
         UNCHANGED <<target, block, chan, tokens, pfs, price>>,
         budget' \in Budgets, budget'["lost"] <= budget["lost"],
         FlightMoves(i, Failed(q)), lock' = lock \ {i}, query[i].pc \notin {"paying", "done"}
  PROVE  QInv' /\ RouteIsOpen
<1>1. PICK n : n = Failed(q)
  OBVIOUS
<1>2. n \in Queries /\ n.pc = "done" /\ n.result = "failed" /\ n.feedback = 0
  BY <1>1, FailedFields
<1>3. query' = [query EXCEPT ![i] = n] /\ FlightMoves(i, n)
  BY <1>1 DEF Set
<1>4. LockMoves(i, n)
  BY <1>2 DEF LockMoves, InsidePcs
<1>5. Local(i, n) /\ Known(n) /\ Pays(n)
  BY <1>2 DEF Local, Known, Pays, InsidePcs
<1>6. price' \in Price
  BY TheQuery
<1> QED
  BY Zenon, <1>2, <1>3, <1>4, <1>5, <1>6, QuietMoves

(* A step of a query that waits for no answer and is not over. *)
LEMMA CalmStep ==
  ASSUME QInv, NEW i \in Payment, NEW n \in Queries, query' = [query EXCEPT ![i] = n],
         UNCHANGED <<target, block, chan, tokens, pfs, flight>>,
         price' \in Price,
         budget' \in Budgets, budget'["lost"] = budget["lost"],
         query[i].pc \notin {"answer", "paying", "done"},
         LockMoves(i, n), Local(i, n), Known(n), Pays(n),
         n.pc = "paying" => Usable(chan, n.route),
         n.feedback # 0 => n.feedback = query[i].feedback /\ n.route = query[i].route
  PROVE  QInv' /\ RouteIsOpen
<1>1. FlightMoves(i, n)
  BY SameFlight
<1>2. n.feedback # 0 => TokenOf(n.feedback, n.route, target[i])
  BY TheQuery DEF QueryInv
<1>3. budget'["lost"] <= budget["lost"]
  BY TheQuery
<1>4. UNCHANGED <<target, block, chan, tokens, pfs>>
  OBVIOUS
<1> QED
  BY Zenon, <1>1, <1>2, <1>3, <1>4, QuietMoves

(* ... and that fails there. *)
LEMMA CalmFailure ==
  ASSUME QInv, NEW i \in Payment, NEW q \in Queries, Set(i, Failed(q)), lock' = lock \ {i},
         UNCHANGED <<target, block, chan, price, tokens, pfs, flight>>,
         budget' = budget \/ Spend("error"),
         query[i].pc \notin {"answer", "paying", "done"}
  PROVE  QInv' /\ RouteIsOpen
<1>1. budget \in Budgets /\ budget["lost"] \in Nat
  BY TheQuery
<1>2. budget' \in Budgets /\ budget'["lost"] = budget["lost"]
  <2>1. CASE budget' = budget
    BY <1>1, <2>1
  <2>2. CASE Spend("error")
    BY <1>1, <2>2, SpendLemma
  <2> QED
    BY <2>1, <2>2
<1>3. Failed(q) \in Queries
  BY FailedFields
<1>4. FlightMoves(i, Failed(q))
  BY <1>2, <1>3, SameFlight
<1>5. budget'["lost"] <= budget["lost"]
  BY <1>1, <1>2
<1>6. UNCHANGED <<target, block, chan, tokens, pfs, price>>
  OBVIOUS
<1> QED
  BY <1>2, <1>4, <1>5, <1>6, FailureKeeps

-----------------------------------------------------------------------------
(***************************************************************************)
(* The steps of the queries.                                               *)
(***************************************************************************)
(* A query begins with the channels, the block and the price of the moment (Start). *)
LEMMA StartKeeps ==
  ASSUME QInv, NEW i \in Payment, Start(i)
  PROVE  QInv' /\ RouteIsOpen
<1>1. /\ query[i] \in Queries /\ QueryInv(i)
      /\ budget \in Budgets /\ budget["lost"] \in Nat
      /\ price \in Price /\ price \in Nat
      /\ pfs \in Services /\ chan \in [Hop -> Channels] /\ block \in Nat
      /\ (i \in lock <=> query[i].pc \in InsidePcs)
  BY TheQuery
<1>2. PICK q : q = [query[i] EXCEPT !.view = chan, !.block = block, !.offered = price, !.tries = Attempts]
  OBVIOUS
<1>3. query[i].pc = "todo" /\ i \notin lock
  BY <1>1 DEF Start, InsidePcs
<1>4. /\ q \in Queries /\ q.pc = "todo" /\ q.tries = Attempts /\ q.result = query[i].result
      /\ q.feedback = query[i].feedback /\ q.route = query[i].route
  <2>1. Attempts \in 0..Attempts
    BY QueriesAssumption
  <2> QED
    BY Zenon, <1>1, <1>2, <1>3, <2>1 DEF Queries
<1>5. UNCHANGED <<target, block, chan, tokens, pfs, price>> /\ lock' = lock /\ flight' = flight /\ budget' = budget
  BY DEF Start
<1>6. lock' = lock \ {i}
  BY <1>3, <1>5
<1>7. ASSUME NEW n \in Queries PROVE FlightMoves(i, n)
  BY <1>3, <1>5, SameFlight
<1>8. ASSUME NEW pc \in {"metadata", "info"}, pc = "metadata" => target[i] \in Hop,
             Set(i, [q EXCEPT !.pc = pc])
      PROVE  QInv' /\ RouteIsOpen
  <2>1. PICK n : n = [q EXCEPT !.pc = pc]
    BY Zenon
  <2>2. /\ n \in Queries /\ n.pc = pc /\ n.tries = Attempts /\ n.result = query[i].result
        /\ n.feedback = query[i].feedback /\ n.route = query[i].route
    BY <1>4, <2>1 DEF Queries, Pcs
  <2>3. query' = [query EXCEPT ![i] = n]
    BY <1>8, <2>1 DEF Set
  <2>4. LockMoves(i, n)
    BY <1>6, <2>2 DEF LockMoves, InsidePcs
  <2>5. Local(i, n)
    BY <1>1, <1>3, <1>8, <2>2, QueriesAssumption DEF Local, QueryInv
  <2>6. Known(n) /\ Pays(n)
    BY <2>2 DEF Known, Pays, InsidePcs
  <2>7. n.feedback # 0 => TokenOf(n.feedback, n.route, target[i])
    BY <1>1, <2>2 DEF QueryInv
  <2>8. /\ price' \in Price
        /\ budget' \in Budgets /\ budget'["lost"] <= budget["lost"]
        /\ FlightMoves(i, n) /\ query[i].pc \notin {"paying", "done"}
    BY <1>1, <1>3, <1>5, <1>7, <2>2
  <2>9. UNCHANGED <<target, block, chan, tokens, pfs>>
    BY <1>5
  <2> QED
    BY Zenon, <2>2, <2>3, <2>4, <2>5, <2>6, <2>7, <2>8, <2>9, QuietMoves
<1>9. CASE IsDirect(chan, i)
  <2>1. Set(i, [q EXCEPT !.pc = "metadata"])
    BY <1>2, <1>9 DEF Start
  <2>2. target[i] \in Hop
    BY <1>9 DEF IsDirect
  <2> QED
    BY <1>8, <2>1, <2>2
<1>10. CASE ~IsDirect(chan, i) /\ UsableHops(chan) = {}
  <2>1. Set(i, Failed(q))
    BY <1>2, <1>10 DEF Start
  <2>2. FlightMoves(i, Failed(q))
    BY <1>4, <1>7, FailedFields
  <2> QED
    BY <1>1, <1>3, <1>4, <1>5, <1>6, <2>1, <2>2, FailureKeeps
<1>11. CASE ~IsDirect(chan, i) /\ UsableHops(chan) # {}
  <2>1. Set(i, [q EXCEPT !.pc = "info"])
    BY <1>2, <1>11 DEF Start
  <2> QED
    BY <1>8, <2>1
<1> QED
  BY <1>9, <1>10, <1>11

(* The direct route is paid over at once if its channel is still open (Metadata). *)
LEMMA MetadataKeeps ==
  ASSUME QInv, NEW i \in Payment, Metadata(i)
  PROVE  QInv' /\ RouteIsOpen
<1>1. query[i] \in Queries /\ Local(i, query[i]) /\ budget \in Budgets /\ price \in Price
      /\ (i \in lock <=> query[i].pc \in InsidePcs)
  BY TheQuery DEF QueryInv
<1>2. query[i].pc = "metadata" /\ target[i] \in Hop
  BY <1>1 DEF Metadata, Local
<1>3. UNCHANGED <<target, block, chan, price, tokens, pfs, flight>> /\ lock' = lock
  BY DEF Metadata
<1>4. lock' = lock \ {i} /\ query[i].pc \notin {"answer", "paying", "done"}
  BY <1>1, <1>2, <1>3 DEF InsidePcs
<1>5. CASE Pay(i, query[i], {target[i]}) /\ UNCHANGED budget
  <2>1. PICK n \in Queries :
           /\ Set(i, n)
           /\ n.found = query[i].found /\ n.feedback = 0
           /\ \/ n.pc = "done" /\ n.result = "failed"
              \/ n.pc = "paying" /\ n.result = "none" /\ n.route \in {target[i]} /\ Usable(chan, n.route)
    BY <1>1, <1>2, <1>5, PayFields
  <2>2. query' = [query EXCEPT ![i] = n]
    BY <2>1 DEF Set
  <2>3. LockMoves(i, n)
    BY <1>4, <2>1 DEF LockMoves, InsidePcs
  <2>4. Local(i, n) /\ Known(n) /\ Pays(n)
    BY <1>2, <2>1 DEF Local, Known, Pays, InsidePcs
  <2>5. price' \in Price /\ budget' \in Budgets /\ budget'["lost"] = budget["lost"]
    BY <1>1, <1>3, <1>5
  <2>6. UNCHANGED <<target, block, chan, tokens, pfs, flight>>
    BY <1>3
  <2> QED
    BY Zenon, <1>4, <2>1, <2>2, <2>3, <2>4, <2>5, <2>6, CalmStep
<1>6. CASE Spend("error") /\ Set(i, Failed(query[i]))
  BY <1>1, <1>3, <1>4, <1>6, CalmFailure
<1> QED
  BY <1>5, <1>6 DEF Metadata

(* A query that has the IOU for its request (Ready). *)
LEMMA ReadyStep ==
  ASSUME QInv, NEW i \in Payment, NEW iou \in Ious, Set(i, Ready(query[i], iou)),
         query[i].pc \in {"acquire", "last_iou"},
         UNCHANGED <<target, block, chan, price, tokens, pfs, flight, budget>>,
         lock' = lock \union {i}, i \in lock \/ lock = {},
         Fair(iou, query[i].offered), query[i].offered = 0 => iou = NoIou,
         query[i].offered > 0 =>
           IF pfs.iou = NoIou THEN iou.amount = query[i].offered
           ELSE \/ query[i].scrap /\ iou.amount = query[i].offered
                \/ /\ iou.expiration = pfs.iou.expiration
                   /\ iou.amount = pfs.iou.amount + query[i].offered
  PROVE  QInv' /\ RouteIsOpen
<1>1. query[i] \in Queries /\ QueryInv(i) /\ budget \in Budgets /\ price \in Price
  BY TheQuery
<1>2. PICK n : n = [query[i] EXCEPT !.pc = "post", !.iou = iou]
  OBVIOUS
<1>3. /\ n \in Queries /\ n.pc = "post" /\ n.iou = iou /\ n.tries = query[i].tries
      /\ n.result = query[i].result /\ n.offered = query[i].offered /\ n.scrap = query[i].scrap
      /\ n.feedback = query[i].feedback /\ n.route = query[i].route /\ n.view = query[i].view
  BY Zenon, <1>1, <1>2 DEF Queries, Pcs
<1>4. query' = [query EXCEPT ![i] = n]
  BY <1>2 DEF Set, Ready
<1>5. LockMoves(i, n)
  BY <1>3 DEF LockMoves, InsidePcs
<1>6. Local(i, n)
  BY <1>1, <1>3 DEF Local, QueryInv
<1>7. Known(n)
  BY <1>1, <1>3 DEF Known, QueryInv, InsidePcs
<1>8. Pays(n)
  <2>1. Exact(n)
    BY <1>3 DEF Exact
  <2> QED
    BY <1>3, <2>1 DEF Pays
<1>9. price' \in Price /\ budget' \in Budgets /\ budget'["lost"] = budget["lost"]
  BY <1>1
<1>10. UNCHANGED <<target, block, chan, tokens, pfs, flight>>
  OBVIOUS
<1> QED
  BY Zenon, <1>3, <1>4, <1>5, <1>6, <1>7, <1>8, <1>9, <1>10, CalmStep

(* A new IOU (make_iou) is for the fee alone. *)
LEMMA MakeIou ==
  ASSUME NEW q \in Queries
  PROVE  /\ make_iou(q.offered, q.block) \in Ious
         /\ make_iou(q.offered, q.block).amount = q.offered
<1>1. q.offered \in Nat /\ q.block \in Nat
  BY QueriesAssumption DEF Queries
<1> QED
  BY <1>1, QueriesAssumption DEF make_iou, Ious

(* The semaphore is taken; the last IOU is only asked for if one is needed (Acquire). *)
LEMMA AcquireKeeps ==
  ASSUME QInv, NEW i \in Payment, Acquire(i)
  PROVE  QInv' /\ RouteIsOpen
<1>1. query[i] \in Queries /\ QueryInv(i) /\ budget \in Budgets /\ price \in Price
  BY TheQuery
<1>2. query[i].pc = "acquire" /\ lock = {} /\ lock' = lock \union {i}
  BY DEF Acquire, CanAcquire
<1>3. UNCHANGED <<target, block, chan, price, tokens, pfs, flight, budget>>
  BY DEF Acquire
<1>4. query[i].offered \in Nat
  BY <1>1, QueriesAssumption DEF Queries
<1>5. CASE query[i].offered = 0
  <2>1. Set(i, Ready(query[i], NoIou))
    BY <1>5 DEF Acquire
  <2>2. NoIou \in Ious /\ Fair(NoIou, query[i].offered)
    BY <1>5 DEF NoIou, Ious, Fair
  <2> QED
    BY <1>2, <1>3, <1>5, <2>1, <2>2, ReadyStep
<1>6. CASE query[i].offered > 0 /\ query[i].scrap
  <2>1. Set(i, Ready(query[i], make_iou(query[i].offered, query[i].block)))
    BY <1>6 DEF Acquire
  <2>2. PICK iou : iou = make_iou(query[i].offered, query[i].block)
    OBVIOUS
  <2>3. iou \in Ious /\ iou.amount = query[i].offered
    BY <1>1, <2>2, MakeIou
  <2>4. Fair(iou, query[i].offered)
    BY <1>4, <2>3 DEF Fair
  <2>5. Set(i, Ready(query[i], iou))
    BY <2>1, <2>2
  <2> QED
    BY <1>2, <1>3, <1>6, <2>3, <2>4, <2>5, ReadyStep
<1>7. CASE query[i].offered > 0 /\ ~query[i].scrap
  <2>1. Set(i, [query[i] EXCEPT !.pc = "last_iou"])
    BY <1>7 DEF Acquire
  <2>2. PICK n : n = [query[i] EXCEPT !.pc = "last_iou"]
    BY Zenon
  <2>3. /\ n \in Queries /\ n.pc = "last_iou" /\ n.tries = query[i].tries /\ n.result = query[i].result
        /\ n.offered = query[i].offered
        /\ n.feedback = query[i].feedback /\ n.route = query[i].route /\ n.view = query[i].view
    BY <1>1, <2>2 DEF Queries, Pcs
  <2>4. query' = [query EXCEPT ![i] = n]
    BY <2>1, <2>2 DEF Set
  <2>5. LockMoves(i, n)
    BY <1>2, <2>3 DEF LockMoves, InsidePcs
  <2>6. Local(i, n) /\ Pays(n)
    BY <1>1, <1>2, <1>7, <2>3 DEF Local, Pays, QueryInv
  <2>7. Known(n)
    BY <1>1, <1>2, <2>3 DEF Known, QueryInv, InsidePcs
  <2>8. price' \in Price /\ budget' \in Budgets /\ budget'["lost"] = budget["lost"]
    BY <1>1, <1>3
  <2>9. UNCHANGED <<target, block, chan, tokens, pfs, flight>>
    BY <1>3
  <2>10. query[i].pc \notin {"answer", "paying", "done"}
    BY <1>2
  <2> QED
    BY Zenon, <2>3, <2>4, <2>5, <2>6, <2>7, <2>8, <2>9, <2>10, CalmStep
<1> QED
  BY <1>4, <1>5, <1>6, <1>7

(* The IOU adds the fee to the last one that the service has (LastIou). *)
LEMMA LastIouKeeps ==
  ASSUME QInv, NEW i \in Payment, LastIou(i)
  PROVE  QInv' /\ RouteIsOpen
<1>1. query[i] \in Queries /\ pfs \in Services /\ (i \in lock <=> query[i].pc \in InsidePcs)
  BY TheQuery
<1>2. query[i].pc = "last_iou" /\ i \in lock
  BY <1>1 DEF LastIou, InsidePcs
<1>3. UNCHANGED <<target, block, chan, price, tokens, pfs, flight>>
  BY DEF LastIou
<1>4. query[i].offered \in Nat /\ pfs.iou \in Ious
  BY <1>1, QueriesAssumption DEF Queries, Services
<1>5. CASE /\ Set(i, Ready(query[i], IF pfs.iou = NoIou THEN make_iou(query[i].offered, query[i].block)
                                     ELSE update_iou(pfs.iou, query[i].offered)))
           /\ UNCHANGED <<lock, budget>>
  <2>1. lock' = lock \union {i} /\ UNCHANGED <<target, block, chan, price, tokens, pfs, flight, budget>>
    BY <1>2, <1>3, <1>5
  <2>2. query[i].offered > 0
    BY <1>2, TheQuery DEF QueryInv, Local
  <2>3. CASE pfs.iou = NoIou
    <3>1. PICK iou : iou = make_iou(query[i].offered, query[i].block)
      OBVIOUS
    <3>2. iou \in Ious /\ iou.amount = query[i].offered
      BY <1>1, <3>1, MakeIou
    <3>3. Fair(iou, query[i].offered)
      BY <1>4, <3>2 DEF Fair
    <3>4. Set(i, Ready(query[i], iou))
      BY <1>5, <2>3, <3>1
    <3> QED
      BY <1>2, <2>1, <2>2, <2>3, <3>2, <3>3, <3>4, ReadyStep
  <2>4. CASE pfs.iou # NoIou
    <3>1. PICK iou : iou = [pfs.iou EXCEPT !.amount = @ + query[i].offered]
      BY Zenon
    <3>2. iou \in Ious /\ iou.expiration = pfs.iou.expiration /\ iou.amount = pfs.iou.amount + query[i].offered
      BY <1>4, <3>1 DEF Ious
    <3>3. Fair(iou, query[i].offered)
      <4>1. iou.amount \in Nat /\ pfs.iou.amount \in Nat
        BY <1>4, <3>2 DEF Ious
      <4> QED
        BY <1>4, <2>4, <3>2, <4>1 DEF Fair
    <3>4. Set(i, Ready(query[i], iou))
      BY <1>5, <2>4, <3>1 DEF update_iou
    <3> QED
      BY <1>2, <2>1, <2>2, <2>4, <3>2, <3>3, <3>4, ReadyStep
  <2> QED
    BY <2>3, <2>4
<1>6. CASE Spend("error") /\ Set(i, Failed(query[i])) /\ Release(i)
  <2>1. lock' = lock \ {i} /\ query[i].pc \notin {"answer", "paying", "done"}
    BY <1>2, <1>6 DEF Release
  <2> QED
    BY <1>1, <1>3, <1>6, <2>1, CalmFailure
<1> QED
  BY <1>5, <1>6 DEF LastIou

(* The request is sent with the IOU of its query (Post). *)
LEMMA PostKeeps ==
  ASSUME QInv, NEW i \in Payment, Post(i)
  PROVE  QInv' /\ RouteIsOpen
<1>1. query[i] \in Queries /\ QueryInv(i) /\ budget \in Budgets /\ budget["lost"] \in Nat
      /\ price \in Price
      /\ (i \in lock <=> query[i].pc \in InsidePcs)
  BY TheQuery
<1>2. query[i].pc = "post" /\ i \in lock
  BY <1>1 DEF Post, InsidePcs
<1>3. UNCHANGED <<target, block, chan, price, lock, tokens, pfs, budget>>
  BY DEF Post
<1>4. query[i].tries \in 0..Attempts /\ query[i].tries > 0
  BY <1>1, <1>2 DEF Queries, QueryInv, Local
<1>5. PICK n : n = [query[i] EXCEPT !.pc = "answer", !.tries = @ - 1]
  OBVIOUS
<1>6. /\ n \in Queries /\ n.pc = "answer" /\ n.iou = query[i].iou
      /\ n.result = query[i].result /\ n.offered = query[i].offered /\ n.scrap = query[i].scrap
      /\ n.feedback = query[i].feedback /\ n.route = query[i].route /\ n.view = query[i].view
  <2>1. query[i].tries - 1 \in 0..Attempts
    BY <1>4, QueriesAssumption
  <2> QED
    BY Zenon, <1>1, <1>5, <2>1 DEF Queries, Pcs
<1>7. query' = [query EXCEPT ![i] = n]
  BY <1>5 DEF Post, Set
<1>8. LockMoves(i, n)
  BY <1>2, <1>3, <1>6 DEF LockMoves, InsidePcs
<1>9. Local(i, n)
  BY <1>1, <1>2, <1>6 DEF Local, QueryInv
<1>10. Known(n)
  BY <1>1, <1>2, <1>6 DEF Known, QueryInv, InsidePcs
<1>11. Pays(n)
  <2>1. Exact(query[i]) => Exact(n)
    BY <1>6 DEF Exact
  <2> QED
    BY <1>1, <1>2, <1>6, <2>1 DEF Pays, QueryInv
<1>12. FlightMoves(i, n)
  <2>1. PICK p : p = [by |-> i, iou |-> query[i].iou, offered |-> query[i].offered, left |-> FALSE]
    BY Zenon
  <2>2. p \in Requests /\ p.by = i /\ p.iou = n.iou /\ p.offered = n.offered /\ ~p.left
    BY <1>1, <1>6, <2>1 DEF Requests, Queries
  <2>3. flight' = flight \union {p}
    BY <2>1 DEF Post
  <2>4. ASSUME NEW r \in flight
        PROVE  /\ r \in Requests /\ Fair(r.iou, r.offered) /\ (r.left => ~NothingLost')
               /\ ~r.left => r \in flight /\ r.by # i
    <3>1. r \in Requests /\ Flying(r)
      BY DEF QInv, Types
    <3>2. NothingLost' <=> NothingLost
      BY <1>3 DEF NothingLost
    <3> QED
      BY <1>2, <3>1, <3>2 DEF Flying
  <2>5. Fair(p.iou, p.offered)
    BY <1>6, <1>11, <2>2 DEF Pays
  <2> QED
    BY <1>6, <2>2, <2>3, <2>4, <2>5 DEF FlightMoves
<1>13. n.feedback # 0 => TokenOf(n.feedback, n.route, target[i])
  BY <1>1, <1>6 DEF QueryInv
<1>14. price' \in Price /\ budget' \in Budgets /\ budget'["lost"] <= budget["lost"]
  BY <1>1, <1>3
<1>15. UNCHANGED <<target, block, chan, tokens, pfs>> /\ query[i].pc \notin {"paying", "done"}
  BY <1>2, <1>3
<1> QED
  BY Zenon, <1>6, <1>7, <1>8, <1>9, <1>10, <1>11, <1>12, <1>13, <1>14, <1>15, QuietMoves

(* A request that is given up stays on its way (PostTimeout). *)
LEMMA PostTimeoutKeeps ==
  ASSUME QInv, NEW i \in Payment, PostTimeout(i)
  PROVE  QInv' /\ RouteIsOpen
<1>1. query[i] \in Queries /\ budget \in Budgets /\ budget["lost"] \in Nat
  BY TheQuery
<1>2. query[i].pc = "answer" /\ lock' = lock \ {i} /\ Set(i, Failed(query[i]))
  BY DEF PostTimeout, Release
<1>3. UNCHANGED <<target, block, chan, tokens, pfs, price>>
  BY DEF PostTimeout
<1>4. budget' \in Budgets /\ budget'["lost"] < budget["lost"]
  BY <1>1, SpendLost DEF PostTimeout
<1>5. budget'["lost"] <= budget["lost"] /\ ~NothingLost'
  <2>1. budget'["lost"] \in Nat /\ Budget["lost"] \in Nat /\ budget["lost"] <= Budget["lost"]
    BY <1>4, QueriesAssumption DEF Budgets, QInv, Types
  <2> QED
    BY <1>1, <1>4, <2>1 DEF NothingLost
<1>6. FlightMoves(i, Failed(query[i]))
  <2>1. ASSUME NEW p \in flight'
        PROVE  /\ p \in Requests /\ Fair(p.iou, p.offered)
               /\ ~p.left => p \in flight /\ p.by # i
    <3>1. PICK r \in flight : p = IF r.by = i THEN [r EXCEPT !.left = TRUE] ELSE r
      BY DEF PostTimeout
    <3>2. r \in Requests /\ Fair(r.iou, r.offered)
      BY DEF QInv, Types, Flying
    <3>3. CASE r.by = i
      <4>1. p \in Requests /\ p.left /\ p.iou = r.iou /\ p.offered = r.offered
        BY Zenon, <3>1, <3>2, <3>3 DEF Requests
      <4> QED
        BY <3>2, <4>1
    <3>4. CASE r.by # i
      BY <3>1, <3>2, <3>4
    <3> QED
      BY <3>3, <3>4
  <2> QED
    BY <1>5, <2>1 DEF FlightMoves
<1> QED
  BY <1>1, <1>2, <1>3, <1>4, <1>5, <1>6, FailureKeeps

(* The price is asked for again, and kept if it is not too high (NewInfo). *)
LEMMA NewInfoKeeps ==
  ASSUME QInv, NEW i \in Payment, NewInfo(i)
  PROVE  QInv' /\ RouteIsOpen
<1>1. query[i] \in Queries /\ QueryInv(i) /\ budget \in Budgets /\ price \in Price
      /\ pfs \in Services
  BY TheQuery
<1>2. query[i].pc = "new_info" /\ query[i].pc \notin {"answer", "paying", "done"}
  BY DEF NewInfo
<1>3. UNCHANGED <<target, block, chan, tokens, pfs, flight>>
  BY DEF NewInfo
<1>4. CASE GiveUp(i, query[i]) /\ UNCHANGED price /\ (budget' = budget \/ Spend("error"))
  <2>1. Set(i, Failed(query[i])) /\ lock' = lock \ {i}
    BY <1>4 DEF GiveUp, Release
  <2>2. UNCHANGED <<target, block, chan, price, tokens, pfs, flight>>
    BY <1>3, <1>4
  <2> QED
    BY <1>1, <1>2, <1>4, <2>1, <2>2, CalmFailure
<1>5. CASE /\ ~TooHigh(pfs.price) /\ price' = Max({price, pfs.price})
           /\ Again(i, [query[i] EXCEPT !.updated = TRUE]) /\ UNCHANGED budget
  <2>1. PICK m : m = [query[i] EXCEPT !.updated = TRUE]
    BY Zenon
  <2>2. PICK n : n = [m EXCEPT !.pc = "acquire"]
    BY Zenon
  <2>3. /\ m \in Queries /\ m.tries = query[i].tries /\ m.result = query[i].result
        /\ m.feedback = query[i].feedback /\ m.route = query[i].route /\ m.view = query[i].view
    BY Zenon, <1>1, <2>1 DEF Queries
  <2>4. /\ n \in Queries /\ n.pc = "acquire" /\ n.tries = query[i].tries /\ n.result = query[i].result
        /\ n.feedback = query[i].feedback /\ n.route = query[i].route /\ n.view = query[i].view
    BY <2>2, <2>3 DEF Queries, Pcs
  <2>5. query' = [query EXCEPT ![i] = n] /\ lock' = lock \ {i}
    BY <1>5, <2>1, <2>2 DEF Again, Set, Release
  <2>6. LockMoves(i, n)
    BY <2>4, <2>5 DEF LockMoves, InsidePcs
  <2>7. Local(i, n) /\ Pays(n)
    BY <1>1, <1>2, <2>4 DEF Local, Pays, QueryInv
  <2>8. Known(n)
    BY <1>1, <1>2, <2>4 DEF Known, QueryInv, InsidePcs
  <2>9. price' \in Price
    <3>1. price \in Nat /\ pfs.price \in Price /\ pfs.price \in Nat
      BY Zenon, <1>1, QueriesAssumption DEF Services
    <3>2. price' = IF price >= pfs.price THEN price ELSE pfs.price
      BY <1>5, <3>1, MaxOfTwo
    <3> QED
      BY <1>1, <3>1, <3>2
  <2>10. budget' \in Budgets /\ budget'["lost"] = budget["lost"]
    BY <1>1, <1>5
  <2> QED
    BY Zenon, <1>2, <1>3, <2>4, <2>5, <2>6, <2>7, <2>8, <2>9, <2>10, CalmStep
<1> QED
  BY <1>4, <1>5 DEF NewInfo

(* The feedback carries the token that is kept for the route (Feedback). *)
LEMMA FeedbackKeeps ==
  ASSUME QInv, NEW i \in Payment, Feedback(i)
  PROVE  QInv' /\ RouteIsOpen
<1>1. query[i] \in Queries /\ QueryInv(i) /\ budget \in Budgets /\ budget["lost"] \in Nat
      /\ price \in Price
      /\ (i \in lock <=> query[i].pc \in InsidePcs)
  BY TheQuery
<1>2. query[i].pc = "paying" /\ query[i].route \in Hop /\ i \notin lock
  BY <1>1 DEF Feedback, QueryInv, Local, InsidePcs
<1>3. UNCHANGED <<target, block, chan, price, lock, tokens, pfs, flight, budget>>
  BY DEF Feedback
<1>4. PICK k : k = <<query[i].route, target[i]>>
  BY Zenon
<1>5. /\ tokens \in [Hop \X (Hop \union {target[j] : j \in Payment}) -> Payment \union {0}]
      /\ k \in Hop \X (Hop \union {target[j] : j \in Payment})
      /\ k[1] = query[i].route /\ k[2] = target[i]
  BY <1>2, <1>4 DEF QInv, Types
<1>6. tokens[k] \in Payment \union {0} /\ k \in DOMAIN tokens
  BY <1>5
<1>7. PICK e : e = Ended(query[i], "paid")
  OBVIOUS
<1>8. e \in Queries /\ e.pc = "done" /\ e.result = "paid" /\ e.found = query[i].found /\ e.route = query[i].route
  BY <1>1, <1>7, EndedFields
<1>9. PICK n : n = [e EXCEPT !.feedback = tokens[k]]
  BY Zenon
<1>10. /\ n \in Queries /\ n.pc = "done" /\ n.result = "paid" /\ n.found = query[i].found
       /\ n.route = query[i].route /\ n.feedback = tokens[k]
  BY <1>6, <1>8, <1>9 DEF Queries
<1>11. query' = [query EXCEPT ![i] = n]
  BY <1>4, <1>7, <1>9 DEF Feedback, Set, RouteKey
<1>12. n.feedback # 0 => TokenOf(n.feedback, n.route, target[i])
  BY <1>5, <1>6, <1>10 DEF QInv, TokensInv
<1>13. LockMoves(i, n)
  BY <1>2, <1>3, <1>10 DEF LockMoves, InsidePcs
<1>14. Local(i, n) /\ Known(n) /\ Pays(n)
  BY <1>10 DEF Local, Known, Pays, InsidePcs
<1>15. FlightMoves(i, n)
  BY <1>2, <1>3, <1>10, SameFlight
<1>16. price' \in Price /\ budget' \in Budgets /\ budget'["lost"] <= budget["lost"]
  BY <1>1, <1>3
<1>17. UNCHANGED <<target, block, chan, tokens, pfs>> /\ n.pc \in {"paying", "done"}
  BY <1>3, <1>10
<1> QED
  BY Zenon, <1>10, <1>11, <1>12, <1>13, <1>14, <1>15, <1>16, <1>17, QuietMoves

-----------------------------------------------------------------------------
(***************************************************************************)
(* The service and the surroundings.                                       *)
(***************************************************************************)
(* An IOU that is accepted pays the price on top of the one it replaces (Verdict). *)
LEMMA AcceptedPays ==
  ASSUME NEW r, Verdict(r) = "accepted", pfs \in Services, pfs.price # 0
  PROVE  /\ r.iou # NoIou
         /\ \/ /\ pfs.iou # NoIou /\ r.iou.expiration = pfs.iou.expiration
               /\ ~(r.iou.amount < pfs.iou.amount + pfs.price)
            \/ /\ pfs.iou = NoIou /\ r.iou.expiration \notin pfs.claimed
               /\ ~(r.iou.amount < pfs.price)
<1>1. pfs.price \in Nat
  BY Zenon, QueriesAssumption DEF Services
<1>2. pfs.price > 0
  BY <1>1
<1>3. r.iou # NoIou
  BY <1>2 DEF Verdict
<1>4. CASE pfs.iou # NoIou
  <2>1. NextVerdict(r) = "accepted"
    BY <1>2, <1>3, <1>4 DEF Verdict
  <2> QED
    BY <1>3, <1>4, <2>1 DEF NextVerdict
<1>5. CASE pfs.iou = NoIou
  <2>1. FirstVerdict(r) = "accepted"
    BY <1>2, <1>3, <1>5 DEF Verdict
  <2> QED
    BY <1>3, <1>5, <2>1 DEF FirstVerdict
<1> QED
  BY <1>4, <1>5

(* A request that is too cheap does not pay the price on top of the last IOU (Verdict). *)
LEMMA InsufficientPays ==
  ASSUME NEW r, Verdict(r) = "insufficient", pfs \in Services
  PROVE  /\ r.iou # NoIou /\ pfs.price > 0
         /\ \/ /\ pfs.iou # NoIou /\ r.iou.expiration = pfs.iou.expiration
               /\ r.iou.amount < pfs.iou.amount + pfs.price
            \/ /\ pfs.iou = NoIou /\ r.iou.expiration \notin pfs.claimed
               /\ r.iou.amount < pfs.price
<1>1. pfs.price \in Nat
  BY Zenon, QueriesAssumption DEF Services
<1>2. pfs.price # 0
  BY DEF Verdict
<1>3. pfs.price > 0
  BY <1>1, <1>2
<1>4. r.iou # NoIou
  BY <1>3 DEF Verdict
<1>5. CASE pfs.iou # NoIou
  <2>1. NextVerdict(r) = "insufficient"
    BY <1>3, <1>4, <1>5 DEF Verdict
  <2> QED
    BY <1>3, <1>4, <1>5, <2>1 DEF NextVerdict
<1>6. CASE pfs.iou = NoIou
  <2>1. FirstVerdict(r) = "insufficient"
    BY <1>3, <1>4, <1>6 DEF Verdict
  <2> QED
    BY <1>3, <1>4, <1>6, <2>1 DEF FirstVerdict
<1> QED
  BY <1>5, <1>6

(* The service that keeps an IOU owes nothing to the others: what they are worth does not *)
(* fall, and the node owes at most the fee that was offered (Kept).                       *)
LEMMA KeptMoves ==
  ASSUME QInv, NEW r \in flight, Verdict(r) = "accepted", pfs' = Kept(r)
  PROVE  ServiceMoves /\ pfs'.block = pfs.block /\ pfs'.debt - pfs.debt <= r.offered
<1>1. pfs \in Services /\ r \in Requests /\ Fair(r.iou, r.offered)
  BY DEF QInv, Types, Flying
<1>2. /\ pfs.block \in Nat /\ pfs.debt \in Int /\ r.offered \in Nat
      /\ pfs.iou \in Ious /\ r.iou \in Ious
      /\ pfs.iou.amount \in Nat /\ r.iou.amount \in Nat
  BY <1>1, QueriesAssumption DEF Services, Requests, Ious
<1>3. ServiceInv
  BY DEF QInv
<1>4. CASE pfs.price = 0
  <2>1. pfs' = pfs
    BY <1>4 DEF Kept
  <2>2. ServiceInv'
    BY <1>3, <2>1 DEF ServiceInv
  <2>3. \A iou \in Ious : \A offered \in Nat : Fair(iou, offered) => Fair(iou, offered)'
    BY <2>1 DEF Fair
  <2> QED
    BY <1>1, <1>2, <2>1, <2>2, <2>3 DEF ServiceMoves
<1>5. CASE pfs.price # 0
  <2>1. pfs' = [pfs EXCEPT !.iou = r.iou, !.debt = @ + r.iou.amount - pfs.iou.amount]
    BY <1>5 DEF Kept
  <2>2. /\ pfs' \in Services /\ pfs'.iou = r.iou /\ pfs'.block = pfs.block
        /\ pfs'.claimed = pfs.claimed /\ pfs'.debt = pfs.debt + r.iou.amount - pfs.iou.amount
    <3>1. PICK d : d = pfs.debt + r.iou.amount - pfs.iou.amount
      OBVIOUS
    <3>2. d \in Int
      BY <1>2, <3>1
    <3>3. pfs' = [pfs EXCEPT !.iou = r.iou, !.debt = d]
      BY <2>1, <3>1, Zenon
    <3> QED
      BY Zenon, <1>1, <1>2, <3>1, <3>2, <3>3 DEF Services
  <2>3. /\ r.iou # NoIou
        /\ \/ /\ pfs.iou # NoIou /\ r.iou.expiration = pfs.iou.expiration
              /\ ~(r.iou.amount < pfs.iou.amount + pfs.price)
           \/ /\ pfs.iou = NoIou /\ r.iou.expiration \notin pfs.claimed
              /\ ~(r.iou.amount < pfs.price)
    BY <1>1, <1>5, AcceptedPays
  <2>4. ServiceInv'
    BY <1>3, <2>2, <2>3 DEF ServiceInv
  <2>5. ASSUME NEW iou \in Ious, NEW offered \in Nat, Fair(iou, offered)
        PROVE  \/ iou.amount <= offered
               \/ iou.expiration \in pfs'.claimed
               \/ /\ pfs'.iou # NoIou /\ pfs'.iou.expiration = iou.expiration
                  /\ iou.amount <= pfs'.iou.amount + offered
    <3>1. iou.amount \in Nat /\ offered \in Nat /\ pfs.price \in Nat
      <4>1. iou.amount \in Nat
        BY DEF Ious
      <4>2. offered \in Nat
        BY QueriesAssumption
      <4>3. pfs.price \in Nat
        BY Zenon, <1>1, QueriesAssumption DEF Services
      <4> QED
        BY <4>1, <4>2, <4>3
    <3>2. CASE pfs.iou = NoIou
      BY <2>2, <2>5, <3>2 DEF Fair
    <3>3. CASE pfs.iou # NoIou
      <4>1. pfs.iou.amount <= r.iou.amount /\ r.iou.expiration = pfs.iou.expiration
        BY <1>2, <2>3, <3>1, <3>3
      <4>2. \/ iou.amount <= offered
            \/ iou.expiration \in pfs.claimed
            \/ /\ pfs.iou.expiration = iou.expiration
               /\ iou.amount <= pfs.iou.amount + offered
        BY <2>5 DEF Fair
      <4> QED
        BY <1>2, <2>2, <2>3, <3>1, <4>1, <4>2
    <3> QED
      BY <3>2, <3>3
  <2>6. \A iou \in Ious : \A offered \in Nat : Fair(iou, offered) => Fair(iou, offered)'
    BY <2>5 DEF Fair
  <2>7. r.iou.amount - pfs.iou.amount <= r.offered
    <3>1. CASE r.iou.amount <= r.offered
      BY <1>2, <3>1
    <3>2. CASE r.iou.expiration \in pfs.claimed
      BY <1>3, <2>3, <3>2 DEF ServiceInv
    <3>3. CASE r.iou.amount <= pfs.iou.amount + r.offered
      BY <1>2, <3>3
    <3> QED
      BY <1>1, <3>1, <3>2, <3>3 DEF Fair
  <2> QED
    BY <1>2, <2>2, <2>4, <2>6, <2>7 DEF ServiceMoves
<1> QED
  BY <1>4, <1>5

(* The service as a request leaves it, accepted or not (Handle). *)
LEMMA HandleMoves ==
  ASSUME QInv, NEW r \in flight, Handle(r)
  PROVE  ServiceMoves /\ pfs'.block = pfs.block /\ pfs'.debt - pfs.debt <= r.offered
<1>1. pfs \in Services /\ r \in Requests /\ ServiceInv
  BY DEF QInv, Types
<1>2. pfs.block \in Nat /\ pfs.debt \in Int /\ r.offered \in Nat
  BY <1>1, QueriesAssumption DEF Services, Requests
<1>3. CASE Verdict(r) = "accepted"
  <2>1. pfs' = Kept(r)
    BY <1>3 DEF Handle
  <2> QED
    BY <1>3, <2>1, KeptMoves
<1>4. CASE Verdict(r) # "accepted"
  <2>1. pfs' = pfs
    BY <1>4 DEF Handle
  <2>2. ServiceInv'
    BY <1>1, <2>1 DEF ServiceInv
  <2>3. \A iou \in Ious : \A offered \in Nat : Fair(iou, offered) => Fair(iou, offered)'
    BY <2>1 DEF Fair
  <2> QED
    BY <1>1, <1>2, <2>1, <2>2, <2>3 DEF ServiceMoves
<1> QED
  BY <1>3, <1>4

(* The query that waits for a request, which is the only one it waits for. *)
LEMMA TheWaiting ==
  ASSUME QInv, NEW r \in flight, ~r.left
  PROVE  /\ r.by \in Payment /\ query[r.by].pc = "answer" /\ r.by \in lock
         /\ r.iou = query[r.by].iou /\ r.offered = query[r.by].offered
         /\ \A p \in flight : ~p.left /\ p.by = r.by => p = r
<1>1. r \in Requests /\ Flying(r)
  BY DEF QInv, Types
<1>2. /\ r.by \in Payment /\ query[r.by].pc = "answer"
      /\ r.iou = query[r.by].iou /\ r.offered = query[r.by].offered
  BY <1>1 DEF Flying, Requests
<1>3. r.by \in lock
  BY <1>2 DEF QInv, Semaphore, InsidePcs
<1>4. ASSUME NEW p \in flight, ~p.left, p.by = r.by
      PROVE  p = r
  <2>1. p \in Requests /\ Flying(p)
    BY DEF QInv, Types
  <2>2. p.iou = r.iou /\ p.offered = r.offered
    BY <1>2, <1>4, <2>1 DEF Flying
  <2>3. p.left = r.left
    BY <1>1, <1>4, <2>1 DEF Requests
  <2> QED
    BY <1>1, <1>4, <2>1, <2>2, <2>3 DEF Requests
<1> QED
  BY <1>2, <1>3, <1>4

(* The answer to a query, whatever it is (Handle). *)
LEMMA AnswerKeeps ==
  ASSUME QInv, NEW r \in flight, ~r.left, Handle(r), NEW n \in Queries, Set(r.by, n),
         n.pc \notin {"post", "answer"}, budget' \in Budgets, budget'["lost"] = budget["lost"],
         TokensMove(r.by, n), LockMoves(r.by, n), Local(r.by, n), Known(n),
         n.pc = "paying" => Usable(chan, n.route),
         n.feedback # 0 => n.feedback = query[r.by].feedback /\ n.route = query[r.by].route
  PROVE  QInv' /\ RouteIsOpen
<1>1. /\ r.by \in Payment /\ query[r.by].pc = "answer" /\ r.by \in lock
      /\ \A p \in flight : ~p.left /\ p.by = r.by => p = r
  BY TheWaiting
<1>2. PICK i \in Payment : i = r.by
  BY <1>1
<1>3. QueryInv(i) /\ budget["lost"] \in Nat /\ price \in Price
  BY TheQuery
<1>4. query' = [query EXCEPT ![i] = n]
  BY <1>2 DEF Set
<1>5. UNCHANGED <<target, block, chan, price>> /\ flight' = flight \ {r}
  BY Zenon DEF Handle
<1>6. ServiceMoves
  BY HandleMoves
<1>7. FlightMoves(i, n)
  <2>1. ASSUME NEW p \in flight'
        PROVE  /\ p \in Requests /\ Fair(p.iou, p.offered) /\ (p.left => ~NothingLost')
               /\ ~p.left => p \in flight /\ p.by # i
    <3>1. p \in flight /\ p # r /\ p \in Requests /\ Flying(p)
      BY <1>5 DEF QInv, Types
    <3>2. NothingLost' <=> NothingLost
      BY DEF NothingLost
    <3> QED
      BY <1>1, <1>2, <3>1, <3>2 DEF Flying
  <2> QED
    BY <2>1 DEF FlightMoves
<1>8. Pays(n)
  BY DEF Pays
<1>9. n.feedback # 0 => TokenOf(n.feedback, n.route, target[i])
  BY <1>2, <1>3 DEF QueryInv
<1>10. budget'["lost"] <= budget["lost"] /\ price' \in Price
  BY <1>3, <1>5
<1>11. /\ i \in lock /\ TokensMove(i, n) /\ LockMoves(i, n) /\ Local(i, n)
       /\ query[i].pc \notin {"paying", "done"} /\ UNCHANGED <<target, block, chan>>
  BY <1>1, <1>2, <1>5
<1>12. Moves(i, n)
  BY Zenon, <1>4, <1>6, <1>7, <1>8, <1>9, <1>10, <1>11 DEF Moves
<1> QED
  BY <1>12, MovesKeep

(* The tokens that no answer has changed. *)
LEMMA SameTokens ==
  ASSUME QInv, NEW i \in Payment, NEW n \in Queries, tokens' = tokens
  PROVE  TokensMove(i, n)
BY DEF QInv, Types, TokensMove

(* The query is given up (GiveUp). *)
LEMMA GiveUpKeeps ==
  ASSUME QInv, NEW r \in flight, ~r.left, Handle(r), GiveUp(r.by, query[r.by]), tokens' = tokens,
         budget' = budget \/ Spend("error")
  PROVE  QInv' /\ RouteIsOpen
<1>1. r.by \in Payment
  BY TheWaiting
<1>2. query[r.by] \in Queries /\ budget \in Budgets
  BY <1>1, TheQuery
<1>3. PICK n : n = Failed(query[r.by])
  OBVIOUS
<1>4. n \in Queries /\ n.pc = "done" /\ n.result = "failed" /\ n.feedback = 0
  BY <1>2, <1>3, FailedFields
<1>5. Set(r.by, n) /\ lock' = lock \ {r.by}
  BY <1>3 DEF GiveUp, Release
<1>6. LockMoves(r.by, n)
  BY <1>4, <1>5 DEF LockMoves, InsidePcs
<1>7. Local(r.by, n) /\ Known(n) /\ n.pc \notin {"post", "answer"}
  BY <1>4 DEF Local, Known, InsidePcs
<1>8. TokensMove(r.by, n)
  BY <1>1, <1>4, SameTokens
<1>9. budget' \in Budgets /\ budget'["lost"] = budget["lost"]
  <2>1. CASE budget' = budget
    BY <1>2, <2>1
  <2>2. CASE Spend("error")
    BY <1>2, <2>2, SpendLemma
  <2> QED
    BY <2>1, <2>2
<1> QED
  BY <1>4, <1>5, <1>6, <1>7, <1>8, <1>9, AnswerKeeps

(* The query tries again, outside the semaphore or, for a new price, still inside. *)
LEMMA RetryKeeps ==
  ASSUME QInv, NEW r \in flight, ~r.left, Handle(r), query[r.by].tries > 0,
         NEW scrap \in BOOLEAN, NEW pc \in {"acquire", "new_info"},
         Set(r.by, [query[r.by] EXCEPT !.scrap = scrap, !.pc = pc]),
         lock' = IF pc = "acquire" THEN lock \ {r.by} ELSE lock,
         tokens' = tokens, budget' = budget \/ Spend("error")
  PROVE  QInv' /\ RouteIsOpen
<1>1. r.by \in Payment /\ query[r.by].pc = "answer" /\ r.by \in lock
  BY TheWaiting
<1>2. query[r.by] \in Queries /\ QueryInv(r.by) /\ budget \in Budgets
  BY <1>1, TheQuery
<1>3. PICK n : n = [query[r.by] EXCEPT !.scrap = scrap, !.pc = pc]
  OBVIOUS
<1>4. /\ n \in Queries /\ n.pc = pc /\ n.tries = query[r.by].tries /\ n.result = query[r.by].result
      /\ n.feedback = query[r.by].feedback /\ n.route = query[r.by].route /\ n.view = query[r.by].view
  BY Zenon, <1>2, <1>3 DEF Queries, Pcs
<1>5. Set(r.by, n)
  BY <1>3
<1>6. LockMoves(r.by, n)
  <2>1. CASE pc = "acquire"
    BY <1>4, <2>1 DEF LockMoves, InsidePcs
  <2>2. CASE pc = "new_info"
    BY <1>1, <1>4, <2>2 DEF LockMoves, InsidePcs
  <2> QED
    BY <2>1, <2>2
<1>7. Local(r.by, n) /\ n.pc \notin {"post", "answer"}
  BY <1>1, <1>2, <1>4 DEF Local, QueryInv
<1>8. Known(n)
  BY <1>1, <1>2, <1>4 DEF Known, QueryInv, InsidePcs
<1>9. TokensMove(r.by, n)
  BY <1>1, <1>4, SameTokens
<1>10. budget' \in Budgets /\ budget'["lost"] = budget["lost"]
  <2>1. CASE budget' = budget
    BY <1>2, <2>1
  <2>2. CASE Spend("error")
    BY <1>2, <2>2, SpendLemma
  <2> QED
    BY <2>1, <2>2
<1> QED
  BY <1>4, <1>5, <1>6, <1>7, <1>8, <1>9, <1>10, AnswerKeeps

(* The IOU was rejected (Rejected). *)
LEMMA RejectedKeeps ==
  ASSUME QInv, NEW r \in flight, ~r.left, Handle(r), NEW code, Rejected(r.by, code), tokens' = tokens,
         budget' = budget \/ Spend("error")
  PROVE  QInv' /\ RouteIsOpen
<1>1. r.by \in Payment
  BY TheWaiting
<1>2. PICK q \in Queries : q = query[r.by]
  BY <1>1, TheQuery
<1>3. q.scrap \in BOOLEAN
  BY <1>2 DEF Queries
<1>4. CASE q.tries = 0 /\ GiveUp(r.by, q)
  BY <1>2, <1>4, GiveUpKeeps
<1>5. CASE q.tries > 0 /\ Again(r.by, [q EXCEPT !.scrap = TRUE])
  <2>1. Set(r.by, [q EXCEPT !.scrap = TRUE, !.pc = "acquire"]) /\ lock' = lock \ {r.by}
    BY <1>5 DEF Again, Release
  <2> QED
    BY Zenon, <1>2, <1>5, <2>1, RetryKeeps
<1>6. CASE q.tries > 0 /\ Set(r.by, [q EXCEPT !.pc = "new_info"]) /\ UNCHANGED lock
  <2>1. [q EXCEPT !.pc = "new_info"] = [q EXCEPT !.scrap = q.scrap, !.pc = "new_info"]
    BY Zenon, <1>2 DEF Queries
  <2>2. Set(r.by, [q EXCEPT !.scrap = q.scrap, !.pc = "new_info"])
    BY <1>6, <2>1
  <2> QED
    BY Zenon, <1>2, <1>3, <1>6, <2>2, RetryKeeps
<1>7. CASE q.tries > 0 /\ Again(r.by, q)
  <2>1. [q EXCEPT !.pc = "acquire"] = [q EXCEPT !.scrap = q.scrap, !.pc = "acquire"]
    BY Zenon, <1>2 DEF Queries
  <2>2. Set(r.by, [q EXCEPT !.scrap = q.scrap, !.pc = "acquire"]) /\ lock' = lock \ {r.by}
    BY <1>7, <2>1 DEF Again, Release
  <2> QED
    BY Zenon, <1>2, <1>3, <1>7, <2>2, RetryKeeps
<1> QED
  BY <1>2, <1>4, <1>5, <1>6, <1>7 DEF Rejected

(* The paths have arrived: the tokens of their routes are the query's (Found). *)
LEMMA FoundKeeps ==
  ASSUME QInv, NEW r \in flight, ~r.left, Handle(r), NEW hops \in SUBSET Hop, Found(r.by, hops),
         budget' = budget
  PROVE  QInv' /\ RouteIsOpen
<1>1. r.by \in Payment /\ query[r.by].pc = "answer" /\ r.by \in lock
  BY TheWaiting
<1>2. PICK i \in Payment : i = r.by
  BY <1>1
<1>3. query[i] \in Queries /\ budget \in Budgets
  BY TheQuery
<1>4. PICK m : m = [query[i] EXCEPT !.found = hops]
  BY Zenon
<1>5. m \in Queries /\ m.found = hops
  BY <1>3, <1>4 DEF Queries
<1>6. PICK routes : routes = RouteStates(query[i].view, hops)
  OBVIOUS
<1>7. routes \subseteq hops /\ routes \subseteq Hop
  BY <1>6 DEF RouteStates
<1>8. /\ tokens' = [k \in DOMAIN tokens |-> IF k \in {RouteKey(h, i) : h \in routes} THEN i ELSE tokens[k]]
      /\ Pay(i, m, routes) /\ lock' = lock \ {i}
  BY <1>2, <1>4, <1>6 DEF Found, Release
<1>9. PICK n \in Queries :
           /\ Set(i, n)
           /\ n.found = m.found /\ n.feedback = 0
           /\ \/ n.pc = "done" /\ n.result = "failed"
              \/ n.pc = "paying" /\ n.result = "none" /\ n.route \in routes /\ Usable(chan, n.route)
  BY <1>5, <1>7, <1>8, PayFields
<1>10. LockMoves(i, n)
  BY <1>8, <1>9 DEF LockMoves, InsidePcs
<1>11. Local(i, n) /\ Known(n) /\ n.pc \notin {"post", "answer"}
  BY <1>7, <1>9 DEF Local, Known, InsidePcs
<1>12. TokensMove(i, n)
  <2>1. /\ tokens \in [Hop \X (Hop \union {target[j] : j \in Payment}) -> Payment \union {0}]
        /\ DOMAIN tokens' = DOMAIN tokens
    BY <1>8 DEF QInv, Types
  <2>2. tokens' \in [Hop \X (Hop \union {target[j] : j \in Payment}) -> Payment \union {0}]
    BY <1>8, <2>1
  <2>3. ASSUME NEW k \in DOMAIN tokens'
        PROVE  \/ tokens'[k] = tokens[k]
               \/ tokens'[k] = i /\ target[i] = k[2] /\ k[1] \in n.found /\ n.pc \in {"paying", "done"}
    <3>1. CASE k \in {RouteKey(h, i) : h \in routes}
      <4>1. PICK h \in routes : k = <<h, target[i]>>
        BY <3>1 DEF RouteKey
      <4>2. k[1] = h /\ k[2] = target[i]
        BY <4>1
      <4>3. tokens'[k] = i
        BY <1>8, <2>1, <2>3, <3>1
      <4> QED
        BY <1>5, <1>7, <1>9, <4>1, <4>2, <4>3
    <3>2. CASE k \notin {RouteKey(h, i) : h \in routes}
      BY <1>8, <2>1, <2>3, <3>2
    <3> QED
      BY <3>1, <3>2
  <2> QED
    BY <2>2, <2>3 DEF TokensMove
<1>13. budget' \in Budgets /\ budget'["lost"] = budget["lost"]
  BY <1>3
<1> QED
  BY <1>2, <1>9, <1>10, <1>11, <1>12, <1>13, AnswerKeeps

(* A step that no query takes: the IOUs of the queries are worth what they were. *)
LEMMA SurroundingsKeep ==
  ASSUME QInv, UNCHANGED <<target, price, lock, query, tokens>>, flight' \subseteq flight,
         block' \in 1..MaxBlock, chan' \in [Hop -> Channels],
         budget' \in Budgets, budget'["lost"] = budget["lost"], ServiceMoves,
         NothingLost => \A q \in Queries : Exact(q) => Exact(q)'
  PROVE  QInv' /\ RouteIsOpen
<1>1. NothingLost' <=> NothingLost
  BY DEF NothingLost
<1>2. Types'
  <2>1. /\ target' \in Targets /\ price' \in Price /\ lock' \subseteq Payment
        /\ query' \in [Payment -> Queries] /\ flight' \subseteq Requests
        /\ budget'["lost"] <= Budget["lost"]
    BY DEF QInv, Types
  <2>2. tokens' \in [Hop \X (Hop \union {target'[j] : j \in Payment}) -> Payment \union {0}]
    BY DEF QInv, Types
  <2>3. pfs' \in Services
    BY DEF ServiceMoves
  <2> QED
    BY <2>1, <2>2, <2>3 DEF Types
<1>3. Semaphore'
  BY DEF QInv, Semaphore
<1>4. ServiceInv'
  BY Zenon DEF ServiceMoves
<1>5. TokensInv'
  BY Zenon DEF QInv, TokensInv, TokenOf
<1>6. ASSUME NEW r \in flight' PROVE Flying(r)'
  <2>1. r \in flight /\ r \in Requests /\ Flying(r)
    BY DEF QInv, Types
  <2>2. r.iou \in Ious /\ r.offered \in Nat
    BY <2>1 DEF Requests
  <2>3. Fair(r.iou, r.offered)'
    <3>1. Fair(r.iou, r.offered)
      BY <2>1 DEF Flying
    <3>2. \A iou \in Ious : \A offered \in Nat : Fair(iou, offered) => Fair(iou, offered)'
      BY DEF ServiceMoves
    <3> QED
      BY <2>2, <3>1, <3>2, Zenon
  <2> QED
    BY ZenonT(30), <1>1, <2>1, <2>3 DEF Flying
<1>7. ASSUME NEW i \in Payment PROVE QueryInv(i)'
  <2>1. QueryInv(i) /\ query[i] \in Queries
    BY TheQuery
  <2>2. PICK q \in Queries : q = query[i]
    BY <2>1
  <2>3. query'[i] = q /\ target' = target
    BY <2>2
  <2>4. Local(i, q)'
    BY <2>1, <2>2, <2>3 DEF Local, QueryInv
  <2>5. Known(q)'
    <3>1. pfs.block \in Nat /\ pfs'.block \in Nat /\ pfs'.block >= pfs.block
      BY DEF QInv, Types, ServiceMoves, Services
    <3>2. ASSUME NEW h \in Hop, q.view[h].opened <= pfs.block PROVE q.view[h].opened <= pfs'.block
      <4>1. q.view[h] \in Channels
        BY DEF Queries
      <4>2. q.view[h].opened \in Nat
        BY <4>1, QueriesAssumption DEF Channels
      <4> QED
        BY <3>1, <3>2, <4>2
    <3>3. Known(q)
      BY <2>1, <2>2 DEF QueryInv
    <3> QED
      BY <3>2, <3>3 DEF Known
  <2>6. Pays(q)'
    <3>1. Pays(q)
      BY <2>1, <2>2 DEF QueryInv
    <3>2. q.iou \in Ious /\ q.offered \in Nat
      BY DEF Queries
    <3>3. Fair(q.iou, q.offered) => Fair(q.iou, q.offered)'
      <4>1. \A iou \in Ious : \A offered \in Nat : Fair(iou, offered) => Fair(iou, offered)'
        BY DEF ServiceMoves
      <4> QED
        BY <3>2, <4>1, Zenon
    <3>4. NothingLost /\ Exact(q) => Exact(q)'
      OBVIOUS
    <3> QED
      BY <1>1, <3>1, <3>3, <3>4 DEF Pays
  <2>7. q.feedback # 0 => TokenOf(q.feedback, q.route, target[i])'
    BY <2>1, <2>2, <2>3 DEF QueryInv, TokenOf
  <2> QED
    BY <2>3, <2>4, <2>5, <2>6, <2>7 DEF QueryInv
<1>8. RouteIsOpen
  BY DEF RouteIsOpen
<1> QED
  BY <1>2, <1>3, <1>4, <1>5, <1>6, <1>7, <1>8 DEF QInv

(* A request is handled (Handle). *)
LEMMA HandleKeeps ==
  ASSUME QInv, NEW r \in flight, Handle(r)
  PROVE  QInv' /\ RouteIsOpen
<1>1. UNCHANGED <<target, block, chan, price>> /\ flight' = flight \ {r}
  BY DEF Handle
<1>2. CASE r.left /\ UNCHANGED <<query, lock, tokens, budget>>
  <2>1. ServiceMoves
    BY HandleMoves
  <2>2. ~NothingLost
    BY <1>2 DEF QInv, Flying
  <2>3. /\ block' \in 1..MaxBlock /\ chan' \in [Hop -> Channels] /\ budget' \in Budgets
        /\ budget'["lost"] = budget["lost"] /\ flight' \subseteq flight
    BY <1>1, <1>2 DEF QInv, Types
  <2>4. UNCHANGED <<target, price, lock, query, tokens>>
    BY <1>1, <1>2
  <2> QED
    BY <2>1, <2>2, <2>3, <2>4, SurroundingsKeep
<1>3. CASE ~r.left /\ (\E hops \in SUBSET Hop : Found(r.by, hops)) /\ UNCHANGED budget
  BY <1>3, FoundKeeps
<1>4. CASE ~r.left /\ Rejected(r.by, Verdict(r)) /\ UNCHANGED <<tokens, budget>>
  BY <1>4, RejectedKeeps
<1>5. CASE ~r.left /\ Spend("error") /\ GiveUp(r.by, query[r.by]) /\ UNCHANGED tokens
  BY <1>5, GiveUpKeeps
<1>6. CASE ~r.left /\ Spend("error") /\ Rejected(r.by, "bad_iou") /\ UNCHANGED tokens
  BY <1>6, RejectedKeeps
<1> QED
  BY <1>2, <1>3, <1>4, <1>5, <1>6 DEF Handle

(* A step of the surroundings that leaves the IOUs of the service alone. *)
LEMMA SameIous ==
  ASSUME QInv, pfs' \in Services, pfs'.iou = pfs.iou, pfs'.claimed = pfs.claimed, pfs'.block >= pfs.block
  PROVE  ServiceMoves /\ \A q \in Queries : Exact(q) => Exact(q)'
<1>1. ServiceInv'
  BY DEF QInv, ServiceInv
<1>2. \A iou \in Ious : \A offered \in Nat : Fair(iou, offered) => Fair(iou, offered)'
  BY DEF Fair
<1>3. \A q \in Queries : Exact(q) => Exact(q)'
  BY DEF Exact
<1> QED
  BY <1>1, <1>2, <1>3 DEF ServiceMoves

(* The service asks for another price (ChangePrice). *)
LEMMA ChangePriceKeeps ==
  ASSUME QInv, ChangePrice
  PROVE  QInv' /\ RouteIsOpen
<1>1. /\ pfs \in Services /\ budget \in Budgets
      /\ block \in 1..MaxBlock /\ chan \in [Hop -> Channels]
  BY DEF QInv, Types
<1>2. UNCHANGED <<target, block, chan, price, lock, query, tokens, flight>>
  BY DEF ChangePrice
<1>3. PICK p \in Price : pfs' = [pfs EXCEPT !.price = p]
  BY DEF ChangePrice
<1>4. pfs' \in Services /\ pfs'.iou = pfs.iou /\ pfs'.claimed = pfs.claimed /\ pfs'.block >= pfs.block
  BY <1>1, <1>3 DEF Services
<1>5. budget' \in Budgets /\ budget'["lost"] = budget["lost"]
  BY <1>1, SpendLemma DEF ChangePrice
<1>6. UNCHANGED <<target, price, lock, query, tokens>> /\ flight' \subseteq flight
      /\ block' \in 1..MaxBlock /\ chan' \in [Hop -> Channels]
  BY <1>1, <1>2
<1> QED
  BY <1>4, <1>5, <1>6, SameIous, SurroundingsKeep

(* The service claims the last IOU: the ones that build on it become worthless (Claim). *)
LEMMA ClaimKeeps ==
  ASSUME QInv, Claim
  PROVE  QInv' /\ RouteIsOpen
<1>1. /\ pfs \in Services /\ budget \in Budgets
      /\ block \in 1..MaxBlock /\ chan \in [Hop -> Channels]
  BY DEF QInv, Types
<1>2. UNCHANGED <<target, block, chan, price, lock, query, tokens, flight>> /\ pfs.iou # NoIou
  BY DEF Claim
<1>3. pfs' = [pfs EXCEPT !.iou = NoIou, !.claimed = @ \union {pfs.iou.expiration}]
  BY DEF Claim
<1>4. pfs.iou.expiration \in Nat /\ NoIou \in Ious
  BY <1>1 DEF Services, Ious, NoIou
<1>5. /\ pfs' \in Services /\ pfs'.iou = NoIou /\ pfs'.claimed = pfs.claimed \union {pfs.iou.expiration}
      /\ pfs'.block >= pfs.block
  <2>1. pfs.claimed \union {pfs.iou.expiration} \in SUBSET Nat
    BY <1>1, <1>4 DEF Services
  <2>2. PICK c \in SUBSET Nat : c = pfs.claimed \union {pfs.iou.expiration}
    BY Zenon, <2>1
  <2>3. pfs' = [pfs EXCEPT !.iou = NoIou, !.claimed = c]
    BY <1>3, <2>2
  <2> QED
    <3>1. pfs.block \in Nat
      BY <1>1 DEF Services
    <3>2. pfs' \in Services /\ pfs'.iou = NoIou /\ pfs'.claimed = c /\ pfs'.block = pfs.block
      BY Zenon, <1>1, <1>4, <2>2, <2>3 DEF Services
    <3> QED
      BY <2>2, <3>1, <3>2
<1>6. ServiceMoves
  <2>1. ServiceInv'
    BY <1>5 DEF ServiceInv
  <2>2. \A iou \in Ious : \A offered \in Nat : Fair(iou, offered) => Fair(iou, offered)'
    BY <1>5 DEF Fair
  <2> QED
    BY <1>5, <2>1, <2>2 DEF ServiceMoves
<1>7. budget' \in Budgets /\ budget'["lost"] = budget["lost"]
  BY <1>1, SpendLemma DEF Claim
<1>8. UNCHANGED <<target, price, lock, query, tokens>> /\ flight' \subseteq flight
      /\ block' \in 1..MaxBlock /\ chan' \in [Hop -> Channels]
  BY <1>1, <1>2
<1>9. \A q \in Queries : Exact(q) => Exact(q)'
  BY <1>2, <1>5 DEF Exact
<1> QED
  BY <1>6, <1>7, <1>8, <1>9, SurroundingsKeep

(* The service follows the chain (ServiceBlock). *)
LEMMA ServiceBlockKeeps ==
  ASSUME QInv, ServiceBlock
  PROVE  QInv' /\ RouteIsOpen
<1>1. /\ pfs \in Services /\ budget \in Budgets /\ pfs.block \in Nat
      /\ block \in 1..MaxBlock /\ chan \in [Hop -> Channels]
  BY DEF QInv, Types, Services
<1>2. UNCHANGED <<target, block, chan, price, lock, query, tokens, flight, budget>>
  BY DEF ServiceBlock
<1>3. pfs' = [pfs EXCEPT !.block = @ + 1]
  BY DEF ServiceBlock
<1>4. pfs' \in Services /\ pfs'.iou = pfs.iou /\ pfs'.claimed = pfs.claimed /\ pfs'.block >= pfs.block
  BY <1>1, <1>3 DEF Services
<1>5. UNCHANGED <<target, price, lock, query, tokens>> /\ flight' \subseteq flight
      /\ block' \in 1..MaxBlock /\ chan' \in [Hop -> Channels]
      /\ budget' \in Budgets /\ budget'["lost"] = budget["lost"]
  BY <1>1, <1>2
<1> QED
  BY <1>4, <1>5, SameIous, SurroundingsKeep

(* A new block, in which a channel may have been opened (NodeBlock). *)
LEMMA NodeBlockKeeps ==
  ASSUME QInv, NodeBlock
  PROVE  QInv' /\ RouteIsOpen
<1>1. /\ pfs \in Services /\ budget \in Budgets /\ pfs.block \in Nat
      /\ block \in 1..MaxBlock /\ chan \in [Hop -> Channels]
  BY DEF QInv, Types, Services
<1>2. UNCHANGED <<target, price, lock, query, tokens, pfs, flight, budget>>
  BY DEF NodeBlock
<1>3. block' \in 1..MaxBlock /\ block + 1 \in 0..MaxBlock
  BY <1>1, QueriesAssumption DEF NodeBlock
<1>4. chan' \in [Hop -> Channels]
  <2>1. CASE UNCHANGED chan
    BY <1>1, <2>1
  <2>2. ASSUME NEW h \in Hop, chan' = [chan EXCEPT ![h] = [status |-> "opened", opened |-> block + 1]]
        PROVE  chan' \in [Hop -> Channels]
    <3>1. [status |-> "opened", opened |-> block + 1] \in Channels
      BY <1>3 DEF Channels
    <3> QED
      BY <1>1, <2>2, <3>1
  <2> QED
    BY <2>1, <2>2 DEF NodeBlock
<1>5. pfs' \in Services /\ pfs'.iou = pfs.iou /\ pfs'.claimed = pfs.claimed /\ pfs'.block >= pfs.block
  BY <1>1, <1>2
<1>6. UNCHANGED <<target, price, lock, query, tokens>> /\ flight' \subseteq flight
      /\ budget' \in Budgets /\ budget'["lost"] = budget["lost"]
  BY <1>1, <1>2
<1> QED
  BY <1>3, <1>4, <1>5, <1>6, SameIous, SurroundingsKeep

(* A channel is closed (CloseChannel). *)
LEMMA CloseChannelKeeps ==
  ASSUME QInv, CloseChannel
  PROVE  QInv' /\ RouteIsOpen
<1>1. /\ pfs \in Services /\ budget \in Budgets /\ pfs.block \in Nat
      /\ block \in 1..MaxBlock /\ chan \in [Hop -> Channels]
  BY DEF QInv, Types, Services
<1>2. UNCHANGED <<target, block, price, lock, query, tokens, pfs, flight>>
  BY DEF CloseChannel
<1>3. PICK h \in Hop : chan' = [chan EXCEPT ![h].status = "closed"]
  BY Zenon DEF CloseChannel
<1>4. chan' \in [Hop -> Channels]
  <2>1. [chan[h] EXCEPT !.status = "closed"] \in Channels
    BY <1>1 DEF Channels
  <2> QED
    BY <1>1, <1>3, <2>1
<1>5. budget' \in Budgets /\ budget'["lost"] = budget["lost"]
  BY <1>1, SpendLemma DEF CloseChannel
<1>6. pfs' \in Services /\ pfs'.iou = pfs.iou /\ pfs'.claimed = pfs.claimed /\ pfs'.block >= pfs.block
  BY <1>1, <1>2
<1>7. UNCHANGED <<target, price, lock, query, tokens>> /\ flight' \subseteq flight /\ block' \in 1..MaxBlock
  BY <1>1, <1>2
<1> QED
  BY <1>4, <1>5, <1>6, <1>7, SameIous, SurroundingsKeep

-----------------------------------------------------------------------------
(***************************************************************************)
(* The theorems.                                                           *)
(***************************************************************************)
(* Before the first query nothing is on its way. *)
LEMMA InitKeeps ==
  ASSUME Init
  PROVE  QInv
<1>1. Types
  <2>1. target \in Targets /\ lock \subseteq Payment /\ flight \subseteq Requests
    BY DEF Init
  <2>2. block \in 1..MaxBlock
    BY QueriesAssumption DEF Init
  <2>3. chan \in [Hop -> Channels]
    <3>1. NoChannel \in Channels /\ [status |-> "opened", opened |-> 1] \in Channels
      BY QueriesAssumption DEF NoChannel, Channels
    <3> QED
      BY <3>1 DEF Init
  <2>4. price \in Price
    BY QueriesAssumption DEF Init
  <2>5. query \in [Payment -> Queries]
    BY NoQueryType DEF Init
  <2>6. tokens \in [Hop \X (Hop \union {target[i] : i \in Payment}) -> Payment \union {0}]
    BY DEF Init
  <2>7. pfs \in Services
    <3>1. PICK iou \in {NoIou} \union EarlierIous :
            pfs = [price |-> price, block |-> 0, iou |-> iou, claimed |-> {}, debt |-> iou.amount]
      BY Zenon DEF Init
    <3>2. iou \in Ious
      BY QueriesAssumption DEF NoIou, Ious
    <3>3. iou.amount \in Int
      BY <3>2 DEF Ious
    <3> QED
      BY <2>4, <3>1, <3>2, <3>3 DEF Services
  <2>8. budget \in Budgets /\ budget["lost"] <= Budget["lost"]
    BY QueriesAssumption DEF Init, Budgets
  <2> QED
    BY <2>1, <2>2, <2>3, <2>4, <2>5, <2>6, <2>7, <2>8 DEF Types
<1>2. \A i \in Payment : query[i] = NoQuery
  BY DEF Init
<1>3. NoQuery.pc = "todo" /\ NoQuery.result = "none" /\ NoQuery.feedback = 0
  BY DEF NoQuery
<1>4. Semaphore
  BY <1>2, <1>3 DEF Semaphore, InsidePcs, Init
<1>5. ServiceInv
  <2>1. pfs.claimed = {}
    BY DEF Init
  <2> QED
    BY <2>1 DEF ServiceInv
<1>6. TokensInv
  BY DEF TokensInv, Init
<1>7. \A r \in flight : Flying(r)
  BY DEF Init
<1>8. ASSUME NEW i \in Payment PROVE QueryInv(i)
  BY <1>2, <1>3 DEF QueryInv, Local, Known, Pays, InsidePcs
<1> QED
  BY <1>1, <1>4, <1>5, <1>6, <1>7, <1>8 DEF QInv

LOCAL INSTANCE WellFoundedInduction

(* A bounded set of numbers has a largest element, which Max names: what             *)
(* latest_channel_opened_at looks for.                                               *)
LEMMA MaxIsUpperBound ==
  ASSUME NEW S, NEW n \in Nat, S \subseteq 0..n, S # {}
  PROVE  Max(S) \in S /\ \A y \in S : Max(S) >= y
<1> DEFINE B == {m \in Nat : \A y \in S : y <= m}
<1>1. B \subseteq Nat /\ n \in B
  OBVIOUS
<1>2. PICK x \in B : \A y \in B : ~(<<y, x>> \in OpToRel(<, Nat))
  <2> HIDE DEF B
  <2> QED
    BY <1>1, Zenon, NatLessThanWellFounded, WFMin
<1>3. x \in Nat /\ \A y \in S : y <= x
  OBVIOUS
<1>4. x \in S
  <2>1. SUFFICES ASSUME x \notin S PROVE FALSE
    OBVIOUS
  <2>2. PICK y \in S : TRUE
    BY Zenon
  <2>3. y \in Nat /\ y <= x /\ y # x
    BY <1>3, <2>1
  <2>4. x - 1 \in Nat
    BY <1>3, <2>3
  <2>5. \A z \in S : z <= x - 1
    BY <1>3, <2>1
  <2>6. x - 1 \in B
    BY <2>4, <2>5
  <2>7. <<x - 1, x>> \in Nat \X Nat /\ <<x - 1, x>>[1] = x - 1 /\ <<x - 1, x>>[2] = x
    BY <1>3, <2>4
  <2>8. x - 1 < x
    BY <1>3
  <2>9. <<x - 1, x>> \in OpToRel(<, Nat)
    BY <2>7, <2>8 DEF OpToRel
  <2> QED
    BY Zenon, <1>2, <2>6, <2>9
<1>5. \E z \in S : \A y \in S : z >= y
  BY <1>3, <1>4
<1> QED
  BY Zenon, <1>5 DEF Max

(* A service that is ready has seen every channel of the view (get_best_routes). *)
LEMMA ReadyKnows ==
  ASSUME NEW q \in Queries, pfs \in Services, ServiceReady(q),
         NEW h \in Hop, q.view[h].status # "absent"
  PROVE  q.view[h].opened <= pfs.block
<1> DEFINE S == {0} \union {q.view[g].opened : g \in {g \in Hop : q.view[g].status # "absent"}}
<1>1. MaxBlock \in Nat
  BY QueriesAssumption
<1>2. q.view \in [Hop -> Channels]
  BY DEF Queries
<1>3. \A g \in Hop : q.view[g].opened \in 0..MaxBlock
  BY <1>2 DEF Channels
<1>4. S \subseteq 0..MaxBlock
  BY <1>1, <1>3
<1>5. S # {} /\ q.view[h].opened \in S
  OBVIOUS
<1>6. Max(S) >= q.view[h].opened
  <2> HIDE DEF S
  <2> QED
    BY Zenon, <1>1, <1>4, <1>5, MaxIsUpperBound
<1>7. pfs.block >= Max(S)
  BY DEF ServiceReady, LatestOpened
<1>8. Max(S) \in S
  <2> HIDE DEF S
  <2> QED
    BY Zenon, <1>1, <1>4, <1>5, MaxIsUpperBound
<1>9. Max(S) \in Nat
  <2> HIDE DEF S
  <2>1. Max(S) \in 0..MaxBlock
    BY Zenon, <1>4, <1>8
  <2> QED
    BY <1>1, <2>1
<1>10. q.view[h].opened \in Nat
  BY <1>1, <1>3
<1>11. pfs.block \in Nat
  BY DEF Services
<1> QED
  <2> HIDE DEF S
  <2> QED
    BY <1>6, <1>7, <1>9, <1>10, <1>11

(* The service has seen the channels of the view before the semaphore is asked for (GetInfo). *)
LEMMA GetInfoKeeps ==
  ASSUME QInv, NEW i \in Payment, GetInfo(i)
  PROVE  QInv' /\ RouteIsOpen
<1>1. query[i] \in Queries /\ Local(i, query[i]) /\ budget \in Budgets /\ price \in Price
      /\ pfs \in Services /\ (i \in lock <=> query[i].pc \in InsidePcs)
  BY TheQuery DEF QueryInv
<1>2. query[i].pc = "info"
  BY DEF GetInfo
<1>3. UNCHANGED <<target, block, chan, price, tokens, pfs, flight>> /\ lock' = lock
  BY DEF GetInfo
<1>4. lock' = lock \ {i} /\ query[i].pc \notin {"answer", "paying", "done"}
  BY <1>1, <1>2, <1>3 DEF InsidePcs
<1>5. CASE ServiceReady(query[i]) /\ Set(i, [query[i] EXCEPT !.pc = "acquire"]) /\ UNCHANGED budget
  <2>1. PICK n : n = [query[i] EXCEPT !.pc = "acquire"]
    BY Zenon
  <2>2. /\ n \in Queries /\ n.pc = "acquire" /\ n.tries = query[i].tries /\ n.result = query[i].result
        /\ n.feedback = query[i].feedback /\ n.route = query[i].route /\ n.view = query[i].view
    BY <1>1, <2>1 DEF Queries, Pcs
  <2>3. query' = [query EXCEPT ![i] = n]
    BY <1>5, <2>1 DEF Set
  <2>4. LockMoves(i, n)
    BY <1>4, <2>2 DEF LockMoves, InsidePcs
  <2>5. Local(i, n) /\ Pays(n)
    BY <1>1, <1>2, <2>2 DEF Local, Pays
  <2>6. Known(n)
    <3>1. \A h \in Hop : query[i].view[h].status # "absent" => query[i].view[h].opened <= pfs.block
      BY <1>1, <1>5, ReadyKnows
    <3> QED
      BY <2>2, <3>1 DEF Known
  <2>7. price' \in Price /\ budget' \in Budgets /\ budget'["lost"] = budget["lost"]
    BY <1>1, <1>3, <1>5
  <2>8. UNCHANGED <<target, block, chan, tokens, pfs, flight>>
    BY <1>3
  <2> QED
    BY Zenon, <1>4, <2>2, <2>3, <2>4, <2>5, <2>6, <2>7, <2>8, CalmStep
<1>6. CASE Spend("error") /\ Set(i, Failed(query[i]))
  BY <1>1, <1>3, <1>4, <1>6, CalmFailure
<1> QED
  BY <1>5, <1>6 DEF GetInfo

(* Every step keeps the invariant, and no payment starts over a closed channel. *)
LEMMA NextKeeps ==
  ASSUME QInv, [Next]_vars
  PROVE  QInv' /\ [RouteIsOpen]_vars
<1>1. ASSUME NEW i \in Payment, Start(i) PROVE QInv' /\ RouteIsOpen
  BY <1>1, StartKeeps
<1>2. ASSUME NEW i \in Payment, QueryStep(i) PROVE QInv' /\ RouteIsOpen
  BY <1>2, MetadataKeeps, GetInfoKeeps, AcquireKeeps, LastIouKeeps, PostKeeps, NewInfoKeeps,
     FeedbackKeeps DEF QueryStep
<1>3. ASSUME NEW i \in Payment, PostTimeout(i) PROVE QInv' /\ RouteIsOpen
  BY <1>3, PostTimeoutKeeps
<1>4. ASSUME NEW r \in flight, Handle(r) PROVE QInv' /\ RouteIsOpen
  BY <1>4, HandleKeeps
<1>5. CASE ChangePrice
  BY <1>5, ChangePriceKeeps
<1>6. CASE Claim
  BY <1>6, ClaimKeeps
<1>7. CASE ServiceBlock
  BY <1>7, ServiceBlockKeeps
<1>8. CASE NodeBlock
  BY <1>8, NodeBlockKeeps
<1>9. CASE CloseChannel
  BY <1>9, CloseChannelKeeps
<1>10. CASE UNCHANGED vars
  <2>1. QInv'
    <3>1. /\ target' = target /\ block' = block /\ chan' = chan /\ price' = price /\ lock' = lock
          /\ query' = query /\ tokens' = tokens /\ pfs' = pfs /\ flight' = flight
          /\ budget' = budget
      BY Zenon, <1>10 DEF vars
    <3>2. Types' /\ Semaphore' /\ ServiceInv'
      <4>1. Types'
        <5>1. Types
          BY Zenon DEF QInv
        <5> QED
          BY <3>1, <5>1 DEF Types
      <4>2. Semaphore'
        BY Zenon, <3>1 DEF QInv, Semaphore
      <4>3. ServiceInv'
        BY Zenon, <3>1 DEF QInv, ServiceInv
      <4> QED
        BY <4>1, <4>2, <4>3
    <3>3. TokensInv'
      BY Zenon, <3>1 DEF QInv, TokensInv, TokenOf
    <3>4. \A r \in flight' : Flying(r)'
      BY Zenon, <3>1 DEF QInv, Flying, Fair, NothingLost
    <3>5. ASSUME NEW i \in Payment PROVE QueryInv(i)'
      <4>1. QueryInv(i)
        BY Zenon DEF QInv
      <4>2. Local(i, query[i])' /\ Known(query[i])'
        BY Zenon, <3>1, <4>1 DEF QueryInv, Local, Known
      <4>3. Pays(query[i])'
        BY Zenon, <3>1, <4>1 DEF QueryInv, Pays, Fair, Exact, NothingLost
      <4> QED
        BY Zenon, <3>1, <4>1, <4>2, <4>3 DEF QueryInv, TokenOf
    <3> QED
      BY Zenon, <3>2, <3>3, <3>4, <3>5 DEF QInv
  <2> QED
    BY <1>10, <2>1
<1> QED
  BY <1>1, <1>2, <1>3, <1>4, <1>5, <1>6, <1>7, <1>8, <1>9, <1>10 DEF Next

(* The invariant of the queries (_query_paths and the service it asks). *)
THEOREM QueriesInvariant == Spec => []QInv
<1>1. Init => QInv
  BY InitKeeps
<1>2. QInv /\ [Next]_vars => QInv'
  BY NextKeeps
<1> QED
  BY <1>1, <1>2, PTL DEF Spec

-----------------------------------------------------------------------------
(***************************************************************************)
(* The fees: nothing the node offers, or has offered, is above the cap.    *)
(***************************************************************************)
FeeInv ==
  /\ startPrice \in Price
  /\ price <= FeeCap
  /\ \A i \in Payment : query[i].offered <= FeeCap
  /\ \A r \in flight : r.offered <= FeeCap

(* The cap is the larger of the price at the start and the maximum (FeeCap). *)
LEMMA FeeCapBounds ==
  ASSUME startPrice \in Price
  PROVE  FeeCap \in Nat /\ startPrice <= FeeCap /\ MaximumFee <= FeeCap
<1>1. startPrice \in Nat /\ MaximumFee \in Nat
  BY QueriesAssumption
<1>2. FeeCap = IF startPrice >= MaximumFee THEN startPrice ELSE MaximumFee
  BY <1>1, MaxOfTwo DEF FeeCap
<1> QED
  BY <1>1, <1>2

(* A step that offers nothing above the cap. *)
LEMMA FeeStays ==
  ASSUME FeeInv, startPrice' = startPrice, price' <= FeeCap,
         \A i \in Payment : query'[i].offered <= FeeCap,
         \A r \in flight' : r.offered <= FeeCap
  PROVE  FeeInv'
<1>1. FeeCap' = FeeCap
  BY Zenon DEF FeeCap
<1> QED
  BY Zenon, <1>1 DEF FeeInv

(* A step of one query, to a state that offers nothing above the cap. *)
LEMMA OfferSet ==
  ASSUME QInv, FeeInv, NEW i \in Payment, NEW n, Set(i, n), n.offered <= FeeCap
  PROVE  \A j \in Payment : query'[j].offered <= FeeCap
<1>1. DOMAIN query = Payment
  BY DEF QInv, Types
<1>2. query' = [query EXCEPT ![i] = n]
  BY DEF Set
<1>3. \A j \in Payment : query[j].offered <= FeeCap
  BY DEF FeeInv
<1> QED
  BY Zenon, <1>1, <1>2, <1>3

(* A query that is over offers nothing (Ended). *)
LEMMA OfferEnded ==
  ASSUME QInv, FeeInv, NEW q, NEW result
  PROVE  Ended(q, result).offered = 0 /\ 0 <= FeeCap
<1>1. FeeCap \in Nat
  BY FeeCapBounds DEF FeeInv
<1> QED
  BY <1>1 DEF Ended, NoQuery

(* ... whether it fails (Failed) ... *)
LEMMA OfferFailed ==
  ASSUME QInv, FeeInv, NEW i \in Payment, NEW q, Set(i, Failed(q))
  PROVE  \A j \in Payment : query'[j].offered <= FeeCap
<1>1. Failed(q).offered <= FeeCap
  BY OfferEnded DEF Failed
<1> QED
  BY <1>1, OfferSet

(* ... or the payment begins (Pay). *)
LEMMA OfferPay ==
  ASSUME QInv, FeeInv, NEW i \in Payment, NEW q, NEW hops, Pay(i, q, hops)
  PROVE  \A j \in Payment : query'[j].offered <= FeeCap
<1>1. CASE Set(i, Failed(q))
  BY <1>1, OfferFailed
<1>2. ASSUME NEW h, Set(i, [Ended(q, "none") EXCEPT !.pc = "paying", !.route = h])
      PROVE  \A j \in Payment : query'[j].offered <= FeeCap
  <2>1. PICK e : e = Ended(q, "none")
    OBVIOUS
  <2>2. [e EXCEPT !.pc = "paying", !.route = h].offered = e.offered
    BY <2>1 DEF Ended, NoQuery
  <2>3. [Ended(q, "none") EXCEPT !.pc = "paying", !.route = h].offered <= FeeCap
    BY <2>1, <2>2, OfferEnded
  <2> QED
    BY Zenon, <1>2, <2>3, OfferSet
<1> QED
  BY Zenon, <1>1, <1>2 DEF Pay

(* A query whose record changes elsewhere offers what it offered. *)
LEMMA OfferSame ==
  ASSUME QInv, FeeInv, NEW i \in Payment, NEW n, Set(i, n), n.offered = query[i].offered
  PROVE  \A j \in Payment : query'[j].offered <= FeeCap
BY OfferSet DEF FeeInv

(* A query begins: it offers the price the node knows (Start). *)
LEMMA StartFee ==
  ASSUME QInv, FeeInv, NEW i \in Payment, Start(i)
  PROVE  FeeInv'
<1>1. PICK q : q = [query[i] EXCEPT !.view = chan, !.block = block, !.offered = price, !.tries = Attempts]
  OBVIOUS
<1>2. query[i] \in Queries /\ price <= FeeCap
  BY TheQuery DEF FeeInv
<1>3. /\ q.offered <= FeeCap /\ [q EXCEPT !.pc = "metadata"].offered <= FeeCap
      /\ [q EXCEPT !.pc = "info"].offered <= FeeCap
  BY Zenon, <1>1, <1>2 DEF Queries
<1>4. \/ Set(i, [q EXCEPT !.pc = "metadata"])
      \/ Set(i, Failed(q))
      \/ Set(i, [q EXCEPT !.pc = "info"])
  BY <1>1 DEF Start
<1>5. \A j \in Payment : query'[j].offered <= FeeCap
  BY Zenon, <1>3, <1>4, OfferSet, OfferFailed
<1>6. UNCHANGED <<startPrice, price, flight>>
  BY DEF Start
<1> QED
  BY <1>5, <1>6, FeeStays DEF FeeInv

(* A step of a query: only NewInfo changes the price, and not above the maximum. *)
LEMMA QueryStepFee ==
  ASSUME QInv, FeeInv, NEW i \in Payment, QueryStep(i)
  PROVE  FeeInv'
<1>1. query[i] \in Queries /\ price \in Nat /\ pfs \in Services
  BY TheQuery
<1>2. PICK q : q = query[i]
  OBVIOUS
<1>3. \A pc, iou, tries, updated :
        /\ [q EXCEPT !.pc = pc].offered = q.offered
        /\ [q EXCEPT !.pc = pc, !.iou = iou].offered = q.offered
        /\ [q EXCEPT !.pc = pc, !.tries = tries].offered = q.offered
        /\ [[q EXCEPT !.updated = updated] EXCEPT !.pc = pc].offered = q.offered
  BY Zenon, <1>1, <1>2 DEF Queries
<1> DEFINE Offers == \A j \in Payment : query'[j].offered <= FeeCap
<1> DEFINE Calm == UNCHANGED <<startPrice, price, flight>>
<1>4. ASSUME Offers, Calm PROVE FeeInv'
  BY <1>4, FeeStays DEF FeeInv
<1>5. CASE Metadata(i)
  <2>1. Offers /\ Calm
    BY <1>5, OfferPay, OfferFailed DEF Metadata
  <2> QED
    BY <1>4, <2>1
<1>6. CASE GetInfo(i)
  <2>1. Offers /\ Calm
    BY Zenon, <1>2, <1>3, <1>6, OfferSame, OfferFailed DEF GetInfo
  <2> QED
    BY <1>4, <2>1
<1>7. CASE Acquire(i)
  <2>1. \/ Set(i, [q EXCEPT !.pc = "post", !.iou = NoIou])
        \/ Set(i, [q EXCEPT !.pc = "post", !.iou = make_iou(q.offered, q.block)])
        \/ Set(i, [q EXCEPT !.pc = "last_iou"])
    BY <1>2, <1>7 DEF Acquire, Ready
  <2>2. Offers
    BY Zenon, <1>2, <1>3, <2>1, OfferSame
  <2>3. Calm
    BY <1>7 DEF Acquire
  <2> QED
    BY <1>4, <2>2, <2>3
<1>8. CASE LastIou(i)
  <2>1. (\E iou : Set(i, [q EXCEPT !.pc = "post", !.iou = iou])) \/ Set(i, Failed(q))
    BY Zenon, <1>2, <1>8 DEF LastIou, Ready
  <2>2. Offers
    BY Zenon, <1>2, <1>3, <2>1, OfferSame, OfferFailed
  <2>3. Calm
    BY <1>8 DEF LastIou
  <2> QED
    BY <1>4, <2>2, <2>3
<1>9. CASE Post(i)
  <2>1. PICK tries : Set(i, [q EXCEPT !.pc = "answer", !.tries = tries])
    BY Zenon, <1>2, <1>9 DEF Post
  <2>2. Offers
    BY Zenon, <1>2, <1>3, <2>1, OfferSame
  <2>3. \A r \in flight' : r.offered <= FeeCap
    <3>1. flight' = flight \union {[by |-> i, iou |-> q.iou, offered |-> q.offered, left |-> FALSE]}
      BY <1>2, <1>9 DEF Post
    <3>2. q.offered <= FeeCap
      BY <1>2 DEF FeeInv
    <3> QED
      BY <3>1, <3>2 DEF FeeInv
  <2>4. startPrice' = startPrice /\ price' <= FeeCap
    BY <1>9 DEF Post, FeeInv
  <2> QED
    BY <2>2, <2>3, <2>4, FeeStays
<1>10. CASE NewInfo(i)
  <2>1. Offers
    BY Zenon, <1>2, <1>3, <1>10, OfferSame, OfferFailed DEF NewInfo, GiveUp, Again
  <2>2. price' <= FeeCap
    <3>1. pfs.price \in Nat
      BY Zenon, <1>1, QueriesAssumption DEF Services
    <3>2. FeeCap \in Nat /\ MaximumFee <= FeeCap /\ MaximumFee \in Nat /\ price <= FeeCap
      BY FeeCapBounds, QueriesAssumption DEF FeeInv
    <3>3. CASE price' = price
      BY <3>2, <3>3
    <3>4. CASE ~TooHigh(pfs.price) /\ price' = Max({price, pfs.price})
      <4>1. pfs.price <= MaximumFee
        BY <3>1, <3>2, <3>4 DEF TooHigh
      <4>2. price' = IF price >= pfs.price THEN price ELSE pfs.price
        BY <1>1, <3>1, <3>4, MaxOfTwo
      <4> QED
        BY <1>1, <3>1, <3>2, <4>1, <4>2
    <3> QED
      BY <1>10, <3>3, <3>4 DEF NewInfo
  <2>3. UNCHANGED <<startPrice, flight>>
    BY <1>10 DEF NewInfo
  <2> QED
    BY <2>1, <2>2, <2>3, FeeStays DEF FeeInv
<1>11. CASE Feedback(i)
  <2>1. PICK token : Set(i, [Ended(q, "paid") EXCEPT !.feedback = token])
    BY Zenon, <1>2, <1>11 DEF Feedback
  <2>2. PICK e : e = Ended(q, "paid")
    OBVIOUS
  <2>3. [e EXCEPT !.feedback = token].offered = e.offered
    BY <2>2 DEF Ended, NoQuery
  <2>4. Offers
    BY Zenon, <2>1, <2>2, <2>3, OfferEnded, OfferSet
  <2>5. Calm
    BY <1>11 DEF Feedback
  <2> QED
    BY <1>4, <2>4, <2>5
<1> QED
  BY <1>5, <1>6, <1>7, <1>8, <1>9, <1>10, <1>11 DEF QueryStep

(* A request is handled, or given up: its query offers what it did, or nothing (Handle). *)
LEMMA AnswerFee ==
  ASSUME QInv, FeeInv, (\E r \in flight : Handle(r)) \/ (\E i \in Payment : PostTimeout(i))
  PROVE  FeeInv'
<1> DEFINE Offers == \A j \in Payment : query'[j].offered <= FeeCap
<1>1. ASSUME NEW r \in flight, Handle(r) PROVE FeeInv'
  <2>1. UNCHANGED <<startPrice, price>> /\ flight' \subseteq flight
    BY <1>1 DEF Handle
  <2>2. CASE UNCHANGED query
    BY <2>1, <2>2, FeeStays DEF FeeInv
  <2>3. CASE ~r.left
    <3>1. r.by \in Payment
      BY <1>1, <2>3, TheWaiting
    <3>2. PICK q \in Queries : q = query[r.by]
      BY <3>1, TheQuery
    <3>3. \A pc, scrap : /\ [q EXCEPT !.pc = pc].offered = q.offered
                         /\ [[q EXCEPT !.scrap = scrap] EXCEPT !.pc = pc].offered = q.offered
      BY Zenon, <3>2 DEF Queries
    <3>4. ASSUME NEW code, Rejected(r.by, code) PROVE Offers
      BY Zenon, <3>1, <3>2, <3>3, <3>4, OfferSame, OfferFailed DEF Rejected, GiveUp, Again
    <3>5. ASSUME NEW hops, Found(r.by, hops) PROVE Offers
      BY <3>1, <3>5, OfferPay DEF Found
    <3>6. ASSUME GiveUp(r.by, q) PROVE Offers
      BY <3>1, <3>6, OfferFailed DEF GiveUp
    <3>7. Offers
      BY <1>1, <2>3, <3>2, <3>4, <3>5, <3>6 DEF Handle
    <3> QED
      BY <2>1, <3>7, FeeStays DEF FeeInv
  <2> QED
    BY <1>1, <2>2, <2>3 DEF Handle
<1>2. ASSUME NEW i \in Payment, PostTimeout(i) PROVE FeeInv'
  <2>1. Offers
    BY <1>2, OfferFailed DEF PostTimeout
  <2>2. \A r \in flight : [r EXCEPT !.left = TRUE].offered = r.offered
    BY Zenon DEF QInv, Types, Requests
  <2>3. ASSUME NEW p \in flight' PROVE p.offered <= FeeCap
    <3>1. PICK r \in flight : p = IF r.by = i THEN [r EXCEPT !.left = TRUE] ELSE r
      BY Zenon, <1>2 DEF PostTimeout
    <3>2. p.offered = r.offered
      BY Zenon, <2>2, <3>1
    <3> QED
      BY Zenon, <3>2 DEF FeeInv
  <2>4. UNCHANGED <<startPrice, price>>
    BY <1>2 DEF PostTimeout
  <2> QED
    BY <2>1, <2>3, <2>4, FeeStays DEF FeeInv
<1> QED
  BY <1>1, <1>2

(* The price of the start, or the maximum if that is more, bounds every fee that the *)
(* node offers (_query_paths, configure_pfs_or_exit).                                *)
THEOREM FeesInvariant == Spec => []FeeInv
<1>1. Init => FeeInv
  <2>1. SUFFICES ASSUME Init PROVE FeeInv
    OBVIOUS
  <2>2. startPrice \in Price /\ price = startPrice /\ flight = {}
    BY <2>1 DEF Init
  <2>3. FeeCap \in Nat /\ startPrice <= FeeCap
    BY <2>2, FeeCapBounds
  <2>4. \A i \in Payment : query[i].offered = 0
    BY <2>1 DEF Init, NoQuery
  <2> QED
    BY <2>2, <2>3, <2>4 DEF FeeInv
<1>2. QInv /\ FeeInv /\ [Next]_vars => FeeInv'
  <2>1. SUFFICES ASSUME QInv, FeeInv, [Next]_vars PROVE FeeInv'
    OBVIOUS
  <2>2. CASE ChangePrice \/ Claim \/ ServiceBlock \/ NodeBlock \/ CloseChannel \/ UNCHANGED vars
    <3>1. UNCHANGED <<startPrice, price, query, flight>>
      BY <2>2 DEF ChangePrice, Claim, ServiceBlock, NodeBlock, CloseChannel, vars
    <3> QED
      BY <2>1, <3>1, FeeStays DEF FeeInv
  <2> QED
    BY <2>1, <2>2, StartFee, QueryStepFee, AnswerFee DEF Next
<1> QED
  BY <1>1, <1>2, QueriesInvariant, PTL DEF Spec

-----------------------------------------------------------------------------
(* The semaphore is held by exactly the queries between the last IOU and the answer, and *)
(* no query makes more than MAX_PATHS_QUERY_ATTEMPTS requests (_query_paths).            *)
THEOREM SemaphoreIsHeld == Spec => []TypeOK
<1>1. ASSUME QInv, FeeInv PROVE TypeOK
  <2>1. block \in 1..MaxBlock /\ price \in Price /\ startPrice \in Price
    BY <1>1 DEF QInv, Types, FeeInv
  <2>2. lock = {i \in Payment : Inside(i)}
    BY <1>1 DEF QInv, Types, Semaphore, Inside, InsidePcs
  <2>3. ASSUME NEW i \in Payment
        PROVE  /\ query[i].tries \in 0..Attempts
               /\ query[i].pc \in {"todo", "metadata", "info", "acquire", "last_iou", "post", "answer",
                                   "new_info", "paying", "done"}
               /\ query[i].pc = "done" <=> query[i].result # "none"
    <3>1. query[i] \in Queries /\ Local(i, query[i])
      BY <1>1, TheQuery DEF QueryInv
    <3> QED
      BY <3>1 DEF Queries, Pcs, Local
  <2>4. ASSUME NEW r \in flight PROVE r.by \in Payment /\ (~r.left => query[r.by].pc = "answer")
    <3>1. r \in Requests /\ Flying(r)
      BY <1>1 DEF QInv, Types
    <3> QED
      BY <3>1 DEF Requests, Flying
  <2> QED
    BY <2>1, <2>2, <2>3, <2>4 DEF TypeOK
<1> QED
  BY <1>1, QueriesInvariant, FeesInvariant, PTL

(* A request is too cheap only because the price was raised, a request was given up, or *)
(* its query has scrapped a claimed IOU (create_current_iou under iou_semaphore).       *)
THEOREM TooCheapOnlyForPrice == Spec => []RejectedOnlyForPrice
<1>1. ASSUME QInv PROVE RejectedOnlyForPrice
  <2>1. SUFFICES ASSUME NEW r \in flight, ~r.left, Verdict(r) = "insufficient",
                        ~(pfs.price > r.offered), ~(budget["lost"] < Budget["lost"])
                 PROVE  query[r.by].scrap /\ pfs.iou # NoIou
    BY DEF RejectedOnlyForPrice
  <2>2. pfs \in Services /\ ServiceInv
    BY <1>1 DEF QInv, Types
  <2>3. /\ r.by \in Payment /\ query[r.by].pc = "answer"
        /\ r.iou = query[r.by].iou /\ r.offered = query[r.by].offered
    BY <1>1, <2>1, TheWaiting
  <2>4. PICK q \in Queries : q = query[r.by]
    BY <1>1, <2>3, TheQuery
  <2>5. NothingLost
    <3>1. budget["lost"] \in Nat /\ Budget["lost"] \in Nat /\ budget["lost"] <= Budget["lost"]
      BY <1>1, QueriesAssumption DEF QInv, Types, Budgets
    <3> QED
      BY <2>1, <3>1 DEF NothingLost
  <2>6. (q.offered = 0 => q.iou = NoIou) /\ Exact(q)
    BY <1>1, <2>3, <2>4, <2>5, TheQuery DEF QueryInv, Pays
  <2>7. /\ r.iou # NoIou /\ pfs.price > 0
        /\ \/ /\ pfs.iou # NoIou /\ r.iou.expiration = pfs.iou.expiration
              /\ r.iou.amount < pfs.iou.amount + pfs.price
           \/ /\ pfs.iou = NoIou /\ r.iou.expiration \notin pfs.claimed
              /\ r.iou.amount < pfs.price
    BY <2>1, <2>2, InsufficientPays
  <2>8. q.offered \in Nat /\ pfs.price \in Nat
    <3>1. q.offered \in Nat
      BY QueriesAssumption DEF Queries
    <3>2. pfs.price \in Nat
      BY Zenon, <2>2, QueriesAssumption DEF Services
    <3> QED
      BY <3>1, <3>2
  <2>9. q.iou.amount \in Nat /\ pfs.iou.amount \in Nat
    BY <2>2 DEF Queries, Services, Ious
  <2>10. q.offered > 0 /\ pfs.price <= q.offered
    <3>1. q.offered = r.offered /\ q.iou # NoIou
      BY Zenon, <2>3, <2>4, <2>7
    <3>2. q.offered # 0
      BY Zenon, <2>6, <3>1
    <3> QED
      BY <2>1, <2>8, <3>1, <3>2
  <2>11. CASE pfs.iou = NoIou
    <3>1. q.iou.amount = q.offered \/ q.iou.expiration \in pfs.claimed
      BY <2>6, <2>10, <2>11 DEF Exact
    <3> QED
      BY <2>3, <2>4, <2>7, <2>8, <2>9, <2>10, <2>11, <3>1
  <2>12. CASE pfs.iou # NoIou
    <3>1. q.scrap \/ q.iou.amount = pfs.iou.amount + q.offered
      BY <2>6, <2>10, <2>12 DEF Exact
    <3>2. q.iou.amount < pfs.iou.amount + pfs.price
      BY <2>3, <2>4, <2>7, <2>12
    <3>3. q.scrap
      BY <2>8, <2>9, <2>10, <3>1, <3>2
    <3> QED
      BY <2>4, <2>12, <3>3
  <2> QED
    BY <2>11, <2>12
<1> QED
  BY <1>1, QueriesInvariant, PTL

(* Whatever is claimed, lost, retried or handled late, the node owes at most the fee of a *)
(* request more for it, and never more than the maximum or the price it was started with  *)
(* (create_current_iou, configure_pfs_or_exit).                                           *)
THEOREM OwesAtMostTheFee == Spec => FeeBounded
<1> DEFINE Bounded == \A r \in flight \ flight' : pfs'.debt - pfs.debt <= Min({r.offered, FeeCap})
<1>1. ASSUME QInv, FeeInv, [Next]_vars PROVE [Bounded]_vars
  <2>1. ASSUME NEW r \in flight, pfs'.debt - pfs.debt <= r.offered
        PROVE  pfs'.debt - pfs.debt <= Min({r.offered, FeeCap})
    <3>1. r.offered \in Nat /\ FeeCap \in Nat /\ r.offered <= FeeCap
      BY <1>1, FeeCapBounds DEF QInv, Types, Requests, FeeInv
    <3> QED
      BY <2>1, <3>1, MinOfTwo
  <2>2. ASSUME NEW p \in flight, Handle(p) PROVE Bounded
    <3>1. pfs'.debt - pfs.debt <= p.offered
      BY <1>1, <2>2, HandleMoves
    <3>2. flight' = flight \ {p}
      BY <2>2 DEF Handle
    <3> QED
      BY <2>1, <3>1, <3>2
  <2>3. ASSUME NEW i \in Payment, PostTimeout(i) PROVE Bounded
    <3>1. pfs' = pfs
      BY <2>3 DEF PostTimeout
    <3>2. ASSUME NEW r \in flight PROVE pfs'.debt - pfs.debt <= r.offered
      <4>1. pfs.debt \in Int /\ r.offered \in Nat
        BY <1>1, QueriesAssumption DEF QInv, Types, Services, Requests
      <4> QED
        BY <3>1, <4>1
    <3> QED
      BY <2>1, <3>2
  <2>4. ASSUME flight \subseteq flight' PROVE Bounded
    BY <2>4
  <2>5. ASSUME NEW i \in Payment, Start(i) PROVE Bounded
    BY <2>4, <2>5 DEF Start
  <2>6. ASSUME NEW i \in Payment, QueryStep(i) PROVE Bounded
    <3>1. flight \subseteq flight'
      BY <2>6 DEF QueryStep, Metadata, GetInfo, Acquire, LastIou, Post, NewInfo, Feedback
    <3> QED
      BY <2>4, <3>1
  <2>7. CASE ChangePrice \/ Claim \/ ServiceBlock \/ NodeBlock \/ CloseChannel
    <3>1. flight' = flight
      BY <2>7 DEF ChangePrice, Claim, ServiceBlock, NodeBlock, CloseChannel
    <3> QED
      BY <2>4, <3>1
  <2> HIDE DEF Bounded
  <2> QED
    BY <1>1, <2>2, <2>3, <2>5, <2>6, <2>7 DEF Next
<1>2. Spec => [][Bounded]_vars
  BY <1>1, QueriesInvariant, FeesInvariant, PTL DEF Spec
<1> QED
  BY <1>2 DEF FeeBounded

(* The service knows the channels of the query, a payment starts over an open channel, *)
(* and its feedback names a query that found its route (get_best_routes).              *)
THEOREM RoutesSound == Spec => RoutesAreSound
<1> DEFINE Sound == ServiceKnowsChannels' /\ RouteIsOpen /\ FeedbackForRoute'
<1>1. ASSUME QInv PROVE ServiceKnowsChannels
  BY <1>1 DEF QInv, QueryInv, Known, ServiceKnowsChannels, Inside, InsidePcs
<1>2. ASSUME QInv PROVE FeedbackForRoute
  BY <1>2 DEF QInv, QueryInv, TokenOf, FeedbackForRoute
<1>3. QInv => ServiceKnowsChannels /\ FeedbackForRoute
  BY <1>1, <1>2
<1>4. QInv /\ [Next]_vars => [RouteIsOpen]_vars
  BY NextKeeps
<1>5. Spec => []QInv
  BY QueriesInvariant
<1>6. Spec => [][Sound]_vars
  BY <1>3, <1>4, <1>5, PTL DEF Spec
<1> QED
  BY <1>6 DEF RoutesAreSound

=============================================================================
