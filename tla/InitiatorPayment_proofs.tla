----------------------- MODULE InitiatorPayment_proofs -----------------------
(***************************************************************************)
(* Proofs about the payments of one node, for any number of payments,      *)
(* secrets, channels and routes, and any restarts and repeated refunds.    *)
(*                                                                         *)
(* A payment may have several tasks, since a refund copies the task and    *)
(* adds an attempt with a new secret to the copy.  What makes it safe is   *)
(* that a new attempt is made only for a refund that is received for the   *)
(* first time, and that a hop that refunds never learns the secret: at     *)
(* most one attempt of a payment has not been refunded, and no attempt is  *)
(* left when the payment has been paid (PaidInv).                          *)
(***************************************************************************)
EXTENDS InitiatorPayment, TLAPS

(* The types of the variables. *)
AttemptState ==
    [channel : Channel, requested : BOOLEAN, state : {"pending", "revealed", "cancelled", "expired"}]

ChannelRecord ==
    [status : {"opened", "closed", "gone"}, locked : SUBSET Secret, unlocked : SUBSET Secret,
     theirs : SUBSET Secret, taken : SUBSET Secret]

IsTask(k) ==
    /\ k = [payment |-> k.payment, attempts |-> k.attempts, cancelled |-> k.cancelled]
    /\ k.payment \in Payment
    /\ DOMAIN k.attempts \subseteq Secret /\ DOMAIN k.attempts # {}
    /\ k.attempts \in [DOMAIN k.attempts -> AttemptState]

TasksOK ==
    /\ DOMAIN tasks \subseteq Secret
    /\ tasks = [t \in DOMAIN tasks |-> tasks[t]]
    /\ \A t \in DOMAIN tasks : IsTask(tasks[t])

RefundRecord == [refunded : Secret, secret : Secret]

NodeOK ==
    /\ chans \in [Channel -> ChannelRecord]
    /\ inst.secrets \in 0 .. MaxSecrets /\ drawn \in 0 .. MaxSecrets
    /\ refunds \in Seq(RefundRecord)
    /\ hop \in [Secret -> {"none", "has", "forwarded", "refunding", "refunded"}]
    /\ known \subseteq Secret
    /\ paid \in [Payment -> SUBSET Secret]

PaymentsOK ==
    /\ inst.payments \in 0 .. MaxPayments /\ calls \in 0 .. MaxPayments
    /\ starting \subseteq 1 .. calls
    /\ statuses \in [Payment -> Payment \cup {0}]
    /\ result \in [Payment -> {"none", "waiting", "joined", "success", "failed", "lost"}]
    /\ events \subseteq [kind : {"success", "failed"}, payment : 1 .. calls, task : Secret, attempt : Secret]

Types == TasksOK /\ NodeOK /\ PaymentsOK

(* A secret that was drawn for a refund or not at all is in nothing yet. *)
Unused(n) ==
    /\ \A t \in DOMAIN tasks : t # n /\ n \notin DOMAIN tasks[t].attempts
    /\ hop[n] = "none" /\ n \notin known
    /\ \A c \in Channel : n \notin chans[c].locked \cup chans[c].unlocked \cup chans[c].taken

Reserved(n) == n > drawn \/ \E k \in DOMAIN refunds : refunds[k].secret = n

FreshInv ==
    /\ \A n \in Secret : Reserved(n) => Unused(n)
    /\ \A k \in DOMAIN refunds :
         refunds[k].secret <= drawn /\ hop[refunds[k].refunded] = "refunded"
    /\ \A j, k \in DOMAIN refunds : j # k => refunds[j].secret # refunds[k].secret

(* What the hops have done: the target knows only what was forwarded, and  *)
(* the node takes only what was refunded.                                  *)
Refunding == {"refunding", "refunded"}

HopInv ==
    /\ \A s \in known : hop[s] = "forwarded"
    /\ \A c \in Channel : /\ chans[c].theirs \subseteq chans[c].taken
                          /\ \A s \in chans[c].taken : hop[s] \in Refunding

(* Locks and attempts belong together. *)
LockInv ==
    /\ LocksHaveTasks /\ AssertionsHold
    /\ \A s \in Secret : HasAttempt(s) =>
         LET a == tasks[s].attempts[s] IN
         /\ a.state # "cancelled"
         /\ Exists(a.channel) => s \in chans[a.channel].locked \cup chans[a.channel].unlocked
                                 \/ hop[s] \in Refunding

(* The attempt s of the payment p has not been refunded. *)
Live(s, p) ==
    /\ HasAttempt(s) /\ tasks[s].payment = p
    /\ s \notin chans[tasks[s].attempts[s].channel].taken

(* A payment that is about to start or was not called has no task. *)
PaidInv ==
    \A p \in Payment :
        /\ \A s, x \in Secret : Live(s, p) /\ Live(x, p) => s = x
        /\ paid[p] # {} => \A s \in Secret : ~Live(s, p)
        /\ paid[p] = {} \/ \E s \in Secret : paid[p] = {s}
        /\ p \in starting \/ p > calls =>
             paid[p] = {} /\ \A t \in DOMAIN tasks : tasks[t].payment # p

(* The status of an identifier is that of a payment with the identifier.   *)
AnswerInv ==
    /\ SuccessMeansPaid
    /\ \A e \in events : e.kind = "success" => paid[e.payment] # {}
    /\ \A i \in Payment : statuses[i] # 0 => Identifier(statuses[i]) = i
    /\ \A p \in Payment : result[p] = "waiting" => statuses[Identifier(p)] = p
    /\ \A p \in Payment : p > calls => result[p] = "none"

(* No refund was sent. *)
NoRefund == \A s \in Secret : hop[s] \notin Refunding

AllOpen == \A c \in Channel : Open(c)

(* Nothing will be paid for the payment p any more. *)
Over(p) ==
    /\ p \notin starting /\ paid[p] = {}
    /\ \A t \in DOMAIN tasks : tasks[t].payment = p =>
         \A s \in DOMAIN tasks[t].attempts : ~Open(tasks[t].attempts[s].channel)

(* The payment p may still cause an event, or has. *)
Busy(p) == p \in starting \/ \E t \in DOMAIN tasks : tasks[t].payment = p
Announced(p) == \E e \in events : e.payment = p
Active(p) == Busy(p) \/ Announced(p)

(* Without refunds a payment has one task with one attempt, and a failure  *)
(* ends it.                                                                *)
FailInv ==
    NoRefund =>
        /\ \A t \in DOMAIN tasks : DOMAIN tasks[t].attempts = {t}
        /\ \A t, u \in DOMAIN tasks : tasks[t].payment = tasks[u].payment => t = u
        /\ \A e \in events : e.kind = "failed" => Over(e.payment)
        /\ \A p \in Payment : result[p] = "failed" /\ (SharesIdentifier(p) \subseteq {p} \/ AllOpen)
             => Over(p)

(* If the channels are open as well, one payment of an identifier at a     *)
(* time has a task or an event, and each has at most one event.            *)
TurnInv ==
    NoRefund /\ AllOpen =>
        /\ \A p \in Payment : ~(Busy(p) /\ Announced(p))
        /\ \A e, f \in events : e.payment = f.payment => e = f
        /\ \A p, q \in Payment : Active(p) /\ Active(q) /\ Identifier(p) = Identifier(q) => p = q
        /\ \A p \in Payment : Active(p) => statuses[Identifier(p)] # 0
        /\ \A p, q \in Payment :
             result[p] = "waiting" /\ Active(q) /\ Identifier(p) = Identifier(q) => p = q

PInv == Types /\ FreshInv /\ HopInv /\ LockInv /\ PaidInv /\ AnswerInv /\ FailInv /\ TurnInv

-----------------------------------------------------------------------------
(* The operators on functions. *)
LEMMA WithFacts ==
    ASSUME NEW f, NEW x, NEW y
    PROVE  /\ DOMAIN With(f, x, y) = DOMAIN f \cup {x}
           /\ With(f, x, y)[x] = y
           /\ \A z \in DOMAIN f : z # x => With(f, x, y)[z] = f[z]
           /\ With(f, x, y) = [z \in DOMAIN With(f, x, y) |-> With(f, x, y)[z]]
BY DEF With

(* A function without the argument x. *)
LEMMA WithoutFacts ==
    ASSUME NEW f, NEW x
    PROVE  /\ DOMAIN Without(f, x) = DOMAIN f \ {x}
           /\ \A z \in DOMAIN f : z # x => Without(f, x)[z] = f[z]
           /\ Without(f, x) = [z \in DOMAIN Without(f, x) |-> Without(f, x)[z]]
BY DEF Without

(* A nonempty set of naturals has a least element: an assumption of the    *)
(* lemmas that use it, proved with the library (Least) before the theorems.*)
LeastExists ==
    \A B \in SUBSET Nat : B # {} => \E x \in B : \A y \in B : x <= y

(* The route that try_new_route chooses is one of its candidates. *)
LEMMA RouteIsCandidate ==
    ASSUME LeastExists, NEW S, S \subseteq Channel, TryNewRoute(S) # 0
    PROVE  /\ TryNewRoute(S) \in S
           /\ Open(TryNewRoute(S))
<1> DEFINE fit == {c \in S : Open(c) /\ c \in usable}
<1>1. fit # {} /\ TryNewRoute(S) = CHOOSE c \in fit : \A d \in fit : c <= d
  BY DEF TryNewRoute
<1>2. fit \subseteq Nat
  <2>1. Channel \subseteq Nat
    BY ConstantsAssumption
  <2> QED
    BY Zenon, <2>1
<1> HIDE DEF fit
<1>3. \E x \in fit : \A y \in fit : x <= y
  BY Zenon, <1>1, <1>2 DEF LeastExists
<1>4. TryNewRoute(S) \in fit
  BY Zenon, <1>1, <1>3
<1> QED
  BY <1>4 DEF fit

(* The tasks U have no more attempts than the tasks T, of the same         *)
(* payments over the same channels.                                        *)
Shrinks(T, U) ==
    /\ DOMAIN U \subseteq DOMAIN T
    /\ \A t \in DOMAIN U :
         /\ U[t].payment = T[t].payment
         /\ DOMAIN U[t].attempts \subseteq DOMAIN T[t].attempts
         /\ \A s \in DOMAIN U[t].attempts : U[t].attempts[s].channel = T[t].attempts[s].channel

(* The node starts nothing new. *)
ShrinkStep ==
    /\ Shrinks(tasks, tasks')
    /\ \A c \in Channel :
         /\ chans'[c].taken = chans[c].taken /\ chans'[c].theirs \subseteq chans[c].theirs
         /\ chans'[c].locked \cup chans'[c].unlocked \subseteq chans[c].locked \cup chans[c].unlocked
         /\ chans'[c].status = "opened" => chans[c].status = "opened"
    /\ starting' \subseteq starting
    /\ drawn' \in {drawn, drawn + 1}
    /\ UNCHANGED <<refunds, calls>>

(* The fields of a task. *)
LEMMA TaskFields ==
    ASSUME TasksOK, NEW t \in DOMAIN tasks
    PROVE  /\ t \in Secret /\ IsTask(tasks[t]) /\ tasks[t].payment \in Payment
           /\ DOMAIN tasks[t].attempts \subseteq Secret /\ DOMAIN tasks[t].attempts # {}
           /\ \A s \in DOMAIN tasks[t].attempts :
                /\ tasks[t].attempts[s] \in AttemptState
                /\ tasks[t].attempts[s].channel \in Channel
BY DEF TasksOK, IsTask, AttemptState

(* A lock of an open channel belongs to an attempt. *)
LEMMA LockHasAttempt ==
    ASSUME PInv, NEW d \in Channel, NEW x \in Secret, Open(d),
           x \in chans[d].locked \cup chans[d].theirs
    PROVE  HasAttempt(x) /\ tasks[x].attempts[x].channel = d
BY Zenon DEF PInv, LockInv, LocksHaveTasks

(* The fields of a refund that is not dispatched yet. *)
LEMMA RefundFields ==
    ASSUME NodeOK, NEW k \in DOMAIN refunds
    PROVE  refunds[k].secret \in Secret /\ refunds[k].refunded \in Secret
<1>1. refunds \in Seq(RefundRecord)
  BY DEF NodeOK
<1>2. refunds[k] \in RefundRecord
  BY ONLY <1>1, k \in DOMAIN refunds
<1> QED
  BY <1>2 DEF RefundRecord

(* Secrets that are in nothing stay so. *)
LEMMA ShrinkFresh ==
    ASSUME TasksOK, NodeOK, FreshInv, ShrinkStep,
           \A s \in Secret : hop[s] \in {"none", "refunded"} => hop'[s] = hop[s],
           \A s \in known' : s \in known \/ hop[s] # "none"
    PROVE  FreshInv'
<1>1. ASSUME NEW n \in Secret, Unused(n) PROVE Unused(n)'
  BY <1>1 DEF Unused, ShrinkStep, Shrinks
<1>2. \A k \in DOMAIN refunds : refunds[k].secret \in Secret /\ refunds[k].refunded \in Secret
  BY RefundFields
<1>3. refunds' = refunds /\ \A n \in Secret : (n > drawn' => n > drawn) /\ (n <= drawn => n <= drawn')
  BY DEF ShrinkStep, NodeOK, Secret
<1>4. \A n \in Secret : Reserved(n)' => Unused(n)'
  BY <1>1, <1>3 DEF FreshInv, Reserved
<1> QED
  BY <1>2, <1>3, <1>4 DEF FreshInv

(* An attempt that is live was so before. *)
LEMMA ShrinkLive ==
    ASSUME TasksOK, ShrinkStep, NEW s \in Secret, NEW p \in Payment, Live(s, p)'
    PROVE  Live(s, p)
<1>1. /\ s \in DOMAIN tasks /\ s \in DOMAIN tasks[s].attempts /\ tasks[s].payment = p
      /\ tasks'[s].attempts[s].channel = tasks[s].attempts[s].channel
  BY DEF Live, HasAttempt, ShrinkStep, Shrinks
<1>2. tasks[s].attempts[s].channel \in Channel
  BY <1>1, TaskFields
<1> QED
  BY <1>1, <1>2 DEF Live, HasAttempt, ShrinkStep

(* A node that starts nothing new pays nothing twice. *)
LEMMA ShrinkPaid ==
    ASSUME TasksOK, NodeOK, PaidInv, ShrinkStep, paid' = paid
    PROVE  PaidInv'
<1>1. \A p \in Payment, s \in Secret : Live(s, p)' => Live(s, p)
  BY ShrinkLive
<1>2. ASSUME NEW p \in Payment, \A t \in DOMAIN tasks : tasks[t].payment # p
      PROVE  \A t \in DOMAIN tasks' : tasks'[t].payment # p
  BY <1>2 DEF ShrinkStep, Shrinks
<1>3. starting' \subseteq starting /\ calls' = calls
  BY DEF ShrinkStep
<1> QED
  BY <1>1, <1>2, <1>3 DEF PaidInv

(* A payment that is over stays so. *)
LEMMA ShrinkOver ==
    ASSUME TasksOK, ShrinkStep, NEW p \in Payment, paid'[p] = paid[p], Over(p)
    PROVE  Over(p)'
<1>1. ASSUME NEW t \in DOMAIN tasks', tasks'[t].payment = p, NEW s \in DOMAIN tasks'[t].attempts
      PROVE  chans'[tasks'[t].attempts[s].channel].status # "opened"
  <2>1. /\ t \in DOMAIN tasks /\ tasks[t].payment = p /\ s \in DOMAIN tasks[t].attempts
        /\ tasks'[t].attempts[s].channel = tasks[t].attempts[s].channel
    BY <1>1 DEF ShrinkStep, Shrinks
  <2>2. tasks[t].attempts[s].channel \in Channel /\ ~Open(tasks[t].attempts[s].channel)
    BY <2>1, TaskFields DEF Over
  <2> QED
    BY <2>1, <2>2 DEF Open, ShrinkStep
<1> QED
  BY <1>1 DEF Over, ShrinkStep, Open

-----------------------------------------------------------------------------
(* events_for_unlock_lock: the task loses the attempt, and is deleted if   *)
(* it was the last one.                                                    *)
LEMMA UnlockEffect ==
    ASSUME TasksOK, NEW s \in Secret, HasAttempt(s), UnlockPayment(s)
    PROVE  /\ TasksOK' /\ Shrinks(tasks, tasks') /\ ~HasAttempt(s)'
           /\ \A t \in DOMAIN tasks : t # s => t \in DOMAIN tasks' /\ tasks'[t] = tasks[t]
<1> DEFINE old == tasks[s].attempts
           rest == CancelOtherTransfers(Without(old, s))
<1>1. s \in DOMAIN tasks /\ s \in DOMAIN old
  BY DEF HasAttempt
<1>2. IsTask(tasks[s]) /\ DOMAIN old \subseteq Secret /\ \A x \in DOMAIN old : old[x] \in AttemptState
  BY <1>1, TaskFields
<1>3. DOMAIN rest = DOMAIN old \ {s}
  BY Zenon, WithoutFacts DEF CancelOtherTransfers
<1>4. ASSUME NEW x \in DOMAIN rest
      PROVE  rest[x] \in AttemptState /\ rest[x].channel = old[x].channel
  <2>1. x \in DOMAIN old /\ x # s /\ Without(old, s)[x] = old[x]
    BY Zenon, <1>3, WithoutFacts
  <2>2. rest[x] = [old[x] EXCEPT !.state = "cancelled"]
    BY <1>3, <2>1, WithoutFacts DEF CancelOtherTransfers
  <2>3. old[x] \in AttemptState
    BY <1>2, <2>1
  <2> QED
    BY <2>2, <2>3 DEF AttemptState
<1>5. rest = [x \in DOMAIN rest |-> rest[x]]
  BY DEF CancelOtherTransfers
<1>6. tasks' = Finalized(tasks, s, rest)
  BY DEF UnlockPayment
<1> HIDE DEF rest
<1>7. CASE DOMAIN rest = {}
  <2>1. tasks' = Without(tasks, s)
    BY <1>6, <1>7 DEF Finalized
  <2>2. /\ DOMAIN tasks' = DOMAIN tasks \ {s}
        /\ \A t \in DOMAIN tasks : t # s => tasks'[t] = tasks[t]
        /\ tasks' = [t \in DOMAIN tasks' |-> tasks'[t]]
    BY <2>1 DEF Without
  <2> QED
    BY <2>2 DEF TasksOK, Shrinks, HasAttempt
<1>8. CASE DOMAIN rest # {}
  <2>1. tasks' = [tasks EXCEPT ![s].attempts = rest]
    BY <1>6, <1>8 DEF Finalized
  <2>2. /\ DOMAIN tasks' = DOMAIN tasks
        /\ \A t \in DOMAIN tasks : t # s => tasks'[t] = tasks[t]
        /\ tasks' = [t \in DOMAIN tasks' |-> tasks'[t]]
        /\ tasks'[s] = [tasks[s] EXCEPT !.attempts = rest]
    BY Zenon, <1>1, <2>1 DEF TasksOK
  <2>3. /\ tasks'[s] = [payment |-> tasks[s].payment, attempts |-> rest, cancelled |-> tasks[s].cancelled]
        /\ tasks'[s].attempts = rest /\ tasks'[s].payment = tasks[s].payment
    BY <1>2, <2>2 DEF IsTask
  <2>4. IsTask(tasks'[s])
    BY <1>2, <1>3, <1>4, <1>5, <1>8, <2>3 DEF IsTask
  <2>5. TasksOK'
    BY <2>2, <2>4 DEF TasksOK
  <2>6. Shrinks(tasks, tasks')
    BY Zenon, <1>1, <1>3, <1>4, <2>2, <2>3 DEF Shrinks
  <2>7. s \notin DOMAIN tasks'[s].attempts
    BY <1>3, <2>3
  <2> QED
    BY <2>2, <2>5, <2>6, <2>7 DEF HasAttempt
<1> QED
  BY <1>7, <1>8

(* What the dispatch of a block leaves of the tasks. *)
LEMMA BlockEffect ==
    ASSUME TasksOK, HandleBlock
    PROVE  /\ TasksOK' /\ Shrinks(tasks, tasks')
           /\ \A t \in DOMAIN tasks : \A s \in DOMAIN tasks[t].attempts :
                StaysAfterBlock(t, s) => t \in DOMAIN tasks' /\ s \in DOMAIN tasks'[t].attempts
           /\ \A t \in DOMAIN tasks' : \A s \in DOMAIN tasks'[t].attempts :
                /\ StaysAfterBlock(t, s)
                /\ tasks'[t].attempts[s].state \in {tasks[t].attempts[s].state, "expired"}
<1>1. tasks' = [t \in {u \in DOMAIN tasks : DOMAIN AttemptsAfterBlock(u) # {}} |->
                 [tasks[t] EXCEPT !.attempts = AttemptsAfterBlock(t)]]
  BY DEF HandleBlock
<1>2. ASSUME NEW t \in DOMAIN tasks
      PROVE  /\ DOMAIN AttemptsAfterBlock(t) = {x \in DOMAIN tasks[t].attempts : StaysAfterBlock(t, x)}
             /\ AttemptsAfterBlock(t) = [s \in DOMAIN AttemptsAfterBlock(t) |-> AttemptsAfterBlock(t)[s]]
             /\ \A s \in DOMAIN AttemptsAfterBlock(t) :
                  AttemptsAfterBlock(t)[s] \in
                     {tasks[t].attempts[s], [tasks[t].attempts[s] EXCEPT !.state = "expired"]}
  BY DEF AttemptsAfterBlock
<1>3. ASSUME NEW t \in DOMAIN tasks, NEW s \in DOMAIN AttemptsAfterBlock(t)
      PROVE  /\ s \in DOMAIN tasks[t].attempts
             /\ AttemptsAfterBlock(t)[s] \in AttemptState
             /\ AttemptsAfterBlock(t)[s].channel = tasks[t].attempts[s].channel
             /\ AttemptsAfterBlock(t)[s].state \in {tasks[t].attempts[s].state, "expired"}
  <2>1. s \in DOMAIN tasks[t].attempts
    BY Zenon, <1>2
  <2>2. tasks[t].attempts[s] \in AttemptState
    BY <2>1, TaskFields
  <2>3. AttemptsAfterBlock(t)[s] \in
           {tasks[t].attempts[s], [tasks[t].attempts[s] EXCEPT !.state = "expired"]}
    BY Zenon, <1>2
  <2> QED
    BY ONLY <2>1, <2>2, <2>3 DEF AttemptState
<1>4. ASSUME NEW t \in DOMAIN tasks'
      PROVE  /\ t \in DOMAIN tasks /\ DOMAIN AttemptsAfterBlock(t) # {}
             /\ tasks'[t] = [payment |-> tasks[t].payment, attempts |-> AttemptsAfterBlock(t),
                             cancelled |-> tasks[t].cancelled]
  <2>1. t \in DOMAIN tasks /\ DOMAIN AttemptsAfterBlock(t) # {}
    BY <1>1
  <2>2. tasks'[t] = [tasks[t] EXCEPT !.attempts = AttemptsAfterBlock(t)]
    BY <1>1
  <2>3. IsTask(tasks[t])
    BY <2>1, TaskFields
  <2> QED
    BY <2>1, <2>2, <2>3 DEF IsTask
<1>5. \A t \in DOMAIN tasks : DOMAIN AttemptsAfterBlock(t) # {} => t \in DOMAIN tasks'
  BY <1>1
<1>6. TasksOK'
  <2>1. ASSUME NEW t \in DOMAIN tasks' PROVE IsTask(tasks'[t])
    <3>1. t \in DOMAIN tasks
      BY <1>4
    <3>2. tasks[t].payment \in Payment /\ DOMAIN tasks[t].attempts \subseteq Secret
      BY <3>1, TaskFields
    <3>3. /\ tasks'[t].payment = tasks[t].payment
          /\ tasks'[t].attempts = AttemptsAfterBlock(t)
          /\ tasks'[t].cancelled = tasks[t].cancelled
          /\ DOMAIN tasks'[t].attempts # {}
      BY <1>4
    <3>4. tasks'[t].attempts \in [DOMAIN tasks'[t].attempts -> AttemptState]
      <4>1. PICK A : A = AttemptsAfterBlock(t)
        BY Zenon
      <4>2. A = [s \in DOMAIN A |-> A[s]]
        BY Zenon, <1>2, <3>1, <4>1
      <4>3. \A s \in DOMAIN A : A[s] \in AttemptState
        BY Zenon, <1>3, <3>1, <4>1
      <4>4. A \in [DOMAIN A -> AttemptState]
        BY ONLY <4>2, <4>3
      <4> QED
        BY Zenon, <3>3, <4>1, <4>4
    <3>5. DOMAIN tasks'[t].attempts \subseteq Secret
      BY <1>3, <3>1, <3>2, <3>3
    <3> QED
      BY <1>4, <3>2, <3>3, <3>4, <3>5 DEF IsTask
  <2>2. DOMAIN tasks' \subseteq DOMAIN tasks /\ tasks' = [t \in DOMAIN tasks' |-> tasks'[t]]
    BY <1>1
  <2> QED
    BY <2>1, <2>2 DEF TasksOK
<1>7. \A t \in DOMAIN tasks' :
        /\ t \in DOMAIN tasks /\ tasks'[t].payment = tasks[t].payment
        /\ tasks'[t].attempts = AttemptsAfterBlock(t)
  BY <1>4
<1>8. Shrinks(tasks, tasks')
  BY <1>3, <1>7 DEF Shrinks
<1>9. ASSUME NEW t \in DOMAIN tasks, NEW s \in DOMAIN tasks[t].attempts, StaysAfterBlock(t, s)
      PROVE  t \in DOMAIN tasks' /\ s \in DOMAIN tasks'[t].attempts
  <2>1. s \in DOMAIN AttemptsAfterBlock(t)
    BY Zenon, <1>2, <1>9
  <2> QED
    BY <1>5, <1>7, <2>1
<1>10. ASSUME NEW t \in DOMAIN tasks', NEW s \in DOMAIN tasks'[t].attempts
       PROVE  /\ StaysAfterBlock(t, s)
              /\ tasks'[t].attempts[s].state \in {tasks[t].attempts[s].state, "expired"}
  BY Zenon, <1>2, <1>3, <1>7
<1> QED
  BY <1>6, <1>8, <1>9, <1>10

(* handle_secretrequest changes the attempt of its secret only. *)
LEMMA RequestEffect ==
    ASSUME TasksOK, NEW s \in Secret, HasAttempt(s), NEW a \in AttemptState,
           a.channel = tasks[s].attempts[s].channel,
           tasks' = [tasks EXCEPT ![s].attempts[s] = a]
    PROVE  /\ TasksOK' /\ Shrinks(tasks, tasks') /\ DOMAIN tasks' = DOMAIN tasks
           /\ \A t \in DOMAIN tasks : DOMAIN tasks'[t].attempts = DOMAIN tasks[t].attempts
           /\ \A t \in DOMAIN tasks : t # s => tasks'[t] = tasks[t]
           /\ tasks'[s].attempts[s] = a
<1> DEFINE new == [tasks[s].attempts EXCEPT ![s] = a]
<1>1. s \in DOMAIN tasks /\ s \in DOMAIN tasks[s].attempts /\ IsTask(tasks[s])
  BY TaskFields DEF HasAttempt
<1>2. /\ tasks' = [tasks EXCEPT ![s] = [tasks[s] EXCEPT !.attempts = new]]
      /\ DOMAIN tasks' = DOMAIN tasks
      /\ \A t \in DOMAIN tasks : t # s => tasks'[t] = tasks[t]
      /\ tasks'[s] = [tasks[s] EXCEPT !.attempts = new]
      /\ tasks' = [t \in DOMAIN tasks' |-> tasks'[t]]
  BY Zenon, <1>1 DEF TasksOK
<1>3. /\ DOMAIN new = DOMAIN tasks[s].attempts /\ new[s] = a
      /\ new \in [DOMAIN tasks[s].attempts -> AttemptState]
      /\ \A x \in DOMAIN new : new[x].channel = tasks[s].attempts[x].channel
  BY <1>1 DEF IsTask
<1> HIDE DEF new
<1>4. tasks'[s] = [payment |-> tasks[s].payment, attempts |-> new, cancelled |-> tasks[s].cancelled]
  BY <1>1, <1>2 DEF IsTask
<1>5. /\ tasks'[s].payment = tasks[s].payment /\ tasks'[s].attempts = new
      /\ tasks'[s].cancelled = tasks[s].cancelled
  BY <1>4
<1>6. IsTask(tasks'[s])
  BY <1>1, <1>3, <1>4, <1>5 DEF IsTask
<1>7. TasksOK'
  BY <1>2, <1>6 DEF TasksOK
<1>8. Shrinks(tasks, tasks')
  BY <1>1, <1>2, <1>3, <1>5 DEF Shrinks
<1> QED
  BY <1>1, <1>2, <1>3, <1>5, <1>7, <1>8

-----------------------------------------------------------------------------
(* Steps that touch neither tasks nor channels nor hops. *)
LEMMA NodeSame ==
    ASSUME TasksOK, NodeOK, FreshInv, HopInv, LockInv,
           UNCHANGED <<nodevars, hop, known, inst>>,
           failure' \in {failure, "none", "no status for the payment"}
    PROVE  TasksOK' /\ NodeOK' /\ FreshInv' /\ HopInv' /\ LockInv'
<1> USE DEF nodevars
<1>1. TasksOK'
  BY Zenon DEF TasksOK
<1>2. NodeOK'
  BY Zenon DEF NodeOK
<1>3. FreshInv'
  BY Zenon DEF FreshInv, Reserved, Unused
<1>4. HopInv'
  BY Zenon DEF HopInv
<1>5. LockInv'
  BY Zenon DEF LockInv, LocksHaveTasks, AssertionsHold, HasAttempt, Open, Exists
<1> QED
  BY Zenon, <1>1, <1>2, <1>3, <1>4, <1>5

(* The fields of an event whose greenlet has not run. *)
LEMMA EventFields ==
    ASSUME PaymentsOK, NEW e \in events
    PROVE  e.payment \in Payment /\ e.payment \in 1 .. calls /\ e.kind \in {"success", "failed"}
<1>1. e.payment \in 1 .. calls /\ e.kind \in {"success", "failed"}
  BY DEF PaymentsOK
<1>2. calls \in Nat /\ calls <= MaxPayments /\ MaxPayments \in Nat
  BY ConstantsAssumption DEF PaymentsOK
<1> QED
  BY <1>1, <1>2 DEF Payment

(* The turns of the payments of an identifier: E are new events.           *)
LEMMA TurnStep ==
    ASSUME PaymentsOK, TurnInv, (NoRefund /\ AllOpen)' => NoRefund /\ AllOpen,
           NEW E, events' \subseteq events \cup E,
           (NoRefund /\ AllOpen)' =>
             /\ \A e \in E : e.payment \in Payment /\ Busy(e.payment) /\ ~Busy(e.payment)'
             /\ \A e, f \in E : e.payment = f.payment => e = f,
           \A p \in Payment : Busy(p)' => Busy(p),
           statuses' = statuses,
           \A p \in Payment : result'[p] = "waiting" => result[p] = "waiting"
    PROVE  TurnInv'
<1> SUFFICES ASSUME NoRefund' /\ AllOpen' PROVE TurnInv'
  BY DEF TurnInv
<1>1. NoRefund /\ AllOpen
  OBVIOUS
<1>2. \A e \in events : e.payment \in Payment
  BY EventFields
<1>3. \A e \in E : \A f \in events : e.payment # f.payment
  BY <1>1 DEF TurnInv, Announced
<1>4. ASSUME NEW p \in Payment, Announced(p)' PROVE ~Busy(p)' /\ Active(p)
  BY <1>1, <1>4 DEF TurnInv, Announced, Active
<1>5. \A p \in Payment : Active(p)' => Active(p)
  BY <1>4 DEF Active
<1>6. \A e, f \in events' : e.payment = f.payment => e = f
  BY <1>1, <1>3 DEF TurnInv
<1> QED
  BY <1>1, <1>4, <1>5, <1>6 DEF TurnInv

(* Failures: the steps that add no task.                                   *)
LEMMA FailStep ==
    ASSUME PaymentsOK, FailInv, NoRefund' => NoRefund, AllOpen' => AllOpen,
           TasksOK', Shrinks(tasks, tasks'),
           \A p \in Payment : NoRefund /\ Over(p) => Over(p)',
           \A e \in events' : NoRefund' /\ e.kind = "failed" =>
                e \in events \/ (e.payment \in Payment /\ Over(e.payment)'),
           \A p \in Payment : NoRefund' /\ result'[p] = "failed" => result[p] = "failed" \/ Over(p)',
           calls' = calls
    PROVE  FailInv'
<1> SUFFICES ASSUME NoRefund' PROVE FailInv'
  BY DEF FailInv
<1>1. NoRefund
  OBVIOUS
<1>2. ASSUME NEW t \in DOMAIN tasks' PROVE DOMAIN tasks'[t].attempts = {t}
  <2>1. DOMAIN tasks'[t].attempts # {}
    BY DEF TasksOK, IsTask
  <2> QED
    BY <1>1, <2>1 DEF FailInv, Shrinks
<1>3. \A t, u \in DOMAIN tasks' : tasks'[t].payment = tasks'[u].payment => t = u
  BY <1>1 DEF FailInv, Shrinks
<1>4. ASSUME NEW e \in events', e.kind = "failed" PROVE Over(e.payment)'
  <2>1. \A f \in events : f.payment \in Payment
    BY EventFields
  <2> QED
    BY <1>1, <1>4, <2>1 DEF FailInv
<1>5. \A p \in Payment : SharesIdentifier(p)' = SharesIdentifier(p)
  BY DEF SharesIdentifier, Identifier
<1>6. ASSUME NEW p \in Payment, result'[p] = "failed", SharesIdentifier(p)' \subseteq {p} \/ AllOpen'
      PROVE  Over(p)'
  BY <1>1, <1>5, <1>6 DEF FailInv
<1> QED
  BY <1>2, <1>3, <1>4, <1>6 DEF FailInv

(* The turns when no event is added. *)
LEMMA TurnSame ==
    ASSUME PaymentsOK, TurnInv, (NoRefund /\ AllOpen)' => NoRefund /\ AllOpen,
           events' \subseteq events,
           \A p \in Payment : Busy(p)' => Busy(p),
           statuses' = statuses,
           \A p \in Payment : result'[p] = "waiting" => result[p] = "waiting"
    PROVE  TurnInv'
<1> PICK E : E = {}
  BY Zenon
<1>1. events' \subseteq events \cup E /\ \A e \in E : FALSE
  OBVIOUS
<1>2. (NoRefund /\ AllOpen)' =>
             /\ \A e \in E : e.payment \in Payment /\ Busy(e.payment) /\ ~Busy(e.payment)'
             /\ \A e, f \in E : e.payment = f.payment => e = f
  BY <1>1
<1> QED
  BY Zenon, <1>1, <1>2, TurnStep

-----------------------------------------------------------------------------
(* Identifiers are payments. *)
LEMMA IdentifierType == \A p \in Payment : Identifier(p) \in Payment
BY ConstantsAssumption DEF Identifier, Payment

(* Nothing but the status of a payment and its events changed. *)
LEMMA SameTasks ==
    ASSUME UNCHANGED nodevars
    PROVE  /\ \A s \in Secret, p \in Payment : Live(s, p)' <=> Live(s, p)
           /\ \A c \in Channel : Open(c)' <=> Open(c)
           /\ AllOpen' <=> AllOpen
BY Zenon DEF nodevars, Live, HasAttempt, Open, AllOpen

(* mediated_transfer_async starts a payment only if none with its          *)
(* identifier has a status.                                                *)
LEMMA MediatedTransferAsyncKeeps ==
    ASSUME PInv, MediatedTransferAsync
    PROVE  PInv'
<1>0. /\ calls \in 0 .. MaxPayments /\ MaxPayments \in Nat /\ calls + 1 \in Payment
      /\ calls' = calls + 1
  BY ConstantsAssumption DEF PInv, Types, PaymentsOK, MediatedTransferAsync, Payment
<1> PICK p \in Payment : p = calls + 1
  BY <1>0
<1> DEFINE i == Identifier(p)
<1>1. /\ calls \in Nat /\ calls' = p /\ p > calls /\ p = calls + 1
      /\ MaxPayments \in Nat /\ calls \in 0 .. MaxPayments /\ calls' \in 0 .. MaxPayments
  BY <1>0 DEF Payment
<1>2. i \in Payment
  BY <1>1, IdentifierType
<1>3. UNCHANGED <<nodevars, hop, known, inst>> /\ events' = events /\ failure' = failure
  BY DEF MediatedTransferAsync, envvars, fixed
<1>4. TasksOK' /\ NodeOK' /\ FreshInv' /\ HopInv' /\ LockInv'
  BY <1>3, NodeSame DEF PInv, Types
<1>5. \/ /\ statuses[i] # 0 /\ result' = [result EXCEPT ![p] = "joined"]
         /\ statuses' = statuses /\ starting' = starting
      \/ /\ statuses[i] = 0 /\ statuses' = [statuses EXCEPT ![i] = p]
         /\ result' = [result EXCEPT ![p] = "waiting"] /\ starting' = starting \cup {p}
  BY <1>1 DEF MediatedTransferAsync
<1>6. /\ statuses \in [Payment -> Payment \cup {0}] /\ starting \subseteq 1 .. calls
      /\ result \in [Payment -> {"none", "waiting", "joined", "success", "failed", "lost"}]
  BY DEF PInv, Types, PaymentsOK
<1>7. /\ \A q \in Payment : q # p => result'[q] = result[q]
      /\ result'[p] \in {"joined", "waiting"}
      /\ starting \subseteq starting' /\ starting' \subseteq starting \cup {p}
      /\ p \notin starting
  BY <1>1, <1>5, <1>6
<1> HIDE DEF i
<1>8. PaymentsOK'
  <2>1. /\ statuses' \in [Payment -> Payment \cup {0}] /\ starting' \subseteq 1 .. calls'
        /\ result' \in [Payment -> {"none", "waiting", "joined", "success", "failed", "lost"}]
    <3>1. \A q \in 1 .. calls : q \in 1 .. calls'
      BY <1>1
    <3>2. p \in 1 .. calls'
      BY <1>1
    <3>3. starting' \subseteq 1 .. calls'
      BY <1>6, <1>7, <3>1, <3>2
    <3> QED
      BY <1>2, <1>5, <1>6, <3>3
  <2>2. 1 .. calls \subseteq 1 .. calls'
    BY <1>1
  <2>3. events' \subseteq [kind : {"success", "failed"}, payment : 1 .. calls', task : Secret, attempt : Secret]
    BY Zenon, <1>3, <2>2 DEF PInv, Types, PaymentsOK
  <2> QED
    BY <1>1, <1>3, <2>1, <2>3 DEF PInv, Types, PaymentsOK
<1>9. paid' = paid /\ tasks' = tasks /\ hop' = hop
  BY <1>3 DEF nodevars
<1>10. ASSUME NEW q \in Payment, q > calls' PROVE q > calls /\ q # p
  BY <1>1, <1>10 DEF Payment
<1>11. PaidInv'
  <2>1. \A s \in Secret, q \in Payment : Live(s, q)' <=> Live(s, q)
    BY <1>3, SameTasks
  <2>2. \A q \in Payment : q \in starting' \/ q > calls' => q \in starting \/ q > calls
    BY <1>1, <1>7, <1>10
  <2> QED
    BY <1>9, <2>1, <2>2 DEF PInv, PaidInv
<1>12. AnswerInv'
  <2>1. SuccessMeansPaid'
    BY <1>7, <1>9 DEF PInv, AnswerInv, SuccessMeansPaid, Identifier
  <2>2. \A e \in events' : e.kind = "success" => paid'[e.payment] # {}
    BY <1>3, <1>9 DEF PInv, AnswerInv
  <2>3. ASSUME NEW j \in Payment, statuses'[j] # 0 PROVE Identifier(statuses'[j]) = j
    BY <1>2, <1>5, <1>6, <2>3 DEF PInv, AnswerInv, i
  <2>4. ASSUME NEW q \in Payment, result'[q] = "waiting" PROVE statuses'[Identifier(q)] = q
    <3>1. CASE q = p
      <4>1. result'[p] = "waiting"
        BY <2>4, <3>1
      <4>2. statuses' = [statuses EXCEPT ![i] = p]
        BY <1>1, <1>5, <1>6, <4>1
      <4> QED
        BY <1>2, <1>6, <3>1, <4>2 DEF i
    <3>2. CASE q # p
      <4>1. result[q] = "waiting" /\ statuses[Identifier(q)] = q
        BY <1>7, <2>4, <3>2 DEF PInv, AnswerInv
      <4>2. q # 0 /\ Identifier(q) \in Payment
        BY IdentifierType DEF Payment
      <4> QED
        BY Zenon, <1>2, <1>5, <1>6, <4>1, <4>2
    <3> QED
      BY <3>1, <3>2
  <2>5. \A q \in Payment : q > calls' => result'[q] = "none"
    BY <1>7, <1>10 DEF PInv, AnswerInv
  <2>6. \A j \in Payment : (Identifier(statuses[j]))' = Identifier(statuses'[j])
    BY DEF Identifier
  <2> QED
    BY <2>1, <2>2, <2>3, <2>4, <2>5, <2>6 DEF AnswerInv, Identifier
<1>13. \A q \in Payment : q # p /\ Over(q) => Over(q)'
  BY <1>3, <1>7 DEF nodevars, Over, Open
<1>14. \A e \in events : e.payment \in Payment /\ e.payment # p
  BY <1>1, EventFields DEF PInv, Types
<1>15. (NoRefund' <=> NoRefund) /\ (AllOpen' <=> AllOpen)
  BY <1>3, SameTasks DEF NoRefund
<1>16. FailInv'
  <2>1. \A q \in Payment : SharesIdentifier(q) \subseteq SharesIdentifier(q)'
    <3>1. \A q \in Payment : q <= calls => q <= calls'
      BY <1>1 DEF Payment
    <3> QED
      BY Zenon, <3>1 DEF SharesIdentifier, Identifier
  <2>2. \A q \in Payment : result'[q] = "failed" => q # p /\ result[q] = "failed"
    BY <1>7
  <2> QED
    BY <1>3, <1>9, <1>13, <1>14, <1>15, <2>1, <2>2 DEF PInv, FailInv
<1>17. TurnInv'
  <2> SUFFICES ASSUME NoRefund, AllOpen PROVE TurnInv'
    BY <1>15 DEF TurnInv
  <2>1. ~Busy(p) /\ ~Announced(p)
    BY <1>1, <1>7, <1>14 DEF PInv, PaidInv, Busy, Announced
  <2>2. \A q \in Payment : Announced(q)' <=> Announced(q)
    BY <1>3 DEF Announced
  <2>3. \A q \in Payment : q # p => (Busy(q)' <=> Busy(q))
    BY <1>7, <1>9 DEF Busy
  <2>4. \A q \in Payment : q # p => (Active(q)' <=> Active(q))
    BY <2>2, <2>3 DEF Active
  <2>5. CASE statuses[i] # 0
    <3>1. ~Busy(p)' /\ ~Active(p)' /\ statuses' = statuses /\ result'[p] # "waiting"
      BY <1>1, <1>5, <1>6, <1>9, <2>1, <2>2, <2>5 DEF Active, Busy
    <3> QED
      BY <1>3, <1>7, <2>2, <2>3, <2>4, <3>1 DEF PInv, TurnInv
  <2>6. CASE statuses[i] = 0
    <3>1. \A q \in Payment : Identifier(q) = i => ~Active(q)
      BY <2>6 DEF PInv, TurnInv
    <3>2. \A q \in Payment : q # p /\ Identifier(q) = i => ~Active(q)' /\ result'[q] # "waiting"
      <4>1. \A q \in Payment : q # 0
        BY DEF Payment
      <4> QED
        BY <1>7, <2>4, <2>6, <3>1, <4>1 DEF PInv, AnswerInv
    <3>3. ~Announced(p)' /\ Identifier(p) = i
      BY <1>1, <2>1, <2>2 DEF i
    <3>4. /\ \A j \in Payment : j # i => statuses'[j] = statuses[j]
          /\ statuses'[i] # 0
      BY <1>1, <1>2, <1>5, <1>6, <2>6 DEF Payment
    <3>5. \A q \in Payment : ~(Busy(q)' /\ Announced(q)')
      BY <2>2, <2>3, <3>3 DEF PInv, TurnInv
    <3>6. \A q, r \in Payment :
             Active(q)' /\ Active(r)' /\ Identifier(q) = Identifier(r) => q = r
      BY Zenon, <1>1, <2>4, <3>2, <3>3 DEF PInv, TurnInv
    <3>7. \A q \in Payment : Active(q)' => statuses'[Identifier(q)] # 0
      BY Zenon, <2>4, <3>2, <3>3, <3>4, IdentifierType DEF PInv, TurnInv
    <3>8. \A q, r \in Payment :
             result'[q] = "waiting" /\ Active(r)' /\ Identifier(q) = Identifier(r) => q = r
      BY Zenon, <1>1, <1>7, <2>4, <3>2, <3>3 DEF PInv, TurnInv
    <3> QED
      BY <1>3, <3>5, <3>6, <3>7, <3>8 DEF PInv, TurnInv, Identifier
  <2> QED
    BY <2>5, <2>6
<1> QED
  BY <1>4, <1>8, <1>11, <1>12, <1>16, <1>17 DEF PInv, Types

(* No route was found: the caller is told, and the payment has no task. *)
LEMMA NoRouteKeeps ==
    ASSUME PInv, NEW p \in Payment, NoRoute(p)
    PROVE  PInv'
<1>1. /\ UNCHANGED <<nodevars, hop, known, inst>> /\ UNCHANGED <<statuses, events, calls, failure>>
      /\ p \in starting /\ starting' = starting \ {p}
      /\ result' = [result EXCEPT ![p] = IF @ = "waiting" THEN "failed" ELSE @]
  BY DEF NoRoute, envvars, fixed
<1>2. TasksOK' /\ NodeOK' /\ FreshInv' /\ HopInv' /\ LockInv'
  BY <1>1, NodeSame DEF PInv, Types
<1>3. result \in [Payment -> {"none", "waiting", "joined", "success", "failed", "lost"}]
  BY DEF PInv, Types, PaymentsOK
<1>4. /\ \A q \in Payment : q # p => result'[q] = result[q]
      /\ result'[p] = result[p] \/ (result[p] = "waiting" /\ result'[p] = "failed")
      /\ result' \in [Payment -> {"none", "waiting", "joined", "success", "failed", "lost"}]
  BY <1>1, <1>3
<1>5. PaymentsOK'
  BY <1>1, <1>4 DEF PInv, Types, PaymentsOK
<1>6. ShrinkStep
  BY <1>1 DEF nodevars, ShrinkStep, Shrinks
<1>7. PaidInv' /\ paid' = paid
  BY <1>1, <1>6, ShrinkPaid DEF PInv, Types, nodevars
<1>8. AnswerInv'
  <2>1. \A q \in Payment : result'[q] \in {"success", "waiting", "none"} => result'[q] = result[q]
    BY <1>4
  <2>2. SuccessMeansPaid'
    BY <1>7, <2>1 DEF PInv, AnswerInv, SuccessMeansPaid, Identifier
  <2>3. \A q \in Payment : q > calls => result'[q] = "none"
    BY <1>4 DEF PInv, AnswerInv
  <2> QED
    BY Zenon, <1>1, <1>7, <2>1, <2>2, <2>3 DEF PInv, AnswerInv, Identifier
<1>9. Over(p)'
  <2>1. p \notin starting' /\ paid'[p] = {} /\ \A t \in DOMAIN tasks : tasks[t].payment # p
    BY <1>1, <1>7 DEF PInv, PaidInv
  <2> QED
    BY <1>1, <2>1 DEF Over, nodevars
<1>10. (NoRefund' <=> NoRefund) /\ (AllOpen' <=> AllOpen)
  BY <1>1, SameTasks DEF NoRefund
<1>11. FailInv'
  <2>1. \A q \in Payment : Over(q) => Over(q)'
    BY <1>6, <1>7, ShrinkOver DEF PInv, Types
  <2>2. \A q \in Payment : result'[q] = "failed" => result[q] = "failed" \/ Over(q)'
    BY <1>4, <1>9
  <2>3. Shrinks(tasks, tasks')
    BY <1>6 DEF ShrinkStep
  <2> QED
    BY <1>1, <1>2, <1>10, <2>1, <2>2, <2>3, FailStep DEF PInv, Types
<1>12. TurnInv'
  <2>1. \A q \in Payment : Busy(q)' => Busy(q)
    BY <1>1 DEF Busy, nodevars
  <2>2. \A q \in Payment : result'[q] = "waiting" => result[q] = "waiting"
    BY <1>4
  <2> QED
    BY <1>1, <1>10, <2>1, <2>2, TurnSame DEF PInv, Types
<1> QED
  BY <1>2, <1>5, <1>7, <1>8, <1>11, <1>12 DEF PInv, Types

(* An event is handled: the status of its identifier is popped.  Without   *)
(* refunds and closed channels it is the status of the payment of the      *)
(* event.                                                                  *)
LEMMA HandleEventKeeps ==
    ASSUME PInv, NEW e \in events, HandleEvent(e)
    PROVE  PInv'
<1> DEFINE q == e.payment
           i == Identifier(q)
<1>1. /\ UNCHANGED <<nodevars, hop, known, inst>> /\ UNCHANGED <<starting, calls>>
      /\ events' = events \ {e}
  BY DEF HandleEvent, envvars, fixed
<1>2. q \in Payment /\ q \in 1 .. calls /\ e.kind \in {"success", "failed"} /\ i \in Payment
  BY EventFields, IdentifierType DEF PInv, Types
<1>3. /\ statuses \in [Payment -> Payment \cup {0}]
      /\ result \in [Payment -> {"none", "waiting", "joined", "success", "failed", "lost"}]
  BY DEF PInv, Types, PaymentsOK
<1>4. failure' \in {failure, "no status for the payment"}
  BY Zenon DEF HandleEvent, HandlePaymentSentSuccess, HandlePaymentSentFailed
<1>5. TasksOK' /\ NodeOK' /\ FreshInv' /\ HopInv' /\ LockInv'
  BY Zenon, <1>1, <1>4, NodeSame DEF PInv, Types
<1> HIDE DEF q, i
<1>6. \/ statuses[i] = 0 /\ result' = result /\ (statuses' = statuses \/ statuses' = [statuses EXCEPT ![i] = 0])
      \/ /\ statuses[i] # 0 /\ statuses' = [statuses EXCEPT ![i] = 0]
         /\ \/ result' = result /\ result[statuses[i]] # "waiting"
            \/ /\ result[statuses[i]] = "waiting"
               /\ result' = [result EXCEPT ![statuses[i]] =
                               IF e.kind = "success" THEN "success" ELSE "failed"]
  BY Zenon, <1>2, <1>3 DEF HandleEvent, HandlePaymentSentSuccess, HandlePaymentSentFailed, q, i
<1>7. /\ statuses' \in [Payment -> Payment \cup {0}] /\ statuses'[i] = 0
      /\ \A j \in Payment : j # i => statuses'[j] = statuses[j]
  BY <1>2, <1>3, <1>6
<1>8. /\ result' \in [Payment -> {"none", "waiting", "joined", "success", "failed", "lost"}]
      /\ \A p \in Payment :
           \/ result'[p] = result[p] /\ (p = statuses[i] => result'[p] # "waiting")
           \/ /\ p = statuses[i] /\ result[p] = "waiting"
              /\ result'[p] = IF e.kind = "success" THEN "success" ELSE "failed"
  <2>1. \A p \in Payment : p # 0
    BY DEF Payment
  <2> QED
    BY <1>2, <1>3, <1>6, <2>1
<1>9. PaymentsOK'
  BY <1>1, <1>7, <1>8 DEF PInv, Types, PaymentsOK
<1>10. paid' = paid /\ tasks' = tasks /\ chans' = chans
  BY <1>1 DEF nodevars
<1>11. PaidInv'
  BY Zenon, <1>1, <1>10, SameTasks DEF PInv, PaidInv
<1>12. \A p \in Payment : p # 0 /\ Identifier(p) \in Payment
  BY IdentifierType DEF Payment
<1>13. AnswerInv'
  <2>1. ASSUME NEW p \in Payment, result'[p] = "success"
        PROVE  \E r \in Payment : Identifier(r) = Identifier(p) /\ paid[r] # {}
    <3>1. CASE result[p] = "success"
      BY <3>1 DEF PInv, AnswerInv, SuccessMeansPaid
    <3>2. CASE result[p] # "success"
      <4>1. e.kind = "success" /\ p = statuses[i]
        BY <1>8, <2>1, <3>2
      <4>2. Identifier(q) = Identifier(p) /\ paid[q] # {}
        BY <1>2, <1>12, <4>1 DEF PInv, AnswerInv, q, i
      <4> QED
        BY <1>2, <4>2
    <3> QED
      BY <3>1, <3>2
  <2>2. \A j \in Payment : statuses'[j] # 0 => Identifier(statuses'[j]) = j
    BY <1>7 DEF PInv, AnswerInv
  <2>3. ASSUME NEW p \in Payment, result'[p] = "waiting" PROVE statuses'[Identifier(p)] = p
    <3>1. result[p] = "waiting" /\ p # statuses[i]
      BY <1>2, <1>8, <2>3
    <3>2. Identifier(p) # i
      BY <3>1 DEF PInv, AnswerInv
    <3> QED
      BY <1>7, <1>12, <3>1, <3>2 DEF PInv, AnswerInv
  <2>4. \A p \in Payment : p > calls => result'[p] = "none"
    BY <1>8 DEF PInv, AnswerInv
  <2>5. \A f \in events' : f.kind = "success" => paid[f.payment] # {}
    BY <1>1 DEF PInv, AnswerInv
  <2> QED
    BY <1>1, <1>10, <2>1, <2>2, <2>3, <2>4, <2>5 DEF AnswerInv, SuccessMeansPaid, Identifier
<1>14. (NoRefund' <=> NoRefund) /\ (AllOpen' <=> AllOpen)
  BY <1>1, SameTasks DEF NoRefund
<1>15. \A p \in Payment : Over(p) => Over(p)'
  BY <1>1, <1>10 DEF Over, Open
<1>16. Announced(q) /\ Active(q)
  BY DEF Announced, Active, q
(* The status that is popped is that of the payment of the event. *)
<1>17. ASSUME NEW p \in Payment, result[p] = "waiting", p = statuses[i],
              NoRefund, SharesIdentifier(p) \subseteq {p} \/ AllOpen
       PROVE  p = q
  <2>1. Identifier(p) = i /\ Identifier(q) = i
    BY Zenon, <1>2, <1>12, <1>17 DEF PInv, AnswerInv, i
  <2>2. CASE SharesIdentifier(p) \subseteq {p}
    <3>1. q <= calls
      BY <1>2 DEF PInv, Types, PaymentsOK
    <3> QED
      BY <1>2, <2>1, <2>2, <3>1 DEF SharesIdentifier
  <2>3. CASE AllOpen
    BY <1>2, <1>16, <1>17, <2>1, <2>3 DEF PInv, TurnInv
  <2> QED
    BY <1>17, <2>2, <2>3
<1>18. FailInv'
  <2> SUFFICES ASSUME NoRefund PROVE FailInv'
    BY <1>14 DEF FailInv
  <2>1. \A p \in Payment : SharesIdentifier(p)' = SharesIdentifier(p)
    BY <1>1 DEF SharesIdentifier, Identifier
  <2>2. ASSUME NEW p \in Payment, result'[p] = "failed", SharesIdentifier(p) \subseteq {p} \/ AllOpen
        PROVE  Over(p)
    <3>1. CASE result[p] = "failed"
      BY <2>2, <3>1 DEF PInv, FailInv
    <3>2. CASE result[p] # "failed"
      <4>1. e.kind = "failed" /\ p = statuses[i] /\ result[p] = "waiting"
        BY <1>2, <1>8, <2>2, <3>2
      <4>2. p = q
        BY <1>17, <2>2, <4>1
      <4> QED
        BY <4>1, <4>2 DEF PInv, FailInv, q
    <3> QED
      BY <3>1, <3>2
  <2>3. \A f \in events' : f.kind = "failed" => Over(f.payment)'
    <3>1. \A f \in events : f.payment \in Payment
      BY EventFields DEF PInv, Types
    <3> QED
      BY <1>1, <1>15, <3>1 DEF PInv, FailInv
  <2>4. \A p \in Payment : result'[p] = "failed" /\ (SharesIdentifier(p)' \subseteq {p} \/ AllOpen') => Over(p)'
    BY <1>14, <1>15, <2>1, <2>2
  <2> QED
    BY <1>10, <2>3, <2>4 DEF PInv, FailInv
<1>19. TurnInv'
  <2> SUFFICES ASSUME NoRefund, AllOpen PROVE TurnInv'
    BY <1>14 DEF TurnInv
  <2>1. \A p \in Payment : Busy(p)' <=> Busy(p)
    BY <1>1, <1>10 DEF Busy
  <2>2. \A p \in Payment : Announced(p)' => Announced(p)
    BY <1>1 DEF Announced
  <2>3. ~Active(q)'
    BY <1>1, <1>2, <1>16, <2>1 DEF PInv, TurnInv, Active, Announced, q
  <2>4. \A p \in Payment : Active(p)' => Active(p) /\ Identifier(p) # i
    BY <1>2, <1>16, <2>1, <2>2, <2>3 DEF PInv, TurnInv, Active, i
  <2>5. \A p \in Payment : result'[p] = "waiting" => result[p] = "waiting"
    BY <1>2, <1>8
  <2>6. \A p \in Payment : ~(Busy(p)' /\ Announced(p)')
    BY <2>1, <2>2 DEF PInv, TurnInv
  <2>7. \A p, r \in Payment : Active(p)' /\ Active(r)' /\ Identifier(p) = Identifier(r) => p = r
    BY <2>4 DEF PInv, TurnInv
  <2>8. \A p \in Payment : Active(p)' => statuses'[Identifier(p)] # 0
    BY <1>7, <1>12, <2>4 DEF PInv, TurnInv
  <2>9. \A p, r \in Payment :
          result'[p] = "waiting" /\ Active(r)' /\ Identifier(p) = Identifier(r) => p = r
    BY <2>4, <2>5 DEF PInv, TurnInv
  <2> QED
    BY <1>1, <2>6, <2>7, <2>8, <2>9 DEF PInv, TurnInv, Identifier
<1> QED
  BY <1>5, <1>9, <1>11, <1>13, <1>18, <1>19 DEF PInv, Types
-----------------------------------------------------------------------------
(* A channel is closed or settled, or the lock of a refund expires. *)
LEMMA ChannelStep ==
    ASSUME PInv,
           chans' \in [Channel -> ChannelRecord],
           \A c \in Channel :
             /\ chans'[c].locked \subseteq chans[c].locked
             /\ chans'[c].locked \cup chans'[c].unlocked = chans[c].locked \cup chans[c].unlocked
             /\ chans'[c].taken = chans[c].taken /\ chans'[c].theirs \subseteq chans[c].theirs
             /\ chans'[c].status = "opened" => chans[c].status = "opened"
             /\ chans'[c].status # "gone" => chans[c].status # "gone",
           UNCHANGED <<tasks, drawn, refunds, paid, hop, known, inst>>,
           UNCHANGED payvars, failure' = failure
    PROVE  PInv'
<1>1. UNCHANGED <<statuses, result, starting, events, calls>>
  BY DEF payvars
<1>2. TasksOK' /\ PaymentsOK' /\ NodeOK'
  BY <1>1 DEF PInv, Types, TasksOK, PaymentsOK, NodeOK
<1>3. ShrinkStep
  BY Zenon, <1>1 DEF ShrinkStep, Shrinks
<1>4. FreshInv'
  BY <1>3, ShrinkFresh DEF PInv, Types
<1>5. HopInv'
  BY DEF PInv, HopInv
<1>6. PaidInv'
  BY <1>3, ShrinkPaid DEF PInv, Types
<1>7. AnswerInv'
  BY <1>1 DEF PInv, AnswerInv, SuccessMeansPaid, Identifier
<1>8. LockInv'
  <2>1. \A s \in Secret : HasAttempt(s)' <=> HasAttempt(s)
    BY DEF HasAttempt
  <2>2. \A s \in Secret : HasAttempt(s) => tasks[s].attempts[s].channel \in Channel
    BY TaskFields DEF HasAttempt, PInv, Types
  <2>3. LocksHaveTasks' /\ AssertionsHold'
    BY Zenon, <2>1 DEF PInv, LockInv, LocksHaveTasks, AssertionsHold, Open
  <2>4. ASSUME NEW s \in Secret, HasAttempt(s)
        PROVE  LET a == tasks[s].attempts[s] IN
               /\ a.state # "cancelled"
               /\ Exists(a.channel)' => s \in chans'[a.channel].locked \cup chans'[a.channel].unlocked
                                 \/ hop[s] \in Refunding
    BY <2>2, <2>4 DEF PInv, LockInv, Exists
  <2> QED
    BY <2>1, <2>3, <2>4 DEF LockInv, Exists
<1>9. (NoRefund' <=> NoRefund) /\ (AllOpen' => AllOpen)
  BY DEF NoRefund, AllOpen, Open
<1>10. FailInv'
  <2>1. \A q \in Payment : Over(q) => Over(q)'
    BY <1>3, ShrinkOver DEF PInv, Types
  <2>2. Shrinks(tasks, tasks')
    BY <1>3 DEF ShrinkStep
  <2> QED
    BY <1>1, <1>2, <1>9, <2>1, <2>2, FailStep DEF PInv, Types
<1>11. TurnInv'
  <2>1. \A q \in Payment : Busy(q)' => Busy(q)
    BY <1>1 DEF Busy
  <2> QED
    BY <1>1, <1>9, <2>1, TurnSame DEF PInv, Types
<1> QED
  BY <1>2, <1>4, <1>5, <1>6, <1>7, <1>8, <1>10, <1>11 DEF PInv, Types

(* ContractReceiveChannelClosed. *)
LEMMA ChannelClosedKeeps ==
    ASSUME PInv, NEW c \in Channel, ChannelClosed(c)
    PROVE  PInv'
<1>1. chans \in [Channel -> ChannelRecord] /\ chans[c].status = "opened"
  BY DEF PInv, Types, NodeOK, ChannelClosed, Open
<1>2. chans' = [chans EXCEPT ![c].status = "closed"]
  BY DEF ChannelClosed
<1>3. /\ chans' \in [Channel -> ChannelRecord]
      /\ \A d \in Channel :
             /\ chans'[d].locked \subseteq chans[d].locked
             /\ chans'[d].locked \cup chans'[d].unlocked = chans[d].locked \cup chans[d].unlocked
             /\ chans'[d].taken = chans[d].taken /\ chans'[d].theirs \subseteq chans[d].theirs
             /\ chans'[d].status = "opened" => chans[d].status = "opened"
             /\ chans'[d].status # "gone" => chans[d].status # "gone"
  BY <1>1, <1>2 DEF ChannelRecord
<1> QED
  BY <1>3, ChannelStep DEF ChannelClosed, envvars, fixed

(* The settled channel is removed. *)
LEMMA ChannelSettledKeeps ==
    ASSUME PInv, NEW c \in Channel, ChannelSettled(c)
    PROVE  PInv'
<1>1. chans \in [Channel -> ChannelRecord] /\ chans[c].status = "closed"
  BY DEF PInv, Types, NodeOK, ChannelSettled
<1>2. chans' = [chans EXCEPT ![c].status = "gone"]
  BY DEF ChannelSettled
<1>3. /\ chans' \in [Channel -> ChannelRecord]
      /\ \A d \in Channel :
             /\ chans'[d].locked \subseteq chans[d].locked
             /\ chans'[d].locked \cup chans'[d].unlocked = chans[d].locked \cup chans[d].unlocked
             /\ chans'[d].taken = chans[d].taken /\ chans'[d].theirs \subseteq chans[d].theirs
             /\ chans'[d].status = "opened" => chans[d].status = "opened"
             /\ chans'[d].status # "gone" => chans[d].status # "gone"
  BY <1>1, <1>2 DEF ChannelRecord
<1> QED
  BY <1>3, ChannelStep DEF ChannelSettled, envvars, fixed

(* handle_lock_expired takes the lock of a refund away. *)
LEMMA ReceiveLockExpiredKeeps ==
    ASSUME PInv, NEW c \in Channel, NEW s \in Secret, ReceiveLockExpired(s, c)
    PROVE  PInv'
<1>1. chans \in [Channel -> ChannelRecord]
  BY DEF PInv, Types, NodeOK
<1>2. chans' = [chans EXCEPT ![c].theirs = @ \ {s}]
  BY DEF ReceiveLockExpired
<1>3. /\ chans' \in [Channel -> ChannelRecord]
      /\ \A d \in Channel :
             /\ chans'[d].locked \subseteq chans[d].locked
             /\ chans'[d].locked \cup chans'[d].unlocked = chans[d].locked \cup chans[d].unlocked
             /\ chans'[d].taken = chans[d].taken /\ chans'[d].theirs \subseteq chans[d].theirs
             /\ chans'[d].status = "opened" => chans[d].status = "opened"
             /\ chans'[d].status # "gone" => chans[d].status # "gone"
  BY <1>1, <1>2 DEF ChannelRecord
<1> QED
  BY <1>3, ChannelStep DEF ReceiveLockExpired, envvars, fixed

(* The next hop forwards a transfer or refunds it. *)
LEMMA HopStep ==
    ASSUME PInv, NEW s \in Secret, NEW h \in {"forwarded", "refunding"}, hop[s] = "has",
           hop' = [hop EXCEPT ![s] = h],
           UNCHANGED nodevars, UNCHANGED payvars, known' = known, inst' = inst, failure' = failure
    PROVE  PInv'
<1>1. UNCHANGED <<statuses, result, starting, events, calls>>
      /\ UNCHANGED <<chans, tasks, drawn, refunds, paid>>
  BY DEF payvars, nodevars
<1>2. hop \in [Secret -> {"none", "has", "forwarded", "refunding", "refunded"}]
  BY DEF PInv, Types, NodeOK
<1>3. /\ hop' \in [Secret -> {"none", "has", "forwarded", "refunding", "refunded"}]
      /\ \A x \in Secret : hop[x] # "has" => hop'[x] = hop[x]
      /\ \A x \in Secret : x # s => hop'[x] = hop[x]
  BY <1>2
<1>4. Types'
  BY <1>1, <1>3 DEF PInv, Types, TasksOK, PaymentsOK, NodeOK
<1>5. ShrinkStep
  BY <1>1 DEF ShrinkStep, Shrinks
<1>6. FreshInv'
  BY <1>3, <1>5, ShrinkFresh DEF PInv, Types
<1>7. HopInv'
  <2>1. known \subseteq Secret /\ \A c \in Channel : chans[c].taken \subseteq Secret
    BY DEF PInv, Types, NodeOK, ChannelRecord
  <2> QED
    BY <1>1, <1>3, <2>1 DEF PInv, HopInv, Refunding
<1>8. PaidInv'
  BY <1>1, <1>5, ShrinkPaid DEF PInv, Types
<1>9. AnswerInv'
  BY <1>1 DEF PInv, AnswerInv, SuccessMeansPaid, Identifier
<1>10. LockInv'
  <2>1. \A x \in Secret : hop[x] \in Refunding => hop'[x] \in Refunding
    BY <1>3 DEF Refunding
  <2> QED
    BY Zenon, <1>1, <2>1 DEF PInv, LockInv, LocksHaveTasks, AssertionsHold, HasAttempt, Open, Exists
<1>11. (NoRefund' => NoRefund) /\ (AllOpen' => AllOpen)
  BY <1>1, <1>3 DEF NoRefund, AllOpen, Open, Refunding
<1>12. FailInv'
  <2>1. \A q \in Payment : Over(q) => Over(q)'
    BY <1>1, <1>5, ShrinkOver DEF PInv, Types
  <2>2. Shrinks(tasks, tasks')
    BY <1>5 DEF ShrinkStep
  <2> QED
    BY Zenon, <1>1, <1>4, <1>11, <2>1, <2>2, FailStep DEF PInv, Types
<1>13. TurnInv'
  <2>1. \A q \in Payment : Busy(q)' => Busy(q)
    BY <1>1 DEF Busy
  <2> QED
    BY <1>1, <1>11, <2>1, TurnSame DEF PInv, Types
<1> QED
  BY <1>4, <1>6, <1>7, <1>8, <1>9, <1>10, <1>12, <1>13 DEF PInv

(* The next hop forwards the transfer, *)
LEMMA HopForwardsKeeps ==
    ASSUME PInv, NEW s \in Secret, HopForwards(s)
    PROVE  PInv'
BY Zenon, HopStep DEF HopForwards, fixed

(* or decides to refund it. *)
LEMMA HopRefundsKeeps ==
    ASSUME PInv, NEW s \in Secret, HopRefunds(s)
    PROVE  PInv'
BY Zenon, HopStep DEF HopRefunds, fixed
-----------------------------------------------------------------------------
(* A restart forgets the events and the refunds that were not dispatched,  *)
(* and makes a status for each identifier that has a task.                 *)
LEMMA RestartKeeps ==
    ASSUME PInv, Restart
    PROVE  PInv'
<1>1. /\ UNCHANGED <<chans, tasks, drawn, paid, calls, known, inst>>
      /\ failure' = "none" /\ starting' = {} /\ events' = {} /\ refunds' = <<>>
  BY DEF Restart, fixed
<1>2. /\ hop \in [Secret -> {"none", "has", "forwarded", "refunding", "refunded"}]
      /\ result \in [Payment -> {"none", "waiting", "joined", "success", "failed", "lost"}]
  BY DEF PInv, Types, NodeOK, PaymentsOK
<1>3. /\ hop' \in [Secret -> {"none", "has", "forwarded", "refunding", "refunded"}]
      /\ \A s \in Secret : hop'[s] = hop[s] \/ (hop[s] = "refunded" /\ hop'[s] = "refunding")
  <2>1. hop' = [s \in Secret |-> IF \E k \in DOMAIN refunds : refunds[k].refunded = s
                               THEN "refunding" ELSE hop[s]]
    BY DEF Restart
  <2>2. \A k \in DOMAIN refunds : hop[refunds[k].refunded] = "refunded"
    BY DEF PInv, FreshInv
  <2> QED
    BY <1>2, <2>1, <2>2
<1>4. /\ result' \in [Payment -> {"none", "waiting", "joined", "success", "failed", "lost"}]
      /\ \A p \in Payment : result'[p] # "waiting" /\ result'[p] \in {result[p], "lost"}
      /\ \A p \in Payment : result[p] # "waiting" => result'[p] = result[p]
  BY <1>2 DEF Restart
<1>5. statuses' \in [Payment -> Payment \cup {0}]
  BY DEF Restart
<1>6. ASSUME NEW i \in Payment
      PROVE  /\ statuses'[i] # 0 => Identifier(statuses'[i]) = i
             /\ (\E t \in DOMAIN tasks : Identifier(tasks[t].payment) = i) => statuses'[i] # 0
  <2> DEFINE owners == {tasks[t].payment : t \in {u \in DOMAIN tasks : Identifier(tasks[u].payment) = i}}
  <2>1. IF owners = {} THEN statuses'[i] = 0 ELSE statuses'[i] \in owners
    BY Zenon DEF Restart
  <2>2. \A p \in owners : Identifier(p) = i /\ p # 0
    <3>1. \A t \in DOMAIN tasks : tasks[t].payment \in Payment
      BY TaskFields DEF PInv, Types
    <3>2. \A p \in Payment : p # 0
      BY DEF Payment
    <3> QED
      BY <3>1, <3>2
  <2>3. (\E t \in DOMAIN tasks : Identifier(tasks[t].payment) = i) => owners # {}
    OBVIOUS
  <2> HIDE DEF owners
  <2> QED
    BY <2>1, <2>2, <2>3
<1>7. Types'
  <2>1. TasksOK'
    BY <1>1 DEF PInv, Types, TasksOK
  <2>2. NodeOK'
    BY <1>1, <1>3 DEF PInv, Types, NodeOK
  <2>3. PaymentsOK'
    BY <1>1, <1>4, <1>5 DEF PInv, Types, PaymentsOK
  <2> QED
    BY <2>1, <2>2, <2>3 DEF Types
<1>8. FreshInv'
  <2>1. \A n \in Secret : Unused(n) => Unused(n)'
    BY <1>1, <1>3 DEF Unused
  <2>2. \A n \in Secret : Reserved(n)' => Reserved(n)
    BY <1>1 DEF Reserved
  <2>3. DOMAIN refunds' = {}
    BY <1>1
  <2> QED
    BY <2>1, <2>2, <2>3 DEF PInv, FreshInv
<1>9. HopInv'
  <2>1. known \subseteq Secret /\ \A c \in Channel : chans[c].taken \subseteq Secret
    BY DEF PInv, Types, NodeOK, ChannelRecord
  <2> QED
    BY <1>1, <1>3, <2>1 DEF PInv, HopInv, Refunding
<1>10. LockInv'
  <2>1. \A x \in Secret : hop[x] \in Refunding => hop'[x] \in Refunding
    BY <1>3 DEF Refunding
  <2> QED
    BY Zenon, <1>1, <2>1 DEF PInv, LockInv, LocksHaveTasks, AssertionsHold, HasAttempt, Open, Exists
<1>11. PaidInv'
  <2>1. \A s \in Secret, p \in Payment : Live(s, p)' <=> Live(s, p)
    BY <1>1 DEF Live, HasAttempt
  <2> QED
    BY <1>1, <2>1 DEF PInv, PaidInv
<1>12. AnswerInv'
  <2>1. SuccessMeansPaid'
    BY <1>1, <1>4 DEF PInv, AnswerInv, SuccessMeansPaid, Identifier
  <2>2. \A p \in Payment : p > calls => result'[p] = "none"
    BY <1>4 DEF PInv, AnswerInv
  <2> QED
    BY <1>1, <1>4, <1>6, <2>1, <2>2 DEF AnswerInv, Identifier
<1>13. (NoRefund' <=> NoRefund) /\ (AllOpen' <=> AllOpen)
  BY <1>1, <1>3 DEF NoRefund, AllOpen, Open, Refunding
<1>14. FailInv'
  <2>1. \A q \in Payment : Over(q) => Over(q)'
    BY <1>1 DEF Over, Open
  <2>2. Shrinks(tasks, tasks')
    BY <1>1 DEF Shrinks
  <2>3. TasksOK'
    BY <1>7 DEF Types
  <2>4. \A q \in Payment : result'[q] = "failed" => result[q] = "failed"
    BY <1>4
  <2> QED
    BY <1>1, <1>13, <2>1, <2>2, <2>3, <2>4, FailStep DEF PInv, Types
<1>15. TurnInv'
  <2> SUFFICES ASSUME NoRefund, AllOpen PROVE TurnInv'
    BY <1>13 DEF TurnInv
  <2>1. \A q \in Payment : ~Announced(q)' /\ (Active(q)' => Active(q))
    BY <1>1 DEF Announced, Active, Busy
  <2>2. ASSUME NEW q \in Payment, Active(q)' PROVE statuses'[Identifier(q)] # 0
    <3>1. \E t \in DOMAIN tasks : tasks[t].payment = q
      BY <1>1, <2>1, <2>2 DEF Active, Busy
    <3>2. Identifier(q) \in Payment
      BY IdentifierType
    <3> QED
      BY <1>6, <3>1, <3>2
  <2> QED
    BY <1>1, <1>4, <2>1, <2>2 DEF PInv, TurnInv, Identifier
<1> QED
  BY <1>7, <1>8, <1>9, <1>10, <1>11, <1>12, <1>14, <1>15 DEF PInv

(* A refund is read, and a secret drawn for the next attempt. *)
LEMMA HandleMessageRefundTransferKeeps ==
    ASSUME PInv, NEW s \in Secret, HandleMessageRefundTransfer(s)
    PROVE  PInv'
<1>1. /\ UNCHANGED <<chans, tasks, paid, known, inst, failure>>
      /\ UNCHANGED <<statuses, result, starting, events, calls>>
      /\ drawn' = drawn + 1 /\ refunds' = Append(refunds, [refunded |-> s, secret |-> drawn + 1])
      /\ s \in DOMAIN tasks /\ drawn < inst.secrets
      /\ hop[s] \in Refunding
  BY DEF HandleMessageRefundTransfer, payvars, fixed, Refunding
<1>2. /\ hop \in [Secret -> {"none", "has", "forwarded", "refunding", "refunded"}]
      /\ refunds \in Seq(RefundRecord) /\ drawn \in Nat /\ drawn <= MaxSecrets /\ MaxSecrets \in Nat
      /\ inst.secrets \in Nat /\ inst.secrets <= MaxSecrets
  BY ConstantsAssumption DEF PInv, Types, NodeOK
<1>3. /\ hop' \in [Secret -> {"none", "has", "forwarded", "refunding", "refunded"}]
      /\ \A x \in Secret : hop[x] \notin Refunding => hop'[x] = hop[x]
      /\ \A x \in Secret : hop[x] \in Refunding => hop'[x] \in Refunding
      /\ \A x \in Secret : hop[x] = "refunded" => hop'[x] = "refunded"
      /\ hop'[s] = "refunded"
  BY <1>2 DEF HandleMessageRefundTransfer, Refunding
<1>4. /\ drawn' \in 0 .. MaxSecrets /\ drawn + 1 \in Secret
      /\ [refunded |-> s, secret |-> drawn + 1] \in RefundRecord
  BY <1>1, <1>2 DEF Secret, RefundRecord
<1>5. Types'
  <2>1. TasksOK' /\ PaymentsOK'
    BY <1>1 DEF PInv, Types, TasksOK, PaymentsOK
  <2>2. refunds' \in Seq(RefundRecord)
    BY <1>1, <1>2, <1>4
  <2>3. NodeOK'
    BY <1>1, <1>3, <1>4, <2>2 DEF PInv, Types, NodeOK
  <2> QED
    BY <2>1, <2>3 DEF Types
<1>6. FreshInv'
  <2> PICK N \in Nat : N = Len(refunds)
    BY <1>2
  <2>1. /\ DOMAIN refunds = 1 .. N /\ DOMAIN refunds' = 1 .. (N + 1)
        /\ \A k \in 1 .. N : refunds'[k] = refunds[k]
        /\ refunds'[N + 1] = [refunded |-> s, secret |-> drawn + 1]
    BY <1>1, <1>2, <1>4
  <2>2. \A k \in DOMAIN refunds' : k \in DOMAIN refunds \/ k = N + 1
    BY <2>1
  <2>3. refunds'[N + 1].refunded = s /\ refunds'[N + 1].secret = drawn + 1
    BY <2>1
  <2>4. ASSUME NEW n \in Secret, Reserved(n)' PROVE Reserved(n)
    <3>1. n \in Nat
      BY DEF Secret
    <3>2. n > drawn' => n > drawn
      BY <1>1, <1>2, <3>1
    <3>3. n = drawn + 1 => n > drawn
      BY <1>2
    <3> QED
      BY <2>1, <2>2, <2>3, <2>4, <3>2, <3>3 DEF Reserved
  <2>5. ASSUME NEW n \in Secret, Unused(n) PROVE Unused(n)'
    BY <1>1, <1>3, <2>5 DEF Unused, Refunding
  <2>6. \A k \in DOMAIN refunds : refunds[k].secret \in Secret /\ refunds[k].refunded \in Secret
    BY RefundFields DEF PInv, Types
  <2>7. \A k \in DOMAIN refunds : refunds[k].secret <= drawn /\ hop[refunds[k].refunded] = "refunded"
    BY DEF PInv, FreshInv
  <2>8. \A k \in DOMAIN refunds : refunds[k].secret <= drawn' /\ refunds[k].secret # drawn + 1
    <3>1. \A n \in Secret : n <= drawn => n <= drawn + 1 /\ n # drawn + 1
      BY <1>2 DEF Secret
    <3> QED
      BY Zenon, <1>1, <2>6, <2>7, <3>1
  <2>9. ASSUME NEW k \in DOMAIN refunds'
        PROVE  refunds'[k].secret <= drawn' /\ hop'[refunds'[k].refunded] = "refunded"
    <3>1. CASE k = N + 1
      BY <1>1, <1>2, <1>3, <2>3, <3>1
    <3>2. CASE k \in DOMAIN refunds
      BY <1>3, <2>1, <2>6, <2>7, <2>8, <3>2
    <3> QED
      BY <2>2, <3>1, <3>2
  <2>10. \A j, k \in DOMAIN refunds' : j # k => refunds'[j].secret # refunds'[k].secret
    BY <2>1, <2>2, <2>3, <2>8 DEF PInv, FreshInv
  <2>11. \A n \in Secret : Reserved(n)' => Unused(n)'
    BY <2>4, <2>5 DEF PInv, FreshInv
  <2> QED
    BY <2>9, <2>10, <2>11 DEF FreshInv
<1>7. HopInv'
  <2>1. known \subseteq Secret /\ \A c \in Channel : chans[c].taken \subseteq Secret
    BY DEF PInv, Types, NodeOK, ChannelRecord
  <2> QED
    BY <1>1, <1>3, <2>1 DEF PInv, HopInv, Refunding
<1>8. LockInv'
  BY Zenon, <1>1, <1>3 DEF PInv, LockInv, LocksHaveTasks, AssertionsHold, HasAttempt, Open, Exists
<1>9. PaidInv'
  <2>1. \A x \in Secret, p \in Payment : Live(x, p)' <=> Live(x, p)
    BY Zenon, <1>1 DEF Live, HasAttempt
  <2> QED
    BY Zenon, <1>1, <2>1 DEF PInv, PaidInv
<1>10. AnswerInv'
  BY <1>1 DEF PInv, AnswerInv, SuccessMeansPaid, Identifier
<1>11. ~NoRefund'
  BY <1>3 DEF NoRefund, Refunding
<1> QED
  BY Zenon, <1>5, <1>6, <1>7, <1>8, <1>9, <1>10, <1>11 DEF PInv, FailInv, TurnInv
-----------------------------------------------------------------------------
(* A channel gets L as the locks of ours and U as those of them that were  *)
(* unlocked on the chain.                                                  *)
SetLocks(f, c, L, U) == [f EXCEPT ![c].locked = L, ![c].unlocked = U]

(* The other fields and channels are as they were. *)
LEMMA LocksUpdate ==
    ASSUME chans \in [Channel -> ChannelRecord], NEW c \in Channel, NEW L \in SUBSET Secret,
           NEW U \in SUBSET Secret, chans' = SetLocks(chans, c, L, U)
    PROVE  /\ chans' \in [Channel -> ChannelRecord]
           /\ \A d \in Channel : d # c => chans'[d] = chans[d]
           /\ chans'[c].locked = L /\ chans'[c].unlocked = U
           /\ chans'[c].theirs = chans[c].theirs /\ chans'[c].taken = chans[c].taken
           /\ chans'[c].status = chans[c].status
<1> DEFINE x == [chans[c] EXCEPT !.locked = L]
           y == [x EXCEPT !.unlocked = U]
<1>1. chans[c] \in ChannelRecord
  OBVIOUS
<1>2. /\ x \in ChannelRecord /\ x.locked = L /\ x.theirs = chans[c].theirs /\ x.taken = chans[c].taken
      /\ x.status = chans[c].status
  BY ONLY <1>1, L \in SUBSET Secret DEF ChannelRecord
<1>3. chans' = [chans EXCEPT ![c] = y]
  BY Zenon DEF SetLocks
<1> HIDE DEF x
<1>4. /\ y \in ChannelRecord /\ y.unlocked = U /\ y.locked = x.locked /\ y.theirs = x.theirs
      /\ y.taken = x.taken /\ y.status = x.status
  BY ONLY <1>2, U \in SUBSET Secret DEF ChannelRecord
<1> HIDE DEF y
<1>5. /\ chans'[c] = y /\ chans' \in [Channel -> ChannelRecord]
      /\ \A d \in Channel : d # c => chans'[d] = chans[d]
  BY Zenon, <1>3, <1>4
<1> QED
  BY <1>2, <1>4, <1>5

(* A lock of an open channel is unlocked: its attempt was the live one of  *)
(* its payment, which has none left.                                       *)
LEMMA UnlockStep ==
    ASSUME PInv, NEW s \in Secret, s \in known, HasAttempt(s), UnlockPayment(s),
           Open(tasks[s].attempts[s].channel),
           UNCHANGED <<drawn, refunds, hop, known, inst, failure>>,
           UNCHANGED <<statuses, result, starting, calls>>
    PROVE  PInv'
<1> PICK p \in Payment : p = tasks[s].payment
  BY TaskFields DEF HasAttempt, PInv, Types
<1> PICK c \in Channel : c = tasks[s].attempts[s].channel
  BY TaskFields DEF HasAttempt, PInv, Types
<1>1. /\ TasksOK' /\ Shrinks(tasks, tasks') /\ ~HasAttempt(s)'
      /\ \A t \in DOMAIN tasks : t # s => t \in DOMAIN tasks' /\ tasks'[t] = tasks[t]
  BY UnlockEffect DEF PInv, Types
<1>2. /\ chans \in [Channel -> ChannelRecord] /\ paid \in [Payment -> SUBSET Secret]
      /\ chans' = Unlocked(chans, c, s) /\ paid' = [paid EXCEPT ![p] = @ \cup {s}]
      /\ events' = events \cup {Event("success", p, s, s)}
  BY Zenon DEF PInv, Types, NodeOK, UnlockPayment
<1>3. /\ chans' \in [Channel -> ChannelRecord]
      /\ \A d \in Channel :
           /\ chans'[d].taken = chans[d].taken /\ chans'[d].theirs = chans[d].theirs
           /\ chans'[d].status = chans[d].status
           /\ chans'[d].locked \subseteq chans[d].locked /\ chans'[d].unlocked \subseteq chans[d].unlocked
           /\ \A x \in Secret : x # s => (x \in chans'[d].locked <=> x \in chans[d].locked)
                                      /\ (x \in chans'[d].unlocked <=> x \in chans[d].unlocked)
      /\ s \notin chans'[c].locked
  <2> PICK l \in SUBSET Secret, u \in SUBSET Secret :
           l = chans[c].locked \ {s} /\ u = chans[c].unlocked \ {s}
    BY Zenon, <1>2 DEF ChannelRecord
  <2>1. chans' = SetLocks(chans, c, l, u)
    BY Zenon, <1>2 DEF Unlocked, SetLocks
  <2>2. /\ chans' \in [Channel -> ChannelRecord]
        /\ \A d \in Channel : d # c => chans'[d] = chans[d]
        /\ chans'[c].locked = l /\ chans'[c].unlocked = u
        /\ chans'[c].theirs = chans[c].theirs /\ chans'[c].taken = chans[c].taken
        /\ chans'[c].status = chans[c].status
    <3>1. chans \in [Channel -> ChannelRecord]
      BY Zenon, <1>2
    <3> QED
      BY ONLY <3>1, <2>1, LocksUpdate, c \in Channel, l \in SUBSET Secret, u \in SUBSET Secret
  <2> QED
    BY Zenon, <2>2
<1>4. ShrinkStep
  BY Zenon, <1>1, <1>3 DEF ShrinkStep
<1>5. hop[s] = "forwarded" /\ \A d \in Channel : s \notin chans[d].taken
  BY Zenon DEF PInv, HopInv, Refunding
<1>6. Live(s, p)
  BY <1>5 DEF Live
<1>7. paid[p] = {} /\ p \notin starting /\ ~(p > calls)
  BY <1>6 DEF PInv, PaidInv, HasAttempt
<1>8. p \in 1 .. calls /\ calls \in Nat
  BY <1>7 DEF PInv, Types, PaymentsOK, Payment
<1>9. paid'[p] = {s} /\ (\A q \in Payment : q # p => paid'[q] = paid[q]) /\ paid' \in [Payment -> SUBSET Secret]
  BY <1>2, <1>7
<1>10. Types'
  <2>1. NodeOK'
    BY Zenon, <1>3, <1>9 DEF PInv, Types, NodeOK
  <2>2. Event("success", p, s, s) \in
          [kind : {"success", "failed"}, payment : 1 .. calls, task : Secret, attempt : Secret]
    BY ZenonT(30), <1>8 DEF Event
  <2>3. PaymentsOK'
    BY <1>2, <2>2 DEF PInv, Types, PaymentsOK
  <2> QED
    BY Zenon, <1>1, <2>1, <2>3 DEF Types
<1>11. FreshInv'
  BY <1>4, ShrinkFresh DEF PInv, Types
<1>12. HopInv'
  BY <1>3 DEF PInv, HopInv
<1>13. LockInv'
  <2>1. ASSUME NEW d \in Channel, NEW x \in Secret, Open(d)', x \in chans'[d].locked \cup chans'[d].theirs
        PROVE  HasAttempt(x)' /\ tasks'[x].attempts[x].channel = d
    <3>1. HasAttempt(x) /\ tasks[x].attempts[x].channel = d
      <4>1. Open(d) /\ x \in chans[d].locked \cup chans[d].theirs
        BY Zenon, <1>3, <2>1 DEF Open
      <4> QED
        BY Zenon, <4>1, LockHasAttempt
    <3>2. x # s
      <4>1. s \notin chans[d].theirs
        BY Zenon, <1>5 DEF PInv, HopInv
      <4> QED
        BY Zenon, <1>3, <2>1, <3>1, <4>1
    <3> QED
      BY <1>1, <3>1, <3>2 DEF HasAttempt
  <2>2. ASSUME NEW x \in Secret, HasAttempt(x)'
        PROVE  HasAttempt(x) /\ x # s /\ tasks'[x] = tasks[x] /\ tasks[x].attempts[x].channel \in Channel
    <3>1. x # s /\ HasAttempt(x) /\ tasks'[x] = tasks[x]
      BY Zenon, <1>1, <2>2 DEF HasAttempt, Shrinks
    <3> QED
      BY Zenon, <3>1, TaskFields DEF HasAttempt, PInv, Types
  <2>3. ASSUME NEW x \in Secret, HasAttempt(x)', NEW d \in Channel, d = tasks'[x].attempts[x].channel
        PROVE  /\ tasks'[x].attempts[x].state # "cancelled"
               /\ chans'[d].status # "gone" =>
                    x \in chans'[d].locked \cup chans'[d].unlocked \/ hop'[x] \in Refunding
    <3>1. d = tasks[x].attempts[x].channel
      BY Zenon, <2>2, <2>3
    <3>2. /\ tasks[x].attempts[x].state # "cancelled"
          /\ chans[d].status # "gone" => x \in chans[d].locked \cup chans[d].unlocked \/ hop[x] \in Refunding
      BY Zenon, <2>2, <2>3, <3>1 DEF PInv, LockInv, Exists
    <3> QED
      BY Zenon, <1>3, <2>2, <2>3, <3>2
  <2>4. LocksHaveTasks' /\ AssertionsHold'
    BY Zenon, <2>1 DEF PInv, LockInv, LocksHaveTasks, AssertionsHold, Open
  <2>5. \A x \in Secret : HasAttempt(x)' => tasks'[x].attempts[x].channel \in Channel
    BY <2>2
  <2> QED
    BY Zenon, <2>3, <2>4, <2>5 DEF LockInv, Exists
<1>14. PaidInv'
  <2>1. \A q \in Payment, x \in Secret : Live(x, q)' => Live(x, q) /\ x # s
    BY Zenon, <1>1, <1>4, ShrinkLive DEF PInv, Types, Live
  <2>2. \A x \in Secret : ~Live(x, p)'
    BY <1>6, <2>1 DEF PInv, PaidInv
  <2>3. ASSUME NEW q \in Payment, q \in starting' \/ q > calls'
        PROVE  paid'[q] = {} /\ \A t \in DOMAIN tasks' : tasks'[t].payment # q
    BY <1>1, <1>7, <1>9, <2>3 DEF PInv, PaidInv, Shrinks
  <2>4. PaidInv
    BY Zenon DEF PInv
  <2>5. ASSUME NEW q \in Payment
        PROVE  /\ \A y, x \in Secret : Live(y, q)' /\ Live(x, q)' => y = x
               /\ paid'[q] # {} => \A x \in Secret : ~Live(x, q)'
               /\ paid'[q] = {} \/ \E x \in Secret : paid'[q] = {x}
    <3>1. \A y, x \in Secret : Live(y, q)' /\ Live(x, q)' => y = x
      BY Zenon, <2>1, <2>4 DEF PaidInv
    <3>2. CASE q = p
      BY Zenon, <1>9, <2>2, <3>1, <3>2
    <3>3. CASE q # p
      BY Zenon, <1>9, <2>1, <2>4, <3>1, <3>3 DEF PaidInv
    <3> QED
      BY Zenon, <3>2, <3>3
  <2> QED
    BY Zenon, <2>3, <2>5 DEF PaidInv
<1>15. AnswerInv'
  <2>1. \A q \in Payment : paid[q] # {} => paid'[q] # {}
    BY Zenon, <1>9
  <2>2. SuccessMeansPaid'
    BY Zenon, <2>1 DEF PInv, AnswerInv, SuccessMeansPaid, Identifier
  <2>3. ASSUME NEW e \in events', e.kind = "success" PROVE paid'[e.payment] # {}
    <3>1. CASE e \in events
      BY Zenon, <2>1, <2>3, <3>1, EventFields DEF PInv, AnswerInv, Types
    <3>2. CASE e = Event("success", p, s, s)
      BY <1>9, <3>2 DEF Event
    <3> QED
      BY Zenon, <1>2, <3>1, <3>2
  <2> QED
    BY Zenon, <2>2, <2>3 DEF PInv, AnswerInv, Identifier
<1>16. (NoRefund' <=> NoRefund) /\ (AllOpen' <=> AllOpen)
  BY Zenon, <1>3 DEF NoRefund, AllOpen, Open
<1>17. FailInv'
  <2>1. \A q \in Payment : Over(q) => q # p
    BY DEF Over, HasAttempt
  <2>2. \A q \in Payment : Over(q) => Over(q)'
    BY Zenon, <1>4, <1>9, <2>1, ShrinkOver DEF PInv, Types
  <2>3. \A e \in events' : e.kind = "failed" => e \in events
    BY <1>2 DEF Event
  <2> QED
    BY Zenon, <1>1, <1>16, <2>2, <2>3, FailStep DEF PInv, Types
<1>18. TurnInv'
  <2>1. \A q \in Payment : Busy(q)' => Busy(q)
    BY Zenon, <1>1 DEF Busy, Shrinks
  <2>2. Busy(p)
    BY DEF Busy, HasAttempt
  <2>3. ASSUME NoRefund PROVE ~Busy(p)'
    <3>1. DOMAIN tasks[s].attempts = {s} /\ \A t \in DOMAIN tasks : tasks[t].payment = p => t = s
      BY <2>3 DEF PInv, FailInv, HasAttempt
    <3>2. s \notin DOMAIN tasks'
      <4>1. SUFFICES ASSUME s \in DOMAIN tasks' PROVE FALSE
        OBVIOUS
      <4>2. DOMAIN tasks'[s].attempts \subseteq {s} /\ s \notin DOMAIN tasks'[s].attempts
        BY <1>1, <3>1, <4>1 DEF Shrinks, HasAttempt
      <4>3. DOMAIN tasks'[s].attempts # {}
        BY <1>1, <4>1 DEF TasksOK, IsTask
      <4> QED
        BY <4>2, <4>3
    <3> QED
      BY <1>1, <1>7, <3>1, <3>2 DEF Busy, Shrinks
  <2> PICK E : E = {Event("success", p, s, s)}
    BY Zenon
  <2>4. \A e \in E : e.payment = p
    <3>1. Event("success", p, s, s).payment = p
      BY ONLY DEF Event
    <3> QED
      BY Zenon, <3>1
  <2>5. (NoRefund /\ AllOpen)' =>
             /\ \A e \in E : e.payment \in Payment /\ Busy(e.payment) /\ ~Busy(e.payment)'
             /\ \A e, f \in E : e.payment = f.payment => e = f
    BY Zenon, <1>16, <2>2, <2>3, <2>4
  <2>6. events' \subseteq events \cup E
    BY Zenon, <1>2
  <2> QED
    BY Zenon, <1>16, <2>1, <2>5, <2>6, TurnStep DEF PInv, Types
<1> QED
  BY <1>10, <1>11, <1>12, <1>13, <1>14, <1>15, <1>17, <1>18 DEF PInv

(* handle_offchain_secretreveal. *)
LEMMA ReceiveSecretRevealKeeps ==
    ASSUME PInv, NEW s \in Secret, ReceiveSecretReveal(s)
    PROVE  PInv'
<1>1. s \in known /\ HasAttempt(s)
  BY Zenon DEF ReceiveSecretReveal
<1>2. tasks[s].attempts[s].state # "cancelled"
  BY <1>1 DEF PInv, LockInv
<1>3. UnlockPayment(s) /\ Open(tasks[s].attempts[s].channel) /\ failure' = failure
  BY <1>2 DEF ReceiveSecretReveal
<1>4. /\ UNCHANGED <<drawn, refunds, hop, known, inst>>
      /\ UNCHANGED <<statuses, result, starting, calls>>
  BY Zenon DEF ReceiveSecretReveal, envvars, fixed
<1> QED
  BY Zenon, <1>1, <1>3, <1>4, UnlockStep

(* handle_onchain_secretreveal: a lock that is not unlocked at once is     *)
(* registered by the channel.                                              *)
LEMMA ContractReceiveSecretRevealKeeps ==
    ASSUME PInv, NEW s \in Secret, ContractReceiveSecretReveal(s)
    PROVE  PInv'
<1>1. /\ UNCHANGED <<drawn, refunds, hop, known, inst>>
      /\ UNCHANGED <<statuses, result, starting, calls>> /\ s \in known
  BY Zenon DEF ContractReceiveSecretReveal, fixed
<1>2. HasAttempt(s) => tasks[s].attempts[s].state # "cancelled"
  BY DEF PInv, LockInv
<1>3. failure' = failure
  BY Zenon, <1>2 DEF ContractReceiveSecretReveal
<1>4. chans \in [Channel -> ChannelRecord]
  BY DEF PInv, Types, NodeOK
<1>5. CASE ~HasAttempt(s)
  <2>1. UNCHANGED <<chans, paid, events, tasks>>
    BY <1>5 DEF ContractReceiveSecretReveal
  <2> QED
    BY Zenon, <1>1, <1>3, <1>4, <2>1, ChannelStep DEF payvars
<1>6. CASE HasAttempt(s)
  <2> PICK c \in Channel : c = tasks[s].attempts[s].channel
    BY <1>6, TaskFields DEF HasAttempt, PInv, Types
  <2>1. CASE UnlockPayment(s) /\ Open(c)
    BY Zenon, <1>1, <1>3, <1>6, <2>1, UnlockStep
  <2>2. CASE ~(UnlockPayment(s) /\ Open(c))
    <3>1. /\ \/ chans' = chans
             \/ /\ chans' = [chans EXCEPT ![c].locked = @ \ {s}, ![c].unlocked = @ \cup {s}]
                /\ s \in chans[c].locked
          /\ UNCHANGED <<paid, events, tasks>>
      BY Zenon, <1>2, <1>6, <2>2 DEF ContractReceiveSecretReveal
    <3>2. /\ chans' \in [Channel -> ChannelRecord]
          /\ \A d \in Channel :
             /\ chans'[d].locked \subseteq chans[d].locked
             /\ chans'[d].locked \cup chans'[d].unlocked = chans[d].locked \cup chans[d].unlocked
             /\ chans'[d].taken = chans[d].taken /\ chans'[d].theirs \subseteq chans[d].theirs
             /\ chans'[d].status = "opened" => chans[d].status = "opened"
             /\ chans'[d].status # "gone" => chans[d].status # "gone"
      <4>1. CASE chans' = chans
        BY <1>4, <4>1
      <4>2. CASE chans' # chans
        <5> PICK l \in SUBSET Secret, u \in SUBSET Secret :
                 l = chans[c].locked \ {s} /\ u = chans[c].unlocked \cup {s}
          BY Zenon, <1>4 DEF ChannelRecord
        <5>1. chans' = SetLocks(chans, c, l, u)
          BY Zenon, <3>1, <4>2 DEF SetLocks
        <5>2. /\ chans' \in [Channel -> ChannelRecord]
              /\ \A d \in Channel : d # c => chans'[d] = chans[d]
              /\ chans'[c].locked = l /\ chans'[c].unlocked = u
              /\ chans'[c].theirs = chans[c].theirs /\ chans'[c].taken = chans[c].taken
              /\ chans'[c].status = chans[c].status
          BY ONLY <1>4, <5>1, LocksUpdate, c \in Channel, l \in SUBSET Secret, u \in SUBSET Secret
        <5>3. s \in chans[c].locked
          BY Zenon, <3>1, <4>2
        <5> QED
          BY Zenon, <1>4, <5>2, <5>3
      <4> QED
        BY <4>1, <4>2
    <3> QED
      BY Zenon, <1>1, <1>3, <3>1, <3>2, ChannelStep DEF payvars
  <2> QED
    BY <2>1, <2>2
<1> QED
  BY <1>5, <1>6
-----------------------------------------------------------------------------
(* handle_secretrequest: the lock is there, and the target learns only the *)
(* secret of a transfer that was forwarded.                                *)
LEMMA ReceiveSecretRequestKeeps ==
    ASSUME PInv, NEW s \in Secret, NEW valid \in BOOLEAN, ReceiveSecretRequest(s, valid)
    PROVE  PInv'
<1> PICK a \in AttemptState : a = tasks[s].attempts[s]
  BY Zenon, TaskFields DEF ReceiveSecretRequest, HasAttempt, PInv, Types
<1> PICK c \in Channel : c = a.channel
  BY DEF AttemptState
<1>1. /\ hop[s] = "forwarded" /\ HasAttempt(s) /\ a.state # "cancelled" /\ Exists(c)
      /\ UNCHANGED <<chans, drawn, refunds, paid, hop, inst>>
      /\ UNCHANGED <<statuses, result, starting, events, calls>>
  BY Zenon DEF ReceiveSecretRequest, payvars, fixed
<1>2. s \in chans[c].locked \cup chans[c].unlocked
  BY Zenon, <1>1 DEF PInv, LockInv, Refunding
<1> PICK b : b = [a EXCEPT !.requested = TRUE, !.state = IF valid THEN "revealed" ELSE @]
  OBVIOUS
<1>3. /\ failure' = failure /\ tasks' = [tasks EXCEPT ![s].attempts[s] = b]
      /\ known' = IF valid THEN known \cup {s} ELSE known
  BY Zenon, <1>2 DEF ReceiveSecretRequest
<1>4. b \in AttemptState /\ b.channel = c /\ b.state # "cancelled"
  <2>1. PICK d : d = [a EXCEPT !.requested = TRUE]
    BY Zenon
  <2>2. d \in AttemptState /\ d.channel = a.channel /\ d.state = a.state
    BY Zenon, <2>1 DEF AttemptState
  <2>3. b = [d EXCEPT !.state = IF valid THEN "revealed" ELSE a.state]
    BY Zenon, <2>1
  <2> QED
    BY ONLY <2>2, <2>3, <1>1, c = a.channel, valid \in BOOLEAN DEF AttemptState
<1>5. /\ TasksOK' /\ Shrinks(tasks, tasks') /\ DOMAIN tasks' = DOMAIN tasks
      /\ \A t \in DOMAIN tasks : DOMAIN tasks'[t].attempts = DOMAIN tasks[t].attempts
      /\ \A t \in DOMAIN tasks : t # s => tasks'[t] = tasks[t]
      /\ tasks'[s].attempts[s] = b
  BY Zenon, <1>1, <1>3, <1>4, RequestEffect DEF PInv, Types
<1>6. Types'
  BY <1>1, <1>3, <1>5 DEF PInv, Types, NodeOK, PaymentsOK
<1>7. ShrinkStep
  BY <1>1, <1>5 DEF ShrinkStep
<1>8. FreshInv'
  BY <1>1, <1>3, <1>7, ShrinkFresh DEF PInv, Types
<1>9. HopInv'
  BY <1>1, <1>3 DEF PInv, HopInv
<1>10. \A x \in Secret : HasAttempt(x)' <=> HasAttempt(x)
  BY <1>5 DEF HasAttempt
<1>11. \A x \in Secret : HasAttempt(x) =>
         /\ tasks'[x].attempts[x].channel = tasks[x].attempts[x].channel
         /\ tasks'[x].attempts[x].state # "cancelled"
  BY Zenon, <1>1, <1>4, <1>5 DEF PInv, LockInv, HasAttempt
<1>12. LockInv'
  BY Zenon, <1>1, <1>3, <1>10, <1>11 DEF PInv, LockInv, LocksHaveTasks, AssertionsHold, Open, Exists
<1>13. PaidInv'
  BY <1>1, <1>7, ShrinkPaid DEF PInv, Types
<1>14. AnswerInv'
  BY <1>1 DEF PInv, AnswerInv, SuccessMeansPaid, Identifier
<1>15. (NoRefund' <=> NoRefund) /\ (AllOpen' <=> AllOpen)
  BY <1>1 DEF NoRefund, AllOpen, Open
<1>16. FailInv'
  <2>1. \A q \in Payment : Over(q) => Over(q)'
    BY <1>1, <1>7, ShrinkOver DEF PInv, Types
  <2> QED
    BY <1>1, <1>5, <1>15, <2>1, FailStep DEF PInv, Types
<1>17. TurnInv'
  <2>1. \A q \in Payment : Busy(q)' => Busy(q)
    BY <1>1, <1>5 DEF Busy, Shrinks
  <2> QED
    BY <1>1, <1>15, <2>1, TurnSame DEF PInv, Types
<1> QED
  BY <1>6, <1>8, <1>9, <1>12, <1>13, <1>14, <1>16, <1>17 DEF PInv

(* handle_block: an attempt ends only when its lock is gone, and without   *)
(* refunds its failure ends the payment.                                   *)
LEMMA HandleBlockKeeps ==
    ASSUME PInv, HandleBlock
    PROVE  PInv'
<1> PICK E : E = {Event("failed", tasks[q[1]].payment, q[1], q[2]) :
                    q \in {x \in Secret \X Secret : Expires(x[1], x[2])}}
  BY Zenon
<1>1. /\ UNCHANGED <<drawn, refunds, paid, hop, known, inst>> /\ failure' = failure
      /\ UNCHANGED <<statuses, result, starting, calls>>
      /\ events' = events \cup E
      /\ chans' = [c \in Channel |-> [chans[c] EXCEPT !.locked = LocksAfterBlock(c)]]
  BY DEF HandleBlock, envvars, fixed
<1>2. chans \in [Channel -> ChannelRecord]
  BY DEF PInv, Types, NodeOK
<1>3. \A c \in Channel : LocksAfterBlock(c) \subseteq chans[c].locked
  BY DEF LocksAfterBlock
<1>4. ASSUME NEW c \in Channel
      PROVE  /\ chans'[c] \in ChannelRecord
             /\ chans'[c].taken = chans[c].taken /\ chans'[c].theirs = chans[c].theirs
             /\ chans'[c].status = chans[c].status /\ chans'[c].unlocked = chans[c].unlocked
             /\ chans'[c].locked = LocksAfterBlock(c)
  <2> PICK L : L = LocksAfterBlock(c)
    OBVIOUS
  <2>1. chans[c] \in ChannelRecord /\ L \subseteq chans[c].locked
    BY <1>2, <1>3
  <2>2. chans'[c] = [chans[c] EXCEPT !.locked = L]
    BY <1>1
  <2>3. /\ chans'[c] \in ChannelRecord
        /\ chans'[c].taken = chans[c].taken /\ chans'[c].theirs = chans[c].theirs
        /\ chans'[c].status = chans[c].status /\ chans'[c].unlocked = chans[c].unlocked
        /\ chans'[c].locked = L
    BY ONLY <2>1, <2>2 DEF ChannelRecord
  <2> QED
    BY <2>3
<1>5. chans' \in [Channel -> ChannelRecord]
  BY <1>1, <1>4
<1>6. /\ TasksOK' /\ Shrinks(tasks, tasks')
      /\ \A t \in DOMAIN tasks : \A s \in DOMAIN tasks[t].attempts :
           StaysAfterBlock(t, s) => t \in DOMAIN tasks' /\ s \in DOMAIN tasks'[t].attempts
      /\ \A t \in DOMAIN tasks' : \A s \in DOMAIN tasks'[t].attempts :
           /\ StaysAfterBlock(t, s)
           /\ tasks'[t].attempts[s].state \in {tasks[t].attempts[s].state, "expired"}
  BY Zenon, BlockEffect DEF PInv, Types
<1>7. ShrinkStep
  BY Zenon, <1>1, <1>3, <1>4, <1>6 DEF ShrinkStep
<1>8. ASSUME NEW e \in E
      PROVE  \E t \in Secret, s \in Secret :
               /\ Expires(t, s) /\ InTask(s, t) /\ e = Event("failed", tasks[t].payment, t, s)
               /\ e.payment = tasks[t].payment
  <2>1. PICK q \in {x \in Secret \X Secret : Expires(x[1], x[2])} :
          e = Event("failed", tasks[q[1]].payment, q[1], q[2])
    OBVIOUS
  <2>2. q[1] \in Secret /\ q[2] \in Secret /\ Expires(q[1], q[2])
    BY <2>1
  <2>3. e.payment = tasks[q[1]].payment
    BY <2>1 DEF Event
  <2>4. InTask(q[2], q[1])
    BY Zenon, <2>2 DEF Expires
  <2> QED
    BY <2>1, <2>2, <2>3, <2>4
<1>9. \A t \in DOMAIN tasks : tasks[t].payment \in Payment /\ tasks[t].payment \in 1 .. calls
  <2>1. \A p \in Payment : (\E t \in DOMAIN tasks : tasks[t].payment = p) => ~(p > calls)
    BY DEF PInv, PaidInv
  <2>2. \A p \in Payment : ~(p > calls) => p \in 1 .. calls
    BY DEF PInv, Types, PaymentsOK, Payment
  <2> QED
    BY <2>1, <2>2, TaskFields DEF PInv, Types
<1>10. Types'
  <2>1. NodeOK'
    BY Zenon, <1>1, <1>5 DEF PInv, Types, NodeOK
  <2>2. ASSUME NEW e \in E
        PROVE  e \in [kind : {"success", "failed"}, payment : 1 .. calls, task : Secret, attempt : Secret]
    <3>1. PICK t \in Secret, s \in Secret : InTask(s, t) /\ e = Event("failed", tasks[t].payment, t, s)
      BY <1>8
    <3>2. PICK p \in 1 .. calls : p = tasks[t].payment
      BY <1>9, <3>1 DEF InTask
    <3> QED
      BY <3>1, <3>2 DEF Event
  <2>3. PaymentsOK'
    BY <1>1, <2>2 DEF PInv, Types, PaymentsOK
  <2> QED
    BY <1>6, <2>1, <2>3 DEF Types
<1>11. FreshInv'
  BY <1>1, <1>7, ShrinkFresh DEF PInv, Types
<1>12. HopInv'
  BY <1>1, <1>4 DEF PInv, HopInv
<1>13. LockInv'
  <2>1. ASSUME NEW d \in Channel, NEW x \in Secret, Open(d)', x \in chans'[d].locked \cup chans'[d].theirs
        PROVE  HasAttempt(x)' /\ tasks'[x].attempts[x].channel = d
    <3>1. x \in LocksAfterBlock(d) \cup chans[d].theirs /\ Open(d)
      BY Zenon, <1>4, <2>1 DEF Open
    <3>2. HasAttempt(x) /\ tasks[x].attempts[x].channel = d
      BY Zenon, <1>3, <3>1 DEF PInv, LockInv, LocksHaveTasks
    <3>3. StaysAfterBlock(x, x)
      BY Zenon, <3>1, <3>2 DEF StaysAfterBlock
    <3> QED
      BY Zenon, <1>6, <3>2, <3>3 DEF HasAttempt, Shrinks
  <2>2. ASSUME NEW x \in Secret, HasAttempt(x)'
        PROVE  /\ HasAttempt(x) /\ tasks'[x].attempts[x].channel = tasks[x].attempts[x].channel
               /\ tasks[x].attempts[x].channel \in Channel
    <3>1. HasAttempt(x) /\ tasks'[x].attempts[x].channel = tasks[x].attempts[x].channel
      BY Zenon, <1>6, <2>2 DEF HasAttempt, Shrinks
    <3> QED
      BY <3>1, TaskFields DEF HasAttempt, PInv, Types
  <2>3. ASSUME NEW x \in Secret, HasAttempt(x)', NEW d \in Channel, d = tasks'[x].attempts[x].channel
        PROVE  /\ tasks'[x].attempts[x].state # "cancelled"
               /\ chans'[d].status # "gone" =>
                    x \in chans'[d].locked \cup chans'[d].unlocked \/ hop'[x] \in Refunding
    <3>1. d = tasks[x].attempts[x].channel /\ tasks[x].attempts[x].state # "cancelled"
      BY Zenon, <2>2, <2>3 DEF PInv, LockInv
    <3>2. /\ StaysAfterBlock(x, x)
          /\ tasks'[x].attempts[x].state \in {tasks[x].attempts[x].state, "expired"}
      BY <1>6, <2>3 DEF HasAttempt
    <3>3. ~Exists(d) \/ x \in LocksAfterBlock(d) \/ hop[x] \in Refunding
      BY Zenon, <3>1, <3>2 DEF StaysAfterBlock, PInv, HopInv
    <3> QED
      BY <1>1, <1>4, <3>1, <3>2, <3>3 DEF Exists
  <2>4. LocksHaveTasks' /\ AssertionsHold'
    BY Zenon, <1>1, <2>1 DEF PInv, LockInv, LocksHaveTasks, AssertionsHold, Open
  <2>5. \A x \in Secret : HasAttempt(x)' => tasks'[x].attempts[x].channel \in Channel
    BY <2>2
  <2> QED
    BY Zenon, <2>3, <2>4, <2>5 DEF LockInv, Exists
<1>14. PaidInv'
  BY <1>1, <1>7, ShrinkPaid DEF PInv, Types
<1>15. AnswerInv'
  <2>1. \A e \in E : e.kind = "failed"
    BY <1>8 DEF Event
  <2> QED
    BY <1>1, <2>1 DEF PInv, AnswerInv, SuccessMeansPaid, Identifier
<1>16. (NoRefund' <=> NoRefund) /\ (AllOpen' <=> AllOpen)
  BY Zenon, <1>1, <1>4 DEF NoRefund, AllOpen, Open
(* Without refunds an attempt that expires in an open channel was the only *)
(* one of its payment.                                                     *)
<1>17. ASSUME NoRefund, NEW t \in Secret, NEW s \in Secret, Expires(t, s)
       PROVE  /\ t \in DOMAIN tasks /\ s = t /\ DOMAIN tasks[t].attempts = {t}
              /\ \A u \in DOMAIN tasks : tasks[u].payment = tasks[t].payment => u = t
              /\ tasks[t].attempts[t].channel \in Channel
              /\ Open(tasks[t].attempts[t].channel) => t \notin DOMAIN tasks'
              /\ Live(t, tasks[t].payment)
  <2>1. InTask(s, t)
    BY Zenon, <1>17 DEF Expires
  <2>2. /\ t \in DOMAIN tasks /\ s = t /\ DOMAIN tasks[t].attempts = {t}
        /\ \A u \in DOMAIN tasks : tasks[u].payment = tasks[t].payment => u = t
    <3>1. t \in DOMAIN tasks /\ s \in DOMAIN tasks[t].attempts
      BY Zenon, <2>1 DEF InTask
    <3>2. /\ \A x \in DOMAIN tasks : DOMAIN tasks[x].attempts = {x}
          /\ \A x, u \in DOMAIN tasks : tasks[x].payment = tasks[u].payment => x = u
      BY Zenon, <1>17 DEF PInv, FailInv
    <3>3. DOMAIN tasks[t].attempts = {t}
      BY Zenon, <3>1, <3>2
    <3> QED
      BY Zenon, <3>1, <3>2, <3>3
  <2>3. PICK c \in Channel : c = tasks[t].attempts[t].channel
    BY <2>2, TaskFields DEF PInv, Types
  <2>4. t \notin chans[c].taken /\ t \notin chans[c].theirs
    BY <1>17 DEF PInv, HopInv, NoRefund
  <2>5. ASSUME Open(c) PROVE t \notin DOMAIN tasks'
    <3>1. t \notin LocksAfterBlock(c)
      BY <1>17, <2>2, <2>5 DEF LocksAfterBlock
    <3>2. ~StaysAfterBlock(t, t)
      BY <2>3, <2>4, <2>5, <3>1 DEF StaysAfterBlock, Open, Exists
    <3>3. SUFFICES ASSUME t \in DOMAIN tasks' PROVE FALSE
      OBVIOUS
    <3>4. DOMAIN tasks'[t].attempts \subseteq {t} /\ t \notin DOMAIN tasks'[t].attempts
      BY <1>6, <2>2, <3>2, <3>3 DEF Shrinks
    <3>5. DOMAIN tasks'[t].attempts # {}
      BY <1>6, <3>3 DEF TasksOK, IsTask
    <3> QED
      BY <3>4, <3>5
  <2> QED
    BY <2>2, <2>3, <2>4, <2>5 DEF Live, HasAttempt
<1>18. ASSUME NoRefund, NEW e \in E PROVE e.payment \in Payment /\ Over(e.payment)'
  <2>1. PICK t \in Secret, s \in Secret : Expires(t, s) /\ e.payment = tasks[t].payment
    BY <1>8
  <2>2. PICK p \in Payment : p = tasks[t].payment
    BY <1>9, <1>17, <1>18, <2>1
  <2>3. PICK c \in Channel : c = tasks[t].attempts[t].channel
    BY <1>17, <1>18, <2>1
  <2>4. paid'[p] = {} /\ p \notin starting'
    BY <1>1, <1>17, <1>18, <2>1, <2>2 DEF PInv, PaidInv
  <2>5. ASSUME NEW u \in DOMAIN tasks', tasks'[u].payment = p, NEW x \in DOMAIN tasks'[u].attempts
        PROVE  chans'[tasks'[u].attempts[x].channel].status # "opened"
    <3>1. u \in DOMAIN tasks /\ tasks[u].payment = p /\ x \in DOMAIN tasks[u].attempts
          /\ tasks'[u].attempts[x].channel = tasks[u].attempts[x].channel
      BY <1>6, <2>5 DEF Shrinks
    <3>2. u = t /\ x = t /\ ~Open(c)
      BY <1>17, <1>18, <2>1, <2>2, <2>3, <2>5, <3>1
    <3> QED
      BY <1>4, <2>3, <3>1, <3>2 DEF Open
  <2> QED
    BY Zenon, <2>1, <2>2, <2>4, <2>5 DEF Over, Open
<1>19. FailInv'
  <2>1. \A q \in Payment : Over(q) => Over(q)'
    BY <1>1, <1>7, ShrinkOver DEF PInv, Types
  <2>2. \A e \in events' : NoRefund' /\ e.kind = "failed" =>
                e \in events \/ (e.payment \in Payment /\ Over(e.payment)')
    BY <1>1, <1>16, <1>18
  <2> QED
    BY <1>1, <1>6, <1>16, <2>1, <2>2, FailStep DEF PInv, Types
<1>20. TurnInv'
  <2>1. \A q \in Payment : Busy(q)' => Busy(q)
    BY <1>1, <1>6 DEF Busy, Shrinks
  <2>2. ASSUME NoRefund, AllOpen, NEW e \in E
        PROVE  e.payment \in Payment /\ Busy(e.payment) /\ ~Busy(e.payment)'
    <3>1. PICK t \in Secret, s \in Secret : Expires(t, s) /\ e.payment = tasks[t].payment
      BY <1>8
    <3>2. PICK p \in Payment : p = tasks[t].payment
      BY <1>18, <2>2, <3>1
    <3>3. /\ t \in DOMAIN tasks /\ t \notin DOMAIN tasks'
          /\ \A u \in DOMAIN tasks : tasks[u].payment = p => u = t
      BY Zenon, <1>17, <2>2, <3>1, <3>2 DEF AllOpen
    <3>4. p \notin starting'
      BY Zenon, <1>18, <2>2, <3>1, <3>2 DEF Over
    <3> QED
      BY Zenon, <1>6, <3>1, <3>2, <3>3, <3>4 DEF Busy, Shrinks
  <2>3. ASSUME NoRefund, NEW e \in E, NEW f \in E, e.payment = f.payment PROVE e = f
    <3>1. PICK t \in Secret, s \in Secret :
            Expires(t, s) /\ e.payment = tasks[t].payment /\ e = Event("failed", tasks[t].payment, t, s)
      BY <1>8
    <3>2. PICK u \in Secret, x \in Secret :
            Expires(u, x) /\ f.payment = tasks[u].payment /\ f = Event("failed", tasks[u].payment, u, x)
      BY <1>8
    <3>3. t = u /\ s = t /\ x = u
      BY Zenon, <1>17, <2>3, <3>1, <3>2
    <3> QED
      BY <3>1, <3>2, <3>3
  <2>4. (NoRefund /\ AllOpen)' =>
             /\ \A e \in E : e.payment \in Payment /\ Busy(e.payment) /\ ~Busy(e.payment)'
             /\ \A e, f \in E : e.payment = f.payment => e = f
    BY <1>16, <2>2, <2>3
  <2>5. events' \subseteq events \cup E
    BY <1>1
  <2> QED
    BY Zenon, <1>1, <1>16, <2>1, <2>4, <2>5, TurnStep DEF PInv, Types
<1> QED
  BY <1>10, <1>11, <1>12, <1>13, <1>14, <1>15, <1>19, <1>20 DEF PInv
-----------------------------------------------------------------------------
(* handle_init: a new task whose secret was in nothing before. *)
LEMMA ActionInitInitiatorKeeps ==
    ASSUME PInv, LeastExists, NEW p \in Payment, ActionInitInitiator(p)
    PROVE  PInv'
<1>1. /\ UNCHANGED <<refunds, paid, known, inst, failure>> /\ UNCHANGED <<statuses, result, calls>>
      /\ p \in starting /\ starting' = starting \ {p} /\ drawn' = drawn + 1
      /\ drawn < inst.secrets
  BY DEF ActionInitInitiator, fixed
<1>2. /\ drawn \in Nat /\ drawn + 1 \in Secret /\ drawn' \in 0 .. MaxSecrets
      /\ p \in 1 .. calls /\ ~(p > calls)
  BY <1>1, ConstantsAssumption DEF PInv, Types, NodeOK, PaymentsOK, Secret
<1> PICK s \in Secret : s = drawn + 1
  BY <1>2
<1>3. \A n \in Secret : (n > drawn' => n > drawn) /\ (n <= drawn => n <= drawn')
  BY <1>1, <1>2 DEF Secret
<1>4. paid[p] = {} /\ \A t \in DOMAIN tasks : tasks[t].payment # p
  BY <1>1 DEF PInv, PaidInv
<1>5. Unused(s)
  <2>1. s > drawn
    BY <1>2
  <2> QED
    BY <2>1 DEF PInv, FreshInv, Reserved
<1> PICK c : c = TryNewRoute(Channel)
  OBVIOUS
<1>6. CASE c = 0
  <2>1. /\ events' = events \cup {Event("failed", p, s, s)}
        /\ UNCHANGED <<tasks, chans, expiry, hop>>
    BY <1>6 DEF ActionInitInitiator
  <2>2. Types'
    <3>1. TasksOK'
      BY <2>1 DEF PInv, Types, TasksOK
    <3>2. NodeOK'
      BY <1>1, <1>2, <2>1 DEF PInv, Types, NodeOK
    <3>3. Event("failed", p, s, s) \in
            [kind : {"success", "failed"}, payment : 1 .. calls, task : Secret, attempt : Secret]
      BY <1>2 DEF Event
    <3>4. PaymentsOK'
      BY <1>1, <2>1, <3>3 DEF PInv, Types, PaymentsOK
    <3> QED
      BY <3>1, <3>2, <3>4 DEF Types
  <2>3. ShrinkStep
    BY <1>1, <2>1 DEF ShrinkStep, Shrinks
  <2>4. FreshInv'
    BY <1>1, <2>1, <2>3, ShrinkFresh DEF PInv, Types
  <2>5. HopInv' /\ LockInv'
    BY Zenon, <1>1, <2>1 DEF PInv, HopInv, LockInv, LocksHaveTasks, AssertionsHold, HasAttempt, Open, Exists
  <2>6. PaidInv'
    BY <1>1, <2>3, ShrinkPaid DEF PInv, Types
  <2>7. Event("failed", p, s, s).kind = "failed" /\ Event("failed", p, s, s).payment = p
    BY DEF Event
  <2>8. AnswerInv'
    BY Zenon, <1>1, <2>1, <2>7 DEF PInv, AnswerInv, SuccessMeansPaid, Identifier
  <2>9. (NoRefund' <=> NoRefund) /\ (AllOpen' <=> AllOpen)
    BY Zenon, <2>1 DEF NoRefund, AllOpen, Open
  <2>10. Over(p)'
    BY Zenon, <1>1, <1>4, <2>1 DEF Over
  <2>11. FailInv'
    <3>1. \A q \in Payment : Over(q) => Over(q)'
      BY <1>1, <2>3, ShrinkOver DEF PInv, Types
    <3>2. Shrinks(tasks, tasks') /\ TasksOK'
      BY Zenon, <2>2, <2>3 DEF ShrinkStep, Types
    <3>3. \A e \in events' : e \in events \/ (e.payment \in Payment /\ Over(e.payment)')
      BY <2>1, <2>7, <2>10
    <3> QED
      BY Zenon, <1>1, <2>9, <3>1, <3>2, <3>3, FailStep DEF PInv, Types
  <2>12. TurnInv'
    <3>1. \A q \in Payment : Busy(q)' => Busy(q)
      BY <1>1, <2>1 DEF Busy
    <3>2. Busy(p) /\ ~Busy(p)'
      BY <1>1, <1>4, <2>1 DEF Busy
    <3> PICK E : E = {Event("failed", p, s, s)}
      BY Zenon
    <3>3. (NoRefund /\ AllOpen)' =>
             /\ \A e \in E : e.payment \in Payment /\ Busy(e.payment) /\ ~Busy(e.payment)'
             /\ \A e, f \in E : e.payment = f.payment => e = f
      BY <2>7, <3>2
    <3>4. events' \subseteq events \cup E
      BY <2>1
    <3> QED
      BY Zenon, <1>1, <2>9, <3>1, <3>3, <3>4, TurnStep DEF PInv, Types
  <2> QED
    BY <2>2, <2>4, <2>5, <2>6, <2>8, <2>11, <2>12 DEF PInv
<1>7. CASE c # 0
  <2>1. c \in Channel
    BY <1>7, RouteIsCandidate
  <2> PICK new : new = Task(p, [x \in {s} |-> Attempt(c)])
    OBVIOUS
  <2>2. /\ tasks' = With(tasks, s, new) /\ events' = events
        /\ chans' = [chans EXCEPT ![c].locked = @ \cup {s}]
        /\ hop' = [hop EXCEPT ![s] = "has"]
    BY <1>7 DEF ActionInitInitiator, SendLockedTransfer
  <2>3. /\ IsTask(new) /\ new.payment = p /\ DOMAIN new.attempts = {s}
        /\ new.attempts[s].channel = c /\ new.attempts[s].state = "pending"
    BY <2>1 DEF IsTask, Task, Attempt, AttemptState
  <2>4. /\ DOMAIN tasks' = DOMAIN tasks \cup {s} /\ tasks'[s] = new
        /\ s \notin DOMAIN tasks
        /\ \A t \in DOMAIN tasks : t # s /\ tasks'[t] = tasks[t] /\ s \notin DOMAIN tasks[t].attempts
        /\ tasks' = [t \in DOMAIN tasks' |-> tasks'[t]]
    BY <1>5, <2>2 DEF With, Unused
  <2>5. /\ chans \in [Channel -> ChannelRecord]
        /\ hop \in [Secret -> {"none", "has", "forwarded", "refunding", "refunded"}]
    BY DEF PInv, Types, NodeOK
  <2>6. /\ chans' \in [Channel -> ChannelRecord]
        /\ \A d \in Channel :
             /\ chans'[d].unlocked = chans[d].unlocked /\ chans'[d].theirs = chans[d].theirs
             /\ chans'[d].taken = chans[d].taken /\ chans'[d].status = chans[d].status
             /\ \A x \in Secret : x # s => (x \in chans'[d].locked <=> x \in chans[d].locked)
             /\ d # c => chans'[d].locked = chans[d].locked
        /\ s \in chans'[c].locked
    BY <2>1, <2>2, <2>5 DEF ChannelRecord
  <2>7. /\ hop' \in [Secret -> {"none", "has", "forwarded", "refunding", "refunded"}]
        /\ hop'[s] = "has" /\ hop[s] = "none" /\ \A x \in Secret : x # s => hop'[x] = hop[x]
    BY <1>5, <2>2, <2>5 DEF Unused
  <2>8. /\ s \notin known
        /\ \A d \in Channel : s \notin chans[d].taken /\ s \notin chans[d].theirs /\ s \notin chans[d].locked
    BY <1>5 DEF Unused, PInv, HopInv
  <2>9. Types'
    <3>1. TasksOK'
      BY <2>3, <2>4 DEF PInv, Types, TasksOK
    <3>2. NodeOK'
      BY <1>1, <1>2, <2>6, <2>7 DEF PInv, Types, NodeOK
    <3>3. PaymentsOK'
      BY <1>1, <2>2 DEF PInv, Types, PaymentsOK
    <3> QED
      BY <3>1, <3>2, <3>3 DEF Types
  <2>10. FreshInv'
    <3>1. \A k \in DOMAIN refunds :
            /\ refunds[k].secret \in Secret /\ refunds[k].refunded \in Secret
            /\ refunds[k].secret <= drawn /\ hop[refunds[k].refunded] = "refunded"
      BY Zenon, RefundFields DEF PInv, Types, FreshInv
    <3>2. ~(s <= drawn) /\ ~(s > drawn')
      BY <1>1, <1>2
    <3>3. ASSUME NEW n \in Secret, Reserved(n)' PROVE Reserved(n) /\ n # s
      BY <1>1, <1>3, <3>1, <3>2, <3>3 DEF Reserved
    <3>4. ASSUME NEW n \in Secret, Unused(n), n # s PROVE Unused(n)'
      BY <1>1, <2>3, <2>4, <2>6, <2>7, <3>4 DEF Unused
    <3>5. \A k \in DOMAIN refunds' :
            refunds'[k].secret <= drawn' /\ hop'[refunds'[k].refunded] = "refunded"
      BY Zenon, <1>1, <1>3, <2>7, <3>1
    <3>6. \A n \in Secret : Reserved(n)' => Unused(n)'
      BY Zenon, <3>3, <3>4 DEF PInv, FreshInv
    <3> QED
      BY Zenon, <1>1, <3>5, <3>6 DEF PInv, FreshInv
  <2>11. HopInv'
    <3>1. known \subseteq Secret /\ \A d \in Channel : chans[d].taken \subseteq Secret
      BY DEF PInv, Types, NodeOK, ChannelRecord
    <3> QED
      <4>1. \A x \in known : hop[x] = "forwarded" /\ x # s /\ x \in Secret
        BY Zenon, <2>8, <3>1 DEF PInv, HopInv
      <4>2. ASSUME NEW d \in Channel
            PROVE  /\ chans[d].theirs \subseteq chans[d].taken
                   /\ \A x \in chans[d].taken : hop[x] \in Refunding /\ x # s /\ x \in Secret
        BY Zenon, <2>8, <3>1 DEF PInv, HopInv
      <4>3. \A x \in known' : hop'[x] = "forwarded"
        BY Zenon, <1>1, <2>7, <4>1
      <4>4. ASSUME NEW d \in Channel
            PROVE  /\ chans'[d].theirs \subseteq chans'[d].taken
                   /\ \A x \in chans'[d].taken : hop'[x] \in Refunding
        <5>1. chans'[d].theirs = chans[d].theirs /\ chans'[d].taken = chans[d].taken
          BY Zenon, <2>6
        <5>2. \A x \in chans[d].taken : hop'[x] = hop[x]
          BY Zenon, <2>7, <4>2
        <5> QED
          BY Zenon, <4>2, <5>1, <5>2
      <4> QED
        BY Zenon, <4>3, <4>4 DEF HopInv
  <2>12. \A x \in Secret : x # s => (HasAttempt(x)' <=> HasAttempt(x))
    BY <2>4 DEF HasAttempt
  <2>13. \A x \in Secret : x # s /\ HasAttempt(x) =>
           tasks'[x] = tasks[x] /\ tasks[x].attempts[x].channel \in Channel
    BY <2>4, TaskFields DEF HasAttempt, PInv, Types
  <2>14. HasAttempt(s)'
    BY <2>3, <2>4 DEF HasAttempt
  <2>15. LockInv'
    <3>1. ASSUME NEW d \in Channel, NEW x \in Secret, Open(d)', x \in chans'[d].locked \cup chans'[d].theirs
          PROVE  HasAttempt(x)' /\ tasks'[x].attempts[x].channel = d
      <4>1. CASE x = s
        <5>1. d = c
          BY <2>6, <2>8, <3>1, <4>1
        <5> QED
          BY <2>3, <2>4, <2>14, <4>1, <5>1
      <4>2. CASE x # s
        <5>0. Open(d) /\ x \in chans[d].locked \cup chans[d].theirs /\ LocksHaveTasks
          BY Zenon, <2>6, <3>1, <4>2 DEF PInv, LockInv, Open
        <5>1. HasAttempt(x) /\ tasks[x].attempts[x].channel = d
          BY Zenon, <5>0 DEF LocksHaveTasks
        <5> QED
          BY <2>12, <2>13, <4>2, <5>1
      <4> QED
        BY <4>1, <4>2
    <3>2. ASSUME NEW x \in Secret, HasAttempt(x)', NEW d \in Channel, d = tasks'[x].attempts[x].channel
          PROVE  /\ tasks'[x].attempts[x].state # "cancelled"
                 /\ chans'[d].status # "gone" =>
                      x \in chans'[d].locked \cup chans'[d].unlocked \/ hop'[x] \in Refunding
      <4>1. CASE x = s
        BY Zenon, <2>3, <2>4, <2>6, <3>2, <4>1
      <4>2. CASE x # s
        <5>1. HasAttempt(x) /\ tasks'[x] = tasks[x] /\ d = tasks[x].attempts[x].channel
          BY Zenon, <2>12, <2>13, <3>2, <4>2
        <5>2. /\ tasks[x].attempts[x].state # "cancelled"
              /\ chans[d].status # "gone" =>
                   x \in chans[d].locked \cup chans[d].unlocked \/ hop[x] \in Refunding
          BY Zenon, <5>1 DEF PInv, LockInv, Exists
        <5> QED
          BY Zenon, <2>6, <2>7, <4>2, <5>1, <5>2
      <4> QED
        BY Zenon, <4>1, <4>2
    <3>3. \A x \in Secret : HasAttempt(x)' => tasks'[x].attempts[x].channel \in Channel
      BY <2>1, <2>3, <2>4, <2>12, <2>13
    <3>4. LocksHaveTasks' /\ AssertionsHold'
      BY Zenon, <1>1, <3>1 DEF PInv, LockInv, LocksHaveTasks, AssertionsHold, Open
    <3> QED
      BY Zenon, <3>2, <3>3, <3>4 DEF LockInv, Exists
  <2>16. \A q \in Payment : \A t \in DOMAIN tasks' :
           tasks'[t].payment = q => (t = s /\ q = p) \/ (t \in DOMAIN tasks /\ tasks[t].payment = q)
    BY <2>3, <2>4
  <2>17. PaidInv'
    <3>1. ASSUME NEW q \in Payment, NEW x \in Secret, Live(x, q)'
          PROVE  (x = s /\ q = p) \/ (q # p /\ Live(x, q))
      <4>1. CASE x = s
        BY <2>3, <2>4, <3>1, <4>1 DEF Live
      <4>2. CASE x # s
        <5>1. HasAttempt(x) /\ tasks'[x] = tasks[x] /\ tasks[x].attempts[x].channel \in Channel
          BY Zenon, <2>12, <2>13, <3>1, <4>2 DEF Live
        <5>2. Live(x, q)
          BY Zenon, <2>6, <3>1, <5>1 DEF Live
        <5> QED
          BY Zenon, <1>4, <5>1, <5>2 DEF Live, HasAttempt
      <4> QED
        BY <4>1, <4>2
    <3>2. ASSUME NEW q \in Payment, q \in starting' \/ q > calls'
          PROVE  paid'[q] = {} /\ \A t \in DOMAIN tasks' : tasks'[t].payment # q
      <4>1. q # p /\ (q \in starting \/ q > calls)
        BY <1>1, <1>2, <3>2
      <4> QED
        BY Zenon, <1>1, <2>16, <4>1 DEF PInv, PaidInv
    <3>3. \A q \in Payment : \A x, y \in Secret : Live(x, q)' /\ Live(y, q)' => x = y
      BY <3>1 DEF PInv, PaidInv
    <3>4. \A q \in Payment : paid[q] # {} => \A x \in Secret : ~Live(x, q)'
      BY <1>4, <3>1 DEF PInv, PaidInv
    <3> QED
      BY Zenon, <1>1, <3>2, <3>3, <3>4 DEF PInv, PaidInv
  <2>18. AnswerInv'
    BY <1>1, <2>2 DEF PInv, AnswerInv, SuccessMeansPaid, Identifier
  <2>19. (NoRefund' <=> NoRefund) /\ (AllOpen' <=> AllOpen)
    BY <2>6, <2>7 DEF NoRefund, AllOpen, Open, Refunding
  <2>20. FailInv'
    <3> SUFFICES ASSUME NoRefund PROVE FailInv'
      BY Zenon, <2>19 DEF FailInv
    <3>1. ASSUME NEW q \in Payment, Over(q) PROVE Over(q)'
      <4>1. q # p
        BY Zenon, <1>1, <3>1 DEF Over
      <4>2. ASSUME NEW t \in DOMAIN tasks', tasks'[t].payment = q, NEW x \in DOMAIN tasks'[t].attempts
            PROVE  chans'[tasks'[t].attempts[x].channel].status # "opened"
        <5>1. t \in DOMAIN tasks /\ tasks'[t] = tasks[t]
          BY Zenon, <2>4, <2>16, <4>1, <4>2
        <5>2. tasks[t].attempts[x].channel \in Channel
          BY Zenon, <4>2, <5>1, TaskFields DEF PInv, Types
        <5>3. chans'[tasks[t].attempts[x].channel].status = chans[tasks[t].attempts[x].channel].status
          BY Zenon, <2>6, <5>2
        <5>4. chans[tasks[t].attempts[x].channel].status # "opened"
          BY Zenon, <3>1, <4>2, <5>1 DEF Over, Open
        <5> QED
          BY Zenon, <5>1, <5>3, <5>4
      <4> QED
        BY Zenon, <1>1, <3>1, <4>2 DEF Over, Open
    <3>2. \A t \in DOMAIN tasks' : DOMAIN tasks'[t].attempts = {t}
      BY <2>3, <2>4 DEF PInv, FailInv
    <3>3. \A t, u \in DOMAIN tasks' : tasks'[t].payment = tasks'[u].payment => t = u
      BY <1>4, <2>3, <2>4 DEF PInv, FailInv
    <3>4. \A e \in events' : e.kind = "failed" => Over(e.payment)'
      BY <2>2, <3>1, EventFields DEF PInv, FailInv, Types
    <3>5. \A q \in Payment : SharesIdentifier(q)' = SharesIdentifier(q)
      BY <1>1 DEF SharesIdentifier, Identifier
    <3>6. \A q \in Payment : result'[q] = "failed" /\ (SharesIdentifier(q)' \subseteq {q} \/ AllOpen')
             => Over(q)'
      BY Zenon, <1>1, <2>19, <3>1, <3>5 DEF PInv, FailInv
    <3> QED
      BY Zenon, <3>2, <3>3, <3>4, <3>6 DEF FailInv
  <2>21. TurnInv'
    <3>1. \A q \in Payment : Busy(q)' => Busy(q)
      BY <1>1, <2>16 DEF Busy
    <3> QED
      BY <1>1, <2>2, <2>19, <3>1, TurnSame DEF PInv, Types
  <2> QED
    BY <2>9, <2>10, <2>11, <2>15, <2>17, <2>18, <2>20, <2>21 DEF PInv
<1> QED
  BY <1>6, <1>7
-----------------------------------------------------------------------------
(* handle_failroute changes the cancelled channels of a task only. *)
LEMMA FailRouteEffect ==
    ASSUME NEW k, IsTask(k), NEW s
    PROVE  /\ IsTask(HandleFailRoute(k, s))
           /\ HandleFailRoute(k, s).payment = k.payment
           /\ HandleFailRoute(k, s).attempts = k.attempts
BY DEF HandleFailRoute, IsTask

(* The channels when c has taken the refund of s. *)
Taken(c, s) == [chans EXCEPT ![c].theirs = @ \cup {s}, ![c].taken = @ \cup {s}]

(* The refund of s is taken, and no route is left. *)
RerouteFails(s, n) ==
    /\ tasks'[n].attempts = tasks[s].attempts
    /\ chans' = Taken(tasks[s].attempts[s].channel, s) /\ hop' = hop
    /\ events' = events \cup {Event("failed", tasks[s].payment, n, n)}

(* The refund of s is taken, and the transfer n is sent over the channel r. *)
RerouteSends(s, n, r) ==
    /\ tasks'[n].attempts = With(tasks[s].attempts, n, Attempt(r))
    /\ chans' = [Taken(tasks[s].attempts[s].channel, s) EXCEPT ![r].locked = @ \cup {n}]
    /\ hop' = [hop EXCEPT ![n] = "has"]
    /\ events' = events

(* The dispatch of a refund adds the task n, a copy of the task s, which   *)
(* may have the attempt n over the channel r.                              *)
LEMMA RerouteEffect ==
    ASSUME PInv, LeastExists, NEW s \in DOMAIN tasks, NEW n \in Secret, Unused(n),
           HandleTransferReroute(HandleFailRoute(tasks[s], s), s, n)
    PROVE  /\ TasksOK' /\ DOMAIN tasks' = DOMAIN tasks \cup {n}
           /\ \A t \in DOMAIN tasks :
                tasks'[t].payment = tasks[t].payment /\ tasks'[t].attempts = tasks[t].attempts
           /\ tasks'[n].payment = tasks[s].payment
           /\ \/ /\ UNCHANGED <<chans, hop, events>>
                 /\ tasks'[n].attempts = tasks[s].attempts
              \/ /\ s \in DOMAIN tasks[s].attempts
                 /\ RefundIsValid(tasks[s].attempts[s].channel, s)
                 /\ RerouteFails(s, n) \/ \E r \in Channel : RerouteSends(s, n, r)
<1> PICK copy : copy = HandleFailRoute(tasks[s], s)
  OBVIOUS
<1>1. /\ IsTask(copy) /\ copy.payment = tasks[s].payment /\ copy.attempts = tasks[s].attempts
      /\ IsTask(tasks[s]) /\ s \in Secret
  BY FailRouteEffect, TaskFields DEF PInv, Types
<1>2. n \notin DOMAIN tasks /\ n # s
  BY DEF Unused
<1> PICK ts : ts = [tasks EXCEPT ![s] = copy]
  BY Zenon
<1>3. /\ DOMAIN ts = DOMAIN tasks /\ ts[s] = copy
      /\ \A t \in DOMAIN tasks : t # s => ts[t] = tasks[t]
  BY DEF PInv, Types, TasksOK
<1>4. \A t \in DOMAIN tasks :
        IsTask(ts[t]) /\ ts[t].payment = tasks[t].payment /\ ts[t].attempts = tasks[t].attempts
  BY <1>1, <1>3, TaskFields DEF PInv, Types
<1>5. ASSUME NEW k, IsTask(k), tasks' = With(ts, n, k)
      PROVE  /\ TasksOK' /\ DOMAIN tasks' = DOMAIN tasks \cup {n} /\ tasks'[n] = k
             /\ \A t \in DOMAIN tasks :
                  tasks'[t].payment = tasks[t].payment /\ tasks'[t].attempts = tasks[t].attempts
  <2>1. /\ DOMAIN tasks' = DOMAIN tasks \cup {n} /\ tasks'[n] = k
        /\ \A t \in DOMAIN tasks : tasks'[t] = ts[t]
        /\ tasks' = [t \in DOMAIN tasks' |-> tasks'[t]]
    BY <1>2, <1>3, <1>5 DEF With
  <2>2. DOMAIN tasks \subseteq Secret
    BY DEF PInv, Types, TasksOK
  <2> QED
    BY Zenon, <1>4, <1>5, <2>1, <2>2 DEF TasksOK
<1> PICK route : route = TryNewRoute(FilterAcceptableRoutes(copy))
  OBVIOUS
<1>6. CASE s \notin DOMAIN copy.attempts \/ ~RefundIsValid(copy.attempts[s].channel, s)
  <2>1. tasks' = With(ts, n, copy) /\ UNCHANGED <<chans, hop, events>>
    BY Zenon, <1>6 DEF HandleTransferReroute
  <2> QED
    BY Zenon, <1>1, <1>5, <2>1
<1>7. CASE s \in DOMAIN copy.attempts /\ RefundIsValid(copy.attempts[s].channel, s)
  <2> PICK c : c = copy.attempts[s].channel
    OBVIOUS
  <2> PICK cs : cs = [chans EXCEPT ![c].theirs = @ \cup {s}, ![c].taken = @ \cup {s}]
    BY Zenon
  <2>1. c = tasks[s].attempts[s].channel /\ cs = Taken(tasks[s].attempts[s].channel, s)
    BY Zenon, <1>1 DEF Taken
  <2>2. CASE route = 0
    <3>1. /\ tasks' = With(ts, n, copy) /\ chans' = cs /\ hop' = hop
          /\ events' = events \cup {Event("failed", copy.payment, n, n)}
      BY Zenon, <1>7, <2>1, <2>2 DEF HandleTransferReroute
    <3>2. RerouteFails(s, n)
      BY Zenon, <1>1, <1>5, <2>1, <3>1 DEF RerouteFails
    <3> QED
      BY Zenon, <1>1, <1>5, <1>7, <3>1, <3>2
  <2>3. CASE route # 0
    <3>1. route \in Channel
      <4>1. FilterAcceptableRoutes(copy) \subseteq Channel
        BY DEF FilterAcceptableRoutes
      <4> QED
        BY <2>3, <4>1, RouteIsCandidate
    <3> PICK k : k = [copy EXCEPT !.attempts = With(@, n, Attempt(route))]
      BY Zenon
    <3>2. /\ tasks' = With(ts, n, k) /\ SendLockedTransfer(cs, route, n) /\ events' = events
      BY Zenon, <1>7, <2>1, <2>3 DEF HandleTransferReroute
    <3> PICK at : at = With(copy.attempts, n, Attempt(route))
      OBVIOUS
    <3>3. k = [payment |-> copy.payment, attempts |-> at, cancelled |-> copy.cancelled]
      BY <1>1 DEF IsTask
    <3>4. Attempt(route) \in AttemptState
      BY <3>1 DEF Attempt, AttemptState
    <3>5. at \in [DOMAIN copy.attempts \cup {n} -> AttemptState]
      BY <1>1, <3>4 DEF With, IsTask
    <3>6. k.payment = copy.payment /\ k.attempts = at /\ k.cancelled = copy.cancelled
      BY <3>3
    <3>7. IsTask(k)
      BY <1>1, <3>3, <3>5, <3>6 DEF IsTask
    <3>8. RerouteSends(s, n, route)
      BY Zenon, <1>1, <1>5, <2>1, <3>2, <3>6, <3>7 DEF SendLockedTransfer, RerouteSends
    <3> QED
      BY Zenon, <1>1, <1>5, <1>7, <3>1, <3>2, <3>6, <3>7, <3>8
  <2> QED
    BY Zenon, <2>2, <2>3
<1> QED
  BY Zenon, <1>6, <1>7

(* A channel gets T as the locks of refunds and K as the refunds taken. *)
SetRefunds(f, c, T, K) == [f EXCEPT ![c].theirs = T, ![c].taken = K]

(* The other fields and channels are as they were. *)
LEMMA RefundsUpdate ==
    ASSUME chans \in [Channel -> ChannelRecord], NEW c \in Channel, NEW T \in SUBSET Secret,
           NEW K \in SUBSET Secret, NEW g, g = SetRefunds(chans, c, T, K)
    PROVE  /\ g \in [Channel -> ChannelRecord]
           /\ \A d \in Channel : d # c => g[d] = chans[d]
           /\ g[c].theirs = T /\ g[c].taken = K
           /\ g[c].locked = chans[c].locked /\ g[c].unlocked = chans[c].unlocked
           /\ g[c].status = chans[c].status
<1> DEFINE x == [chans[c] EXCEPT !.theirs = T]
           y == [x EXCEPT !.taken = K]
<1>1. chans[c] \in ChannelRecord
  OBVIOUS
<1>2. /\ x \in ChannelRecord /\ x.theirs = T /\ x.locked = chans[c].locked
      /\ x.unlocked = chans[c].unlocked /\ x.status = chans[c].status
  BY ONLY <1>1, T \in SUBSET Secret DEF ChannelRecord
<1>3. g = [chans EXCEPT ![c] = y]
  BY Zenon DEF SetRefunds
<1> HIDE DEF x
<1>4. /\ y \in ChannelRecord /\ y.taken = K /\ y.theirs = x.theirs /\ y.locked = x.locked
      /\ y.unlocked = x.unlocked /\ y.status = x.status
  BY ONLY <1>2, K \in SUBSET Secret DEF ChannelRecord
<1> HIDE DEF y
<1>5. /\ g[c] = y /\ g \in [Channel -> ChannelRecord]
      /\ \A d \in Channel : d # c => g[d] = chans[d]
  BY Zenon, <1>3, <1>4
<1> QED
  BY <1>2, <1>4, <1>5

(* The channels and the hops after the dispatch of a refund of s. *)
ChannelsRerouted(s, n) ==
    /\ chans' \in [Channel -> ChannelRecord]
    /\ hop' \in [Secret -> {"none", "has", "forwarded", "refunding", "refunded"}]
    /\ \A x \in Secret : x # n => hop'[x] = hop[x]
    /\ \A d \in Channel :
         /\ chans'[d].unlocked = chans[d].unlocked /\ chans'[d].status = chans[d].status
         /\ \A x \in Secret : x # n => (x \in chans'[d].locked <=> x \in chans[d].locked)
         /\ \/ chans'[d].theirs = chans[d].theirs /\ chans'[d].taken = chans[d].taken
            \/ /\ chans'[d].theirs = chans[d].theirs \cup {s}
               /\ chans'[d].taken = chans[d].taken \cup {s}
               /\ HasAttempt(s) /\ tasks[s].attempts[s].channel = d

(* The new attempt n, if there is one, replaces s. *)
AttemptRerouted(s, n) ==
    \/ n \notin DOMAIN tasks'[n].attempts /\ \A d \in Channel : n \notin chans'[d].locked
    \/ /\ HasAttempt(s) /\ s \notin chans[tasks[s].attempts[s].channel].taken
       /\ s \in chans'[tasks[s].attempts[s].channel].taken
       /\ n \in DOMAIN tasks'[n].attempts
       /\ \E r \in Channel :
            /\ tasks'[n].attempts[n] = Attempt(r) /\ n \in chans'[r].locked
            /\ \A d \in Channel : d # r => n \notin chans'[d].locked

(* What the dispatch of a refund does to the channels and the hops. *)
LEMMA RerouteChannels ==
    ASSUME PInv, LeastExists, NEW s \in DOMAIN tasks, NEW n \in Secret, Unused(n), n # s,
           HandleTransferReroute(HandleFailRoute(tasks[s], s), s, n)
    PROVE  /\ ChannelsRerouted(s, n) /\ AttemptRerouted(s, n)
           /\ events' \subseteq events \cup {Event("failed", tasks[s].payment, n, n)}
<1>1. /\ chans \in [Channel -> ChannelRecord] /\ s \in Secret
      /\ hop \in [Secret -> {"none", "has", "forwarded", "refunding", "refunded"}]
  BY TaskFields DEF PInv, Types, NodeOK
<1>2. n \notin DOMAIN tasks[s].attempts /\ \A d \in Channel : n \notin chans[d].locked
  BY DEF Unused
<1>3. CASE UNCHANGED <<chans, hop, events>> /\ tasks'[n].attempts = tasks[s].attempts
  BY Zenon, <1>1, <1>2, <1>3 DEF ChannelsRerouted, AttemptRerouted
<1>4. CASE ~(UNCHANGED <<chans, hop, events>> /\ tasks'[n].attempts = tasks[s].attempts)
  <2>1. /\ s \in DOMAIN tasks[s].attempts
        /\ RefundIsValid(tasks[s].attempts[s].channel, s)
        /\ RerouteFails(s, n) \/ \E r \in Channel : RerouteSends(s, n, r)
    BY Zenon, <1>4, RerouteEffect
  <2> PICK c \in Channel : c = tasks[s].attempts[s].channel
    BY Zenon, <2>1, TaskFields DEF PInv, Types
  <2> PICK cs : cs = Taken(c, s)
    BY Zenon
  <2>2. HasAttempt(s) /\ s \notin chans[c].taken
    BY Zenon, <2>1 DEF HasAttempt, RefundIsValid
  <2>3. /\ cs \in [Channel -> ChannelRecord]
        /\ \A d \in Channel : d # c => cs[d] = chans[d]
        /\ cs[c].theirs = chans[c].theirs \cup {s} /\ cs[c].taken = chans[c].taken \cup {s}
        /\ cs[c].locked = chans[c].locked /\ cs[c].unlocked = chans[c].unlocked
        /\ cs[c].status = chans[c].status
    <3> PICK T \in SUBSET Secret, K \in SUBSET Secret :
           T = chans[c].theirs \cup {s} /\ K = chans[c].taken \cup {s}
      BY Zenon, <1>1 DEF ChannelRecord
    <3>1. cs = SetRefunds(chans, c, T, K)
      BY Zenon DEF SetRefunds, Taken
    <3>2. /\ cs \in [Channel -> ChannelRecord]
          /\ \A d \in Channel : d # c => cs[d] = chans[d]
          /\ cs[c].theirs = T /\ cs[c].taken = K
          /\ cs[c].locked = chans[c].locked /\ cs[c].unlocked = chans[c].unlocked
          /\ cs[c].status = chans[c].status
      <4>1. chans \in [Channel -> ChannelRecord]
        BY Zenon, <1>1
      <4> QED
        BY ONLY <4>1, <3>1, RefundsUpdate, c \in Channel, T \in SUBSET Secret, K \in SUBSET Secret
    <3> QED
      BY Zenon, <3>2
  <2>4. \A d \in Channel : /\ cs[d].locked = chans[d].locked /\ cs[d].unlocked = chans[d].unlocked
                           /\ cs[d].status = chans[d].status
                           /\ d # c => cs[d].theirs = chans[d].theirs /\ cs[d].taken = chans[d].taken
    BY Zenon, <2>3
  <2>5. CASE RerouteFails(s, n)
    <3>0. /\ tasks'[n].attempts = tasks[s].attempts /\ chans' = cs /\ hop' = hop
          /\ events' = events \cup {Event("failed", tasks[s].payment, n, n)}
      BY Zenon, <2>5 DEF RerouteFails
    <3>1. \A d \in Channel :
            /\ chans'[d].locked = chans[d].locked /\ chans'[d].unlocked = chans[d].unlocked
            /\ chans'[d].status = chans[d].status
            /\ \/ chans'[d].theirs = chans[d].theirs /\ chans'[d].taken = chans[d].taken
               \/ /\ chans'[d].theirs = chans[d].theirs \cup {s}
                  /\ chans'[d].taken = chans[d].taken \cup {s} /\ d = c
      BY Zenon, <2>3, <2>4, <3>0
    <3> QED
      BY Zenon, <1>1, <1>2, <2>2, <2>3, <3>0, <3>1 DEF ChannelsRerouted, AttemptRerouted
  <2>6. CASE \E r \in Channel : RerouteSends(s, n, r)
    <3>1. PICK r \in Channel : /\ tasks'[n].attempts = With(tasks[s].attempts, n, Attempt(r))
                               /\ chans' = [cs EXCEPT ![r].locked = @ \cup {n}]
                               /\ hop' = [hop EXCEPT ![n] = "has"]
                               /\ events' = events
      BY Zenon, <2>6 DEF RerouteSends
    <3>2. /\ chans' \in [Channel -> ChannelRecord]
          /\ \A d \in Channel :
               /\ chans'[d].unlocked = cs[d].unlocked /\ chans'[d].theirs = cs[d].theirs
               /\ chans'[d].taken = cs[d].taken /\ chans'[d].status = cs[d].status
               /\ d # r => chans'[d].locked = cs[d].locked
          /\ chans'[r].locked = cs[r].locked \cup {n}
      <4>1. cs \in [Channel -> ChannelRecord] /\ chans' = [cs EXCEPT ![r].locked = @ \cup {n}]
        BY Zenon, <2>3, <3>1
      <4> QED
        BY ONLY Zenon, <4>1, r \in Channel, n \in Secret DEF ChannelRecord
    <3>3. \A d \in Channel :
            /\ chans'[d].unlocked = chans[d].unlocked /\ chans'[d].status = chans[d].status
            /\ \A x \in Secret : x # n => (x \in chans'[d].locked <=> x \in chans[d].locked)
            /\ d # r => n \notin chans'[d].locked
            /\ \/ chans'[d].theirs = chans[d].theirs /\ chans'[d].taken = chans[d].taken
               \/ /\ chans'[d].theirs = chans[d].theirs \cup {s}
                  /\ chans'[d].taken = chans[d].taken \cup {s} /\ d = c
      <4>0. SUFFICES ASSUME NEW d \in Channel PROVE
              /\ chans'[d].unlocked = chans[d].unlocked /\ chans'[d].status = chans[d].status
              /\ \A x \in Secret : x # n => (x \in chans'[d].locked <=> x \in chans[d].locked)
              /\ d # r => n \notin chans'[d].locked
              /\ \/ chans'[d].theirs = chans[d].theirs /\ chans'[d].taken = chans[d].taken
                 \/ /\ chans'[d].theirs = chans[d].theirs \cup {s}
                    /\ chans'[d].taken = chans[d].taken \cup {s} /\ d = c
        BY Zenon
      <4>1. n \notin cs[d].locked /\ cs[d].locked = chans[d].locked
        BY Zenon, <1>2, <2>4
      <4>2. \A x \in Secret : x # n => (x \in chans'[d].locked <=> x \in chans[d].locked)
        <5>1. CASE d = r
          BY Zenon, <3>2, <4>1, <5>1
        <5>2. CASE d # r
          BY Zenon, <3>2, <4>1, <5>2
        <5> QED
          BY Zenon, <5>1, <5>2
      <4>3. \/ chans'[d].theirs = chans[d].theirs /\ chans'[d].taken = chans[d].taken
            \/ /\ chans'[d].theirs = chans[d].theirs \cup {s}
               /\ chans'[d].taken = chans[d].taken \cup {s} /\ d = c
        <5>0. chans'[d].theirs = cs[d].theirs /\ chans'[d].taken = cs[d].taken
          BY Zenon, <3>2
        <5>1. CASE d = c
          BY Zenon, <2>3, <5>0, <5>1
        <5>2. CASE d # c
          BY Zenon, <2>4, <5>0, <5>2
        <5> QED
          BY Zenon, <5>1, <5>2
      <4>4. /\ chans'[d].unlocked = chans[d].unlocked /\ chans'[d].status = chans[d].status
            /\ d # r => n \notin chans'[d].locked
        BY Zenon, <2>4, <3>2, <4>1
      <4> QED
        BY Zenon, <4>2, <4>3, <4>4
    <3>4. n \in chans'[r].locked /\ s \in chans'[c].taken
      <4>1. cs[c].taken = chans[c].taken \cup {s} /\ chans'[c].taken = cs[c].taken
        BY Zenon, <2>3, <3>2
      <4> QED
        BY Zenon, <3>2, <4>1
    <3>5. n \in DOMAIN tasks'[n].attempts /\ tasks'[n].attempts[n] = Attempt(r)
      <4>1. tasks'[n].attempts = With(tasks[s].attempts, n, Attempt(r))
        BY <3>1
      <4> QED
        BY ONLY <4>1 DEF With
    <3>6. /\ hop' \in [Secret -> {"none", "has", "forwarded", "refunding", "refunded"}]
          /\ \A x \in Secret : x # n => hop'[x] = hop[x]
      BY Zenon, <1>1, <3>1
    <3>7. ChannelsRerouted(s, n)
      BY Zenon, <2>2, <3>2, <3>3, <3>6 DEF ChannelsRerouted
    <3>8. AttemptRerouted(s, n)
      BY Zenon, <2>2, <3>3, <3>4, <3>5 DEF AttemptRerouted
    <3> QED
      BY Zenon, <3>1, <3>7, <3>8
  <2> QED
    BY Zenon, <2>1, <2>5, <2>6
<1> QED
  BY Zenon, <1>3, <1>4
-----------------------------------------------------------------------------
(* The dispatch of a refund: the refunded attempt is taken off the live    *)
(* attempts of its payment before the next one is added.                   *)
LEMMA DispatchRefundKeeps ==
    ASSUME PInv, LeastExists, DispatchRefund
    PROVE  PInv'
<1>1. /\ UNCHANGED <<drawn, paid, known, inst>> /\ UNCHANGED <<statuses, result, starting, calls>>
      /\ refunds # <<>> /\ refunds' = Tail(refunds)
  BY Zenon DEF DispatchRefund, fixed
<1>2. refunds \in Seq(RefundRecord)
  BY DEF PInv, Types, NodeOK
<1> PICK N \in Nat : N = Len(refunds)
  BY <1>2
<1>3. /\ N > 0 /\ DOMAIN refunds = 1 .. N /\ DOMAIN refunds' = 1 .. (N - 1)
      /\ refunds' \in Seq(RefundRecord) /\ Head(refunds) = refunds[1]
      /\ \A k \in 1 .. (N - 1) : refunds'[k] = refunds[k + 1]
  BY <1>1, <1>2
<1>4. 1 \in DOMAIN refunds /\ \A k \in DOMAIN refunds' : k + 1 \in DOMAIN refunds /\ k + 1 # 1
  BY <1>3
<1> PICK s \in Secret : s = refunds[1].refunded
  BY <1>4, RefundFields DEF PInv, Types
<1> PICK n \in Secret : n = refunds[1].secret
  BY <1>4, RefundFields DEF PInv, Types
<1>5. hop[s] = "refunded" /\ ~(n > drawn) /\ Unused(n)
  <2>1. n <= drawn /\ hop[s] = "refunded" /\ Reserved(n)
    BY <1>4 DEF PInv, FreshInv, Reserved
  <2>2. n \in Nat /\ drawn \in Nat
    BY DEF Secret, PInv, Types, NodeOK
  <2>3. Unused(n)
    BY Zenon, <2>1 DEF PInv, FreshInv
  <2> QED
    BY <2>1, <2>2, <2>3
<1>6. n # s /\ hop[n] = "none"
  BY <1>5 DEF Unused
<1>7. ASSUME NEW m \in Secret, Reserved(m)' PROVE Reserved(m) /\ m # n
  <2>1. CASE m > drawn'
    BY <1>1, <1>5, <2>1 DEF Reserved
  <2>2. CASE \E k \in DOMAIN refunds' : refunds'[k].secret = m
    <3>1. PICK k \in DOMAIN refunds' : refunds'[k].secret = m
      BY Zenon, <2>2
    <3>2. refunds'[k] = refunds[k + 1] /\ k + 1 \in DOMAIN refunds /\ k + 1 # 1
      BY <1>3, <1>4
    <3>3. refunds[k + 1].secret # refunds[1].secret
      BY Zenon, <1>4, <3>2 DEF PInv, FreshInv
    <3> QED
      BY Zenon, <3>1, <3>2, <3>3 DEF Reserved
  <2> QED
    BY Zenon, <1>7, <2>1, <2>2 DEF Reserved
<1>8. ASSUME \A x \in Secret : x # n => hop'[x] = hop[x],
             \A x \in Secret : Unused(x) /\ x # n => Unused(x)'
      PROVE  FreshInv'
  <2>1. \A m \in Secret : Reserved(m)' => Unused(m)'
    BY <1>7, <1>8 DEF PInv, FreshInv
  <2>2. ASSUME NEW k \in DOMAIN refunds'
        PROVE  refunds'[k].secret <= drawn' /\ hop'[refunds'[k].refunded] = "refunded"
    <3>1. refunds'[k] = refunds[k + 1] /\ k + 1 \in DOMAIN refunds
      BY <1>3, <1>4
    <3>2. /\ refunds[k + 1].secret <= drawn /\ hop[refunds[k + 1].refunded] = "refunded"
          /\ refunds[k + 1].refunded \in Secret
      BY <3>1, RefundFields DEF PInv, Types, FreshInv
    <3>3. refunds[k + 1].refunded # n
      BY <1>6, <3>2
    <3> QED
      BY <1>1, <1>8, <3>1, <3>2, <3>3
  <2>3. ASSUME NEW j \in DOMAIN refunds', NEW k \in DOMAIN refunds', j # k
        PROVE  refunds'[j].secret # refunds'[k].secret
    <3>1. /\ refunds'[j] = refunds[j + 1] /\ j + 1 \in DOMAIN refunds
          /\ refunds'[k] = refunds[k + 1] /\ k + 1 \in DOMAIN refunds
      BY <1>3, <1>4
    <3>2. j + 1 # k + 1
      BY <1>3, <2>3
    <3> QED
      BY Zenon, <3>1, <3>2 DEF PInv, FreshInv
  <2> QED
    BY Zenon, <2>1, <2>2, <2>3 DEF FreshInv
<1>9. CASE s \notin DOMAIN tasks
  <2>1. UNCHANGED <<tasks, chans, hop, events>> /\ failure' = "no task to reroute"
    BY Zenon, <1>3, <1>9 DEF DispatchRefund
  <2>2. TasksOK' /\ NodeOK' /\ PaymentsOK'
    BY Zenon, <1>1, <1>3, <2>1 DEF PInv, Types, TasksOK, NodeOK, PaymentsOK
  <2>3. FreshInv'
    BY Zenon, <1>1, <1>8, <2>1 DEF Unused
  <2>4. HopInv' /\ LockInv'
    BY Zenon, <1>1, <2>1 DEF PInv, HopInv, LockInv, LocksHaveTasks, AssertionsHold, HasAttempt, Open, Exists
  <2>5. PaidInv'
    BY Zenon, <1>1, <2>1 DEF PInv, PaidInv, Live, HasAttempt
  <2>6. AnswerInv'
    BY Zenon, <1>1, <2>1 DEF PInv, AnswerInv, SuccessMeansPaid, Identifier
  <2>7. ~NoRefund'
    BY Zenon, <1>5, <2>1 DEF NoRefund, Refunding
  <2> QED
    BY Zenon, <2>2, <2>3, <2>4, <2>5, <2>6, <2>7 DEF PInv, Types, FailInv, TurnInv
<1>10. CASE s \in DOMAIN tasks
  <2>1. HandleTransferReroute(HandleFailRoute(tasks[s], s), s, n) /\ failure' = failure
    BY Zenon, <1>3, <1>10 DEF DispatchRefund
  <2>2. /\ TasksOK' /\ DOMAIN tasks' = DOMAIN tasks \cup {n}
        /\ \A t \in DOMAIN tasks :
             tasks'[t].payment = tasks[t].payment /\ tasks'[t].attempts = tasks[t].attempts
        /\ tasks'[n].payment = tasks[s].payment
    BY Zenon, <1>5, <1>10, <2>1, RerouteEffect
  <2>3. \A x \in DOMAIN tasks'[n].attempts : x = n \/ x \in DOMAIN tasks[s].attempts
    <3>1. \/ tasks'[n].attempts = tasks[s].attempts
          \/ \E r \in Channel : tasks'[n].attempts = With(tasks[s].attempts, n, Attempt(r))
      <4>1. \/ tasks'[n].attempts = tasks[s].attempts
            \/ RerouteFails(s, n) \/ \E r \in Channel : RerouteSends(s, n, r)
        BY Zenon, <1>5, <1>10, <2>1, RerouteEffect
      <4> QED
        BY Zenon, <4>1 DEF RerouteFails, RerouteSends
    <3> QED
      BY Zenon, <3>1 DEF With
  <2>0. /\ ChannelsRerouted(s, n) /\ AttemptRerouted(s, n)
        /\ events' \subseteq events \cup {Event("failed", tasks[s].payment, n, n)}
    BY Zenon, <1>5, <1>6, <1>10, <2>1, RerouteChannels
  <2>4. /\ chans' \in [Channel -> ChannelRecord]
        /\ hop' \in [Secret -> {"none", "has", "forwarded", "refunding", "refunded"}]
        /\ \A x \in Secret : x # n => hop'[x] = hop[x]
    BY Zenon, <2>0 DEF ChannelsRerouted
  <2>5. \A d \in Channel :
           /\ chans'[d].unlocked = chans[d].unlocked /\ chans'[d].status = chans[d].status
           /\ \A x \in Secret : x # n => (x \in chans'[d].locked <=> x \in chans[d].locked)
           /\ \/ chans'[d].theirs = chans[d].theirs /\ chans'[d].taken = chans[d].taken
              \/ /\ chans'[d].theirs = chans[d].theirs \cup {s}
                 /\ chans'[d].taken = chans[d].taken \cup {s}
                 /\ HasAttempt(s) /\ tasks[s].attempts[s].channel = d
    BY Zenon, <2>0 DEF ChannelsRerouted
  <2>6. events' \subseteq events \cup {Event("failed", tasks[s].payment, n, n)}
    BY <2>0
  <2>7. \/ n \notin DOMAIN tasks'[n].attempts /\ \A d \in Channel : n \notin chans'[d].locked
        \/ /\ HasAttempt(s) /\ s \notin chans[tasks[s].attempts[s].channel].taken
           /\ s \in chans'[tasks[s].attempts[s].channel].taken
           /\ n \in DOMAIN tasks'[n].attempts
           /\ \E r \in Channel :
                /\ tasks'[n].attempts[n] = Attempt(r) /\ n \in chans'[r].locked
                /\ \A d \in Channel : d # r => n \notin chans'[d].locked
    BY Zenon, <2>0 DEF AttemptRerouted
  <2>8. /\ tasks[s].payment \in Payment /\ tasks[s].payment \in 1 .. calls
        /\ Event("failed", tasks[s].payment, n, n).kind = "failed"
        /\ Event("failed", tasks[s].payment, n, n).payment = tasks[s].payment
    <3>1. tasks[s].payment \in Payment
      BY Zenon, <1>10, TaskFields DEF PInv, Types
    <3>2. ~(tasks[s].payment > calls)
      BY Zenon, <1>10, <3>1 DEF PInv, PaidInv
    <3>3. calls \in Nat
      BY DEF PInv, Types, PaymentsOK
    <3> QED
      BY <3>1, <3>2, <3>3 DEF Payment, Event
  <2>9. Types'
    <3>1. NodeOK'
      BY <1>1, <1>3, <2>4 DEF PInv, Types, NodeOK
    <3>2. Event("failed", tasks[s].payment, n, n) \in
            [kind : {"success", "failed"}, payment : 1 .. calls, task : Secret, attempt : Secret]
      BY <2>8 DEF Event
    <3>3. events' \subseteq
            [kind : {"success", "failed"}, payment : 1 .. calls, task : Secret, attempt : Secret]
      BY Zenon, <2>6, <3>2 DEF PInv, Types, PaymentsOK
    <3>4. PaymentsOK'
      BY Zenon, <1>1, <3>3 DEF PInv, Types, PaymentsOK
    <3> QED
      BY <2>2, <3>1, <3>4 DEF Types
  <2>10. /\ \A d \in Channel : n \notin chans[d].taken /\ n \notin chans[d].theirs /\ n \notin chans[d].unlocked
         /\ n \notin DOMAIN tasks
    BY Zenon, <1>5 DEF Unused, PInv, HopInv
  <2>11. FreshInv'
    <3>1. ASSUME NEW x \in Secret, Unused(x), x # n PROVE Unused(x)'
      <4>1. x # s /\ hop'[x] = "none" /\ x \notin known'
        BY <1>1, <1>10, <2>4, <3>1 DEF Unused
      <4>2. \A t \in DOMAIN tasks' : t # x /\ x \notin DOMAIN tasks'[t].attempts
        BY <1>10, <2>2, <2>3, <3>1 DEF Unused
      <4>3. ASSUME NEW d \in Channel
            PROVE  x \notin chans'[d].locked \cup chans'[d].unlocked \cup chans'[d].taken
        BY <2>5, <3>1, <4>1 DEF Unused
      <4> QED
        BY Zenon, <4>1, <4>2, <4>3 DEF Unused
    <3> QED
      BY Zenon, <1>8, <2>4, <3>1
  <2>12. HopInv'
    <3>1. \A x \in known : hop'[x] = "forwarded"
      <4>1. known \subseteq Secret /\ n \notin known
        BY <1>5 DEF PInv, Types, NodeOK, Unused
      <4> QED
        BY Zenon, <2>4, <4>1 DEF PInv, HopInv
    <3>2. ASSUME NEW d \in Channel
          PROVE  chans'[d].theirs \subseteq chans'[d].taken /\ \A x \in chans'[d].taken : hop'[x] \in Refunding
      <4>1. /\ chans[d].theirs \subseteq chans[d].taken /\ chans[d].taken \subseteq Secret
            /\ \A x \in chans[d].taken : hop[x] \in Refunding
        BY DEF PInv, HopInv, Types, NodeOK, ChannelRecord
      <4>2. \A x \in chans[d].taken : hop'[x] \in Refunding
        BY Zenon, <2>4, <2>10, <4>1
      <4>3. hop'[s] \in Refunding
        BY <1>5, <1>6, <2>4 DEF Refunding
      <4> QED
        BY <2>5, <4>1, <4>2, <4>3
    <3> QED
      BY Zenon, <1>1, <3>1, <3>2 DEF HopInv
  <2>13. \A x \in Secret : x # n => (HasAttempt(x)' <=> HasAttempt(x))
    BY <2>2 DEF HasAttempt
  <2>14. \A x \in Secret : x # n /\ HasAttempt(x) =>
           /\ tasks'[x].payment = tasks[x].payment /\ tasks'[x].attempts = tasks[x].attempts
           /\ tasks[x].attempts[x].channel \in Channel
    BY <2>2, TaskFields DEF HasAttempt, PInv, Types
  <2>15. LockInv'
    <3>1. ASSUME NEW d \in Channel, NEW x \in Secret, Open(d)', x \in chans'[d].locked \cup chans'[d].theirs
          PROVE  HasAttempt(x)' /\ tasks'[x].attempts[x].channel = d
      <4>1. CASE x = n
        <5>1. n \notin chans'[d].theirs
          <6>1. n \notin chans[d].theirs
            BY Zenon, <2>10
          <6>2. chans'[d].theirs = chans[d].theirs \/ chans'[d].theirs = chans[d].theirs \cup {s}
            BY Zenon, <2>5
          <6> QED
            BY Zenon, <1>6, <6>1, <6>2
        <5>2. n \in chans'[d].locked
          BY <3>1, <4>1, <5>1
        <5>3. n \in DOMAIN tasks'[n].attempts /\ tasks'[n].attempts[n] = Attempt(d)
          BY Zenon, <2>7, <5>2
        <5> QED
          BY <2>2, <4>1, <5>3 DEF HasAttempt, Attempt
      <4>2. CASE x # n
        <5>1. HasAttempt(x) /\ tasks[x].attempts[x].channel = d
          <6>1. CASE x \in chans[d].locked \cup chans[d].theirs
            <7>1. Open(d)
              BY Zenon, <2>5, <3>1 DEF Open
            <7> QED
              BY Zenon, <6>1, <7>1, LockHasAttempt
          <6>2. CASE x \notin chans[d].locked \cup chans[d].theirs
            <7>1. x \in chans'[d].theirs /\ x \notin chans[d].theirs
              BY Zenon, <2>5, <3>1, <4>2, <6>2
            <7>2. chans'[d].theirs = chans[d].theirs \cup {s} /\ HasAttempt(s)
                  /\ tasks[s].attempts[s].channel = d
              BY Zenon, <2>5, <7>1
            <7>3. x = s
              BY Zenon, <7>1, <7>2
            <7> QED
              BY Zenon, <7>2, <7>3
          <6> QED
            BY <6>1, <6>2
        <5> QED
          BY Zenon, <2>13, <2>14, <4>2, <5>1
      <4> QED
        BY <4>1, <4>2
    <3>2. ASSUME NEW x \in Secret, HasAttempt(x)', NEW d \in Channel, d = tasks'[x].attempts[x].channel
          PROVE  /\ tasks'[x].attempts[x].state # "cancelled"
                 /\ chans'[d].status # "gone" =>
                      x \in chans'[d].locked \cup chans'[d].unlocked \/ hop'[x] \in Refunding
      <4>1. CASE x = n
        <5>1. PICK r \in Channel : tasks'[n].attempts[n] = Attempt(r) /\ n \in chans'[r].locked
          BY Zenon, <2>7, <3>2, <4>1 DEF HasAttempt
        <5> QED
          BY <3>2, <4>1, <5>1 DEF Attempt
      <4>2. CASE x # n
        <5>1. HasAttempt(x) /\ tasks'[x].attempts = tasks[x].attempts /\ d = tasks[x].attempts[x].channel
          BY Zenon, <2>13, <2>14, <3>2, <4>2
        <5>2. /\ tasks[x].attempts[x].state # "cancelled"
              /\ chans[d].status # "gone" =>
                   x \in chans[d].locked \cup chans[d].unlocked \/ hop[x] \in Refunding
          BY Zenon, <5>1 DEF PInv, LockInv, Exists
        <5> QED
          BY Zenon, <2>4, <2>5, <4>2, <5>1, <5>2
      <4> QED
        BY Zenon, <4>1, <4>2
    <3>3. \A x \in Secret : HasAttempt(x)' => tasks'[x].attempts[x].channel \in Channel
      <4>1. HasAttempt(n)' => tasks'[n].attempts[n].channel \in Channel
        <5>1. \A r \in Channel : Attempt(r).channel \in Channel
          BY DEF Attempt
        <5> QED
          BY Zenon, <2>7, <5>1 DEF HasAttempt
      <4> QED
        BY Zenon, <2>13, <2>14, <4>1
    <3>4. LocksHaveTasks' /\ AssertionsHold'
      BY Zenon, <2>1, <3>1 DEF PInv, LockInv, LocksHaveTasks, AssertionsHold, Open
    <3> QED
      BY Zenon, <3>2, <3>3, <3>4 DEF LockInv, Exists
  <2>16. PaidInv'
    <3>1. ASSUME NEW q \in Payment, NEW x \in Secret, Live(x, q)', x # n
          PROVE  Live(x, q)
      <4>1. HasAttempt(x) /\ tasks'[x].attempts = tasks[x].attempts /\ tasks'[x].payment = tasks[x].payment
        BY Zenon, <2>13, <2>14, <3>1 DEF Live
      <4> PICK d \in Channel : d = tasks[x].attempts[x].channel
        BY <2>14, <3>1, <4>1
      <4>2. x \notin chans'[d].taken /\ tasks[x].payment = q
        BY Zenon, <3>1, <4>1 DEF Live
      <4>3. x \notin chans[d].taken
        BY ZenonT(30), <2>5, <4>2
      <4> QED
        BY Zenon, <4>1, <4>2, <4>3 DEF Live
    <3>2. ASSUME NEW q \in Payment, Live(n, q)'
          PROVE  Live(s, q) /\ ~Live(s, q)'
      <4>1. n \in DOMAIN tasks'[n].attempts /\ tasks[s].payment = q
        BY Zenon, <2>2, <3>2 DEF Live, HasAttempt
      <4>2. /\ HasAttempt(s) /\ s \notin chans[tasks[s].attempts[s].channel].taken
            /\ s \in chans'[tasks[s].attempts[s].channel].taken
        BY Zenon, <2>7, <4>1
      <4>3. tasks'[s].attempts = tasks[s].attempts
        BY Zenon, <1>10, <2>2
      <4> QED
        BY Zenon, <4>1, <4>2, <4>3 DEF Live
    <3>3. ASSUME NEW q \in Payment, NEW x \in Secret, NEW y \in Secret, Live(x, q)', Live(y, q)'
          PROVE  x = y
      <4>1. x # n /\ y # n => x = y
        BY Zenon, <3>1, <3>3 DEF PInv, PaidInv
      <4>2. ASSUME NEW z \in Secret, Live(z, q)', Live(n, q)' PROVE z = n
        <5>1. z # n => z = s
          BY Zenon, <3>1, <3>2, <4>2 DEF PInv, PaidInv
        <5> QED
          BY Zenon, <3>2, <4>2, <5>1
      <4> QED
        BY Zenon, <3>3, <4>1, <4>2
    <3>4. ASSUME NEW q \in Payment, paid[q] # {}, NEW x \in Secret PROVE ~Live(x, q)'
      BY Zenon, <3>1, <3>2, <3>4 DEF PInv, PaidInv
    <3>5. ASSUME NEW q \in Payment, q \in starting \/ q > calls
          PROVE  \A t \in DOMAIN tasks' : tasks'[t].payment # q
      <4>1. \A t \in DOMAIN tasks : tasks[t].payment # q
        BY Zenon, <3>5 DEF PInv, PaidInv
      <4> QED
        BY <1>10, <2>2, <4>1
    <3> QED
      BY Zenon, <1>1, <3>3, <3>4, <3>5 DEF PInv, PaidInv
  <2>17. AnswerInv'
    <3>1. \A e \in events' : e.kind = "success" => e \in events
      BY <2>6, <2>8
    <3> QED
      BY Zenon, <1>1, <3>1 DEF PInv, AnswerInv, SuccessMeansPaid, Identifier
  <2>18. ~NoRefund'
    BY <1>5, <1>6, <2>4 DEF NoRefund, Refunding
  <2> QED
    BY Zenon, <2>9, <2>11, <2>12, <2>15, <2>16, <2>17, <2>18 DEF PInv, FailInv, TurnInv
<1> QED
  BY <1>9, <1>10
-----------------------------------------------------------------------------
(* A node that has just been started. *)
LEMMA PInvInit == Init => PInv
<1> SUFFICES ASSUME Init PROVE PInv
  OBVIOUS
<1>1. /\ inst \in [payments : 0 .. MaxPayments, secrets : 0 .. MaxSecrets, blocks : Nat,
                   restarts : Nat, duplicates : Nat]
      /\ MaxPayments \in Nat /\ MaxSecrets \in Nat
  BY Zenon, ConstantsAssumption DEF Init
<1>2. inst.payments \in 0 .. MaxPayments /\ inst.secrets \in 0 .. MaxSecrets
  BY <1>1
<1>3. DOMAIN tasks = {} /\ tasks = [t \in DOMAIN tasks |-> tasks[t]]
  BY DEF Init, EmptyFunction
<1>4. TasksOK
  BY <1>3 DEF TasksOK
<1>5. chans \in [Channel -> ChannelRecord]
  BY DEF Init, ChannelRecord
<1>6. /\ drawn \in 0 .. MaxSecrets /\ refunds \in Seq(RefundRecord) /\ DOMAIN refunds = {}
      /\ calls \in 0 .. MaxPayments /\ starting = {} /\ events = {} /\ known = {}
  BY <1>1 DEF Init
<1>7. /\ hop \in [Secret -> {"none", "has", "forwarded", "refunding", "refunded"}]
      /\ \A s \in Secret : hop[s] = "none"
      /\ paid \in [Payment -> SUBSET Secret] /\ \A p \in Payment : paid[p] = {}
      /\ statuses \in [Payment -> Payment \cup {0}] /\ \A p \in Payment : statuses[p] = 0
      /\ result \in [Payment -> {"none", "waiting", "joined", "success", "failed", "lost"}]
      /\ \A p \in Payment : result[p] = "none"
  BY DEF Init
<1>8. \A c \in Channel : /\ chans[c].locked = {} /\ chans[c].unlocked = {}
                         /\ chans[c].theirs = {} /\ chans[c].taken = {}
  BY DEF Init
<1>9. Types
  BY <1>2, <1>4, <1>5, <1>6, <1>7 DEF Types, NodeOK, PaymentsOK
<1>10. FreshInv
  BY <1>3, <1>6, <1>7, <1>8 DEF FreshInv, Unused
<1>11. HopInv
  BY <1>6, <1>8 DEF HopInv
<1>12. LockInv
  <2>1. AssertionsHold
    BY DEF AssertionsHold, Init
  <2>2. LocksHaveTasks
    BY <1>8 DEF LocksHaveTasks
  <2> QED
    BY <1>3, <2>1, <2>2 DEF LockInv, HasAttempt
<1>13. PaidInv
  BY <1>3, <1>7 DEF PaidInv, Live, HasAttempt
<1>14. AnswerInv
  BY <1>6, <1>7 DEF AnswerInv, SuccessMeansPaid
<1>15. FailInv
  BY <1>3, <1>6, <1>7 DEF FailInv
<1>16. TurnInv
  BY <1>3, <1>6, <1>7 DEF TurnInv, Active, Busy, Announced
<1> QED
  BY <1>9, <1>10, <1>11, <1>12, <1>13, <1>14, <1>15, <1>16 DEF PInv

(* Every step of the node and its environment keeps PInv. *)
LEMMA PInvStep == PInv /\ LeastExists /\ [Next]_vars => PInv'
<1> SUFFICES ASSUME PInv, LeastExists, [Next]_vars PROVE PInv'
  OBVIOUS
<1>1. CASE MediatedTransferAsync
  BY <1>1, MediatedTransferAsyncKeeps
<1>2. CASE HandleBlock
  BY <1>2, HandleBlockKeeps
<1>3. CASE DispatchRefund
  BY <1>3, DispatchRefundKeeps
<1>4. CASE Restart
  BY <1>4, RestartKeeps
<1>5. CASE \E p \in Payment : NoRoute(p) \/ ActionInitInitiator(p)
  BY <1>5, NoRouteKeeps, ActionInitInitiatorKeeps
<1>6. CASE \E e \in events : HandleEvent(e)
  BY <1>6, HandleEventKeeps
<1>7. CASE \E s \in Secret :
             \/ ReceiveSecretReveal(s) \/ ContractReceiveSecretReveal(s)
             \/ \E valid \in BOOLEAN : ReceiveSecretRequest(s, valid)
             \/ HandleMessageRefundTransfer(s)
             \/ HopForwards(s) \/ HopRefunds(s)
  BY <1>7, ReceiveSecretRevealKeeps, ContractReceiveSecretRevealKeeps, ReceiveSecretRequestKeeps,
     HandleMessageRefundTransferKeeps, HopForwardsKeeps, HopRefundsKeeps
<1>8. CASE \E c \in Channel :
             \/ ChannelClosed(c) \/ ChannelSettled(c)
             \/ \E s \in Secret : ReceiveLockExpired(s, c)
  BY <1>8, ChannelClosedKeeps, ChannelSettledKeeps, ReceiveLockExpiredKeeps
<1>9. CASE UNCHANGED vars
  <2>1. UNCHANGED <<nodevars, hop, known, inst, failure>> /\ UNCHANGED <<statuses, result, starting, events, calls>>
    BY <1>9 DEF vars, envvars, payvars, fixed
  <2>2. TasksOK' /\ NodeOK' /\ FreshInv' /\ HopInv' /\ LockInv'
    BY <2>1, NodeSame DEF PInv, Types
  <2>3. PaymentsOK' /\ PaidInv' /\ AnswerInv'
    BY Zenon, <2>1 DEF nodevars, PInv, Types, PaymentsOK, PaidInv, Live, HasAttempt, AnswerInv,
       SuccessMeansPaid, Identifier
  <2>4. FailInv' /\ TurnInv'
    BY ZenonT(30), <2>1 DEF nodevars, PInv, FailInv, TurnInv, NoRefund, AllOpen, Over, Busy, Announced,
       Active, Open, SharesIdentifier, Identifier
  <2> QED
    BY <2>2, <2>3, <2>4 DEF PInv, Types
<1> QED
  BY Zenon, <1>1, <1>2, <1>3, <1>4, <1>5, <1>6, <1>7, <1>8, <1>9 DEF Next

(* What the caller is told follows from what the node has done. *)
LEMMA AnswersAreRight ==
    ASSUME PInv
    PROVE  AnswerIsRight
<1>1. SuccessMeansPaid
  BY Zenon DEF PInv, AnswerInv
<1>2. FailedIsNotPaid
  BY DEF PInv, FailInv, FailedIsNotPaid, NoRefund, Refunding, AllOpen, Over
<1> QED
  BY Zenon, <1>1, <1>2 DEF AnswerIsRight

-----------------------------------------------------------------------------
LOCAL INSTANCE WellFoundedInduction

(* The order of the natural numbers is well-founded. *)
LEMMA Least == LeastExists
<1> SUFFICES ASSUME NEW B \in SUBSET Nat, B # {}
             PROVE  \E x \in B : \A y \in B : x <= y
  BY Zenon DEF LeastExists
<1>1. PICK x \in B : \A y \in B : ~(<<y, x>> \in OpToRel(<, Nat))
  BY Zenon, NatLessThanWellFounded, WFMin
<1>2. ASSUME NEW y \in B PROVE x <= y
  <2>1. x \in Nat /\ y \in Nat
    BY Zenon
  <2>2. <<y, x>> \in Nat \X Nat /\ <<y, x>>[1] = y /\ <<y, x>>[2] = x
    BY ONLY <2>1
  <2>3. ~(y < x)
    BY ONLY Zenon, <1>1, <1>2, <2>2 DEF OpToRel
  <2> QED
    BY ONLY <2>1, <2>3
<1> QED
  BY Zenon, <1>2

(* The inductive invariant holds in every behaviour of the node, whatever  *)
(* is refunded, repeated, closed, lost or restarted.                       *)
THEOREM PaymentInvariant == Spec => []PInv
BY PInvInit, PInvStep, Least, PTL DEF Spec

(* However often a refund makes the node try another route, and however    *)
(* late the messages of the earlier attempts are, a payment is paid at     *)
(* most once (handle_transferreroute).                                     *)
THEOREM NoPaymentTwice == Spec => []PaidAtMostOnce
<1>1. PInv => PaidAtMostOnce
  BY Zenon DEF PInv, PaidInv, PaidAtMostOnce
<1> QED
  BY <1>1, PaymentInvariant, PTL

(* What the caller is told is what happened: a success only if a payment   *)
(* with the identifier was unlocked, and, as long as nothing was refunded, *)
(* a failure only if nothing is or ever will be paid                       *)
(* (handle_paymentsentsuccess, handle_paymentsentfailed).                  *)
THEOREM CallerIsToldTheTruth == Spec => []AnswerIsRight
BY PaymentInvariant, AnswersAreRight, PTL

(* Every lock in an open channel has the task that alone can end it, and   *)
(* no assertion of initiator.py and initiator_manager.py fails.            *)
THEOREM LocksAreWatched == Spec => []TasksMatchLocks
<1>1. PInv => TasksMatchLocks
  BY Zenon DEF PInv, LockInv, TasksMatchLocks
<1> QED
  BY <1>1, PaymentInvariant, PTL
=============================================================================
