--------------------------- MODULE Mediator_proofs ---------------------------
(***************************************************************************)
(* Proofs about the mediator, for every set of channels, list of routes    *)
(* and timing that PaymentChainAssumption allows: a mediator that paid is  *)
(* paid, an expired lock cannot be claimed, and a task leaves no lock.     *)
(*                                                                         *)
(* The invariant MInv is about the task as of the block the node has       *)
(* processed.  A handler is a chain of operators on the task: for each of  *)
(* them one lemma (..Effect) says which fields it changes and one          *)
(* (..Keeps) that it keeps Core, the part of MInv that holds inside a      *)
(* handler as well.  Each handler starts from MInv, takes Core through its *)
(* operators, and FinishKeeps takes Core back to MInv at its end.          *)
(***************************************************************************)
EXTENDS Mediator, TLAPS

(* The type of the task. *)
TaskRecord ==
    [running : BOOLEAN, failed : BOOLEAN, secret : BOOLEAN, pairs : Seq(PairState),
     waiting : SUBSET [payer : Channel, state : {"waiting", "expired"}],
     refunded : SUBSET Channel,
     received : [Channel -> Lock], sent : [Channel -> Lock],
     reveals : SUBSET Channel, unlocks : SUBSET Channel, claimed : SUBSET Channel,
     register : BOOLEAN]

(* The node is at most MaxLag confirmed blocks behind, a registration it   *)
(* asked for was mined within TransactionTime, and no channel is settled   *)
(* before the locks have expired.                                          *)
ChainTime ==
    /\ block <= head - Confirmations
    /\ head <= block + Confirmations + MaxLag
    /\ requested # 0 /\ registered = 0 => head < requested + TransactionTime
    /\ requested # 0 /\ registered # 0 => registered <= requested + TransactionTime
    /\ \A c \in Channel : settled[c] # 0 => settled[c] > Expiration

(* The payment arrived over c. *)
PayerOf(t, c) ==
    \/ \E i \in DOMAIN t.pairs : t.pairs[i].payer = c
    \/ \E w \in t.waiting : w.payer = c

(* The payment was forwarded over c. *)
PayeeOf(t, c) == \E i \in DOMAIN t.pairs : t.pairs[i].payee = c

(* When the node asks for the registration, if the handler that is at work *)
(* ends now.                                                               *)
RequestTime(t) == IF t.register /\ requested = 0 THEN head ELSE requested

(* There is time to register the secret: it is safe to wait, or the secret *)
(* is registered in time, or the node asked for that early enough.         *)
InTime(t, b) ==
    \/ is_safe_to_wait(b)
    \/ RegisteredInTime
    \/ RequestTime(t) # 0 /\ RequestTime(t) + TransactionTime < Expiration

(* The pairs form a chain: the payee of each but the last refunded and is  *)
(* the payer of the next; all payees have refunded while a transfer is     *)
(* waiting, which the last of them sent.                                   *)
Shape(t) ==
    /\ \A i \in DOMAIN t.pairs : i + 1 \in DOMAIN t.pairs =>
            /\ t.pairs[i].payee \in t.refunded
            /\ t.pairs[i].payee = t.pairs[i + 1].payer
    /\ \A w \in t.waiting : \A i \in DOMAIN t.pairs :
            /\ t.pairs[i].payee \in t.refunded
            /\ i + 1 \notin DOMAIN t.pairs => w.payer = t.pairs[i].payee
    /\ \A w, x \in t.waiting : w.payer = x.payer

(* A lock belongs to a payer or a payee.  A payer whose lock is gone has   *)
(* paid, or the lock expired and the secret was not registered in time.    *)
(* Until then the node has put a secret it knows into every lock it        *)
(* received.                                                               *)
Locks(t, b) ==
    \A c \in Channel :
        /\ t.received[c] # None => PayerOf(t, c)
        /\ t.sent[c] # None => PayeeOf(t, c)
        /\ t.received[c] = "onchain" => RegisteredInTime
        /\ PayerOf(t, c) /\ t.received[c] = None
                => c \in t.claimed \/ (b >= Expiration + Confirmations /\ ~RegisteredInTime)
        /\ PayerOf(t, c) /\ t.secret /\ b <= Expiration => t.received[c] # "locked"

(* What the states of a pair say: a final payer has paid or its lock       *)
(* expired; a payer that waits for the registration waits for one that was *)
(* asked for; a payee's lock expired without a registration it could have  *)
(* used.                                                                   *)
States(t, b) ==
    \A i \in DOMAIN t.pairs : LET p == t.pairs[i] IN
        /\ p.payer_state \in STATE_TRANSFER_FINAL
                => p.payer \in t.claimed \/ b >= Expiration + Confirmations
        /\ p.payer_state = "payer_waiting_secret_reveal"
                => RequestTime(t) # 0 \/ RegisteredInTime \/ b >= Expiration + Confirmations
        /\ p.payee_state = "payee_expired"
                => b >= Expiration /\ (p.since < registered => ~RegisteredInTime)

(* Nobody is paid before the secret is known. *)
Secret(t) ==
    /\ t.unlocks # {} => t.secret
    /\ t.running /\ t.claimed # {} => t.secret
    /\ ~t.failed => \A i \in DOMAIN t.pairs :
            {t.pairs[i].payer_state, t.pairs[i].payee_state} \cap STATE_TRANSFER_PAID # {}
                => t.secret

(* The running task knows of a registration the node has processed: every  *)
(* lock that the registration reached is on chain.                         *)
Learned(t, b) ==
    t.running /\ Happened(registered, b) =>
        /\ t.secret
        /\ RegisteredInTime => \A c \in Channel :
                PayerOf(t, c) => t.received[c] \in {None, "onchain"}
        /\ RegisteredInTime => \A i \in DOMAIN t.pairs :
                t.pairs[i].since < registered
                    => t.sent[t.pairs[i].payee] \in {None, "onchain"}

(* The heart of the invariant.  For a payee that was paid, the payer paid, *)
(* or the secret is registered in time, or the payer's lock is unlocked    *)
(* and there is time to register.                                          *)
Covered(t, b) ==
    \A i \in DOMAIN t.pairs : t.pairs[i].payee \in t.unlocks =>
        \/ t.pairs[i].payer \in t.claimed
        \/ RegisteredInTime
        \/ t.running /\ t.received[t.pairs[i].payer] = "unlocked" /\ InTime(t, b)

(* Between two handlers no registration is outstanding; a task that failed *)
(* has paid nobody; a task that ended left no lock in a channel that       *)
(* exists.                                                                 *)
Ended(t, b) ==
    /\ ~t.register
    /\ t.failed => ~t.running /\ t.unlocks = {}
    /\ ~t.running /\ ~t.failed =>
            \A c \in Channel : Exists(c, b) => t.received[c] = None /\ t.sent[c] = None

(* What the invariant says of the task in the middle of a handler. *)
Core(t, b) == t \in TaskRecord /\ Shape(t) /\ Locks(t, b) /\ States(t, b) /\ Secret(t)

(* The inductive invariant. *)
MInv ==
    /\ ChainTypeOK /\ ChainTime
    /\ Core(task, block) /\ Learned(task, block) /\ Covered(task, block) /\ Ended(task, block)

(* What the steps inside a handler have in common: u differs from t in the *)
(* states of the pairs, the unlocks, the reveals and the sent locks that   *)
(* are removed.                                                            *)
Evolves(t, u) ==
    /\ u \in TaskRecord
    /\ DOMAIN u.pairs = DOMAIN t.pairs
    /\ \A i \in DOMAIN t.pairs : /\ u.pairs[i].payer = t.pairs[i].payer
                                 /\ u.pairs[i].payee = t.pairs[i].payee
                                 /\ u.pairs[i].since = t.pairs[i].since
    /\ \A c \in Channel : (\E w \in u.waiting : w.payer = c) <=> (\E w \in t.waiting : w.payer = c)
    /\ u.running = t.running /\ u.failed = t.failed /\ u.secret = t.secret
    /\ u.refunded = t.refunded /\ u.received = t.received /\ u.claimed = t.claimed
    /\ \A c \in Channel : u.sent[c] \in {t.sent[c], None}
    /\ t.register => u.register

-----------------------------------------------------------------------------
(* The types of the fields of a task. *)
LEMMA TaskFields ==
    ASSUME NEW t \in TaskRecord
    PROVE  /\ {t.running, t.failed, t.secret, t.register} \subseteq BOOLEAN
           /\ t.pairs \in Seq(PairState)
           /\ t.waiting \subseteq [payer : Channel, state : {"waiting", "expired"}]
           /\ t.received \in [Channel -> Lock] /\ t.sent \in [Channel -> Lock]
           /\ t.refunded \subseteq Channel /\ t.reveals \subseteq Channel
           /\ t.unlocks \subseteq Channel /\ t.claimed \subseteq Channel
BY DEF TaskRecord

(* The types of the fields of a pair. *)
LEMMA PairFields ==
    ASSUME NEW t \in TaskRecord, NEW i \in DOMAIN t.pairs
    PROVE  /\ t.pairs[i] \in PairState
           /\ t.pairs[i].payer \in Channel /\ t.pairs[i].payee \in Channel
           /\ t.pairs[i].since \in Nat
<1>1. t.pairs[i] \in PairState
  BY TaskFields
<1> QED
  BY <1>1 DEF PairState

(* A function on the positions of the pairs whose values are pairs is a    *)
(* sequence of pairs again.                                                *)
LEMMA UpdatedPairs ==
    ASSUME NEW s \in Seq(PairState), NEW f, f = [i \in DOMAIN s |-> f[i]],
           \A i \in DOMAIN s : f[i] \in PairState
    PROVE  f \in Seq(PairState) /\ DOMAIN f = DOMAIN s
OBVIOUS

(* A step inside a handler has the same payers and payees. *)
LEMMA EvolvesPayers ==
    ASSUME NEW t \in TaskRecord, NEW u, Evolves(t, u), NEW c \in Channel
    PROVE  (PayerOf(u, c) <=> PayerOf(t, c)) /\ (PayeeOf(u, c) <=> PayeeOf(t, c))
BY DEF Evolves, PayerOf, PayeeOf

(* A step inside a handler leaves no less time. *)
LEMMA EvolvesRequest ==
    ASSUME NEW t \in TaskRecord, NEW u, Evolves(t, u)
    PROVE  /\ RequestTime(t) # 0 => RequestTime(u) = RequestTime(t)
           /\ \A b : InTime(t, b) => InTime(u, b)
<1>1. RequestTime(t) # 0 => RequestTime(u) = RequestTime(t)
  BY DEF Evolves, RequestTime
<1> QED
  BY <1>1 DEF InTime

(* A step inside a handler leaves the chain of pairs alone. *)
LEMMA EvolvesShape ==
    ASSUME NEW t \in TaskRecord, NEW u, Evolves(t, u), Shape(t)
    PROVE  Shape(u)
<1>1. \A w \in u.waiting : \E x \in t.waiting : x.payer = w.payer
  BY DEF Evolves, TaskRecord
<1>2. \A i \in DOMAIN u.pairs : i + 1 \in DOMAIN u.pairs =>
            /\ u.pairs[i].payee \in u.refunded
            /\ u.pairs[i].payee = u.pairs[i + 1].payer
  BY DEF Evolves, Shape
<1>3. \A w \in u.waiting : \A i \in DOMAIN u.pairs :
            /\ u.pairs[i].payee \in u.refunded
            /\ i + 1 \notin DOMAIN u.pairs => w.payer = u.pairs[i].payee
  BY <1>1 DEF Evolves, Shape
<1>4. \A w, x \in u.waiting : w.payer = x.payer
  BY <1>1 DEF Shape
<1> QED
  BY <1>2, <1>3, <1>4 DEF Shape

(* A step inside a handler keeps Core and Learned if the new states and    *)
(* unlocks are right.                                                      *)
LEMMA EvolvesKeeps ==
    ASSUME NEW t, NEW u, NEW b, Core(t, b), Evolves(t, u), States(u, b), Secret(u)
    PROVE  Core(u, b) /\ (Learned(t, b) => Learned(u, b))
<1>0. t \in TaskRecord /\ u \in TaskRecord
  BY DEF Core, Evolves
<1>1. Shape(u)
  BY <1>0, EvolvesShape DEF Core
<1>2. Locks(u, b)
  <2> SUFFICES ASSUME NEW c \in Channel
               PROVE  /\ u.received[c] # None => PayerOf(u, c)
                      /\ u.sent[c] # None => PayeeOf(u, c)
                      /\ u.received[c] = "onchain" => RegisteredInTime
                      /\ PayerOf(u, c) /\ u.received[c] = None
                            => \/ c \in u.claimed
                               \/ b >= Expiration + Confirmations /\ ~RegisteredInTime
                      /\ PayerOf(u, c) /\ u.secret /\ b <= Expiration
                            => u.received[c] # "locked"
    BY Zenon DEF Locks
  <2>1. (PayerOf(u, c) <=> PayerOf(t, c)) /\ (PayeeOf(u, c) <=> PayeeOf(t, c))
    BY <1>0, EvolvesPayers
  <2>2. /\ u.received = t.received /\ u.claimed = t.claimed /\ u.secret = t.secret
        /\ u.sent[c] # None => t.sent[c] # None
    BY DEF Evolves
  <2> QED
    BY <2>1, <2>2 DEF Core, Locks
<1>3. ASSUME Learned(t, b), u.running, Happened(registered, b)
      PROVE  /\ u.secret
             /\ RegisteredInTime => \A c \in Channel :
                    PayerOf(u, c) => u.received[c] \in {None, "onchain"}
             /\ RegisteredInTime => \A i \in DOMAIN u.pairs :
                    u.pairs[i].since < registered
                        => u.sent[u.pairs[i].payee] \in {None, "onchain"}
  <2>1. t.running /\ u.secret = t.secret /\ u.received = t.received
    BY <1>3 DEF Evolves
  <2>2. \A c \in Channel : PayerOf(u, c) <=> PayerOf(t, c)
    BY <1>0, EvolvesPayers
  <2>3. ASSUME RegisteredInTime, NEW i \in DOMAIN u.pairs, u.pairs[i].since < registered
        PROVE  u.sent[u.pairs[i].payee] \in {None, "onchain"}
    <3>1. /\ i \in DOMAIN t.pairs /\ u.pairs[i].payee = t.pairs[i].payee
          /\ u.pairs[i].since = t.pairs[i].since
      BY DEF Evolves
    <3>2. t.pairs[i].payee \in Channel
      BY <1>0, <3>1, PairFields
    <3>3. t.sent[t.pairs[i].payee] \in {None, "onchain"}
      BY <1>3, <2>1, <2>3, <3>1 DEF Learned
    <3> QED
      BY <3>1, <3>2, <3>3 DEF Evolves
  <2> QED
    BY <1>3, <2>1, <2>2, <2>3 DEF Learned
<1> QED
  BY <1>0, <1>1, <1>2, <1>3 DEF Core, Learned

-----------------------------------------------------------------------------
(* Replacing the pairs leaves the other fields alone. *)
LEMMA ReplacedPairs ==
    ASSUME NEW t \in TaskRecord, NEW f \in Seq(PairState), NEW u, u = [t EXCEPT !.pairs = f]
    PROVE  /\ u \in TaskRecord /\ u.pairs = f
           /\ u.running = t.running /\ u.failed = t.failed /\ u.secret = t.secret
           /\ u.waiting = t.waiting /\ u.refunded = t.refunded
           /\ u.received = t.received /\ u.sent = t.sent /\ u.reveals = t.reveals
           /\ u.unlocks = t.unlocks /\ u.claimed = t.claimed /\ u.register = t.register
BY DEF TaskRecord

(* What set_offchain_reveal_state changes. *)
LEMMA RevealStateEffect ==
    ASSUME NEW t \in TaskRecord, NEW c, NEW u, u = set_offchain_reveal_state(t, c)
    PROVE  /\ Evolves(t, u) /\ u.unlocks = t.unlocks /\ u.register = t.register
           /\ \A i \in DOMAIN t.pairs :
                 /\ u.pairs[i].payer_state = t.pairs[i].payer_state
                 /\ u.pairs[i].payee_state
                        \in {t.pairs[i].payee_state, "payee_secret_revealed"}
<1> DEFINE f == [i \in DOMAIN t.pairs |->
                    IF t.pairs[i].payee = c
                    THEN [t.pairs[i] EXCEPT !.payee_state = "payee_secret_revealed"]
                    ELSE t.pairs[i]]
<1>1. u = [t EXCEPT !.pairs = f]
  BY DEF set_offchain_reveal_state, UpdatePairs
<1>2. \A i \in DOMAIN t.pairs :
         /\ f[i] \in PairState
         /\ f[i].payer = t.pairs[i].payer /\ f[i].payee = t.pairs[i].payee
         /\ f[i].since = t.pairs[i].since /\ f[i].payer_state = t.pairs[i].payer_state
         /\ f[i].payee_state \in {t.pairs[i].payee_state, "payee_secret_revealed"}
  BY PairFields DEF PairState
<1>3. t.pairs \in Seq(PairState) /\ f = [i \in DOMAIN t.pairs |-> f[i]]
  BY TaskFields
<1> HIDE DEF f
<1>4. f \in Seq(PairState) /\ DOMAIN f = DOMAIN t.pairs
  BY Zenon, <1>2, <1>3, UpdatedPairs
<1> QED
  BY <1>1, <1>2, <1>4, ReplacedPairs DEF Evolves

(* What waiting for the registration changes. *)
LEMMA WaitEffect ==
    ASSUME NEW t \in TaskRecord, NEW b, NEW waiting, NEW needing, NEW u,
           u = WaitForSecretReveal(t, b, waiting, needing)
    PROVE  /\ Evolves(t, u) /\ u.unlocks = t.unlocks
           /\ u.register <=> \/ t.register
                             \/ ~has_secret_registration_started(t, b) /\ needing # {}
           /\ \A i \in DOMAIN t.pairs :
                 /\ u.pairs[i].payee_state = t.pairs[i].payee_state
                 /\ u.pairs[i].payer_state = IF t.pairs[i] \in waiting
                                             THEN "payer_waiting_secret_reveal"
                                             ELSE t.pairs[i].payer_state
<1> DEFINE f == [i \in DOMAIN t.pairs |->
                    IF t.pairs[i] \in waiting
                    THEN [t.pairs[i] EXCEPT !.payer_state = "payer_waiting_secret_reveal"]
                    ELSE t.pairs[i]]
           v == [t EXCEPT !.pairs = f]
           r == v.register \/ (~has_secret_registration_started(t, b) /\ needing # {})
<1>1. u = [v EXCEPT !.register = r]
  BY DEF WaitForSecretReveal, UpdatePairs
<1>2. \A i \in DOMAIN t.pairs :
         /\ f[i] \in PairState
         /\ f[i].payer = t.pairs[i].payer /\ f[i].payee = t.pairs[i].payee
         /\ f[i].since = t.pairs[i].since /\ f[i].payee_state = t.pairs[i].payee_state
         /\ f[i].payer_state = IF t.pairs[i] \in waiting THEN "payer_waiting_secret_reveal"
                               ELSE t.pairs[i].payer_state
  BY PairFields DEF PairState
<1>3. t.pairs \in Seq(PairState) /\ f = [i \in DOMAIN t.pairs |-> f[i]]
  BY TaskFields
<1> HIDE DEF f
<1>4. f \in Seq(PairState) /\ DOMAIN f = DOMAIN t.pairs
  BY Zenon, <1>2, <1>3, UpdatedPairs
<1>5. /\ v \in TaskRecord /\ v.pairs = f
      /\ v.running = t.running /\ v.failed = t.failed /\ v.secret = t.secret
      /\ v.waiting = t.waiting /\ v.refunded = t.refunded
      /\ v.received = t.received /\ v.sent = t.sent
      /\ v.unlocks = t.unlocks /\ v.claimed = t.claimed /\ v.register = t.register
  BY <1>4, ReplacedPairs
<1>6. r \in BOOLEAN
  BY <1>5, TaskFields
<1>7. r <=> \/ t.register
            \/ ~has_secret_registration_started(t, b) /\ needing # {}
  BY <1>5
<1> HIDE DEF v, r
<1>8. /\ u \in TaskRecord /\ u.pairs = v.pairs
      /\ u.running = v.running /\ u.failed = v.failed /\ u.secret = v.secret
      /\ u.waiting = v.waiting /\ u.refunded = v.refunded
      /\ u.received = v.received /\ u.sent = v.sent
      /\ u.unlocks = v.unlocks /\ u.claimed = v.claimed /\ u.register = r
  BY Zenon, <1>1, <1>5, <1>6 DEF TaskRecord
<1> QED
  BY <1>2, <1>4, <1>5, <1>7, <1>8 DEF Evolves

(* What events_for_secretreveal changes. *)
LEMMA SecretRevealEffect ==
    ASSUME NEW t \in TaskRecord, NEW u, u = events_for_secretreveal(t)
    PROVE  /\ Evolves(t, u) /\ u.unlocks = t.unlocks /\ u.register = t.register
           /\ \A i \in DOMAIN t.pairs :
                 /\ u.pairs[i].payee_state = t.pairs[i].payee_state
                 /\ u.pairs[i].payer_state
                        \in {t.pairs[i].payer_state, "payer_secret_revealed"}
<1> DEFINE ShouldSend(p) == /\ p.payee_state \in STATE_SECRET_KNOWN
                            /\ p.payer_state = "payer_pending"
           f == [i \in DOMAIN t.pairs |->
                    IF ShouldSend(t.pairs[i])
                    THEN [t.pairs[i] EXCEPT !.payer_state = "payer_secret_revealed"]
                    ELSE t.pairs[i]]
           v == [t EXCEPT !.pairs = f]
           r == v.reveals \cup {p.payer : p \in {q \in Pairs(t) : ShouldSend(q)}}
<1>1. u = [v EXCEPT !.reveals = r]
  BY DEF events_for_secretreveal, UpdatePairs
<1>2. \A i \in DOMAIN t.pairs :
         /\ f[i] \in PairState
         /\ f[i].payer = t.pairs[i].payer /\ f[i].payee = t.pairs[i].payee
         /\ f[i].since = t.pairs[i].since /\ f[i].payee_state = t.pairs[i].payee_state
         /\ f[i].payer_state \in {t.pairs[i].payer_state, "payer_secret_revealed"}
  BY PairFields DEF PairState
<1>3. t.pairs \in Seq(PairState) /\ f = [i \in DOMAIN t.pairs |-> f[i]]
  BY TaskFields
<1> HIDE DEF f
<1>4. f \in Seq(PairState) /\ DOMAIN f = DOMAIN t.pairs
  BY Zenon, <1>2, <1>3, UpdatedPairs
<1>5. /\ v \in TaskRecord /\ v.pairs = f
      /\ v.running = t.running /\ v.failed = t.failed /\ v.secret = t.secret
      /\ v.waiting = t.waiting /\ v.refunded = t.refunded
      /\ v.received = t.received /\ v.sent = t.sent /\ v.reveals = t.reveals
      /\ v.unlocks = t.unlocks /\ v.claimed = t.claimed /\ v.register = t.register
  BY <1>4, ReplacedPairs
<1>6. r \subseteq Channel
  BY <1>5, TaskFields, PairFields DEF Pairs
<1> HIDE DEF v, r
<1>7. /\ u \in TaskRecord /\ u.pairs = v.pairs
      /\ u.running = v.running /\ u.failed = v.failed /\ u.secret = v.secret
      /\ u.waiting = v.waiting /\ u.refunded = v.refunded
      /\ u.received = v.received /\ u.sent = v.sent
      /\ u.unlocks = v.unlocks /\ u.claimed = v.claimed /\ u.register = v.register
  BY <1>1, <1>5, <1>6 DEF TaskRecord
<1> QED
  BY <1>2, <1>4, <1>5, <1>7 DEF Evolves

(* What events_for_balanceproof changes: it pays only while it is safe to  *)
(* wait.                                                                   *)
LEMMA BalanceProofEffect ==
    ASSUME NEW t \in TaskRecord, NEW b, NEW u, u = events_for_balanceproof(t, b)
    PROVE  /\ Evolves(t, u) /\ u.register = t.register
           /\ \A i \in DOMAIN t.pairs :
                 /\ u.pairs[i].payer_state = t.pairs[i].payer_state
                 /\ u.pairs[i].payee_state
                        \in {t.pairs[i].payee_state, "payee_balance_proof"}
           /\ ~is_safe_to_wait(b) => u.unlocks = t.unlocks
<1> DEFINE ShouldSend(p) == /\ Exists(p.payee, b) /\ IsOpened(p.payee, b)
                            /\ p.payee_state \in STATE_SECRET_KNOWN
                            /\ p.payee_state \notin STATE_TRANSFER_PAID
                            /\ Exists(p.payer, b)
                            /\ is_safe_to_wait(b)
           payees == {p.payee : p \in {q \in Pairs(t) : ShouldSend(q)}}
           f == [i \in DOMAIN t.pairs |->
                    IF ShouldSend(t.pairs[i])
                    THEN [t.pairs[i] EXCEPT !.payee_state = "payee_balance_proof"]
                    ELSE t.pairs[i]]
           v == [t EXCEPT !.pairs = f]
           n == v.unlocks \cup payees
           s == [c \in Channel |-> IF c \in payees THEN None ELSE v.sent[c]]
<1>1. u = [v EXCEPT !.unlocks = n, !.sent = s]
  BY DEF events_for_balanceproof, UpdatePairs
<1>2. \A i \in DOMAIN t.pairs :
         /\ f[i] \in PairState
         /\ f[i].payer = t.pairs[i].payer /\ f[i].payee = t.pairs[i].payee
         /\ f[i].since = t.pairs[i].since /\ f[i].payer_state = t.pairs[i].payer_state
         /\ f[i].payee_state \in {t.pairs[i].payee_state, "payee_balance_proof"}
  <2> HIDE DEF ShouldSend
  <2> QED
    BY PairFields DEF PairState
<1>3. t.pairs \in Seq(PairState) /\ f = [i \in DOMAIN t.pairs |-> f[i]]
  BY TaskFields
<1>4. payees \subseteq Channel /\ (~is_safe_to_wait(b) => payees = {})
  BY PairFields DEF Pairs
<1> HIDE DEF f, payees, ShouldSend
<1>5. f \in Seq(PairState) /\ DOMAIN f = DOMAIN t.pairs
  BY Zenon, <1>2, <1>3, UpdatedPairs
<1>6. /\ v \in TaskRecord /\ v.pairs = f
      /\ v.running = t.running /\ v.failed = t.failed /\ v.secret = t.secret
      /\ v.waiting = t.waiting /\ v.refunded = t.refunded
      /\ v.received = t.received /\ v.sent = t.sent /\ v.reveals = t.reveals
      /\ v.unlocks = t.unlocks /\ v.claimed = t.claimed /\ v.register = t.register
  BY <1>5, ReplacedPairs
<1>7. /\ n \subseteq Channel /\ (~is_safe_to_wait(b) => n = t.unlocks)
      /\ s \in [Channel -> Lock] /\ \A c \in Channel : s[c] \in {t.sent[c], None}
  BY <1>4, <1>6, TaskFields DEF Lock, None
<1> HIDE DEF v, n, s
<1>8. /\ u \in TaskRecord /\ u.pairs = v.pairs
      /\ u.running = v.running /\ u.failed = v.failed /\ u.secret = v.secret
      /\ u.waiting = v.waiting /\ u.refunded = v.refunded
      /\ u.received = v.received /\ u.sent = s
      /\ u.unlocks = n /\ u.claimed = v.claimed /\ u.register = v.register
  BY Zenon, <1>1, <1>6, <1>7 DEF TaskRecord
<1> QED
  BY <1>2, <1>5, <1>6, <1>7, <1>8 DEF Evolves

(* What events_to_remove_expired_locks changes. *)
LEMMA RemoveExpiredEffect ==
    ASSUME NEW t \in TaskRecord, NEW b, NEW u, u = events_to_remove_expired_locks(t, b)
    PROVE  /\ Evolves(t, u) /\ u.unlocks = t.unlocks /\ u.register = t.register
           /\ \A i \in DOMAIN t.pairs :
                 /\ u.pairs[i].payer_state = t.pairs[i].payer_state
                 /\ \/ u.pairs[i].payee_state = t.pairs[i].payee_state
                    \/ /\ u.pairs[i].payee_state = "payee_expired"
                       /\ t.sent[t.pairs[i].payee] \in {"locked", "unlocked"}
                       /\ b >= get_sender_expiration_threshold
<1> DEFINE IsExpired(p) == /\ Exists(p.payee, b) /\ IsOpened(p.payee, b)
                           /\ t.sent[p.payee] \in {"locked", "unlocked"}
                           /\ b >= get_sender_expiration_threshold
           payees == {p.payee : p \in {q \in Pairs(t) : IsExpired(q)}}
           f == [i \in DOMAIN t.pairs |->
                    IF IsExpired(t.pairs[i])
                    THEN [t.pairs[i] EXCEPT !.payee_state = "payee_expired"]
                    ELSE t.pairs[i]]
           v == [t EXCEPT !.pairs = f]
           s == [c \in Channel |-> IF c \in payees THEN None ELSE v.sent[c]]
<1>1. u = [v EXCEPT !.sent = s]
  BY DEF events_to_remove_expired_locks, UpdatePairs
<1>2. \A i \in DOMAIN t.pairs :
         /\ f[i] \in PairState
         /\ f[i].payer = t.pairs[i].payer /\ f[i].payee = t.pairs[i].payee
         /\ f[i].since = t.pairs[i].since /\ f[i].payer_state = t.pairs[i].payer_state
         /\ \/ f[i].payee_state = t.pairs[i].payee_state
            \/ f[i].payee_state = "payee_expired" /\ IsExpired(t.pairs[i])
  <2> HIDE DEF IsExpired
  <2> QED
    BY PairFields DEF PairState
<1>3. t.pairs \in Seq(PairState) /\ f = [i \in DOMAIN t.pairs |-> f[i]]
  BY TaskFields
<1>4. payees \subseteq Channel
  BY PairFields DEF Pairs
<1> HIDE DEF f, payees
<1>5. f \in Seq(PairState) /\ DOMAIN f = DOMAIN t.pairs
  BY <1>2, <1>3, UpdatedPairs
<1>6. /\ v \in TaskRecord /\ v.pairs = f
      /\ v.running = t.running /\ v.failed = t.failed /\ v.secret = t.secret
      /\ v.waiting = t.waiting /\ v.refunded = t.refunded
      /\ v.received = t.received /\ v.sent = t.sent /\ v.reveals = t.reveals
      /\ v.unlocks = t.unlocks /\ v.claimed = t.claimed /\ v.register = t.register
  BY <1>5, ReplacedPairs
<1>7. s \in [Channel -> Lock] /\ \A c \in Channel : s[c] \in {t.sent[c], None}
  BY <1>4, <1>6, TaskFields DEF Lock, None
<1> HIDE DEF v, s
<1>8. /\ u \in TaskRecord /\ u.pairs = v.pairs
      /\ u.running = v.running /\ u.failed = v.failed /\ u.secret = v.secret
      /\ u.waiting = v.waiting /\ u.refunded = v.refunded
      /\ u.received = v.received /\ u.sent = s
      /\ u.unlocks = v.unlocks /\ u.claimed = v.claimed /\ u.register = v.register
  BY Zenon, <1>1, <1>6, <1>7 DEF TaskRecord
<1> QED
  BY <1>2, <1>5, <1>6, <1>7, <1>8 DEF Evolves

(* What events_for_expired_pairs changes. *)
LEMMA ExpiredPairsEffect ==
    ASSUME NEW t \in TaskRecord, NEW b, NEW u, u = events_for_expired_pairs(t, b)
    PROVE  /\ Evolves(t, u) /\ u.unlocks = t.unlocks /\ u.register = t.register
           /\ \A i \in DOMAIN t.pairs :
                 /\ u.pairs[i].payee_state = t.pairs[i].payee_state
                 /\ \/ u.pairs[i].payer_state = t.pairs[i].payer_state
                    \/ /\ u.pairs[i].payer_state = "payer_expired"
                       /\ b >= get_sender_expiration_threshold
<1> DEFINE IsExpired(p) == /\ IsPendingPair(p)
                           /\ Exists(p.payer, b)
                           /\ is_transfer_expired(t, p.payer, b)
           f == [i \in DOMAIN t.pairs |->
                    IF IsExpired(t.pairs[i])
                    THEN [t.pairs[i] EXCEPT !.payer_state = "payer_expired"]
                    ELSE t.pairs[i]]
           v == [t EXCEPT !.pairs = f]
           n == {[w EXCEPT !.state =
                    IF get_receiver_expiration_threshold <= b THEN "expired" ELSE @]
                 : w \in v.waiting}
<1>1. u = [v EXCEPT !.waiting = n]
  BY DEF events_for_expired_pairs, UpdatePairs
<1>2. \A p : IsExpired(p) => b >= get_sender_expiration_threshold
  BY DEF is_transfer_expired, is_lock_expired
<1>3. \A i \in DOMAIN t.pairs :
         /\ f[i] \in PairState
         /\ f[i].payer = t.pairs[i].payer /\ f[i].payee = t.pairs[i].payee
         /\ f[i].since = t.pairs[i].since /\ f[i].payee_state = t.pairs[i].payee_state
         /\ \/ f[i].payer_state = t.pairs[i].payer_state
            \/ f[i].payer_state = "payer_expired" /\ IsExpired(t.pairs[i])
  <2> HIDE DEF IsExpired
  <2> QED
    BY PairFields DEF PairState
<1>4. t.pairs \in Seq(PairState) /\ f = [i \in DOMAIN t.pairs |-> f[i]]
  BY TaskFields
<1> HIDE DEF f, IsExpired
<1>5. f \in Seq(PairState) /\ DOMAIN f = DOMAIN t.pairs
  BY Zenon, <1>3, <1>4, UpdatedPairs
<1>6. /\ v \in TaskRecord /\ v.pairs = f
      /\ v.running = t.running /\ v.failed = t.failed /\ v.secret = t.secret
      /\ v.waiting = t.waiting /\ v.refunded = t.refunded
      /\ v.received = t.received /\ v.sent = t.sent /\ v.reveals = t.reveals
      /\ v.unlocks = t.unlocks /\ v.claimed = t.claimed /\ v.register = t.register
  BY <1>5, ReplacedPairs
<1>7. /\ n \subseteq [payer : Channel, state : {"waiting", "expired"}]
      /\ \A c : (\E w \in n : w.payer = c) <=> (\E w \in t.waiting : w.payer = c)
  <2> DEFINE aged(w) == [w EXCEPT !.state =
                            IF get_receiver_expiration_threshold <= b THEN "expired" ELSE @]
  <2>1. \A w \in t.waiting : /\ aged(w) \in [payer : Channel, state : {"waiting", "expired"}]
                             /\ aged(w).payer = w.payer
    BY TaskFields
  <2>2. n = {aged(w) : w \in t.waiting}
    BY <1>6
  <2> HIDE DEF aged, n
  <2> QED
    BY <2>1, <2>2
<1> HIDE DEF v, n
<1>8. /\ u \in TaskRecord /\ u.pairs = v.pairs
      /\ u.running = v.running /\ u.failed = v.failed /\ u.secret = v.secret
      /\ u.waiting = n /\ u.refunded = v.refunded
      /\ u.received = v.received /\ u.sent = v.sent
      /\ u.unlocks = v.unlocks /\ u.claimed = v.claimed /\ u.register = v.register
  <2>1. v \in TaskRecord /\ n \subseteq [payer : Channel, state : {"waiting", "expired"}]
    BY <1>6, <1>7
  <2> QED
    BY ONLY <1>1, <2>1 DEF TaskRecord
<1>9. Evolves(t, u)
  <2>1. /\ u \in TaskRecord /\ u.pairs = f /\ u.waiting = n
        /\ u.running = t.running /\ u.failed = t.failed /\ u.secret = t.secret
        /\ u.refunded = t.refunded /\ u.received = t.received /\ u.claimed = t.claimed
        /\ u.sent = t.sent /\ u.register = t.register
    BY Zenon, <1>6, <1>8
  <2>2. \A i \in DOMAIN t.pairs : /\ u.pairs[i].payer = t.pairs[i].payer
                                  /\ u.pairs[i].payee = t.pairs[i].payee
                                  /\ u.pairs[i].since = t.pairs[i].since
    BY Zenon, <1>3, <2>1
  <2>3. \A c \in Channel : (\E w \in u.waiting : w.payer = c) <=> (\E w \in t.waiting : w.payer = c)
    BY Zenon, <1>7, <2>1
  <2> QED
    BY Zenon, <1>5, <2>1, <2>2, <2>3 DEF Evolves
<1>10. \A i \in DOMAIN t.pairs :
          \/ f[i].payer_state = t.pairs[i].payer_state
          \/ /\ f[i].payer_state = "payer_expired"
             /\ b >= get_sender_expiration_threshold
  BY <1>2, <1>3
<1> QED
  BY <1>3, <1>6, <1>8, <1>9, <1>10

-----------------------------------------------------------------------------
(* A mined block keeps the time bounds. *)
LEMMA MineBlockTime ==
    ASSUME ChainTypeOK, ChainTime,
           NEW register \in BOOLEAN, NEW closing, NEW settling,
           MineBlock(register, closing, settling)
    PROVE  ChainTypeOK' /\ ChainTime'
<1> USE PaymentChainAssumption
<1>1. ChainTypeOK'
  BY DEF ChainTypeOK, MineBlock
<1>2. \A c \in Channel : settled'[c] # 0 => settled'[c] > Expiration
  BY DEF ChainTypeOK, ChainTime, MineBlock
<1>3. /\ block' <= head' - Confirmations
      /\ head' <= block' + Confirmations + MaxLag
      /\ requested' # 0 /\ registered' = 0 => head' < requested' + TransactionTime
      /\ requested' # 0 /\ registered' # 0 => registered' <= requested' + TransactionTime
  BY DEF ChainTypeOK, ChainTime, MineBlock
<1> QED
  BY <1>1, <1>2, <1>3 DEF ChainTime

(* A step of the node keeps the time bounds. *)
LEMMA NodeStepTime ==
    ASSUME ChainTypeOK, ChainTime,
           NEW b \in block .. (head - Confirmations), block' = b,
           NEW wanted, Request(wanted), UNCHANGED chain
    PROVE  ChainTypeOK' /\ ChainTime'
<1> USE PaymentChainAssumption
<1>1. ChainTypeOK'
  BY DEF ChainTypeOK, Request, chain
<1>2. \A c \in Channel : settled'[c] # 0 => settled'[c] > Expiration
  BY DEF ChainTime, chain
<1>3. /\ block' <= head' - Confirmations
      /\ head' <= block' + Confirmations + MaxLag
      /\ requested' # 0 /\ registered' = 0 => head' < requested' + TransactionTime
      /\ requested' # 0 /\ registered' # 0 => registered' <= requested' + TransactionTime
  BY DEF ChainTypeOK, ChainTime, Request, chain
<1> QED
  BY <1>1, <1>2, <1>3 DEF ChainTime

(* No channel disappears before the locks have expired. *)
LEMMA ExistsUntilExpiration ==
    ASSUME ChainTypeOK, ChainTime, NEW c \in Channel, NEW b \in Nat, b <= Expiration
    PROVE  Exists(c, b)
BY PaymentChainAssumption DEF ChainTypeOK, ChainTime, Exists, Happened

(* While the node thinks it safe to wait, the chain has not reached the    *)
(* expiration and a registration asked for now is mined before it.         *)
LEMMA SafeIsEarly ==
    ASSUME ChainTypeOK, ChainTime, is_safe_to_wait(block), NEW t
    PROVE  /\ head < Expiration /\ head # 0
           /\ RequestTime(t) # 0 => RequestTime(t) + TransactionTime < Expiration
           /\ registered # 0 => RegisteredInTime
BY PaymentChainAssumption
DEF ChainTypeOK, ChainTime, RequestTime, RegisteredInTime, Happened, is_safe_to_wait

(* If there was time to register, the secret is registered in time once it *)
(* is registered or the locks have expired.                                *)
LEMMA InTimeMeansRegistered ==
    ASSUME ChainTypeOK, ChainTime, NEW t, InTime(t, block),
           registered # 0 \/ head >= Expiration
    PROVE  RegisteredInTime
BY PaymentChainAssumption
DEF ChainTypeOK, ChainTime, InTime, RequestTime, RegisteredInTime, Happened, is_safe_to_wait

(* A step inside a handler that pays nobody leaves every unlock covered. *)
LEMMA EvolvesCovered ==
    ASSUME NEW t \in TaskRecord, NEW u, Evolves(t, u), NEW b, Covered(t, b),
           u.unlocks = t.unlocks
    PROVE  Covered(u, b)
<1> SUFFICES ASSUME NEW i \in DOMAIN u.pairs, u.pairs[i].payee \in u.unlocks
             PROVE  \/ u.pairs[i].payer \in u.claimed
                    \/ RegisteredInTime
                    \/ /\ u.running /\ u.received[u.pairs[i].payer] = "unlocked"
                       /\ InTime(u, b)
  BY DEF Covered
<1>1. /\ i \in DOMAIN t.pairs /\ u.pairs[i].payee = t.pairs[i].payee
      /\ u.pairs[i].payer = t.pairs[i].payer
      /\ u.claimed = t.claimed /\ u.running = t.running /\ u.received = t.received
  BY DEF Evolves
<1>2. InTime(t, b) => InTime(u, b)
  BY EvolvesRequest
<1> QED
  BY <1>1, <1>2 DEF Covered

(* The secret is known and it is safe to wait: every unlock is covered. *)
LEMMA SafeIsCovered ==
    ASSUME NEW t, NEW b \in Nat, Core(t, b), t.running, t.secret, is_safe_to_wait(b)
    PROVE  Covered(t, b)
<1> SUFFICES ASSUME NEW i \in DOMAIN t.pairs
             PROVE  \/ t.pairs[i].payer \in t.claimed
                    \/ RegisteredInTime
                    \/ /\ t.running /\ t.received[t.pairs[i].payer] = "unlocked"
                       /\ InTime(t, b)
  BY DEF Covered
<1> DEFINE c == t.pairs[i].payer
<1>1. t \in TaskRecord /\ c \in Channel /\ PayerOf(t, c)
  BY PairFields DEF Core, PayerOf
<1>2. b <= Expiration /\ ~(b >= Expiration + Confirmations) /\ InTime(t, b)
  BY PaymentChainAssumption DEF is_safe_to_wait, InTime
<1>3. t.received[c] \in Lock /\ t.received[c] # "locked"
  BY <1>1, <1>2, TaskFields DEF Core, Locks
<1>4. t.received[c] = None => c \in t.claimed
  BY <1>1, <1>2 DEF Core, Locks
<1>5. t.received[c] = "onchain" => RegisteredInTime
  BY <1>1 DEF Core, Locks
<1> QED
  BY <1>2, <1>3, <1>4, <1>5 DEF Lock, None

-----------------------------------------------------------------------------
(* Core of the handlers that change the states of the pairs. *)

(* set_offchain_reveal_state keeps Core and Learned. *)
LEMMA RevealStateKeeps ==
    ASSUME NEW t, NEW b, NEW c, NEW u, u = set_offchain_reveal_state(t, c),
           Core(t, b), Learned(t, b)
    PROVE  Core(u, b) /\ Learned(u, b)
<1>1. t \in TaskRecord
  BY DEF Core
<1>2. /\ Evolves(t, u) /\ u.unlocks = t.unlocks /\ u.register = t.register
      /\ \A i \in DOMAIN t.pairs :
             /\ u.pairs[i].payer_state = t.pairs[i].payer_state
             /\ u.pairs[i].payee_state
                    \in {t.pairs[i].payee_state, "payee_secret_revealed"}
  BY <1>1, RevealStateEffect
<1>3. RequestTime(u) = RequestTime(t)
  BY <1>2 DEF RequestTime
<1>4. States(u, b)
  BY <1>2, <1>3 DEF Core, States, Evolves
<1>5. Secret(u)
  BY <1>2 DEF Core, Secret, Evolves, STATE_TRANSFER_PAID
<1> QED
  BY <1>2, <1>4, <1>5, EvolvesKeeps

(* events_for_secretreveal keeps Core and Learned. *)
LEMMA SecretRevealKeeps ==
    ASSUME NEW t, NEW b, NEW u, u = events_for_secretreveal(t), Core(t, b), Learned(t, b)
    PROVE  Core(u, b) /\ Learned(u, b)
<1>1. t \in TaskRecord
  BY DEF Core
<1>2. /\ Evolves(t, u) /\ u.unlocks = t.unlocks /\ u.register = t.register
      /\ \A i \in DOMAIN t.pairs :
             /\ u.pairs[i].payee_state = t.pairs[i].payee_state
             /\ u.pairs[i].payer_state
                    \in {t.pairs[i].payer_state, "payer_secret_revealed"}
  BY <1>1, SecretRevealEffect
<1>3. RequestTime(u) = RequestTime(t)
  BY <1>2 DEF RequestTime
<1>4. States(u, b)
  BY <1>2, <1>3 DEF Core, States, Evolves, STATE_TRANSFER_FINAL
<1>5. Secret(u)
  BY <1>2 DEF Core, Secret, Evolves, STATE_TRANSFER_PAID
<1> QED
  BY <1>2, <1>4, <1>5, EvolvesKeeps

(* events_for_balanceproof keeps Core and Learned if the secret is known. *)
LEMMA BalanceProofKeeps ==
    ASSUME NEW t, NEW b, NEW d, NEW u, u = events_for_balanceproof(t, d),
           Core(t, b), Learned(t, b), t.secret
    PROVE  Core(u, b) /\ Learned(u, b)
<1>1. t \in TaskRecord
  BY DEF Core
<1>2. /\ Evolves(t, u) /\ u.register = t.register
      /\ \A i \in DOMAIN t.pairs :
             /\ u.pairs[i].payer_state = t.pairs[i].payer_state
             /\ u.pairs[i].payee_state
                    \in {t.pairs[i].payee_state, "payee_balance_proof"}
  BY <1>1, BalanceProofEffect
<1>3. RequestTime(u) = RequestTime(t)
  BY <1>2 DEF RequestTime
<1>4. States(u, b)
  BY <1>2, <1>3 DEF Core, States, Evolves
<1>5. Secret(u)
  BY <1>2 DEF Secret, Evolves
<1> QED
  BY <1>2, <1>4, <1>5, EvolvesKeeps

(* events_to_remove_expired_locks keeps Core and Learned: its threshold    *)
(* lies behind every block of a registration in time, and the locks that   *)
(* learned of one are on chain.                                            *)
LEMMA RemoveExpiredKeeps ==
    ASSUME NEW t, NEW b \in Nat, NEW u, u = events_to_remove_expired_locks(t, b),
           Core(t, b), Learned(t, b), t.running, ChainTypeOK
    PROVE  Core(u, b) /\ Learned(u, b)
<1>1. t \in TaskRecord
  BY DEF Core
<1>2. /\ Evolves(t, u) /\ u.unlocks = t.unlocks /\ u.register = t.register
      /\ \A i \in DOMAIN t.pairs :
             /\ u.pairs[i].payer_state = t.pairs[i].payer_state
             /\ \/ u.pairs[i].payee_state = t.pairs[i].payee_state
                \/ /\ u.pairs[i].payee_state = "payee_expired"
                   /\ t.sent[t.pairs[i].payee] \in {"locked", "unlocked"}
                   /\ b >= get_sender_expiration_threshold
  BY <1>1, RemoveExpiredEffect
<1>3. RequestTime(u) = RequestTime(t)
  BY <1>2 DEF RequestTime
<1>4. ASSUME NEW i \in DOMAIN t.pairs, t.sent[t.pairs[i].payee] \in {"locked", "unlocked"},
             b >= get_sender_expiration_threshold
      PROVE  b >= Expiration /\ (t.pairs[i].since < registered => ~RegisteredInTime)
  <2>1. b >= Expiration
    BY <1>4, PaymentChainAssumption DEF get_sender_expiration_threshold
  <2>2. RegisteredInTime => Happened(registered, b)
    BY <2>1, PaymentChainAssumption DEF ChainTypeOK, RegisteredInTime, Happened
  <2> QED
    BY <1>4, <2>1, <2>2 DEF Learned, None
<1>5. States(u, b)
  BY <1>2, <1>3, <1>4 DEF Core, States, Evolves
<1>6. Secret(u)
  BY <1>2 DEF Core, Secret, Evolves, STATE_TRANSFER_PAID
<1> QED
  BY <1>2, <1>5, <1>6, EvolvesKeeps

(* events_for_expired_pairs keeps Core and Learned. *)
LEMMA ExpiredPairsKeeps ==
    ASSUME NEW t, NEW b \in Nat, NEW u, u = events_for_expired_pairs(t, b),
           Core(t, b), Learned(t, b)
    PROVE  Core(u, b) /\ Learned(u, b)
<1>1. t \in TaskRecord
  BY DEF Core
<1>2. /\ Evolves(t, u) /\ u.unlocks = t.unlocks /\ u.register = t.register
      /\ \A i \in DOMAIN t.pairs :
             /\ u.pairs[i].payee_state = t.pairs[i].payee_state
             /\ \/ u.pairs[i].payer_state = t.pairs[i].payer_state
                \/ /\ u.pairs[i].payer_state = "payer_expired"
                   /\ b >= get_sender_expiration_threshold
  BY <1>1, ExpiredPairsEffect
<1>3. RequestTime(u) = RequestTime(t)
  BY <1>2 DEF RequestTime
<1>4. b >= get_sender_expiration_threshold => b >= Expiration + Confirmations
  BY PaymentChainAssumption DEF get_sender_expiration_threshold
<1>5. States(u, b)
  BY <1>2, <1>3, <1>4 DEF Core, States, Evolves
<1>6. Secret(u)
  BY <1>2 DEF Core, Secret, Evolves, STATE_TRANSFER_PAID
<1> QED
  BY <1>2, <1>5, <1>6, EvolvesKeeps

-----------------------------------------------------------------------------
(* A pair waits for the registration only if it was asked for, or the      *)
(* secret is registered, or the lock has expired.                          *)
LEMMA WaitKeeps ==
    ASSUME NEW t, NEW b, NEW waiting, NEW needing, NEW u,
           u = WaitForSecretReveal(t, b, waiting, needing),
           Core(t, b), Learned(t, b), head # 0,
           waiting # {} => needing # {} \/ b >= Expiration + Confirmations
    PROVE  /\ Core(u, b) /\ Learned(u, b)
           /\ waiting # {} => \/ RequestTime(u) # 0
                              \/ RegisteredInTime
                              \/ b >= Expiration + Confirmations
<1>1. t \in TaskRecord
  BY DEF Core
<1>2. /\ Evolves(t, u) /\ u.unlocks = t.unlocks
      /\ u.register <=> \/ t.register
                        \/ ~has_secret_registration_started(t, b) /\ needing # {}
      /\ \A i \in DOMAIN t.pairs :
             /\ u.pairs[i].payee_state = t.pairs[i].payee_state
             /\ u.pairs[i].payer_state = IF t.pairs[i] \in waiting
                                         THEN "payer_waiting_secret_reveal"
                                         ELSE t.pairs[i].payer_state
  BY <1>1, WaitEffect
<1>3. RequestTime(t) # 0 => RequestTime(u) # 0
  BY <1>1, <1>2, EvolvesRequest
<1>4. ASSUME has_secret_registration_started(t, b)
      PROVE  RequestTime(t) # 0 \/ RegisteredInTime \/ b >= Expiration + Confirmations
  <2>1. CASE \E c \in PayerChannels(t, b) : t.received[c] = "onchain"
    <3>1. PICK i \in DOMAIN t.pairs : t.received[t.pairs[i].payer] = "onchain"
      BY <2>1 DEF PayerChannels, Pairs
    <3> QED
      BY <1>1, <3>1, PairFields DEF Core, Locks
  <2>2. CASE \E p \in Pairs(t) : p.payer_state = "payer_waiting_secret_reveal"
    BY <2>2 DEF Pairs, Core, States
  <2> QED
    BY <1>4, <2>1, <2>2 DEF has_secret_registration_started
<1>5. waiting # {} => \/ RequestTime(u) # 0
                      \/ RegisteredInTime
                      \/ b >= Expiration + Confirmations
  <2>1. ~has_secret_registration_started(t, b) /\ needing # {} => RequestTime(u) # 0
    BY <1>2 DEF RequestTime
  <2> QED
    BY <1>3, <1>4, <2>1
<1>6. States(u, b)
  <2> SUFFICES ASSUME NEW i \in DOMAIN u.pairs
               PROVE  LET p == u.pairs[i] IN
                      /\ p.payer_state \in STATE_TRANSFER_FINAL
                            => p.payer \in u.claimed \/ b >= Expiration + Confirmations
                      /\ p.payer_state = "payer_waiting_secret_reveal"
                            => \/ RequestTime(u) # 0 \/ RegisteredInTime
                               \/ b >= Expiration + Confirmations
                      /\ p.payee_state = "payee_expired"
                            => b >= Expiration /\ (p.since < registered => ~RegisteredInTime)
    BY DEF States
  <2>1. /\ i \in DOMAIN t.pairs
        /\ u.pairs[i].payer = t.pairs[i].payer /\ u.pairs[i].since = t.pairs[i].since
        /\ u.claimed = t.claimed
    BY <1>2 DEF Evolves
  <2>2. CASE t.pairs[i] \in waiting
    BY <1>2, <1>5, <2>1, <2>2 DEF Core, States, STATE_TRANSFER_FINAL
  <2>3. CASE t.pairs[i] \notin waiting
    BY <1>2, <1>3, <2>1, <2>3 DEF Core, States
  <2> QED
    BY <2>2, <2>3
<1>7. Secret(u)
  BY <1>2 DEF Core, Secret, Evolves, STATE_TRANSFER_PAID
<1> QED
  BY <1>2, <1>5, <1>6, <1>7, EvolvesKeeps

(* The handler for the danger zone: an unlock that was covered at the last *)
(* block is covered at the new one, because the first block that is not    *)
(* safe sends the registration.                                            *)
LEMMA DangerZoneKeeps ==
    ASSUME NEW t, NEW b \in (block + 1) .. (head - Confirmations), NEW u,
           u = events_for_onchain_secretreveal_if_dangerzone(t, b),
           Core(t, b), Learned(t, b), Covered(t, block), ChainTypeOK, ChainTime
    PROVE  Core(u, b) /\ Learned(u, b) /\ Covered(u, b)
<1> USE PaymentChainAssumption
<1> DEFINE endangered == {p \in Pairs(t) : /\ IsPendingPair(p)
                                           /\ Exists(p.payer, b)
                                           /\ ~is_safe_to_wait(b)
                                           /\ is_secret_known(t.received[p.payer])}
<1>1. u = WaitForSecretReveal(t, b, endangered, endangered)
  BY DEF events_for_onchain_secretreveal_if_dangerzone
<1>2. ASSUME NEW i \in DOMAIN t.pairs, IsPendingPair(t.pairs[i]),
             Exists(t.pairs[i].payer, b), ~is_safe_to_wait(b),
             t.received[t.pairs[i].payer] = "unlocked"
      PROVE  endangered # {}
  <2>1. t.pairs[i] \in Pairs(t)
    BY DEF Pairs
  <2>2. t.pairs[i] \in endangered
    BY <1>2, <2>1 DEF is_secret_known
  <2> QED
    BY <2>2
<1> HIDE DEF endangered
<1>3. t \in TaskRecord /\ head # 0
  BY DEF Core, ChainTypeOK
<1>4. /\ Core(u, b) /\ Learned(u, b)
      /\ endangered # {} => \/ RequestTime(u) # 0
                            \/ RegisteredInTime
                            \/ b >= Expiration + Confirmations
  BY <1>1, <1>3, WaitKeeps
<1>5. Evolves(t, u) /\ u.unlocks = t.unlocks
  BY <1>1, <1>3, WaitEffect
<1>6. Covered(u, block)
  BY <1>3, <1>5, EvolvesCovered
<1>7. ASSUME NEW i \in DOMAIN u.pairs, u.pairs[i].payee \in u.unlocks,
             ~(u.pairs[i].payer \in u.claimed), ~RegisteredInTime
      PROVE  u.running /\ u.received[u.pairs[i].payer] = "unlocked" /\ InTime(u, b)
  <2>1. u.running /\ u.received[u.pairs[i].payer] = "unlocked" /\ InTime(u, block)
    BY <1>6, <1>7 DEF Covered
  <2>2. CASE is_safe_to_wait(b)
    BY <2>1, <2>2 DEF InTime
  <2>3. CASE ~is_safe_to_wait(block)
    BY <2>1, <2>3 DEF InTime
  <2>4. CASE is_safe_to_wait(block) /\ ~is_safe_to_wait(b)
    <3>1. /\ head < Expiration
          /\ RequestTime(u) # 0 => RequestTime(u) + TransactionTime < Expiration
      BY <2>4, SafeIsEarly
    <3>2. b \in Nat /\ b <= Expiration /\ ~(b >= Expiration + Confirmations)
      BY <3>1 DEF ChainTypeOK
    <3>3. /\ i \in DOMAIN t.pairs /\ t.pairs[i].payer = u.pairs[i].payer
          /\ t.claimed = u.claimed /\ t.received = u.received
      BY <1>5 DEF Evolves
    <3>4. IsPendingPair(t.pairs[i])
      BY <1>7, <3>2, <3>3 DEF Core, States, IsPendingPair
    <3>5. t.pairs[i].payer \in Channel /\ Exists(t.pairs[i].payer, b)
      BY <1>3, <3>2, <3>3, PairFields, ExistsUntilExpiration
    <3>6. endangered # {}
      BY <1>2, <2>1, <2>4, <3>3, <3>4, <3>5
    <3>7. RequestTime(u) # 0
      BY <1>4, <1>7, <3>2, <3>6
    <3> QED
      BY <2>1, <3>1, <3>7 DEF InTime
  <2> QED
    BY <2>2, <2>3, <2>4
<1> QED
  BY <1>4, <1>7 DEF Covered

-----------------------------------------------------------------------------
(* The locks after the secret was learned off chain and on chain. *)

(* What set_offchain_secret changes. *)
LEMMA OffchainEffect ==
    ASSUME NEW t \in TaskRecord, NEW b, NEW u, u = set_offchain_secret(t, b)
    PROVE  /\ u \in TaskRecord /\ u.secret
           /\ u.pairs = t.pairs /\ u.waiting = t.waiting /\ u.refunded = t.refunded
           /\ u.running = t.running /\ u.failed = t.failed
           /\ u.unlocks = t.unlocks /\ u.claimed = t.claimed /\ u.register = t.register
           /\ \A c \in Channel :
                 /\ \/ u.received[c] = t.received[c]
                    \/ t.received[c] = "locked" /\ u.received[c] = "unlocked"
                 /\ \/ u.sent[c] = t.sent[c]
                    \/ t.sent[c] = "locked" /\ u.sent[c] = "unlocked"
                 /\ PayerOf(t, c) /\ Exists(c, b) => u.received[c] # "locked"
<1> DEFINE touched == {p.payer : p \in Pairs(t)} \cup {p.payee : p \in Pairs(t)}
                        \cup {w.payer : w \in t.waiting}
           Learn(locks) == [c \in Channel |->
                IF c \in touched /\ Exists(c, b) THEN register_offchain_secret(locks[c])
                ELSE locks[c]]
           r == Learn(t.received)
           s == Learn(t.sent)
<1>1. u = [t EXCEPT !.secret = TRUE, !.received = r, !.sent = s]
  BY DEF set_offchain_secret
<1>2. \A c \in Channel : PayerOf(t, c) => c \in touched
  BY DEF PayerOf, Pairs
<1> HIDE DEF touched
<1>3. t.received \in [Channel -> Lock] /\ t.sent \in [Channel -> Lock]
  BY TaskFields
<1>4. /\ r \in [Channel -> Lock] /\ s \in [Channel -> Lock]
      /\ \A c \in Channel :
            /\ \/ r[c] = t.received[c]
               \/ t.received[c] = "locked" /\ r[c] = "unlocked"
            /\ \/ s[c] = t.sent[c]
               \/ t.sent[c] = "locked" /\ s[c] = "unlocked"
            /\ c \in touched /\ Exists(c, b) => r[c] # "locked"
  BY <1>3 DEF register_offchain_secret, Lock
<1>6. r \in [Channel -> Lock] /\ s \in [Channel -> Lock]
  BY <1>4
<1> HIDE DEF r, s
<1>5. /\ u \in TaskRecord /\ u.secret /\ u.received = r /\ u.sent = s
      /\ u.pairs = t.pairs /\ u.waiting = t.waiting /\ u.refunded = t.refunded
      /\ u.running = t.running /\ u.failed = t.failed
      /\ u.unlocks = t.unlocks /\ u.claimed = t.claimed /\ u.register = t.register
  BY Zenon, <1>1, <1>6 DEF TaskRecord
<1> QED
  BY <1>2, <1>4, <1>5

(* What set_onchain_secret changes. *)
LEMMA OnchainEffect ==
    ASSUME NEW t \in TaskRecord, NEW b \in Nat, NEW u, u = set_onchain_secret(t, b)
    PROVE  /\ u \in TaskRecord /\ u.secret
           /\ u.pairs = t.pairs /\ u.waiting = t.waiting /\ u.refunded = t.refunded
           /\ u.running = t.running /\ u.failed = t.failed
           /\ u.unlocks = t.unlocks /\ u.claimed = t.claimed /\ u.register = t.register
           /\ \A c \in Channel :
                 /\ \/ u.received[c] = t.received[c]
                    \/ t.received[c] # None /\ u.received[c] = "onchain" /\ b <= Expiration
                 /\ \/ u.sent[c] = t.sent[c]
                    \/ t.sent[c] # None /\ u.sent[c] = "onchain" /\ b <= Expiration
                 /\ PayerOf(t, c) /\ Exists(c, b) /\ b <= Expiration
                        => u.received[c] \in {None, "onchain"}
                 /\ PayeeOf(t, c) /\ Exists(c, b) /\ b <= Expiration
                        => u.sent[c] \in {None, "onchain"}
<1> DEFINE touched == {p.payer : p \in Pairs(t)} \cup {p.payee : p \in Pairs(t)}
                        \cup {w.payer : w \in t.waiting}
           Learn(locks) == [c \in Channel |->
                IF c \in touched /\ Exists(c, b) THEN register_onchain_secret(locks[c], b)
                ELSE locks[c]]
           r == Learn(t.received)
           s == Learn(t.sent)
<1>1. u = [t EXCEPT !.secret = TRUE, !.received = r, !.sent = s]
  BY DEF set_onchain_secret
<1>2. \A c \in Channel : PayerOf(t, c) \/ PayeeOf(t, c) => c \in touched
  BY DEF PayerOf, PayeeOf, Pairs
<1> HIDE DEF touched
<1>3. t.received \in [Channel -> Lock] /\ t.sent \in [Channel -> Lock]
  BY TaskFields
<1>4. /\ r \in [Channel -> Lock] /\ s \in [Channel -> Lock]
      /\ \A c \in Channel :
            /\ \/ r[c] = t.received[c]
               \/ t.received[c] # None /\ r[c] = "onchain" /\ b <= Expiration
            /\ \/ s[c] = t.sent[c]
               \/ t.sent[c] # None /\ s[c] = "onchain" /\ b <= Expiration
            /\ c \in touched /\ Exists(c, b) /\ b <= Expiration
                    => r[c] \in {None, "onchain"} /\ s[c] \in {None, "onchain"}
  BY <1>3 DEF register_onchain_secret, Lock, None
<1> HIDE DEF r, s
<1>5. /\ u \in TaskRecord /\ u.secret /\ u.received = r /\ u.sent = s
      /\ u.pairs = t.pairs /\ u.waiting = t.waiting /\ u.refunded = t.refunded
      /\ u.running = t.running /\ u.failed = t.failed
      /\ u.unlocks = t.unlocks /\ u.claimed = t.claimed /\ u.register = t.register
  <2>1. r \in [Channel -> Lock] /\ s \in [Channel -> Lock]
    BY Zenon, <1>4
  <2> QED
    BY ONLY Zenon, t \in TaskRecord, <1>1, <2>1 DEF TaskRecord
<1> QED
  BY <1>2, <1>4, <1>5

(* set_offchain_secret keeps Core and Learned. *)
LEMMA OffchainSecretKeeps ==
    ASSUME NEW t, NEW u, u = set_offchain_secret(t, block),
           Core(t, block), Learned(t, block), ChainTypeOK, ChainTime
    PROVE  Core(u, block) /\ Learned(u, block)
<1>1. t \in TaskRecord
  BY DEF Core
<1>2. /\ u \in TaskRecord /\ u.secret
      /\ u.pairs = t.pairs /\ u.waiting = t.waiting /\ u.refunded = t.refunded
      /\ u.running = t.running /\ u.failed = t.failed
      /\ u.unlocks = t.unlocks /\ u.claimed = t.claimed /\ u.register = t.register
      /\ \A c \in Channel :
            /\ \/ u.received[c] = t.received[c]
               \/ t.received[c] = "locked" /\ u.received[c] = "unlocked"
            /\ \/ u.sent[c] = t.sent[c]
               \/ t.sent[c] = "locked" /\ u.sent[c] = "unlocked"
            /\ PayerOf(t, c) /\ Exists(c, block) => u.received[c] # "locked"
  BY <1>1, OffchainEffect
<1>0. /\ u.pairs = t.pairs /\ u.waiting = t.waiting /\ u.secret
      /\ u.claimed = t.claimed
  BY <1>2
<1>3. \A c : (PayerOf(u, c) <=> PayerOf(t, c)) /\ (PayeeOf(u, c) <=> PayeeOf(t, c))
  BY <1>0 DEF PayerOf, PayeeOf
<1>4. \A c \in Channel : block <= Expiration => Exists(c, block)
  BY ExistsUntilExpiration DEF ChainTypeOK
<1>5. Shape(u) /\ Secret(u)
  BY <1>2 DEF Core, Shape, Secret
<1>6. States(u, block)
  BY <1>2 DEF Core, States, RequestTime
<1>7. Locks(u, block)
  <2> SUFFICES ASSUME NEW c \in Channel
               PROVE  /\ u.received[c] # None => PayerOf(u, c)
                      /\ u.sent[c] # None => PayeeOf(u, c)
                      /\ u.received[c] = "onchain" => RegisteredInTime
                      /\ PayerOf(u, c) /\ u.received[c] = None
                            => \/ c \in u.claimed
                               \/ /\ block >= Expiration + Confirmations
                                  /\ ~RegisteredInTime
                      /\ PayerOf(u, c) /\ u.secret /\ block <= Expiration
                            => u.received[c] # "locked"
    BY Zenon DEF Locks
  <2>1. /\ \/ u.received[c] = t.received[c]
           \/ t.received[c] = "locked" /\ u.received[c] = "unlocked"
        /\ \/ u.sent[c] = t.sent[c]
           \/ t.sent[c] = "locked" /\ u.sent[c] = "unlocked"
        /\ PayerOf(t, c) /\ Exists(c, block) => u.received[c] # "locked"
    BY <1>2
  <2> QED
    BY <1>0, <1>3, <1>4, <2>1 DEF Core, Locks, None
<1>8. Learned(u, block)
  <2>1. RegisteredInTime /\ u.running /\ Happened(registered, block) =>
            \A c \in Channel : PayerOf(u, c) => u.received[c] \in {None, "onchain"}
    BY <1>2, <1>3 DEF Learned, None
  <2>2. RegisteredInTime /\ u.running /\ Happened(registered, block) =>
            \A i \in DOMAIN u.pairs : u.pairs[i].since < registered
                => u.sent[u.pairs[i].payee] \in {None, "onchain"}
    BY <1>1, <1>2, PairFields DEF Learned, None
  <2> QED
    BY <1>2, <2>1, <2>2 DEF Learned
<1> QED
  BY <1>2, <1>5, <1>6, <1>7 , <1>8 DEF Core

(* The registration reaches the locks of every channel of the payment.     *)
LEMMA OnchainSecretKeeps ==
    ASSUME NEW t, NEW b \in Nat, NEW u, u = set_onchain_secret(t, registered),
           Core(t, b), registered # 0, registered <= b, ChainTypeOK, ChainTime
    PROVE  Core(u, b) /\ Learned(u, b)
<1> USE PaymentChainAssumption
<1>1. t \in TaskRecord /\ registered \in Nat
  BY DEF Core, ChainTypeOK
<1>2. /\ u \in TaskRecord /\ u.secret
      /\ u.pairs = t.pairs /\ u.waiting = t.waiting /\ u.refunded = t.refunded
      /\ u.running = t.running /\ u.failed = t.failed
      /\ u.unlocks = t.unlocks /\ u.claimed = t.claimed /\ u.register = t.register
      /\ \A c \in Channel :
            /\ \/ u.received[c] = t.received[c]
               \/ /\ t.received[c] # None /\ u.received[c] = "onchain"
                  /\ registered <= Expiration
            /\ \/ u.sent[c] = t.sent[c]
               \/ t.sent[c] # None /\ u.sent[c] = "onchain" /\ registered <= Expiration
            /\ PayerOf(t, c) /\ Exists(c, registered) /\ registered <= Expiration
                    => u.received[c] \in {None, "onchain"}
            /\ PayeeOf(t, c) /\ Exists(c, registered) /\ registered <= Expiration
                    => u.sent[c] \in {None, "onchain"}
  <2> DEFINE r == registered
  <2>1. r \in Nat /\ u = set_onchain_secret(t, r) /\ t \in TaskRecord
    BY <1>1
  <2> HIDE DEF r
  <2>2. /\ u \in TaskRecord /\ u.secret
        /\ u.pairs = t.pairs /\ u.waiting = t.waiting /\ u.refunded = t.refunded
        /\ u.running = t.running /\ u.failed = t.failed
        /\ u.unlocks = t.unlocks /\ u.claimed = t.claimed /\ u.register = t.register
    BY <2>1, OnchainEffect
  <2>3. \A c \in Channel :
            /\ \/ u.received[c] = t.received[c]
               \/ t.received[c] # None /\ u.received[c] = "onchain" /\ r <= Expiration
            /\ \/ u.sent[c] = t.sent[c]
               \/ t.sent[c] # None /\ u.sent[c] = "onchain" /\ r <= Expiration
            /\ PayerOf(t, c) /\ Exists(c, r) /\ r <= Expiration
                    => u.received[c] \in {None, "onchain"}
            /\ PayeeOf(t, c) /\ Exists(c, r) /\ r <= Expiration
                    => u.sent[c] \in {None, "onchain"}
    BY <2>1, OnchainEffect
  <2> QED
    BY <2>2, <2>3 DEF r
<1>3. \A c : (PayerOf(u, c) <=> PayerOf(t, c)) /\ (PayeeOf(u, c) <=> PayeeOf(t, c))
  BY Zenon, <1>2 DEF PayerOf, PayeeOf
<1>4. \A c \in Channel : registered <= Expiration => Exists(c, registered)
  BY <1>1, ExistsUntilExpiration
<1>5. Shape(u) /\ Secret(u)
  BY <1>2 DEF Core, Shape, Secret
<1>6. States(u, b)
  BY <1>2 DEF Core, States, RequestTime
<1>7. RegisteredInTime <=> registered <= Expiration
  BY DEF RegisteredInTime, Happened
<1>8. b <= Expiration => registered <= Expiration
  BY <1>1
<1>9. Locks(u, b)
  BY Zenon, <1>2, <1>3, <1>4, <1>7, <1>8 DEF Core, Locks, None
<1>10. RegisteredInTime => \A i \in DOMAIN u.pairs :
            u.sent[u.pairs[i].payee] \in {None, "onchain"}
  BY <1>1, <1>2, <1>4, <1>7, PairFields DEF PayeeOf
<1>11. Learned(u, b)
  BY <1>2, <1>3, <1>4, <1>7, <1>10 DEF Learned
<1> QED
  BY <1>2, <1>5, <1>6, <1>9, <1>11 DEF Core

-----------------------------------------------------------------------------
(* Forwarding the payment. *)

(* The waiting transfer of t is forwarded to payee in block b. *)
Forwarded(t, payer, payee, b) ==
    [t EXCEPT !.pairs = Append(t.pairs, MediationPair(payer, payee, b)),
              !.sent = [t.sent EXCEPT ![payee] = "locked"],
              !.waiting = {}]

(* What forwarding the waiting transfer over payee changes. *)
ForwardStep(t, payer, payee, b, u) ==
    /\ u \in TaskRecord
    /\ Len(t.pairs) \in Nat /\ DOMAIN t.pairs = 1 .. Len(t.pairs)
    /\ DOMAIN u.pairs = 1 .. Len(t.pairs) + 1
    /\ \A i \in DOMAIN t.pairs : u.pairs[i] = t.pairs[i]
    /\ u.pairs[Len(t.pairs) + 1] = MediationPair(payer, payee, b)
    /\ \A c \in Channel : u.sent[c] = IF c = payee THEN "locked" ELSE t.sent[c]
    /\ u.running = t.running /\ u.failed = t.failed /\ u.secret = t.secret
    /\ u.waiting = {} /\ u.refunded = t.refunded /\ u.received = t.received
    /\ u.unlocks = t.unlocks /\ u.claimed = t.claimed /\ u.register = t.register

(* Forwarding changes that and nothing else. *)
LEMMA ForwardEffect ==
    ASSUME NEW t \in TaskRecord, NEW payer \in Channel, NEW payee \in Channel, NEW b \in Nat,
           NEW u, u = Forwarded(t, payer, payee, b)
    PROVE  ForwardStep(t, payer, payee, b, u)
<1> DEFINE p == MediationPair(payer, payee, b)
           f == Append(t.pairs, p)
           g == [t.sent EXCEPT ![payee] = "locked"]
<1>1. t.pairs \in Seq(PairState) /\ t.sent \in [Channel -> Lock]
  BY TaskFields
<1>2. p \in PairState
  BY DEF MediationPair, PairState
<1> HIDE DEF p
<1>3. /\ f \in Seq(PairState)
      /\ Len(t.pairs) \in Nat /\ DOMAIN t.pairs = 1 .. Len(t.pairs)
      /\ DOMAIN f = 1 .. Len(t.pairs) + 1
      /\ \A i \in DOMAIN t.pairs : f[i] = t.pairs[i]
      /\ f[Len(t.pairs) + 1] = p
  BY <1>1, <1>2
<1>4. /\ g \in [Channel -> Lock]
      /\ \A c \in Channel : g[c] = IF c = payee THEN "locked" ELSE t.sent[c]
  BY <1>1 DEF Lock
<1>5. u = [t EXCEPT !.pairs = f, !.sent = g, !.waiting = {}]
  BY DEF p, Forwarded
<1> HIDE DEF f, g
<1>6. /\ u \in TaskRecord /\ u.pairs = f /\ u.sent = g
      /\ u.running = t.running /\ u.failed = t.failed /\ u.secret = t.secret
      /\ u.waiting = {} /\ u.refunded = t.refunded /\ u.received = t.received
      /\ u.unlocks = t.unlocks /\ u.claimed = t.claimed /\ u.register = t.register
  BY Zenon, <1>3, <1>4, <1>5 DEF TaskRecord
<1> QED
  BY <1>3, <1>4, <1>6 DEF p, ForwardStep

(* A waiting transfer can be forwarded over a payee that has not refunded  *)
(* it, as long as it is safe to wait.                                      *)
LEMMA ForwardKeeps ==
    ASSUME NEW t, NEW b \in Nat, Core(t, b), Learned(t, b), t.running, ChainTypeOK,
           NEW w \in t.waiting, NEW payer \in Channel, payer = w.payer,
           NEW payee \in Channel, payee \notin t.refunded,
           is_safe_to_wait(b),
           NEW u, u = Forwarded(t, payer, payee, b)
    PROVE  /\ Core(u, b) /\ Learned(u, b) /\ Covered(u, b)
           /\ u.running /\ u.failed = t.failed
<1>1. t \in TaskRecord
  BY DEF Core
<1>a. ForwardStep(t, payer, payee, b, u)
  BY <1>1, ForwardEffect
<1> DEFINE n == Len(t.pairs)
           p == MediationPair(payer, payee, b)
<1>2. /\ u \in TaskRecord
      /\ n \in Nat /\ DOMAIN t.pairs = 1 .. n /\ DOMAIN u.pairs = 1 .. n + 1
      /\ \A i \in DOMAIN t.pairs : u.pairs[i] = t.pairs[i]
      /\ u.pairs[n + 1] = p
      /\ \A c \in Channel : u.sent[c] = IF c = payee THEN "locked" ELSE t.sent[c]
      /\ u.running = t.running /\ u.failed = t.failed /\ u.secret = t.secret
      /\ u.waiting = {} /\ u.refunded = t.refunded /\ u.received = t.received
      /\ u.unlocks = t.unlocks /\ u.claimed = t.claimed /\ u.register = t.register
  BY <1>a DEF ForwardStep
<1>3. /\ p.payer = w.payer /\ p.payee = payee /\ p.since = b
      /\ p.payer_state = "payer_pending" /\ p.payee_state = "payee_pending"
  BY DEF MediationPair
<1> HIDE DEF n, p
<1>4. \A i \in DOMAIN u.pairs : i \in DOMAIN t.pairs \/ i = n + 1
  BY <1>2
<1>5. Shape(t) /\ Locks(t, b) /\ States(t, b) /\ Secret(t)
  BY DEF Core
<1>6. Shape(u)
  <2>1. ASSUME NEW i \in DOMAIN u.pairs, i + 1 \in DOMAIN u.pairs
        PROVE  u.pairs[i].payee \in u.refunded /\ u.pairs[i].payee = u.pairs[i + 1].payer
    <3>1. i \in DOMAIN t.pairs /\ u.pairs[i] = t.pairs[i]
      BY <1>2, <2>1
    <3>2. t.pairs[i].payee \in t.refunded
      BY <1>5, <3>1 DEF Shape
    <3>3. CASE i + 1 \in DOMAIN t.pairs
      BY <1>2, <1>5, <3>1, <3>2, <3>3 DEF Shape
    <3>4. CASE i + 1 \notin DOMAIN t.pairs
      <4>1. i + 1 = n + 1
        BY <1>2, <2>1, <3>4
      <4>2. w.payer = t.pairs[i].payee
        BY <1>5, <3>1, <3>4 DEF Shape
      <4> QED
        BY <1>2, <1>3, <3>1, <3>2, <4>1, <4>2
    <3> QED
      BY <3>3, <3>4
  <2> QED
    BY <1>2, <2>1 DEF Shape
<1>7. \A c \in Channel : PayerOf(u, c) <=> PayerOf(t, c)
  <2> TAKE c \in Channel
  <2>1. PayerOf(t, c) => PayerOf(u, c)
    <3>1. CASE \E i \in DOMAIN t.pairs : t.pairs[i].payer = c
      BY <1>2, <3>1 DEF PayerOf
    <3>2. CASE \E x \in t.waiting : x.payer = c
      <4>1. w.payer = c
        BY <1>5, <3>2 DEF Shape
      <4>2. n + 1 \in DOMAIN u.pairs
        BY <1>2
      <4> QED
        BY <1>2, <1>3, <4>1, <4>2 DEF PayerOf
    <3> QED
      BY <3>1, <3>2 DEF PayerOf
  <2>2. PayerOf(u, c) => PayerOf(t, c)
    BY <1>2, <1>3, <1>4 DEF PayerOf
  <2> QED
    BY <2>1, <2>2
<1>8. \A c \in Channel : u.sent[c] # None => PayeeOf(u, c)
  <2> TAKE c \in Channel
  <2>1. CASE c = payee
    <3>1. n + 1 \in DOMAIN u.pairs
      BY <1>2
    <3> QED
      BY <1>2, <1>3, <2>1, <3>1 DEF PayeeOf
  <2>2. CASE c # payee
    <3>1. t.sent[c] # None => PayeeOf(t, c)
      BY <1>5 DEF Locks
    <3>2. PayeeOf(t, c) => PayeeOf(u, c)
      BY <1>2 DEF PayeeOf
    <3> QED
      BY <1>2, <2>2, <3>1, <3>2
  <2> QED
    BY <2>1, <2>2
<1>9. Locks(u, b)
  <2>1. u.received = t.received /\ u.claimed = t.claimed /\ u.secret = t.secret
    BY <1>2
  <2> QED
    BY Zenon, <1>5, <1>7, <1>8, <2>1 DEF Locks
<1>10. RequestTime(u) = RequestTime(t)
  BY <1>2 DEF RequestTime
<1>11. States(u, b)
  BY <1>2, <1>3, <1>4, <1>5, <1>10 DEF States, STATE_TRANSFER_FINAL
<1>12. Secret(u)
  BY <1>2, <1>3, <1>4, <1>5 DEF Secret, STATE_TRANSFER_PAID
<1>13. Core(u, b)
  BY <1>2, <1>6, <1>9, <1>11, <1>12 DEF Core
<1>14. Learned(u, b)
  <2> SUFFICES ASSUME Happened(registered, b)
               PROVE  /\ u.secret
                      /\ RegisteredInTime => \A c \in Channel :
                            PayerOf(u, c) => u.received[c] \in {None, "onchain"}
                      /\ RegisteredInTime => \A i \in DOMAIN u.pairs :
                            u.pairs[i].since < registered
                                => u.sent[u.pairs[i].payee] \in {None, "onchain"}
    BY DEF Learned
  <2>1. ASSUME RegisteredInTime, NEW i \in DOMAIN u.pairs, u.pairs[i].since < registered
        PROVE  u.sent[u.pairs[i].payee] \in {None, "onchain"}
    <3>1. i # n + 1
      BY <1>2, <1>3, <2>1 DEF Happened, ChainTypeOK
    <3>2. i \in DOMAIN t.pairs /\ u.pairs[i] = t.pairs[i]
      BY <1>2, <1>4, <3>1
    <3>3. t.pairs[i].payee \in Channel /\ t.pairs[i].payee # payee
      BY <1>1, <1>5, <3>2, PairFields DEF Shape
    <3>4. t.sent[t.pairs[i].payee] \in {None, "onchain"}
      BY <2>1, <3>2 DEF Learned
    <3> QED
      BY <1>2, <3>2, <3>3, <3>4
  <2> QED
    BY <1>2, <1>7, <2>1 DEF Learned
<1>15. Covered(u, b)
  <2>1. CASE u.secret
    BY Zenon, <1>2, <1>13, <2>1, SafeIsCovered
  <2>2. CASE ~u.secret
    BY <1>12, <2>2 DEF Secret, Covered
  <2> QED
    BY <2>1, <2>2
<1> QED
  BY <1>2, <1>13, <1>14, <1>15

(* The task is processed. *)
Alive(t) == t.running /\ ~t.failed

-----------------------------------------------------------------------------
(* The end of a handler: sanity_check, clear_if_finalized and Request. *)

(* What the invariant says of the task still holds at a later block. *)
LEMMA LaterBlock ==
    ASSUME NEW t, NEW a \in Nat, NEW b \in Nat, a <= b, Core(t, a)
    PROVE  Core(t, b)
<1>1. Locks(t, b)
  <2>1. /\ b <= Expiration => a <= Expiration
        /\ a >= Expiration + Confirmations => b >= Expiration + Confirmations
    BY PaymentChainAssumption
  <2> QED
    BY Zenon, <2>1 DEF Core, Locks
<1>2. States(t, b)
  BY PaymentChainAssumption DEF Core, States
<1> QED
  BY <1>1, <1>2 DEF Core

(* Some lock of the task is pending in a channel that exists. *)
HasPendingLock(t, b) ==
    \/ \E i \in DOMAIN t.pairs :
          \/ Exists(t.pairs[i].payer, b) /\ t.received[t.pairs[i].payer] # None
          \/ Exists(t.pairs[i].payee, b) /\ t.sent[t.pairs[i].payee] # None
    \/ \E w \in t.waiting : Exists(w.payer, b) /\ t.received[w.payer] # None

(* What clear_if_finalized changes. *)
LEMMA ClearEffect ==
    ASSUME NEW t \in TaskRecord, NEW b, NEW u, u = clear_if_finalized(t, b)
    PROVE  /\ u \in TaskRecord
           /\ u.running = (t.running /\ HasPendingLock(t, b))
           /\ u.pairs = t.pairs /\ u.failed = t.failed /\ u.secret = t.secret
           /\ u.waiting = t.waiting /\ u.refunded = t.refunded
           /\ u.received = t.received /\ u.sent = t.sent
           /\ u.unlocks = t.unlocks /\ u.claimed = t.claimed /\ u.register = t.register
<1> DEFINE r == t.running /\ HasPendingLock(t, b)
<1>1. u = [t EXCEPT !.running = r]
  BY DEF clear_if_finalized, HasPendingLock, Pairs, is_lock_pending, None
<1>2. r \in BOOLEAN
  OBVIOUS
<1> HIDE DEF r
<1>3. /\ u \in TaskRecord /\ u.running = r
      /\ u.pairs = t.pairs /\ u.failed = t.failed /\ u.secret = t.secret
      /\ u.waiting = t.waiting /\ u.refunded = t.refunded
      /\ u.received = t.received /\ u.sent = t.sent
      /\ u.unlocks = t.unlocks /\ u.claimed = t.claimed /\ u.register = t.register
  BY <1>1, <1>2 DEF TaskRecord
<1> QED
  BY <1>3 DEF r

(* Every lock belongs to a pair or to the waiting transfer, so that a task *)
(* without a pending lock leaves none behind.                              *)
LEMMA NoPendingLock ==
    ASSUME NEW t, NEW b, Core(t, b), NEW d, ~HasPendingLock(t, d),
           NEW c \in Channel, Exists(c, d)
    PROVE  t.received[c] = None /\ t.sent[c] = None
<1>1. t.received[c] # None => PayerOf(t, c)
  BY DEF Core, Locks
<1>2. t.sent[c] # None => PayeeOf(t, c)
  BY DEF Core, Locks
<1> QED
  BY <1>1, <1>2 DEF HasPendingLock, PayerOf, PayeeOf

(* The assertions of sanity_check hold of a task that satisfies Core.      *)
LEMMA SanityHolds ==
    ASSUME NEW t, NEW b, Core(t, b), ~t.failed
    PROVE  sanity_check(t)
<1>0. t.pairs \in Seq(PairState)
  BY TaskFields DEF Core
<1>1. ASSUME NEW i \in 1 .. Len(t.pairs) - 1
      PROVE  t.pairs[i].payee = t.pairs[i + 1].payer
  <2>1. i \in DOMAIN t.pairs /\ i + 1 \in DOMAIN t.pairs
    BY <1>0
  <2> QED
    BY <2>1 DEF Core, Shape
<1>2. (\E p \in Pairs(t) : {p.payer_state, p.payee_state} \cap STATE_TRANSFER_PAID # {})
            => t.secret
  BY DEF Pairs, Core, Secret
<1> QED
  BY <1>1, <1>2 DEF sanity_check

(* The handler left the task t, which satisfies the invariant as of the    *)
(* block the node has processed: so does the task that Finish stores.      *)
LEMMA FinishKeeps ==
    ASSUME ChainTypeOK, ChainTime, NEW t,
           NEW b \in block .. (head - Confirmations), block' = b, Finish(t),
           Core(t, b), Learned(t, b), Covered(t, b), ~t.failed,
           t.running \/ ~HasPendingLock(t, b)
    PROVE  MInv'
<1> DEFINE v == clear_if_finalized(t, b)
<1>0. t \in TaskRecord /\ b \in Nat
  BY PaymentChainAssumption DEF Core, ChainTypeOK
<1>1. sanity_check(t)
  BY SanityHolds
<1>2. /\ task' = [v EXCEPT !.register = FALSE]
      /\ Request(t.register) /\ UNCHANGED chain
  BY <1>1 DEF Finish
<1>3. ChainTypeOK' /\ ChainTime'
  BY <1>2, NodeStepTime
<1>4. /\ v \in TaskRecord
      /\ v.running = (t.running /\ HasPendingLock(t, b))
      /\ v.pairs = t.pairs /\ v.failed = t.failed /\ v.secret = t.secret
      /\ v.waiting = t.waiting /\ v.refunded = t.refunded
      /\ v.received = t.received /\ v.sent = t.sent
      /\ v.unlocks = t.unlocks /\ v.claimed = t.claimed
  BY <1>0, ClearEffect
<1> HIDE DEF v
<1>5. /\ task' \in TaskRecord /\ ~task'.register
      /\ task'.running = v.running
      /\ task'.pairs = v.pairs /\ task'.failed = v.failed /\ task'.secret = v.secret
      /\ task'.waiting = v.waiting /\ task'.refunded = v.refunded
      /\ task'.received = v.received /\ task'.sent = v.sent
      /\ task'.unlocks = v.unlocks /\ task'.claimed = v.claimed
  BY Zenon, <1>2, <1>4 DEF TaskRecord
<1>6. /\ task'.running = (t.running /\ HasPendingLock(t, b))
      /\ task'.pairs = t.pairs /\ ~task'.failed /\ task'.secret = t.secret
      /\ task'.waiting = t.waiting /\ task'.refunded = t.refunded
      /\ task'.received = t.received /\ task'.sent = t.sent
      /\ task'.unlocks = t.unlocks /\ task'.claimed = t.claimed
  BY <1>4, <1>5
<1>7. /\ head' = head /\ registered' = registered /\ settled' = settled
      /\ requested' = RequestTime(t)
  BY <1>2 DEF chain, Request, RequestTime
<1>8. RequestTime(task)' = RequestTime(t)
  BY <1>5, <1>7 DEF RequestTime
<1>9. RegisteredInTime' = RegisteredInTime
  BY <1>7 DEF RegisteredInTime, Happened
<1>10. Shape(task)'
  BY <1>6 DEF Core, Shape
<1>11. \A c \in Channel : PayerOf(task, c)' = PayerOf(t, c) /\ PayeeOf(task, c)' = PayeeOf(t, c)
  BY <1>6 DEF PayerOf, PayeeOf
<1>12. Locks(task, block)'
  BY <1>6, <1>9, <1>11 DEF Core, Locks
<1>13. States(task, block)'
  BY <1>6, <1>7, <1>8, <1>9 DEF Core, States
<1>14. Secret(task)'
  BY Zenon, <1>6 DEF Core, Secret
<1>15. Core(task, block)'
  BY <1>5, <1>10, <1>12, <1>13, <1>14 DEF Core
<1>16. Learned(task, block)'
  BY Zenon, <1>6, <1>7, <1>9, <1>11 DEF Learned, Happened
<1>17. InTime(t, b) /\ (b > Expiration \/ task'.running) =>
            RegisteredInTime \/ (task'.running /\ InTime(task, block)')
  <2>1. InTime(t, b) => InTime(task, block)'
    BY <1>8, <1>9 DEF InTime, is_safe_to_wait
  <2>2. InTime(t, b) /\ b > Expiration => RegisteredInTime
    BY <1>3, <1>7, PaymentChainAssumption
    DEF ChainTypeOK, ChainTime, InTime, RegisteredInTime, Happened, is_safe_to_wait
  <2> QED
    BY <2>1, <2>2
<1>18. Covered(task, block)'
  <2> SUFFICES ASSUME NEW i \in DOMAIN t.pairs, t.pairs[i].payee \in t.unlocks
               PROVE  \/ t.pairs[i].payer \in t.claimed
                      \/ RegisteredInTime
                      \/ /\ task'.running /\ t.received[t.pairs[i].payer] = "unlocked"
                         /\ InTime(task, block)'
    BY <1>6, <1>9 DEF Covered
  <2>1. CASE t.pairs[i].payer \in t.claimed \/ RegisteredInTime
    BY <2>1
  <2>2. CASE t.running /\ t.received[t.pairs[i].payer] = "unlocked" /\ InTime(t, b)
    <3>1. ~task'.running => ~Exists(t.pairs[i].payer, b)
      BY Zenon, <1>6, <2>2 DEF HasPendingLock, None
    <3>2. t.pairs[i].payer \in Channel
      BY <1>0, PairFields
    <3>3. ~task'.running => b > Expiration
      BY <1>0, <3>1, <3>2, ExistsUntilExpiration, PaymentChainAssumption
    <3> QED
      BY <1>17, <2>2, <3>3
  <2> QED
    BY <2>1, <2>2 DEF Covered
<1>19. Ended(task, block)'
  <2>1. ASSUME ~task'.running, NEW c \in Channel, Exists(c, b)
        PROVE  t.received[c] = None /\ t.sent[c] = None
    BY Zenon, <1>6, <2>1, NoPendingLock
  <2> QED
    BY <1>5, <1>6, <1>7, <2>1 DEF Ended, Exists, Happened
<1> QED
  BY <1>3, <1>15, <1>16, <1>18, <1>19 DEF MInv

-----------------------------------------------------------------------------
(* The actions. *)

(* A block of the chain: a registration it holds is in time or comes after *)
(* the expiration, and the node has not processed it.                      *)
LEMMA MineBlockKeeps ==
    ASSUME MInv, UNCHANGED task,
           NEW register \in BOOLEAN, NEW closing, NEW settling,
           MineBlock(register, closing, settling)
    PROVE  MInv'
<1>1. ChainTypeOK' /\ ChainTime'
  BY MineBlockTime DEF MInv
<1>2. /\ block' = block /\ requested' = requested /\ block \in Nat /\ block <= head
      /\ head \in Nat /\ registered \in Nat
      /\ registered' = registered \/ (registered = 0 /\ registered' = head + 1)
  BY DEF MineBlock, MInv, ChainTypeOK
<1>3. RegisteredInTime => RegisteredInTime'
  BY <1>2 DEF RegisteredInTime, Happened
<1>4. block >= Expiration => RegisteredInTime' = RegisteredInTime
  BY <1>2, PaymentChainAssumption DEF RegisteredInTime, Happened
<1>5. /\ Happened(registered, block)' = Happened(registered, block)
      /\ Happened(registered, block) => /\ registered' = registered
                                        /\ RegisteredInTime' = RegisteredInTime
  BY <1>2 DEF RegisteredInTime, Happened
<1>6. \A c \in Channel : Exists(c, block)' = Exists(c, block)
  BY <1>2 DEF MineBlock, MInv, ChainTypeOK, Exists, Happened
<1>7. RequestTime(task) = requested /\ RequestTime(task)' = requested
  BY <1>2 DEF RequestTime, MInv, Ended
<1>8. Shape(task)' /\ Secret(task)'
  BY DEF MInv, Core, Shape, Secret
<1>9. \A c \in Channel : PayerOf(task, c)' = PayerOf(task, c) /\ PayeeOf(task, c)' = PayeeOf(task, c)
  BY DEF PayerOf, PayeeOf
<1>10. block >= Expiration + Confirmations => block >= Expiration
  BY <1>2, PaymentChainAssumption
<1>11. Locks(task, block)'
  BY <1>2, <1>3, <1>4, <1>9, <1>10 DEF MInv, Core, Locks
<1>12. States(task, block)'
  <2> SUFFICES ASSUME NEW i \in DOMAIN task.pairs
               PROVE  LET p == task.pairs[i] IN
                      /\ p.payer_state \in STATE_TRANSFER_FINAL
                            => p.payer \in task.claimed \/ block >= Expiration + Confirmations
                      /\ p.payer_state = "payer_waiting_secret_reveal"
                            => \/ requested # 0 \/ RegisteredInTime'
                               \/ block >= Expiration + Confirmations
                      /\ p.payee_state = "payee_expired"
                            => block >= Expiration /\ (p.since < registered' => ~RegisteredInTime')
    BY <1>2, <1>7 DEF States
  <2> DEFINE p == task.pairs[i]
  <2>1. /\ p.payer_state \in STATE_TRANSFER_FINAL
                => p.payer \in task.claimed \/ block >= Expiration + Confirmations
        /\ p.payer_state = "payer_waiting_secret_reveal"
                => requested # 0 \/ RegisteredInTime \/ block >= Expiration + Confirmations
        /\ p.payee_state = "payee_expired"
                => block >= Expiration /\ (p.since < registered => ~RegisteredInTime)
    BY <1>7 DEF MInv, Core, States
  <2>2. ASSUME block >= Expiration, p.since < registered => ~RegisteredInTime
        PROVE  p.since < registered' => ~RegisteredInTime'
    <3>1. CASE registered' = registered
      BY <1>4, <2>2, <3>1
    <3>2. CASE registered' = head + 1
      BY <1>2, <2>2, <3>2, PaymentChainAssumption DEF RegisteredInTime, Happened
    <3> QED
      BY <1>2, <3>1, <3>2
  <2> QED
    BY <1>3, <2>1, <2>2
<1>13. Learned(task, block)'
  <2>1. \A i \in DOMAIN task.pairs : task.pairs[i].since < registered'
            /\ Happened(registered, block) => task.pairs[i].since < registered
    BY <1>5
  <2> QED
    BY <1>5, <1>9, <2>1 DEF MInv, Learned
<1>14. InTime(task, block) => InTime(task, block)'
  BY <1>2, <1>3, <1>7 DEF InTime, is_safe_to_wait
<1>15. Covered(task, block)'
  BY <1>3, <1>14 DEF MInv, Covered
<1>16. Ended(task, block)'
  BY <1>6 DEF MInv, Ended
<1> QED
  BY <1>1, <1>8, <1>11, <1>12, <1>13, <1>15, <1>16 DEF MInv, Core

(* The task before the payment arrives. *)
LEMMA NoTaskFields ==
    /\ NoTask \in TaskRecord
    /\ NoTask.pairs = << >> /\ NoTask.waiting = {} /\ NoTask.unlocks = {} /\ NoTask.claimed = {}
    /\ ~NoTask.running /\ ~NoTask.failed /\ ~NoTask.secret /\ ~NoTask.register
    /\ NoTask.received = [c \in Channel |-> None] /\ NoTask.sent = [c \in Channel |-> None]
<1> DEFINE f == [c \in Channel |-> None]
           s == << >>
<1>1. f \in [Channel -> Lock] /\ s \in Seq(PairState)
  BY DEF None, Lock
<1>2. NoTask = [running |-> FALSE, failed |-> FALSE, secret |-> FALSE, pairs |-> s,
                waiting |-> {}, refunded |-> {}, received |-> f, sent |-> f,
                reveals |-> {}, unlocks |-> {}, claimed |-> {}, register |-> FALSE]
  BY DEF NoTask
<1> HIDE DEF f, s
<1>3. NoTask \in TaskRecord
  BY <1>1, <1>2 DEF TaskRecord
<1>4. /\ NoTask.pairs = s /\ NoTask.waiting = {} /\ NoTask.unlocks = {} /\ NoTask.claimed = {}
      /\ ~NoTask.running /\ ~NoTask.failed /\ ~NoTask.secret /\ ~NoTask.register
      /\ NoTask.received = f /\ NoTask.sent = f
  BY <1>2
<1> QED
  BY <1>3, <1>4 DEF f, s

(* What the handlers of messages start from. *)
LEMMA RunningTask ==
    ASSUME MInv, task.running
    PROVE  /\ ChainTypeOK /\ ChainTime /\ Core(task, block) /\ Learned(task, block)
           /\ Covered(task, block) /\ task \in TaskRecord
           /\ ~task.failed /\ ~task.register
           /\ head # 0 /\ block \in Nat /\ block \in block .. (head - Confirmations)
<1>1. /\ ChainTypeOK /\ ChainTime /\ Core(task, block) /\ Learned(task, block)
      /\ Covered(task, block) /\ Ended(task, block)
  BY DEF MInv
<1>2. task \in TaskRecord
  BY <1>1 DEF Core
<1>3. ~task.failed /\ ~task.register
  BY <1>1 DEF Ended
<1>4. head # 0 /\ block \in Nat /\ block \in block .. (head - Confirmations)
  BY <1>1, PaymentChainAssumption DEF ChainTypeOK, ChainTime
<1> QED
  BY <1>1, <1>2, <1>3, <1>4

(* handle_offchain_secretreveal keeps the invariant: the payee is paid     *)
(* only while it is safe to wait, which covers it.                         *)
LEMMA ReceiveSecretRevealKeeps ==
    ASSUME MInv, NEW payee, ReceiveSecretReveal(payee)
    PROVE  MInv'
<1> DEFINE s == set_offchain_secret(task, block)
           r == set_offchain_reveal_state(s, payee)
           closing == {p \in Pairs(r) : IsPendingPair(p) /\ IsClosed(p.payer, block)}
           needing == {p \in closing : is_lock_pending(r.received[p.payer])}
           w == WaitForSecretReveal(r, block, closing, needing)
           e == events_for_secretreveal(w)
           u == events_for_balanceproof(e, block)
<1>1. task.running /\ ~task.secret /\ block' = block /\ Finish(u)
  BY Zenon DEF ReceiveSecretReveal, secret_learned, events_for_onchain_secretreveal_if_closed
<1>2. /\ ChainTypeOK /\ ChainTime /\ Core(task, block) /\ Learned(task, block)
      /\ task \in TaskRecord /\ ~task.failed /\ head # 0 /\ block \in Nat
      /\ block \in block .. (head - Confirmations)
  BY Zenon, <1>1, RunningTask
<1>3. task.unlocks = {} /\ task.claimed = {}
  BY Zenon, <1>1, <1>2 DEF Core, Secret
<1>4. Core(s, block) /\ Learned(s, block)
  BY <1>2, OffchainSecretKeeps
<1>5. /\ s.secret /\ s.running = task.running /\ s.failed = task.failed
      /\ s.unlocks = task.unlocks /\ s.claimed = task.claimed
  BY <1>2, OffchainEffect
<1> HIDE DEF s
<1>6. Core(r, block) /\ Learned(r, block)
  BY <1>4, RevealStateKeeps
<1>7. Evolves(s, r) /\ r.unlocks = s.unlocks
  BY <1>4, RevealStateEffect DEF Core
<1>8. r.secret /\ r.running /\ ~r.failed /\ r.unlocks = {} /\ r.claimed = {}
  BY Zenon, <1>1, <1>2, <1>3, <1>5, <1>7 DEF Evolves
<1> HIDE DEF r
<1>9. closing # {} => needing # {} \/ block >= Expiration + Confirmations
  <2> SUFFICES ASSUME closing # {}, needing = {}
               PROVE  block >= Expiration + Confirmations
    OBVIOUS
  <2>1. PICK i \in DOMAIN r.pairs : r.pairs[i] \in closing
    BY DEF Pairs
  <2>2. ~is_lock_pending(r.received[r.pairs[i].payer])
    BY <2>1
  <2>3. r.received[r.pairs[i].payer] = None
    BY <2>2 DEF is_lock_pending, None
  <2>4. r.pairs[i].payer \in Channel /\ PayerOf(r, r.pairs[i].payer)
    BY <1>6, PairFields DEF Core, PayerOf
  <2> QED
    BY Zenon, <1>6, <1>8, <2>3, <2>4 DEF Core, Locks
<1>10. w = WaitForSecretReveal(r, block, closing, needing)
  OBVIOUS
<1> HIDE DEF closing, needing, w
<1>11. Core(w, block) /\ Learned(w, block)
  BY <1>2, <1>6, <1>9, <1>10, WaitKeeps
<1>12. Evolves(r, w) /\ w.unlocks = r.unlocks
  BY <1>6, <1>10, WaitEffect DEF Core
<1>13. Core(e, block) /\ Learned(e, block)
  BY <1>11, SecretRevealKeeps
<1>14. Evolves(w, e) /\ e.unlocks = w.unlocks
  BY <1>11, SecretRevealEffect DEF Core
<1>15. e.secret /\ e.running /\ ~e.failed /\ e.unlocks = {}
  BY <1>8, <1>12, <1>14 DEF Evolves
<1> HIDE DEF e
<1>16. Core(u, block) /\ Learned(u, block)
  BY <1>13, <1>15, BalanceProofKeeps
<1>17. Evolves(e, u) /\ (~is_safe_to_wait(block) => u.unlocks = e.unlocks)
  BY <1>13, BalanceProofEffect DEF Core
<1>18. u.secret /\ u.running /\ ~u.failed
  BY <1>15, <1>17 DEF Evolves
<1> HIDE DEF u
<1>19. Covered(u, block)
  <2>1. CASE is_safe_to_wait(block)
    BY <1>2, <1>16, <1>18, <2>1, SafeIsCovered
  <2>2. CASE ~is_safe_to_wait(block)
    BY <1>15, <1>17, <2>2 DEF Covered
  <2> QED
    BY <2>1, <2>2
<1> QED
  BY <1>1, <1>2, <1>16, <1>18, <1>19, FinishKeeps

(* What the handler of an Unlock changes. *)
UnlockStep(t, payer, u) ==
    /\ u \in TaskRecord /\ DOMAIN u.pairs = DOMAIN t.pairs
    /\ \A i \in DOMAIN t.pairs :
          /\ u.pairs[i].payer = t.pairs[i].payer /\ u.pairs[i].payee = t.pairs[i].payee
          /\ u.pairs[i].since = t.pairs[i].since
          /\ u.pairs[i].payee_state = t.pairs[i].payee_state
          /\ u.pairs[i].payer_state = IF t.pairs[i].payer = payer THEN "payer_balance_proof"
                                      ELSE t.pairs[i].payer_state
    /\ \A c \in Channel : u.received[c] = IF c = payer THEN None ELSE t.received[c]
    /\ u.claimed = t.claimed \cup {payer}
    /\ u.running = t.running /\ u.failed = t.failed /\ u.secret = t.secret
    /\ u.waiting = t.waiting /\ u.refunded = t.refunded /\ u.sent = t.sent
    /\ u.unlocks = t.unlocks /\ u.register = t.register

(* handle_unlock changes that and nothing else. *)
LEMMA UnlockEffect ==
    ASSUME NEW t \in TaskRecord, NEW payer \in Channel, NEW u,
           u = UpdatePairs([t EXCEPT !.received[payer] = None, !.claimed = @ \cup {payer}],
                           LAMBDA p : p.payer = payer,
                           LAMBDA p : [p EXCEPT !.payer_state = "payer_balance_proof"])
    PROVE  UnlockStep(t, payer, u)
<1> DEFINE f == [i \in DOMAIN t.pairs |->
                    IF t.pairs[i].payer = payer
                    THEN [t.pairs[i] EXCEPT !.payer_state = "payer_balance_proof"]
                    ELSE t.pairs[i]]
           g == [t.received EXCEPT ![payer] = None]
           C == t.claimed \cup {payer}
           v == [t EXCEPT !.received = g, !.claimed = C]
<1>1. v.pairs = t.pairs
  BY DEF TaskRecord
<1>2. u = [v EXCEPT !.pairs = f]
  BY <1>1 DEF UpdatePairs
<1>3. \A i \in DOMAIN t.pairs :
         /\ f[i] \in PairState
         /\ f[i].payer = t.pairs[i].payer /\ f[i].payee = t.pairs[i].payee
         /\ f[i].since = t.pairs[i].since /\ f[i].payee_state = t.pairs[i].payee_state
         /\ f[i].payer_state = IF t.pairs[i].payer = payer THEN "payer_balance_proof"
                               ELSE t.pairs[i].payer_state
  BY PairFields DEF PairState
<1>4. t.pairs \in Seq(PairState) /\ f = [i \in DOMAIN t.pairs |-> f[i]]
  BY TaskFields
<1>5. /\ g \in [Channel -> Lock]
      /\ \A c \in Channel : g[c] = IF c = payer THEN None ELSE t.received[c]
  BY TaskFields DEF Lock, None
<1>6. C \in SUBSET Channel
  BY TaskFields
<1> HIDE DEF f, g
<1>7. f \in Seq(PairState) /\ DOMAIN f = DOMAIN t.pairs
  BY Zenon, <1>3, <1>4, UpdatedPairs
<1> HIDE DEF C
<1>8. /\ v \in TaskRecord /\ v.received = g /\ v.claimed = C
      /\ v.running = t.running /\ v.failed = t.failed /\ v.secret = t.secret
      /\ v.waiting = t.waiting /\ v.refunded = t.refunded /\ v.sent = t.sent
      /\ v.unlocks = t.unlocks /\ v.register = t.register
  BY Zenon, <1>5, <1>6 DEF TaskRecord
<1> HIDE DEF v
<1>9. /\ u \in TaskRecord /\ u.pairs = f /\ u.received = g /\ u.claimed = C
      /\ u.running = t.running /\ u.failed = t.failed /\ u.secret = t.secret
      /\ u.waiting = t.waiting /\ u.refunded = t.refunded /\ u.sent = t.sent
      /\ u.unlocks = t.unlocks /\ u.register = t.register
  BY Zenon, <1>2, <1>7, <1>8 DEF TaskRecord
<1> QED
  BY Zenon, <1>3, <1>5, <1>7, <1>9 DEF UnlockStep, C

(* An Unlock that arrives before the secret is known fails sanity_check;   *)
(* nothing was paid then.                                                  *)
LEMMA ReceiveUnlockKeeps ==
    ASSUME MInv, NEW payer, ReceiveUnlock(payer)
    PROVE  MInv'
<1> DEFINE u == UpdatePairs([task EXCEPT !.received[payer] = None, !.claimed = @ \cup {payer}],
                            LAMBDA p : p.payer = payer,
                            LAMBDA p : [p EXCEPT !.payer_state = "payer_balance_proof"])
<1>1. task.running /\ block' = block /\ Finish(u)
  BY DEF ReceiveUnlock
<1>2. PICK k \in DOMAIN task.pairs : task.pairs[k].payer = payer
  BY DEF ReceiveUnlock, Pairs
<1>3. /\ ChainTypeOK /\ ChainTime /\ Core(task, block) /\ Learned(task, block)
      /\ task \in TaskRecord /\ Shape(task) /\ Locks(task, block) /\ States(task, block)
      /\ Secret(task) /\ Covered(task, block) /\ ~task.failed /\ ~task.register
      /\ block \in Nat /\ block \in block .. (head - Confirmations)
  BY <1>1, RunningTask DEF Core
<1>4. payer \in Channel
  BY <1>2, <1>3, PairFields
<1>5. UnlockStep(task, payer, u)
  BY Zenon, <1>3, <1>4, UnlockEffect
<1> HIDE DEF u
<1>6. \A c \in Channel : PayerOf(u, c) = PayerOf(task, c) /\ PayeeOf(u, c) = PayeeOf(task, c)
  BY Zenon, <1>5 DEF UnlockStep, PayerOf, PayeeOf
<1>7. Shape(u)
  BY <1>3, <1>5 DEF UnlockStep, Shape
<1>8. RequestTime(u) = RequestTime(task) /\ (InTime(u, block) <=> InTime(task, block))
  BY <1>5 DEF UnlockStep, RequestTime, InTime
<1>9. Locks(u, block)
  <2>1. /\ \A c \in Channel : u.received[c] = IF c = payer THEN None ELSE task.received[c]
        /\ u.sent = task.sent /\ u.secret = task.secret
        /\ u.claimed = task.claimed \cup {payer}
    BY <1>5 DEF UnlockStep
  <2> QED
    BY Zenon, <1>3, <1>6, <2>1 DEF Locks, None
<1>10. States(u, block)
  <2>1. \A i \in DOMAIN task.pairs :
            task.pairs[i].payer = payer \/ u.pairs[i].payer_state = task.pairs[i].payer_state
    BY <1>5 DEF UnlockStep
  <2>2. \A i \in DOMAIN task.pairs : task.pairs[i].payer = payer =>
            u.pairs[i].payer \in u.claimed /\ u.pairs[i].payer_state = "payer_balance_proof"
    BY <1>5 DEF UnlockStep
  <2>3. /\ DOMAIN u.pairs = DOMAIN task.pairs /\ task.claimed \subseteq u.claimed
        /\ \A i \in DOMAIN task.pairs : /\ u.pairs[i].payer = task.pairs[i].payer
                                        /\ u.pairs[i].since = task.pairs[i].since
                                        /\ u.pairs[i].payee_state = task.pairs[i].payee_state
    BY Zenon, <1>5 DEF UnlockStep
  <2>4. "payer_balance_proof" # "payer_waiting_secret_reveal"
    OBVIOUS
  <2> QED
    BY Zenon, <1>3, <1>8, <2>1, <2>2, <2>3, <2>4 DEF States
<1>11. Learned(u, block)
  <2>1. u.running = task.running /\ u.secret = task.secret
    BY <1>5 DEF UnlockStep
  <2>2. \A c \in Channel : u.received[c] \in {task.received[c], None}
    BY Zenon, <1>5 DEF UnlockStep
  <2>3. /\ DOMAIN u.pairs = DOMAIN task.pairs
        /\ \A i \in DOMAIN task.pairs :
               /\ u.pairs[i].since = task.pairs[i].since
               /\ u.sent[u.pairs[i].payee] = task.sent[task.pairs[i].payee]
    BY <1>5 DEF UnlockStep
  <2> QED
    BY <1>3, <1>6, <2>1, <2>2, <2>3 DEF Learned
<1>12. Covered(u, block)
  <2> SUFFICES ASSUME NEW i \in DOMAIN u.pairs, u.pairs[i].payee \in u.unlocks
               PROVE  \/ u.pairs[i].payer \in u.claimed
                      \/ RegisteredInTime
                      \/ /\ u.running /\ u.received[u.pairs[i].payer] = "unlocked"
                         /\ InTime(u, block)
    BY DEF Covered
  <2>1. /\ i \in DOMAIN task.pairs /\ task.pairs[i].payee \in task.unlocks
        /\ u.pairs[i].payer = task.pairs[i].payer /\ u.running = task.running
        /\ u.claimed = task.claimed \cup {payer}
    BY <1>5 DEF UnlockStep
  <2>2. task.pairs[i].payer \in Channel
    BY <1>3, <2>1, PairFields
  <2>3. \/ task.pairs[i].payer = payer
        \/ u.received[task.pairs[i].payer] = task.received[task.pairs[i].payer]
    BY <1>5, <2>2 DEF UnlockStep
  <2> QED
    BY <1>3, <1>8, <2>1, <2>3 DEF Covered
<1>13. u.running /\ ~u.failed /\ u.secret = task.secret /\ ~u.register /\ u \in TaskRecord
  BY <1>1, <1>3, <1>5 DEF UnlockStep
<1>14. CASE task.secret
  <2>1. Secret(u)
    BY <1>13, <1>14 DEF Secret
  <2>2. Core(u, block)
    BY <1>7, <1>9, <1>10, <1>13, <2>1 DEF Core
  <2> QED
    BY <1>1, <1>3, <1>11, <1>12, <1>13, <2>2, FinishKeeps
<1>15. CASE ~task.secret
  <2>1. ~sanity_check(u)
    <3>1. u.pairs[k] \in Pairs(u) /\ u.pairs[k].payer_state = "payer_balance_proof"
      BY <1>2, <1>5 DEF UnlockStep, Pairs
    <3>2. {u.pairs[k].payer_state, u.pairs[k].payee_state} \cap STATE_TRANSFER_PAID # {}
      BY <3>1 DEF STATE_TRANSFER_PAID
    <3> QED
      BY <1>13, <1>15, <3>1, <3>2 DEF sanity_check
  <2>2. /\ task' = [u EXCEPT !.failed = TRUE, !.running = FALSE]
        /\ Request(u.register) /\ UNCHANGED chain
    BY <1>1, <2>1 DEF Finish
  <2>3. ChainTypeOK' /\ ChainTime'
    BY <1>1, <1>3, <2>2, NodeStepTime
  <2>4. /\ task' \in TaskRecord /\ task'.failed /\ ~task'.running
        /\ task'.pairs = u.pairs /\ task'.secret = u.secret /\ task'.register = u.register
        /\ task'.waiting = u.waiting /\ task'.refunded = u.refunded
        /\ task'.received = u.received /\ task'.sent = u.sent
        /\ task'.unlocks = u.unlocks /\ task'.claimed = u.claimed
    BY Zenon, <1>13, <2>2 DEF TaskRecord
  <2>5. task'.unlocks = {}
    BY Zenon, <1>3, <1>5, <1>15, <2>4 DEF Secret, UnlockStep
  <2>6. /\ registered' = registered /\ requested' = requested /\ head' = head
    BY <1>13, <2>2 DEF Request, chain
  <2>7. RequestTime(task)' = RequestTime(u) /\ RegisteredInTime' = RegisteredInTime
    BY <2>4, <2>6 DEF RequestTime, RegisteredInTime, Happened
  <2>8. \A c \in Channel : PayerOf(task, c)' = PayerOf(u, c) /\ PayeeOf(task, c)' = PayeeOf(u, c)
    BY <2>4 DEF PayerOf, PayeeOf
  <2>9. Shape(task)'
    BY <1>7, <2>4 DEF Shape
  <2>10. Locks(task, block)'
    BY <1>1, <1>9, <2>4, <2>7, <2>8 DEF Locks
  <2>11. States(task, block)'
    BY <1>1, <1>10, <2>4, <2>6, <2>7 DEF States
  <2>12. Secret(task)' /\ Learned(task, block)' /\ Covered(task, block)' /\ Ended(task, block)'
    BY <1>13, <2>4, <2>5 DEF Secret, Learned, Covered, Ended
  <2> QED
    BY <2>3, <2>4, <2>9, <2>10, <2>11, <2>12 DEF MInv, Core
<1> QED
  BY <1>14, <1>15

(* What the handler of a LockExpired changes. *)
LockExpiredStep(t, payer, u) ==
    /\ u \in TaskRecord /\ DOMAIN u.pairs = DOMAIN t.pairs
    /\ \A i \in DOMAIN t.pairs :
          /\ u.pairs[i].payer = t.pairs[i].payer /\ u.pairs[i].payee = t.pairs[i].payee
          /\ u.pairs[i].since = t.pairs[i].since
          /\ u.pairs[i].payee_state = t.pairs[i].payee_state
          /\ u.pairs[i].payer_state \in {t.pairs[i].payer_state, "payer_expired"}
    /\ \A c \in Channel : u.received[c] = IF c = payer THEN None ELSE t.received[c]
    /\ u.running = t.running /\ u.failed = t.failed /\ u.secret = t.secret
    /\ u.waiting = t.waiting /\ u.refunded = t.refunded /\ u.sent = t.sent
    /\ u.unlocks = t.unlocks /\ u.claimed = t.claimed /\ u.register = t.register

(* handle_lock_expired changes that and nothing else. *)
LEMMA LockExpiredEffect ==
    ASSUME NEW t \in TaskRecord, NEW payer \in Channel, NEW E, NEW u,
           u = [[t EXCEPT !.received[payer] = None] EXCEPT !.pairs =
                    [i \in DOMAIN t.pairs |->
                        IF i \in E THEN [t.pairs[i] EXCEPT !.payer_state = "payer_expired"]
                        ELSE t.pairs[i]]]
    PROVE  LockExpiredStep(t, payer, u)
<1> DEFINE f == [i \in DOMAIN t.pairs |->
                    IF i \in E THEN [t.pairs[i] EXCEPT !.payer_state = "payer_expired"]
                    ELSE t.pairs[i]]
           g == [t.received EXCEPT ![payer] = None]
<1>1. u = [[t EXCEPT !.received = g] EXCEPT !.pairs = f]
  OBVIOUS
<1>2. \A i \in DOMAIN t.pairs :
         /\ f[i] \in PairState
         /\ f[i].payer = t.pairs[i].payer /\ f[i].payee = t.pairs[i].payee
         /\ f[i].since = t.pairs[i].since /\ f[i].payee_state = t.pairs[i].payee_state
         /\ f[i].payer_state \in {t.pairs[i].payer_state, "payer_expired"}
  BY PairFields DEF PairState
<1>3. t.pairs \in Seq(PairState) /\ f = [i \in DOMAIN t.pairs |-> f[i]]
  BY TaskFields
<1>4. /\ g \in [Channel -> Lock]
      /\ \A c \in Channel : g[c] = IF c = payer THEN None ELSE t.received[c]
  BY TaskFields DEF Lock, None
<1> HIDE DEF f, g
<1>5. f \in Seq(PairState) /\ DOMAIN f = DOMAIN t.pairs
  BY <1>2, <1>3, UpdatedPairs
<1>6. /\ u \in TaskRecord /\ u.pairs = f /\ u.received = g
      /\ u.running = t.running /\ u.failed = t.failed /\ u.secret = t.secret
      /\ u.waiting = t.waiting /\ u.refunded = t.refunded /\ u.sent = t.sent
      /\ u.unlocks = t.unlocks /\ u.claimed = t.claimed /\ u.register = t.register
  BY Zenon, <1>1, <1>4, <1>5 DEF TaskRecord
<1> QED
  BY <1>2, <1>4, <1>5, <1>6 DEF LockExpiredStep

(* The node takes a lock for expired only after it has seen every block in *)
(* which the secret could have been registered in time.                    *)
LEMMA ReceiveLockExpiredKeeps ==
    ASSUME MInv, NEW payer \in Channel, ReceiveLockExpired(payer)
    PROVE  MInv'
<1> DEFINE gone == {i \in DOMAIN task.pairs : ~Exists(task.pairs[i].payer, block)}
           reached == {i \in DOMAIN task.pairs : \A j \in gone : i < j}
           t == [task EXCEPT !.received[payer] = None]
           E == {i \in reached : ~is_lock_pending(t.received[task.pairs[i].payer])}
           u == [t EXCEPT !.pairs =
                    [i \in DOMAIN task.pairs |->
                        IF i \in E THEN [task.pairs[i] EXCEPT !.payer_state = "payer_expired"]
                        ELSE task.pairs[i]]]
<1>1. /\ task.running /\ block' = block
      /\ \/ \E i \in reached : task.pairs[i].payer = payer
         \/ \E w \in task.waiting : w.payer = payer
      /\ is_valid_lock_expired(payer, task.received[payer], task.sent[payer], block)
  BY DEF ReceiveLockExpired
<1>2. Finish(u)
  <2>1. [t EXCEPT !.pairs = [i \in DOMAIN task.pairs |->
                IF i \in reached /\ ~is_lock_pending(t.received[task.pairs[i].payer])
                THEN [task.pairs[i] EXCEPT !.payer_state = "payer_expired"]
                ELSE task.pairs[i]]] = u
    BY Zenon
  <2> QED
    BY <2>1 DEF ReceiveLockExpired
<1>3. /\ ChainTypeOK /\ ChainTime /\ Core(task, block) /\ Learned(task, block)
      /\ task \in TaskRecord /\ Shape(task) /\ Locks(task, block) /\ States(task, block)
      /\ Secret(task) /\ Covered(task, block) /\ ~task.failed
      /\ block \in Nat /\ block \in block .. (head - Confirmations)
  BY <1>1, RunningTask DEF Core
<1>4. LockExpiredStep(task, payer, u)
  BY Zenon, <1>3, LockExpiredEffect
<1>5. PayerOf(task, payer)
  BY <1>1 DEF PayerOf
<1> HIDE DEF u
<1>6. /\ task.received[payer] \in {"locked", "unlocked"}
      /\ block >= Expiration + Confirmations /\ block >= Expiration /\ head >= Expiration
  BY <1>1, <1>3, PaymentChainAssumption
  DEF is_valid_lock_expired, is_lock_expired, get_receiver_expiration_threshold,
      ChainTypeOK
<1>7. ~RegisteredInTime
  <2>1. RegisteredInTime => Happened(registered, block)
    BY <1>3, <1>6, PaymentChainAssumption DEF RegisteredInTime, Happened, ChainTypeOK
  <2> QED
    BY <1>1, <1>3, <1>5, <1>6, <2>1 DEF Learned, None
<1>8. \A c \in Channel : PayerOf(u, c) = PayerOf(task, c) /\ PayeeOf(u, c) = PayeeOf(task, c)
  BY Zenon, <1>4 DEF LockExpiredStep, PayerOf, PayeeOf
<1>9. Shape(u)
  <2>1. /\ DOMAIN u.pairs = DOMAIN task.pairs /\ u.waiting = task.waiting /\ u.refunded = task.refunded
        /\ \A i \in DOMAIN task.pairs : /\ u.pairs[i].payer = task.pairs[i].payer
                                        /\ u.pairs[i].payee = task.pairs[i].payee
    BY Zenon, <1>4 DEF LockExpiredStep
  <2> QED
    BY Zenon, <1>3, <2>1 DEF Shape
<1>10. RequestTime(u) = RequestTime(task)
  BY <1>4 DEF LockExpiredStep, RequestTime
<1>11. Locks(u, block)
  <2>1. /\ \A c \in Channel : u.received[c] = IF c = payer THEN None ELSE task.received[c]
        /\ u.sent = task.sent /\ u.secret = task.secret /\ u.claimed = task.claimed
    BY <1>4 DEF LockExpiredStep
  <2> QED
    BY Zenon, <1>3, <1>6, <1>7, <1>8, <2>1 DEF Locks, None
<1>12. States(u, block)
  BY Zenon, <1>3, <1>4, <1>6, <1>10 DEF States, LockExpiredStep
<1>13. Secret(u)
  BY Zenon, <1>3, <1>4 DEF Secret, LockExpiredStep, STATE_TRANSFER_PAID
<1>14. Learned(u, block)
  BY Zenon, <1>3, <1>4, <1>7 DEF Learned, LockExpiredStep
<1>15. Covered(u, block)
  <2> SUFFICES ASSUME NEW i \in DOMAIN u.pairs, u.pairs[i].payee \in u.unlocks
               PROVE  u.pairs[i].payer \in u.claimed
    BY DEF Covered
  <2>1. /\ i \in DOMAIN task.pairs /\ task.pairs[i].payee \in task.unlocks
        /\ u.pairs[i].payer = task.pairs[i].payer /\ u.claimed = task.claimed
    BY <1>4 DEF LockExpiredStep
  <2>2. ~InTime(task, block)
    BY <1>3, <1>6, <1>7, InTimeMeansRegistered
  <2> QED
    BY Zenon, <1>3, <1>7, <2>1, <2>2 DEF Covered
<1>16. Core(u, block) /\ u.running /\ ~u.failed
  BY Zenon, <1>1, <1>3, <1>4, <1>9, <1>11, <1>12, <1>13 DEF Core, LockExpiredStep
<1> QED
  BY <1>1, <1>2, <1>3, <1>14, <1>15, <1>16, FinishKeeps

(* The registration of the secret is processed before the block.  Every    *)
(* unlock is covered by it from then on.                                   *)
LEMMA RegistrationKeeps ==
    ASSUME MInv, NEW b \in Nat, block <= b, Happened(registered, b), task.running,
           NEW t, t = clear_if_finalized(handle_onchain_secretreveal(task), registered)
    PROVE  /\ Core(t, b) /\ Learned(t, b) /\ Covered(t, block) /\ Covered(t, b) /\ ~t.failed
           /\ t.running \/ ~HasPendingLock(t, b)
<1> DEFINE d == registered
           s == set_onchain_secret(task, d)
           v == events_for_balanceproof(s, d)
<1>1. t = clear_if_finalized(v, d)
  BY DEF handle_onchain_secretreveal
<1>2. /\ ChainTypeOK /\ ChainTime /\ Core(task, block) /\ Covered(task, block)
      /\ task \in TaskRecord /\ ~task.failed /\ registered \in Nat /\ block \in Nat
      /\ registered # 0 /\ registered <= b
  BY DEF MInv, Core, Ended, ChainTypeOK, Happened
<1>3. Core(task, b)
  BY <1>2, LaterBlock
<1>4. Core(s, b) /\ Learned(s, b)
  BY <1>2, <1>3, OnchainSecretKeeps
<1>a. s = set_onchain_secret(task, d) /\ v = events_for_balanceproof(s, d) /\ d = registered
  OBVIOUS
<1>b. d \in Nat
  BY <1>2
<1> HIDE DEF d, s, v
<1>5. /\ s.secret /\ s.pairs = task.pairs /\ s.running = task.running
      /\ s.failed = task.failed /\ s.unlocks = task.unlocks /\ s.claimed = task.claimed
  <2> DEFINE k == task
  <2>1. d \in Nat /\ s = set_onchain_secret(k, d) /\ k \in TaskRecord
    BY <1>2, <1>a, <1>b
  <2> HIDE DEF k
  <2>2. /\ s \in TaskRecord /\ s.secret
        /\ s.pairs = k.pairs /\ s.waiting = k.waiting /\ s.refunded = k.refunded
        /\ s.running = k.running /\ s.failed = k.failed
        /\ s.unlocks = k.unlocks /\ s.claimed = k.claimed /\ s.register = k.register
    BY <2>1, OnchainEffect
  <2> QED
    BY <2>2 DEF k
<1>6. Core(v, b) /\ Learned(v, b)
  BY <1>4, <1>5, <1>a, BalanceProofKeeps
<1>7. Evolves(s, v) /\ (~is_safe_to_wait(d) => v.unlocks = s.unlocks)
  BY <1>4, <1>a, BalanceProofEffect DEF Core
<1>8. v \in TaskRecord /\ v.running = task.running /\ v.failed = task.failed
  BY <1>5, <1>7 DEF Evolves
<1>9. /\ t \in TaskRecord
      /\ t.running = (v.running /\ HasPendingLock(v, d))
      /\ t.pairs = v.pairs /\ t.failed = v.failed /\ t.secret = v.secret
      /\ t.waiting = v.waiting /\ t.refunded = v.refunded
      /\ t.received = v.received /\ t.sent = v.sent
      /\ t.unlocks = v.unlocks /\ t.claimed = v.claimed /\ t.register = v.register
  BY ONLY <1>1, <1>8, ClearEffect
<1>10. RequestTime(t) = RequestTime(v)
  BY <1>9 DEF RequestTime
<1>11. \A c \in Channel : PayerOf(t, c) = PayerOf(v, c) /\ PayeeOf(t, c) = PayeeOf(v, c)
  BY <1>9 DEF PayerOf, PayeeOf
<1>12. Shape(t) /\ Secret(t)
  <2>1. Shape(t)
    <3>1. t.pairs = v.pairs /\ t.waiting = v.waiting /\ t.refunded = v.refunded
      BY <1>9
    <3>2. Shape(v)
      BY <1>6 DEF Core
    <3> QED
      BY <3>1, <3>2 DEF Shape
  <2>2. t.running => v.running
    BY Zenon, <1>9
  <2>3. Secret(t)
    BY <1>6, <1>9, <2>2 DEF Core, Secret
  <2> QED
    BY <2>1, <2>3
<1>13. Locks(t, b)
  BY Zenon, <1>6, <1>9, <1>11 DEF Core, Locks
<1>14. States(t, b)
  BY <1>6, <1>9, <1>10 DEF Core, States
<1>15. Core(t, b)
  BY Zenon, <1>9, <1>12, <1>13, <1>14 DEF Core
<1>16. Learned(t, b)
  BY Zenon, <1>6, <1>9, <1>11 DEF Learned
<1>17. ASSUME NEW i \in DOMAIN t.pairs, t.pairs[i].payee \in t.unlocks
       PROVE  t.pairs[i].payer \in t.claimed \/ RegisteredInTime
  <2>1. CASE is_safe_to_wait(d)
    BY <1>2, <1>a, <2>1, PaymentChainAssumption DEF is_safe_to_wait, RegisteredInTime, Happened
  <2>2. CASE ~is_safe_to_wait(d)
    <3>1. /\ i \in DOMAIN task.pairs /\ t.pairs[i].payee = task.pairs[i].payee
          /\ t.pairs[i].payer = task.pairs[i].payer
          /\ t.unlocks = task.unlocks /\ t.claimed = task.claimed
      <4>1. t.pairs = v.pairs /\ t.unlocks = v.unlocks /\ t.claimed = v.claimed
        BY Zenon, <1>9
      <4>2. s.pairs = task.pairs /\ s.unlocks = task.unlocks /\ s.claimed = task.claimed
        BY Zenon, <1>5
      <4>3. /\ v.unlocks = s.unlocks /\ v.claimed = s.claimed /\ DOMAIN v.pairs = DOMAIN s.pairs
            /\ \A j \in DOMAIN s.pairs : /\ v.pairs[j].payee = s.pairs[j].payee
                                          /\ v.pairs[j].payer = s.pairs[j].payer
        BY Zenon, <1>7, <2>2 DEF Evolves
      <4> QED
        BY Zenon, <1>17, <4>1, <4>2, <4>3
    <3>2. InTime(task, block) => RegisteredInTime
      BY <1>2, InTimeMeansRegistered
    <3> QED
      BY <1>2, <1>17, <3>1, <3>2 DEF Covered
  <2> QED
    BY <2>1, <2>2
<1>18. Covered(t, block) /\ Covered(t, b)
  BY <1>17 DEF Covered
<1>19. t.running \/ ~HasPendingLock(t, b)
  <2>1. \A c \in Channel : Exists(c, b) => Exists(c, d)
    BY <1>2, <1>a DEF Exists, Happened, ChainTypeOK
  <2>2. t.running \/ ~HasPendingLock(t, d)
    <3>1. HasPendingLock(t, d) = HasPendingLock(v, d)
      <4>1. t.pairs = v.pairs /\ t.waiting = v.waiting /\ t.received = v.received /\ t.sent = v.sent
        BY Zenon, <1>9
      <4> QED
        BY ONLY <4>1 DEF HasPendingLock
    <3> QED
      BY Zenon, <1>8, <1>9, <3>1
  <2>3. \A i \in DOMAIN t.pairs : t.pairs[i].payer \in Channel /\ t.pairs[i].payee \in Channel
    BY <1>9, PairFields
  <2>4. \A w \in t.waiting : w.payer \in Channel
    BY <1>9, TaskFields
  <2>5. HasPendingLock(t, b) => HasPendingLock(t, d)
    BY Zenon, <2>1, <2>3, <2>4 DEF HasPendingLock
  <2> QED
    BY <2>2, <2>5
<1> QED
  BY <1>2, <1>8, <1>9, <1>15, <1>16, <1>18, <1>19

-----------------------------------------------------------------------------
(* The invariant holds initially. *)
LEMMA MediatorInit == Init => MInv
<1> SUFFICES ASSUME Init
             PROVE  MInv
  OBVIOUS
<1>1. ChainTypeOK /\ ChainTime /\ registered = 0
  BY PaymentChainAssumption DEF Init, ChainInit, ChainTypeOK, ChainTime
<1>2. /\ task \in TaskRecord /\ DOMAIN task.pairs = {} /\ task.waiting = {}
      /\ task.unlocks = {} /\ task.claimed = {}
      /\ ~task.running /\ ~task.failed /\ ~task.secret /\ ~task.register
      /\ \A c \in Channel : task.received[c] = None /\ task.sent[c] = None
  BY NoTaskFields DEF Init
<1>3. Core(task, block)
  BY <1>2 DEF Core, Shape, Locks, States, Secret, PayerOf, None
<1>4. Learned(task, block) /\ Covered(task, block) /\ Ended(task, block)
  BY <1>2 DEF Learned, Covered, Ended
<1> QED
  BY <1>1, <1>3, <1>4 DEF MInv

LOCAL INSTANCE WellFoundedInduction

(* The least element of a set of positions is one of them. *)
LEMMA MinIsElement ==
    ASSUME NEW S \in SUBSET Nat, S # {}
    PROVE  Min(S) \in S
<1>1. PICK x \in S : \A y \in S : ~(<<y, x>> \in OpToRel(<, Nat))
  BY Zenon, NatLessThanWellFounded, WFMin
<1>2. ASSUME NEW y \in S
      PROVE  x <= y
  <2>1. x \in Nat /\ y \in Nat
    OBVIOUS
  <2>2. <<y, x>> \in Nat \X Nat /\ <<y, x>>[1] = y /\ <<y, x>>[2] = x
    BY <2>1
  <2>3. ~(y < x)
    BY <1>1, <2>2 DEF OpToRel
  <2> QED
    BY <2>1, <2>3
<1> QED
  BY Zenon, <1>2 DEF Min

(* The route mediate_transfer takes has not refunded the payment, and it   *)
(* is early enough to wait.                                                *)
LEMMA ChosenRoute ==
    ASSUME NEW t, NEW b, NEW funded, UsableRoutes(t, b, funded) # {},
           NEW payee, payee = Routes[Min(UsableRoutes(t, b, funded))]
    PROVE  payee \in Channel /\ payee \notin t.refunded /\ is_safe_to_wait(b)
<1> DEFINE S == UsableRoutes(t, b, funded)
           m == Min(S)
<1>1. S \in SUBSET Nat
  BY MediatorAssumption DEF UsableRoutes
<1>2. m \in S
  BY <1>1, MinIsElement
<1>3. m \in DOMAIN Routes /\ payee = Routes[m]
  BY <1>2 DEF UsableRoutes
<1>4. payee \notin t.refunded /\ is_safe_to_wait(b)
  BY <1>2, <1>3 DEF UsableRoutes, is_channel_usable_for_mediation, is_safe_to_wait
<1> QED
  BY <1>3, <1>4, MediatorAssumption

(* mediate_transfer queues the transfer that arrived from payer, or queues *)
(* and forwards it.                                                        *)
LEMMA MediateKeeps ==
    ASSUME NEW t \in TaskRecord, t.waiting = {}, NEW payer \in Channel,
           NEW b \in Nat, NEW funded,
           NEW v, v = [t EXCEPT !.waiting = {[payer |-> payer, state |-> "waiting"]}],
           Core(v, b), Learned(v, b), Covered(v, b), Alive(v), ChainTypeOK,
           NEW u, u = mediate_transfer(t, payer, b, funded)
    PROVE  Core(u, b) /\ Learned(u, b) /\ Covered(u, b) /\ Alive(u)
<1> DEFINE usable == UsableRoutes(t, b, funded)
           payee == Routes[Min(usable)]
<1>1. CASE usable = {}
  <2>1. u = v
    BY <1>1 DEF mediate_transfer
  <2> QED
    BY <2>1
<1>2. CASE usable # {}
  <2>1. payee \in Channel /\ payee \notin t.refunded /\ is_safe_to_wait(b)
    BY <1>2, ChosenRoute
  <2>2. u = [t EXCEPT !.pairs = Append(t.pairs, MediationPair(payer, payee, b)),
                      !.sent = [t.sent EXCEPT ![payee] = "locked"]]
    BY <1>2 DEF mediate_transfer
  <2> HIDE DEF payee, usable
  <2> DEFINE f == Append(t.pairs, MediationPair(payer, payee, b))
             g == [t.sent EXCEPT ![payee] = "locked"]
             w == [payer |-> payer, state |-> "waiting"]
  <2>3. v.pairs = t.pairs /\ v.sent = t.sent /\ v.refunded = t.refunded /\ w \in v.waiting
    BY DEF TaskRecord
  <2>4. u = [t EXCEPT !.pairs = f, !.sent = g]
    BY <2>2
  <2>5. Forwarded(v, payer, payee, b) = [v EXCEPT !.pairs = f, !.sent = g, !.waiting = {}]
    BY <2>3 DEF Forwarded
  <2>6. w.payer = payer
    OBVIOUS
  <2> HIDE DEF f, g, w
  <2>7. [v EXCEPT !.pairs = f, !.sent = g, !.waiting = {}]
            = [t EXCEPT !.pairs = f, !.sent = g]
    BY Zenon DEF TaskRecord
  <2>8. u = Forwarded(v, payer, payee, b)
    BY <2>4, <2>5, <2>7
  <2>9. w \in v.waiting /\ payer = w.payer /\ payee \notin v.refunded
    BY <2>1, <2>3, <2>6
  <2>a. v.running /\ ~v.failed
    BY DEF Alive
  <2>10. Core(u, b) /\ Learned(u, b) /\ Covered(u, b)
    BY ONLY Core(v, b), Learned(v, b), <2>a, ChainTypeOK, b \in Nat, payer \in Channel,
            <2>1, <2>8, <2>9, ForwardKeeps
  <2>11. u.running /\ u.failed = v.failed
    BY ONLY Core(v, b), Learned(v, b), <2>a, ChainTypeOK, b \in Nat, payer \in Channel,
            <2>1, <2>8, <2>9, ForwardKeeps
  <2> QED
    BY <2>a, <2>10, <2>11 DEF Alive
<1> QED
  BY <1>1, <1>2

(* A waiting transfer that is tried again is forwarded or keeps waiting.   *)
LEMMA RetryKeeps ==
    ASSUME NEW t, NEW b \in Nat, NEW funded, NEW u, u = RetryMediation(t, b, funded),
           Core(t, b), Learned(t, b), Covered(t, block), t.running,
           ChainTypeOK, block <= b
    PROVE  /\ Core(u, b) /\ Learned(u, b) /\ Covered(u, block)
           /\ u.running /\ u.failed = t.failed
<1> DEFINE w == CHOOSE x \in t.waiting : TRUE
           payer == w.payer
           m == mediate_transfer(t, payer, b, funded)
           usable == UsableRoutes(t, b, funded)
           payee == Routes[Min(usable)]
<1>1. t \in TaskRecord /\ Shape(t)
  BY DEF Core
<1>2. CASE ~(t.waiting # {} /\ Exists(payer, b))
  <2>1. u = t
    BY <1>2 DEF RetryMediation
  <2> QED
    BY <2>1
<1>3. CASE t.waiting # {} /\ Exists(payer, b)
  <2>1. w \in t.waiting
    BY <1>3
  <2>2. u = [m EXCEPT !.waiting = IF m.pairs # t.pairs THEN {} ELSE m.waiting]
    BY <1>3 DEF RetryMediation
  <2>3. payer \in Channel
    BY <1>1, <2>1, TaskFields
  <2>4. CASE usable = {}
    <3> DEFINE x == [payer |-> payer, state |-> "waiting"]
    <3>1. m = [t EXCEPT !.waiting = {x}]
      BY <2>4 DEF mediate_transfer
    <3>2. x \in [payer : Channel, state : {"waiting", "expired"}] /\ x.payer = payer
      BY <2>3
    <3> DEFINE X == {x}
    <3>a. X \in SUBSET [payer : Channel, state : {"waiting", "expired"}]
      BY <3>2
    <3> HIDE DEF x, m
    <3>3. u = [t EXCEPT !.waiting = X]
      BY Zenon, <1>1, <2>2, <3>1 DEF TaskRecord
    <3>b. X = {x}
      OBVIOUS
    <3> HIDE DEF X
    <3>4. /\ u \in TaskRecord /\ u.pairs = t.pairs /\ u.waiting = X
          /\ u.running = t.running /\ u.failed = t.failed /\ u.secret = t.secret
          /\ u.refunded = t.refunded /\ u.received = t.received /\ u.sent = t.sent
          /\ u.unlocks = t.unlocks /\ u.claimed = t.claimed /\ u.register = t.register
      BY Zenon, <1>1, <3>a, <3>3 DEF TaskRecord
    <3>5. \A c \in Channel : (\E y \in u.waiting : y.payer = c) <=> (\E y \in t.waiting : y.payer = c)
      BY <1>1, <2>1, <3>2, <3>4, <3>b DEF Shape
    <3>6. Evolves(t, u)
      BY <3>4, <3>5 DEF Evolves
    <3>7. RequestTime(u) = RequestTime(t)
      BY <3>4 DEF RequestTime
    <3>8. States(u, b) /\ Secret(u)
      BY Zenon, <3>4, <3>7 DEF Core, States, Secret
    <3>9. Core(u, b) /\ Learned(u, b)
      BY <3>6, <3>8, EvolvesKeeps
    <3>10. Covered(u, block)
      BY <1>1, <3>4, <3>6, EvolvesCovered
    <3> QED
      BY <3>4, <3>9, <3>10
  <2>5. CASE usable # {}
    <3>1. payee \in Channel /\ payee \notin t.refunded /\ is_safe_to_wait(b)
      BY <2>5, ChosenRoute
    <3> DEFINE f == Append(t.pairs, MediationPair(payer, payee, b))
               g == [t.sent EXCEPT ![payee] = "locked"]
    <3>2. m = [t EXCEPT !.pairs = f, !.sent = g]
      BY <2>5 DEF mediate_transfer
    <3>3. f # t.pairs
      <4>1. t.pairs \in Seq(PairState)
        BY <1>1, TaskFields
      <4>2. Len(f) = Len(t.pairs) + 1 /\ Len(t.pairs) \in Nat
        BY <4>1
      <4> QED
        BY <4>2
    <3>4. Forwarded(t, payer, payee, b) = [t EXCEPT !.pairs = f, !.sent = g, !.waiting = {}]
      BY DEF Forwarded
    <3> HIDE DEF m, f, g, payer, payee, usable, w
    <3>5. m.pairs = f
      BY <1>1, <3>2 DEF TaskRecord
    <3>6. u = [m EXCEPT !.waiting = {}]
      BY <2>2, <3>3, <3>5
    <3>7. u = Forwarded(t, payer, payee, b)
      BY <1>1, <3>2, <3>4, <3>6 DEF TaskRecord
    <3>8. /\ Core(u, b) /\ Learned(u, b) /\ Covered(u, b)
          /\ u.running /\ u.failed = t.failed
      <4>1. payer = w.payer
        BY DEF payer
      <4> QED
        BY <2>1, <2>3, <3>1, <3>7, <4>1, ForwardKeeps
    <3>9. is_safe_to_wait(block)
      BY <3>1, PaymentChainAssumption DEF is_safe_to_wait, ChainTypeOK
    <3>10. Covered(u, block)
      BY <3>8, <3>9 DEF Covered, InTime
    <3> QED
      BY <3>8, <3>10
  <2> QED
    BY <2>4, <2>5
<1> QED
  BY <1>2, <1>3

(* The whole of handle_block. *)
LEMMA HandleBlockKeeps ==
    ASSUME NEW t, NEW b \in (block + 1) .. (head - Confirmations), NEW funded,
           NEW u, u = handle_block(t, b, funded),
           Core(t, b), Learned(t, b), Covered(t, block), t.running, ~t.failed,
           ChainTypeOK, ChainTime
    PROVE  /\ Core(u, b) /\ Learned(u, b) /\ Covered(u, b)
           /\ u.running /\ ~u.failed
<1> DEFINE r == RetryMediation(t, b, funded)
           e == events_to_remove_expired_locks(r, b)
           d == events_for_onchain_secretreveal_if_dangerzone(e, b)
<1>0. b \in Nat /\ block <= b
  BY PaymentChainAssumption DEF ChainTypeOK
<1>1. u = events_for_expired_pairs(d, b)
  BY DEF handle_block
<1>2. /\ Core(r, b) /\ Learned(r, b) /\ Covered(r, block)
      /\ r.running /\ ~r.failed
  BY <1>0, RetryKeeps
<1> HIDE DEF r
<1>3. Core(e, b) /\ Learned(e, b)
  BY <1>0, <1>2, RemoveExpiredKeeps
<1>4. Evolves(r, e) /\ e.unlocks = r.unlocks
  BY <1>2, RemoveExpiredEffect DEF Core
<1>5. Covered(e, block)
  BY <1>2, <1>4, EvolvesCovered DEF Core
<1> HIDE DEF e
<1>6. Core(d, b) /\ Learned(d, b) /\ Covered(d, b)
  BY <1>3, <1>5, DangerZoneKeeps
<1>7. Evolves(e, d)
  BY Zenon, <1>3, WaitEffect DEF Core, events_for_onchain_secretreveal_if_dangerzone
<1> HIDE DEF d
<1>8. Core(u, b) /\ Learned(u, b)
  BY <1>0, <1>1, <1>6, ExpiredPairsKeeps
<1>9. Evolves(d, u) /\ u.unlocks = d.unlocks
  BY <1>1, <1>6, ExpiredPairsEffect DEF Core
<1>10. Covered(u, b)
  BY <1>6, <1>9, EvolvesCovered DEF Core
<1> QED
  BY Zenon, <1>2, <1>4, <1>7, <1>8, <1>9, <1>10 DEF Evolves


(* handle_init keeps the invariant. *)
LEMMA ReceiveLockedTransferKeeps ==
    ASSUME MInv, NEW funded, ReceiveLockedTransfer(funded)
    PROVE  MInv'
<1> DEFINE t == [NoTask EXCEPT !.running = TRUE, !.received[Payer] = "locked"]
           v == [t EXCEPT !.waiting = {[payer |-> Payer, state |-> "waiting"]}]
           u == mediate_transfer(t, Payer, block, funded)
<1>0. Payer \in Channel /\ block \in Nat /\ block' = block /\ Finish(u) /\ registered = 0
  BY MediatorAssumption DEF MInv, ChainTypeOK, ReceiveLockedTransfer
<1> DEFINE g == [NoTask.received EXCEPT ![Payer] = "locked"]
           W == {[payer |-> Payer, state |-> "waiting"]}
<1>1. /\ g \in [Channel -> Lock]
      /\ \A c \in Channel : g[c] = IF c = Payer THEN "locked" ELSE None
  BY <1>0, NoTaskFields DEF None, Lock
<1>2. W \in SUBSET [payer : Channel, state : {"waiting", "expired"}]
  BY <1>0
<1>3. t = [NoTask EXCEPT !.running = TRUE, !.received = g] /\ v = [t EXCEPT !.waiting = W]
  OBVIOUS
<1>4. \A c \in Channel : (\E w \in W : w.payer = c) <=> c = Payer
  OBVIOUS
<1>5. \A w, x \in W : w.payer = x.payer
  OBVIOUS
<1> HIDE DEF v, t, g, W
<1>6. /\ t \in TaskRecord /\ t.waiting = {}
      /\ t.pairs = << >> /\ t.running /\ ~t.failed /\ ~t.secret
      /\ t.received = g /\ t.sent = NoTask.sent
      /\ t.unlocks = {} /\ t.claimed = {}
  BY Zenon, <1>1, <1>3, NoTaskFields DEF TaskRecord
<1>7. /\ v \in TaskRecord /\ v.waiting = W
      /\ v.pairs = << >> /\ v.running /\ ~v.failed /\ ~v.secret
      /\ v.received = g /\ v.sent = NoTask.sent
      /\ v.unlocks = {} /\ v.claimed = {}
  BY Zenon, <1>2, <1>3, <1>6 DEF TaskRecord
<1>8. Core(v, block) /\ Learned(v, block) /\ Covered(v, block)
  <2>1. Shape(v) /\ States(v, block) /\ Secret(v) /\ Covered(v, block)
    BY <1>5, <1>7 DEF Shape, States, Secret, Covered
  <2>2. Learned(v, block)
    BY <1>0 DEF Learned, Happened
  <2>3. \A c \in Channel : v.received[c] # "onchain" /\ (PayerOf(v, c) <=> c = Payer)
    <3>1. DOMAIN v.pairs = {}
      BY <1>7
    <3>2. \A c \in Channel : v.received[c] # "onchain"
      BY Zenon, <1>1, <1>7 DEF None
    <3> QED
      BY Zenon, <1>4, <1>7, <3>1, <3>2 DEF PayerOf
  <2>4. \A c \in Channel : v.sent[c] = None
    BY Zenon, <1>7, NoTaskFields
  <2>5. Locks(v, block)
    BY Zenon, <1>1, <1>7, <2>3, <2>4 DEF Locks, None
  <2> QED
    BY <1>7, <2>1, <2>2, <2>5 DEF Core
<1>9. ChainTypeOK /\ ChainTime
  BY DEF MInv
<1>10. v = [t EXCEPT !.waiting = {[payer |-> Payer, state |-> "waiting"]}]
  BY <1>3 DEF W
<1>a. u = mediate_transfer(t, Payer, block, funded)
  OBVIOUS
<1> HIDE DEF u
<1>b. Alive(v)
  BY <1>7 DEF Alive
<1>11. Core(u, block) /\ Learned(u, block) /\ Covered(u, block)
  BY <1>0, <1>a, <1>b, <1>6, <1>8, <1>9, <1>10, MediateKeeps
<1>12. Alive(u)
  BY <1>0, <1>a, <1>b, <1>6, <1>8, <1>9, <1>10, MediateKeeps
<1>13. block \in block .. (head - Confirmations)
  BY PaymentChainAssumption DEF MInv, ChainTypeOK, ChainTime
<1> HIDE DEF u
<1> QED
  BY <1>0, <1>9, <1>11, <1>12, <1>13, FinishKeeps DEF Alive

(* handle_refundtransfer keeps the invariant: the secret is not known, so  *)
(* nobody has been paid.                                                   *)
LEMMA ReceiveTransferRefundKeeps ==
    ASSUME MInv, NEW funded, ReceiveTransferRefund(funded)
    PROVE  MInv'
<1> DEFINE n == Len(task.pairs)
           payee == LastPair.payee
           R == task.refunded \cup {payee}
           g == [task.received EXCEPT ![payee] = "locked"]
           W == {[payer |-> payee, state |-> "waiting"]}
           t == [task EXCEPT !.refunded = R, !.received = g]
           v == [t EXCEPT !.waiting = W]
           u == mediate_transfer(t, payee, block, funded)
<1>1. /\ task.running /\ ~task.secret /\ task.pairs # << >> /\ payee \notin task.refunded
      /\ block' = block /\ Finish(u)
  BY DEF ReceiveTransferRefund
<1>2. /\ ChainTypeOK /\ ChainTime /\ Core(task, block) /\ Learned(task, block)
      /\ task \in TaskRecord /\ Shape(task) /\ Locks(task, block) /\ States(task, block)
      /\ Secret(task) /\ block \in Nat
  BY DEF MInv, Core, ChainTypeOK
<1>3. ~task.failed
  BY <1>1 DEF MInv, Ended
<1>4. /\ n \in Nat /\ n \in DOMAIN task.pairs /\ n + 1 \notin DOMAIN task.pairs
      /\ DOMAIN task.pairs = 1 .. n
      /\ task.pairs[n].payee = payee
  <2>1. task.pairs \in Seq(PairState)
    BY <1>2, TaskFields
  <2> QED
    BY <1>1, <2>1 DEF LastPair
<1>5. payee \in Channel
  BY <1>2, <1>4, PairFields
<1>6. task.waiting = {}
  BY <1>1, <1>2, <1>4 DEF Shape
<1>7. /\ g \in [Channel -> Lock]
      /\ \A c \in Channel : g[c] = IF c = payee THEN "locked" ELSE task.received[c]
  BY <1>2, <1>5, TaskFields DEF Lock
<1>8. W \in SUBSET [payer : Channel, state : {"waiting", "expired"}]
  BY <1>5
<1>9. R \in SUBSET Channel
  BY <1>2, <1>5, TaskFields
<1>10. /\ \A c \in Channel : (\E w \in W : w.payer = c) <=> c = payee
       /\ \A w \in W : w.payer = payee
  OBVIOUS
<1>11. payee \in R /\ \A c \in task.refunded : c \in R
  OBVIOUS
<1>12. v = [t EXCEPT !.waiting = {[payer |-> payee, state |-> "waiting"]}]
  OBVIOUS
<1>13. u = mediate_transfer(t, payee, block, funded)
  OBVIOUS
<1>14. t = [task EXCEPT !.refunded = R, !.received = g] /\ v = [t EXCEPT !.waiting = W]
  OBVIOUS
<1> HIDE DEF n, payee, R, g, W, t, v, u
<1>15. /\ t \in TaskRecord /\ t.waiting = {}
       /\ t.running = task.running /\ t.failed = task.failed /\ t.secret = task.secret
       /\ t.pairs = task.pairs /\ t.refunded = R /\ t.received = g /\ t.sent = task.sent
       /\ t.unlocks = task.unlocks /\ t.claimed = task.claimed /\ t.register = task.register
  BY Zenon, <1>2, <1>6, <1>7, <1>9, <1>14 DEF TaskRecord
<1>16. /\ v \in TaskRecord /\ v.waiting = W
       /\ v.running = task.running /\ v.failed = task.failed /\ v.secret = task.secret
       /\ v.pairs = task.pairs /\ v.refunded = R /\ v.received = g /\ v.sent = task.sent
       /\ v.unlocks = task.unlocks /\ v.claimed = task.claimed /\ v.register = task.register
  BY Zenon, <1>8, <1>14, <1>15 DEF TaskRecord
<1>17. Shape(v)
  <2>1. \A i \in DOMAIN task.pairs : i + 1 \in DOMAIN task.pairs =>
            /\ task.pairs[i].payee \in R
            /\ task.pairs[i].payee = task.pairs[i + 1].payer
    BY <1>2, <1>11 DEF Shape
  <2>2. \A i \in DOMAIN task.pairs : i + 1 \notin DOMAIN task.pairs => i = n
    BY <1>4
  <2>3. \A i \in DOMAIN task.pairs : task.pairs[i].payee \in R
    BY <1>4, <1>11, <2>1, <2>2
  <2>4. \A i \in DOMAIN task.pairs :
            i + 1 \notin DOMAIN task.pairs => task.pairs[i].payee = payee
    BY <1>4, <2>2
  <2> QED
    BY <1>10, <1>16, <2>1, <2>3, <2>4 DEF Shape
<1>18. \A c \in Channel : /\ PayerOf(v, c) <=> PayerOf(task, c) \/ c = payee
                          /\ PayeeOf(v, c) <=> PayeeOf(task, c)
  BY Zenon, <1>6, <1>10, <1>16 DEF PayerOf, PayeeOf
<1>19. Locks(v, block)
  BY <1>1, <1>2, <1>7, <1>16, <1>18 DEF Locks, None
<1>20. States(v, block) /\ Secret(v)
  BY <1>2, <1>16 DEF States, Secret, RequestTime
<1>21. Core(v, block) /\ Learned(v, block) /\ Covered(v, block)
  <2>1. ~Happened(registered, block)
    BY <1>1, <1>2 DEF Learned
  <2>2. v.unlocks = {}
    BY <1>1, <1>2, <1>16 DEF Secret
  <2> QED
    BY <1>16, <1>17, <1>19, <1>20, <2>1, <2>2 DEF Core, Learned, Covered
<1>22. Alive(v)
  BY <1>1, <1>3, <1>16 DEF Alive
<1>23. Core(u, block) /\ Learned(u, block) /\ Covered(u, block)
  BY <1>2, <1>5, <1>12, <1>13, <1>15, <1>21, <1>22, MediateKeeps
<1>24. Alive(u)
  BY <1>2, <1>5, <1>12, <1>13, <1>15, <1>21, <1>22, MediateKeeps
<1>25. block \in block .. (head - Confirmations)
  BY <1>2, PaymentChainAssumption DEF ChainTypeOK, ChainTime
<1> QED
  BY <1>1, <1>2, <1>23, <1>24, <1>25, FinishKeeps DEF Alive

(* Processing the blocks up to b, with the registration if it is among     *)
(* them, keeps the invariant.                                              *)
LEMMA SynchronizeKeeps ==
    ASSUME MInv, NEW funded, NEW b \in (block + 1) .. head, Synchronize(b, funded)
    PROVE  MInv'
<1> DEFINE registration == Happened(registered, b) /\ registered > block
           r == clear_if_finalized(handle_onchain_secretreveal(task), registered)
           t == IF registration THEN r ELSE task
<1>1. /\ block' = b /\ b <= head - Confirmations /\ ~task.failed
      /\ IF ~task.running THEN Finish(task)
         ELSE IF ~t.running THEN Finish(t)
         ELSE Finish(handle_block(t, b, funded))
  BY DEF Synchronize
<1>2. /\ ChainTypeOK /\ ChainTime /\ Core(task, block) /\ Learned(task, block)
      /\ Covered(task, block) /\ Ended(task, block) /\ block \in Nat /\ registered \in Nat
      /\ head \in Nat
  BY DEF MInv, ChainTypeOK
<1>3. /\ b \in Nat /\ block <= b /\ b \in block .. (head - Confirmations)
      /\ b \in (block + 1) .. (head - Confirmations)
  BY <1>1, <1>2, PaymentChainAssumption
<1>4. Core(task, b)
  BY <1>2, <1>3, LaterBlock
<1>5. CASE ~task.running
  <2>1. Learned(task, b) /\ Covered(task, b)
    BY <1>2, <1>5 DEF Learned, Covered
  <2>2. ~HasPendingLock(task, b)
    <3>1. task \in TaskRecord
      BY <1>2 DEF Core
    <3>2. \A c \in Channel : Exists(c, b) => Exists(c, block)
      BY <1>2, <1>3 DEF Exists, Happened, ChainTypeOK
    <3>3. \A c \in Channel : Exists(c, b) => task.received[c] = None /\ task.sent[c] = None
      BY <1>1, <1>2, <1>5, <3>2 DEF Ended
    <3>4. /\ \A i \in DOMAIN task.pairs :
                 task.pairs[i].payer \in Channel /\ task.pairs[i].payee \in Channel
          /\ \A w \in task.waiting : w.payer \in Channel
      BY <3>1, PairFields, TaskFields
    <3> QED
      BY <3>3, <3>4 DEF HasPendingLock
  <2>3. Finish(task)
    BY <1>1, <1>5
  <2> QED
    BY <1>1, <1>2, <1>3, <1>4, <2>1, <2>2, <2>3, FinishKeeps
<1>6. CASE task.running
  <2>1. /\ Core(t, b) /\ Learned(t, b) /\ Covered(t, block) /\ ~t.failed
        /\ ~t.running => Covered(t, b) /\ ~HasPendingLock(t, b)
    <3>1. CASE registration
      <4>1. t = r
        BY <3>1
      <4> QED
        BY <1>3, <1>6, <3>1, <4>1, RegistrationKeeps
    <3>2. CASE ~registration
      <4>1. t = task
        BY <3>2
      <4>2. Happened(registered, b) => Happened(registered, block)
        BY <1>2, <3>2 DEF Happened
      <4>3. Learned(task, b)
        BY <1>2, <4>2 DEF Learned
      <4> QED
        BY <1>1, <1>2, <1>4, <1>6, <4>1, <4>3
    <3> QED
      BY <3>1, <3>2
  <2> HIDE DEF t
  <2>2. CASE ~t.running
    <3>1. Finish(t)
      BY <1>1, <1>6, <2>2
    <3> QED
      BY <1>1, <1>2, <1>3, <2>1, <2>2, <3>1, FinishKeeps
  <2>3. CASE t.running
    <3> DEFINE u == handle_block(t, b, funded)
    <3>1. Finish(u)
      BY <1>1, <1>6, <2>3
    <3>2. Core(u, b) /\ Learned(u, b) /\ Covered(u, b) /\ u.running /\ ~u.failed
      BY <1>2, <1>3, <2>1, <2>3, HandleBlockKeeps
    <3> HIDE DEF u
    <3> QED
      BY <1>1, <1>2, <1>3, <3>1, <3>2, FinishKeeps
  <2> QED
    BY <2>2, <2>3
<1> QED
  BY <1>5, <1>6

(* Every step keeps the invariant. *)
LEMMA MediatorStep == MInv /\ [Next]_vars => MInv'
<1> SUFFICES ASSUME MInv, [Next]_vars
             PROVE  MInv'
  OBVIOUS
<1>1. ASSUME NEW register \in BOOLEAN, NEW closing, NEW settling,
             MineBlock(register, closing, settling), UNCHANGED task
      PROVE  MInv'
  BY <1>1, MineBlockKeeps
<1>2. ASSUME NEW funded, ReceiveLockedTransfer(funded)
      PROVE  MInv'
  BY <1>2, ReceiveLockedTransferKeeps
<1>3. ASSUME NEW funded, ReceiveTransferRefund(funded)
      PROVE  MInv'
  BY <1>3, ReceiveTransferRefundKeeps
<1>4. ASSUME NEW funded, NEW b \in block + 1 .. head, Synchronize(b, funded)
      PROVE  MInv'
  BY <1>4, SynchronizeKeeps
<1>5. ASSUME NEW c \in Channel,
             ReceiveSecretReveal(c) \/ ReceiveUnlock(c) \/ ReceiveLockExpired(c)
      PROVE  MInv'
  BY <1>5, ReceiveSecretRevealKeeps, ReceiveUnlockKeeps, ReceiveLockExpiredKeeps
<1>6. CASE UNCHANGED vars
  <2>1. /\ task' = task /\ block' = block /\ head' = head /\ registered' = registered
        /\ requested' = requested /\ closed' = closed /\ settled' = settled
    BY <1>6 DEF vars
  <2>2. ChainTypeOK' /\ ChainTime'
    BY <2>1 DEF MInv, ChainTypeOK, ChainTime
  <2>3. RegisteredInTime' = RegisteredInTime /\ RequestTime(task)' = RequestTime(task)
    BY <2>1 DEF RegisteredInTime, Happened, RequestTime
  <2>4. \A c : PayerOf(task, c)' = PayerOf(task, c) /\ PayeeOf(task, c)' = PayeeOf(task, c)
    BY <2>1 DEF PayerOf, PayeeOf
  <2>5. Shape(task)' /\ Secret(task)'
    BY Zenon, <2>1 DEF MInv, Core, Shape, Secret
  <2>6. Locks(task, block)'
    BY Zenon, <2>1, <2>3, <2>4 DEF MInv, Core, Locks
  <2>7. States(task, block)'
    BY <2>1, <2>3 DEF MInv, Core, States
  <2>8. Learned(task, block)'
    BY <2>1, <2>3, <2>4 DEF MInv, Learned, Happened
  <2>9. Covered(task, block)'
    BY <2>1, <2>3 DEF MInv, Covered, InTime, is_safe_to_wait
  <2>10. Ended(task, block)'
    BY <2>1 DEF MInv, Ended, Exists, Happened
  <2>11. task' \in TaskRecord
    BY <2>1 DEF MInv, Core
  <2> QED
    BY <2>2, <2>5, <2>6, <2>7, <2>8, <2>9, <2>10, <2>11 DEF MInv, Core
<1> QED
  BY <1>1, <1>2, <1>3, <1>4, <1>5, <1>6 DEF Next

(* The inductive invariant. *)
THEOREM MediatorInvariant == Spec => []MInv
BY MediatorInit, MediatorStep, PTL DEF Spec

(* Once the locks have expired, every pair whose payee was paid, off chain *)
(* or on chain, has a payer that paid or can still be made to pay: for any *)
(* number of channels, routes and refunds, and any timing that leaves the  *)
(* node the reveal timeout.                                                *)
THEOREM PayeePaidMeansPayerPays == Spec => []PayeePaidPayerPays
<1>1. MInv => PayeePaidPayerPays
  <2> SUFFICES ASSUME MInv, head > Expiration, NEW p \in Pairs(task), PayeePaid(p)
               PROVE  PayerPays(p)
    BY DEF PayeePaidPayerPays
  <2>1. PICK i \in DOMAIN task.pairs : p = task.pairs[i]
    BY DEF Pairs
  <2>2. p.payer \in Channel /\ PayerOf(task, p.payer)
    BY <2>1, PairFields DEF MInv, Core, PayerOf
  <2>3. RegisteredInTime => PayerPays(p)
    BY <2>2 DEF MInv, Core, Locks, PayerPays, is_lock_pending, None
  <2>4. CASE p.payee \in task.unlocks
    <3>1. head >= Expiration
      BY PaymentChainAssumption DEF MInv, ChainTypeOK
    <3>2. InTime(task, block) => RegisteredInTime
      BY <3>1, InTimeMeansRegistered DEF MInv
    <3> QED
      BY <2>1, <2>3, <2>4, <3>2 DEF MInv, Covered, PayerPays
  <2> QED
    BY <2>3, <2>4 DEF PayeePaid
<1> QED
  BY <1>1, MediatorInvariant, PTL

(* events_to_remove_expired_locks never takes a payee's lock for expired   *)
(* when a registration after the payment was forwarded lets the payee      *)
(* claim it.                                                               *)
THEOREM ExpiredPayeeNeverClaims == Spec => []ExpiredPayeeCannotClaim
<1>1. MInv => ExpiredPayeeCannotClaim
  BY DEF MInv, Core, States, ExpiredPayeeCannotClaim, Pairs
<1> QED
  BY <1>1, MediatorInvariant, PTL

(* clear_if_finalized never ends a task that one of the channels still has *)
(* a lock of.                                                              *)
THEOREM NoLockIsOrphaned == Spec => []NoOrphanedLock
<1>1. MInv => NoOrphanedLock
  BY DEF MInv, Ended, NoOrphanedLock
<1> QED
  BY <1>1, MediatorInvariant, PTL

(* The task has the declared states in every reachable state.              *)
THEOREM MediatorTypes == Spec => []TypeOK
<1>1. MInv => TypeOK
  BY TaskFields DEF MInv, Core, TypeOK
<1> QED
  BY <1>1, MediatorInvariant, PTL
=============================================================================
