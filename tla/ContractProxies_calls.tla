---------------------- MODULE ContractProxies_calls -----------------------
(***************************************************************************)
(* The invariant of the calls that send transactions, and the proof that   *)
(* every step of a call and a crash keep it, for any number of greenlets,  *)
(* transactions and secrets, any contents of the contracts, and any        *)
(* confirmations and reorganisations that satisfy ClientAssumption.        *)
(* ContractProxies_proofs has the restart, the steps of the chain and the  *)
(* theorems.                                                               *)
(*                                                                         *)
(* The invariant CInv has three parts.  The nonces in use are 1 .. k, and  *)
(* only an unanswered transaction, which stops the node, can be at or      *)
(* above the client's next nonce (NonceInv).  A receipt that               *)
(* poll_transaction accepts was already MaxReorg blocks deep when it was   *)
(* read, so no reorganisation in between could move the transaction        *)
(* (PollInv).  And a secret that a call does not register itself is        *)
(* promised to it by a greenlet it waits for (EffectInv).                  *)
(***************************************************************************)
EXTENDS ContractProxies, TLAPS, WellFoundedInduction

(* The types of the variables. *)
Arguments == Int \union SUBSET Secrets
Ops == {"none", "approve", "deposit", "planWithdraw", "withdraw", "createERC20TokenNetwork",
        "mintFor", "registerSecretBatch"}
Reasons == {"none", "ok", "crash", "funds", "nonce", "send", "precondition", "deposit", "withdraw",
            "token", "allowance", "balance", "not_increased", "already_increased", "limit", "plan",
            "too_early", "underflow", "race_lost", "mint_failed", "unknown"}
ErrorTypes == [error : {"refused", "recoverable", "fatal", "insufficient_eth", "aborted"}, reason : Reasons]
ResultTypes == ErrorTypes \union {Nothing, Ok}
Sending == {"estimate", "diagnose", "send", "poll"}
Phases == Sending \union {"idle", "lock", "join", "done"}

BlockTypes == [txs : Seq(0 .. MaxTx), failed : SUBSET (0 .. MaxTx), storage : Storages]
TxTypes == [call : Call \union {None}, op : Ops, arg : Arguments, run : Nat,
            old : BOOLEAN, storage : Storages \union {None}]
PollTypes == [nonce : 0 .. MaxTx, seen : BOOLEAN, depth : 0 .. Confirmations,
              since : 0 .. PollDelay, storage : Storages \union {None}]
CallTypes == [pc : Phases, approve : BOOLEAN, amount : Int, secrets : SUBSET Secrets,
              waits : SUBSET Call, tx : ResultTypes, result : ResultTypes]

TxArgs(t) ==
  IF t.op = "registerSecretBatch" THEN t.arg \in SUBSET Secrets ELSE t.arg \in Int

TxsOK == /\ txs \in [Nonce -> TxTypes]
         /\ \A n \in Nonce : TxArgs(txs[n])

ClientOK ==
  /\ chain \in [1 .. Window -> BlockTypes]
  /\ pool \subseteq Nonce
  /\ nonce \in 1 .. MaxTx + 1
  /\ polls \in [Call -> PollTypes]

CallsOK ==
  /\ calls \in [Call -> CallTypes]
  /\ inflight \in Call \union {None}
  /\ open \in [inst.secrets -> Call \union {None}]
  /\ up \in BOOLEAN /\ stopping \in BOOLEAN /\ crashes \in Nat

Types == IsInstance(inst) /\ TxsOK /\ ClientOK /\ CallsOK

(* The phases of a call, and the results it has in them. *)
Phase(c) ==
  /\ calls[c].pc = "done" <=> calls[c].result # Nothing
  /\ calls[c].tx = Nothing => calls[c].result = Nothing
  /\ calls[c].tx # Nothing /\ calls[c].result = Nothing =>
       calls[c].tx = Ok /\ calls[c].pc = "join" /\ Kind(c) = "secret"
  /\ calls[c].tx = Ok /\ Kind(c) # "secret" => calls[c].result = Ok
  /\ calls[c].approve => Kind(c) = "deposit"
  /\ calls[c].pc = "join" => Kind(c) \in {"secret", "deposit"}
  /\ calls[c].pc = "lock" => Kind(c) # "secret"
  /\ Kind(c) # "secret" => calls[c].secrets = {}
  /\ calls[c].pc \in Phases \ {"idle", "done"} => Kind(c) # "none" /\ up
  /\ polls[c].seen => calls[c].pc = "poll"
  /\ calls[c].pc \in {"idle", "join"} /\ calls[c].tx = Nothing => polls[c].nonce = 0

PhaseInv == \A c \in Call : Phase(c)

(* The nonces 1 .. k are in use. *)
Filled(k) == \A n \in Nonce : txs[n] # NoTx <=> n <= k

(* The transaction a greenlet polls is the one it sent. *)
PollsItsOwn(c) ==
  LET n == polls[c].nonce IN
  n \in Nonce /\ txs[n].call = c /\ txs[n].op = Op(c) /\ txs[n].arg = OpArg(c)

NoncesOK ==
  /\ \E k \in 0 .. MaxTx :
       /\ Filled(k)
       /\ up => /\ nonce <= k + 1
                /\ ~stopping => nonce = k + 1 \/ (nonce = k /\ LostRegistration(nonce))
  /\ ~up => ~stopping
  /\ up => \A n \in Nonce : n >= nonce => txs[n].call = None

NonceInv ==
  /\ NoncesOK
  /\ \A c \in Call : calls[c].pc = "poll" => PollsItsOwn(c)

(* The effect of transaction t is in storage s. *)
Effect(t, s) ==
  /\ t.op = "registerSecretBatch" => t.arg \subseteq s.secrets
  /\ t.op = "deposit" => s.deposit >= t.arg
  /\ t.op = "createERC20TokenNetwork" => s.registered

(* Storage t may follow storage s: the effects in s are also in t. *)
Later(s, t) ==
  s.secrets \subseteq t.secrets /\ s.deposit <= t.deposit /\ (s.registered => t.registered)

(* A transaction is in one block at most, and the effect of the ones that  *)
(* were successful is in the storage of their block.                       *)
InBlockInv(n, i) ==
  /\ txs[n] # NoTx /\ ~txs[n].old /\ n \notin pool
  /\ \A j \in 1 .. Window : InBlock(n, chain[j]) => i = j
  /\ n \notin chain[i].failed => Effect(txs[n], chain[i].storage)

ChainInv ==
  /\ \A n \in Nonce :
       /\ \A i \in 1 .. Window : InBlock(n, chain[i]) => InBlockInv(n, i)
       /\ txs[n].old => /\ txs[n] # NoTx /\ n \notin pool
                        /\ txs[n].storage = None => Effect(txs[n], chain[1].storage)
       /\ n \in pool => txs[n] # NoTx
  /\ \A i \in 1 .. Window - 1 : Later(chain[i].storage, chain[i + 1].storage)

(* Transaction n has at least d blocks above it, and was successful if ok. *)
Stays(n, d, ok) ==
  \/ txs[n].old /\ Window >= d /\ (ok => txs[n].storage = None)
  \/ ~txs[n].old /\ \E i \in 1 .. Window :
       InBlock(n, chain[i]) /\ Window - i >= d /\ (ok => n \notin chain[i].failed)

(* What a greenlet has read of its transaction, and what it has reported. *)
Polled(c) ==
  /\ polls[c].seen /\ polls[c].depth >= MaxReorg + polls[c].since =>
       Stays(polls[c].nonce, MaxReorg + polls[c].since, polls[c].storage = None)
  /\ calls[c].tx = Ok /\ polls[c].nonce # 0 =>
       txs[polls[c].nonce].call = c /\ Stays(polls[c].nonce, MaxReorg, TRUE)

PollInv == \A c \in Call : Polled(c)

(* What a greenlet that waits for k may expect of the secret s. *)
Promises(k, s) ==
  /\ calls[k].tx = Ok => s \in FinalStorage.secrets
  /\ calls[k].tx = Nothing => s \in calls[k].secrets /\ calls[k].pc \in Sending

SecretInv(c) ==
  \A s \in Arg(c) :
    \/ s \in FinalStorage.secrets
    \/ calls[c].pc \in Sending /\ s \in calls[c].secrets
    \/ \E k \in calls[c].waits : Promises(k, s)

OpenInv(s) ==
  LET k == open[s] IN
  Kind(k) = "secret" /\ s \in calls[k].secrets /\ calls[k].tx = Nothing /\ calls[k].pc \in Sending

HasEffect(c) ==
  calls[c].result = Ok =>
    /\ Kind(c) = "secret" => Arg(c) \subseteq FinalStorage.secrets
    /\ Kind(c) = "deposit" => FinalStorage.deposit >= Arg(c)
    /\ Kind(c) = "token" => FinalStorage.registered

(* A deposit waits for one that is at least as large. *)
WaitsFor(c) ==
  Kind(c) = "deposit" =>
    /\ calls[c].pc = "join" => calls[c].waits # {}
    /\ \A k \in calls[c].waits : Kind(k) = "deposit" /\ Arg(k) >= Arg(c)

(* What a call has done or may expect. *)
Justified(c) ==
  /\ HasEffect(c) /\ WaitsFor(c)
  /\ Kind(c) = "secret" /\ calls[c].pc \in Sending \union {"join"} => SecretInv(c)

EffectInv ==
  /\ \A c \in Call : Justified(c)
  /\ \A s \in inst.secrets : open[s] # None => OpenInv(s)
  /\ inflight # None => Kind(inflight) = "deposit"

CInv == Types /\ PhaseInv /\ NonceInv /\ ChainInv /\ PollInv /\ EffectInv

-----------------------------------------------------------------------------
(* The contracts and the chain. *)

(* A nonempty set of natural numbers has a least element. *)
LEMMA Least ==
  ASSUME NEW B, B \subseteq Nat, B # {}
  PROVE  \E x \in B : \A y \in B : x <= y
<1>1. PICK x \in B : \A y \in B : ~(<<y, x>> \in OpToRel(<, Nat))
  BY Zenon, NatLessThanWellFounded, WFMin
<1>2. ASSUME NEW y \in B PROVE x <= y
  <2>1. x \in Nat /\ y \in Nat
    OBVIOUS
  <2>2. <<y, x>> \in Nat \X Nat /\ <<y, x>>[1] = y /\ <<y, x>>[2] = x
    BY <2>1
  <2>3. ~(y < x)
    BY <1>1, <2>2 DEF OpToRel
  <2> QED
    BY <2>1, <2>3
<1> QED
  BY Zenon, <1>2

(* The smaller and the larger of two numbers. *)
LEMMA MinOfTwo ==
  ASSUME NEW a \in Int, NEW b \in Int
  PROVE  Min({a, b}) = IF a <= b THEN a ELSE b
<1> DEFINE m == IF a <= b THEN a ELSE b
<1>1. m \in {a, b} /\ \A y \in {a, b} : m <= y
  OBVIOUS
<1>2. ASSUME NEW x \in {a, b}, \A y \in {a, b} : x <= y PROVE x = m
  BY <1>2
<1> QED
  BY <1>1, <1>2 DEF Min

(* The storage that follows s is later than s, whatever else it is. *)
LEMMA LaterIsReflexive ==
  ASSUME NEW s \in Storages
  PROVE  Later(s, s)
BY DEF Later, Storages

(* What is in a storage is in every later one. *)
LEMMA LaterIsTransitive ==
  ASSUME NEW s \in Storages, NEW t \in Storages, NEW u \in Storages, Later(s, t), Later(t, u)
  PROVE  Later(s, u)
BY DEF Later, Storages

(* What was done stays done: an effect in s is also in a later storage. *)
LEMMA EffectStays ==
  ASSUME NEW t \in TxTypes, TxArgs(t), NEW s \in Storages, NEW u \in Storages,
         Effect(t, s), Later(s, u)
  PROVE  Effect(t, u)
<1>1. t.op = "registerSecretBatch" => t.arg \subseteq u.secrets
  BY DEF Effect, Later
<1>2. t.op = "deposit" => t.arg \in Int
  BY DEF TxArgs
<1>3. s.deposit \in Int /\ u.deposit \in Int
  BY DEF Storages
<1>4. t.op = "deposit" => u.deposit >= t.arg
  BY <1>2, <1>3 DEF Effect, Later
<1> QED
  BY <1>1, <1>4 DEF Effect, Later

(* The window holds at least the blocks a reorganisation can replace and   *)
(* the one below them.                                                     *)
LEMMA WindowFacts ==
  /\ Window \in Nat /\ Window >= 1 /\ Confirmations \in Nat /\ MaxReorg \in Nat /\ PollDelay \in Nat
  /\ MaxReorg + PollDelay <= Confirmations /\ Confirmations < Window
  /\ MaxReorg < Window /\ Window - MaxReorg \in 1 .. Window /\ Window \in 1 .. Window
BY ClientAssumption DEF Window

(* The nonces, and 0, the transaction of another account. *)
LEMMA NonceFacts ==
  ASSUME NEW n
  PROVE  /\ n \in Nonce <=> n \in 0 .. MaxTx /\ n # 0
         /\ Nonce \subseteq Nat
BY ClientAssumption DEF Nonce

(* The blocks above a block are later than it. *)
LEMMA ChainIsLater ==
  ASSUME ClientOK, ChainInv, NEW i \in 1 .. Window, NEW j \in 1 .. Window, i <= j
  PROVE  Later(chain[i].storage, chain[j].storage)
<1>1. \A k \in 1 .. Window : chain[k].storage \in Storages
  BY DEF ClientOK, BlockTypes
<1> DEFINE bad == {k \in i .. Window : ~Later(chain[i].storage, chain[k].storage)}
<1>2. bad = {}
  <2>1. SUFFICES ASSUME bad # {} PROVE FALSE
    OBVIOUS
  <2>2. PICK x \in bad : \A y \in bad : x <= y
    <3>1. bad \subseteq Nat
      OBVIOUS
    <3> HIDE DEF bad
    <3> QED
      BY Zenon, <2>1, <3>1, Least
  <2>3. x \in i .. Window /\ ~Later(chain[i].storage, chain[x].storage)
    BY <2>2
  <2>4. x # i
    BY Zenon, <1>1, <2>3, LaterIsReflexive
  <2>5. /\ x - 1 \in i .. Window /\ ~(x <= x - 1) /\ x - 1 \in 1 .. Window - 1
        /\ x - 1 \in 1 .. Window /\ x \in 1 .. Window /\ (x - 1) + 1 = x
    BY <2>3, <2>4, WindowFacts
  <2>6. Later(chain[i].storage, chain[x - 1].storage)
    BY Zenon, <2>2, <2>5
  <2>7. Later(chain[x - 1].storage, chain[x].storage)
    <3>1. Later(chain[x - 1].storage, chain[(x - 1) + 1].storage)
      BY Zenon, <2>5 DEF ChainInv
    <3> QED
      BY <2>5, <3>1
  <2> QED
    BY Zenon, <1>1, <2>3, <2>5, <2>6, <2>7, LaterIsTransitive
<1>3. j \in i .. Window
  OBVIOUS
<1> QED
  BY Zenon, <1>2, <1>3

(* A transaction of the account that was sent has an operation. *)
LEMMA NoTxFacts ==
  /\ NoTx \in TxTypes /\ TxArgs(NoTx) /\ NoTx.op = "none" /\ NoTx.call = None
  /\ NoTx.old = FALSE /\ NoTx.storage = None /\ NoTx.arg = 0 /\ NoTx.run = 0
<1>1. 0 \in Arguments /\ None \in Call \union {None} /\ None \in Storages \union {None}
      /\ 0 \in Nat /\ "none" \in Ops /\ FALSE \in BOOLEAN
  <2>1. None \in Call \union {None} /\ None \in Storages \union {None}
    BY Zenon
  <2>2. 0 \in Nat /\ 0 \in Int
    OBVIOUS
  <2>3. "none" \in Ops
    BY Zenon DEF Ops
  <2>4. FALSE \in BOOLEAN
    BY Zenon
  <2> QED
    BY Zenon, <2>1, <2>2, <2>3, <2>4 DEF Arguments
<1>2. NoTx \in TxTypes
  BY Zenon, <1>1 DEF NoTx, TxTypes
<1> QED
  BY <1>2 DEF NoTx, TxArgs

(* Transaction n was successful: what ResultIsFinal asks of it. *)
Successful(n) ==
  IF txs[n].old THEN txs[n].storage = None ELSE n \notin chain[BlockIndex(n)].failed

(* Depth counts the blocks above a transaction. *)
LEMMA StaysDepth ==
  ASSUME ClientOK, TxsOK, ChainInv, NEW n \in Nonce, NEW d \in Nat, NEW ok
  PROVE  Stays(n, d, ok) <=> Mined(n) /\ Depth(n) >= d /\ (ok => Successful(n))
<1>1. CASE txs[n].old
  BY Zenon, <1>1 DEF Stays, Mined, Depth, Successful
<1>2. CASE ~txs[n].old
  <2>1. CASE \E i \in 1 .. Window : InBlock(n, chain[i])
    <3>1. PICK i \in 1 .. Window : InBlock(n, chain[i])
      BY Zenon, <2>1
    <3>2. \A j \in 1 .. Window : InBlock(n, chain[j]) => j = i
      BY Zenon, <3>1 DEF ChainInv, InBlockInv
    <3>3. BlockIndex(n) = i
      BY Zenon, <3>1, <3>2 DEF BlockIndex
    <3>4. Stays(n, d, ok) <=> Window - i >= d /\ (ok => n \notin chain[i].failed)
      BY Zenon, <1>2, <3>1, <3>2 DEF Stays
    <3> QED
      BY Zenon, <1>2, <2>1, <3>3, <3>4 DEF Mined, Depth, Successful
  <2>2. CASE ~\E i \in 1 .. Window : InBlock(n, chain[i])
    BY Zenon, <1>2, <2>2 DEF Stays, Mined
  <2> QED
    BY Zenon, <2>1, <2>2
<1> QED
  BY Zenon, <1>1, <1>2

(* The effect of a successful transaction is in every block from its own   *)
(* on.                                                                     *)
LEMMA StaysEffect ==
  ASSUME ClientOK, TxsOK, ChainInv, NEW n \in Nonce, NEW d \in Nat, Stays(n, d, TRUE),
         NEW k \in 1 .. Window, k >= Window - d
  PROVE  Effect(txs[n], chain[k].storage)
<1>1. \A i \in 1 .. Window : chain[i].storage \in Storages
  BY DEF ClientOK, BlockTypes
<1>2. txs[n] \in TxTypes /\ TxArgs(txs[n])
  BY Zenon DEF TxsOK
<1>3. ASSUME NEW i \in 1 .. Window, i <= k, Effect(txs[n], chain[i].storage)
      PROVE  Effect(txs[n], chain[k].storage)
  <2>1. Later(chain[i].storage, chain[k].storage)
    BY Zenon, <1>3, ChainIsLater
  <2> QED
    BY Zenon, <1>1, <1>2, <1>3, <2>1, EffectStays
<1>4. CASE txs[n].old
  <2>1. txs[n].storage = None
    BY Zenon, <1>4 DEF Stays
  <2>2. Effect(txs[n], chain[1].storage)
    BY Zenon, <1>4, <2>1 DEF ChainInv
  <2>3. 1 \in 1 .. Window /\ 1 <= k
    BY WindowFacts
  <2> QED
    BY Zenon, <1>3, <2>2, <2>3
<1>5. CASE ~txs[n].old
  <2>1. PICK i \in 1 .. Window : InBlock(n, chain[i]) /\ Window - i >= d /\ n \notin chain[i].failed
    BY Zenon, <1>5 DEF Stays
  <2>2. Effect(txs[n], chain[i].storage)
    BY Zenon, <2>1 DEF ChainInv, InBlockInv
  <2>3. i <= k
    BY <2>1, WindowFacts
  <2> QED
    BY Zenon, <1>3, <2>2, <2>3
<1> QED
  BY Zenon, <1>4, <1>5

(* The storage no reorganisation can replace. *)
LEMMA FinalStorageOK ==
  ASSUME ClientOK
  PROVE  FinalStorage \in Storages
BY WindowFacts DEF ClientOK, FinalStorage, BlockTypes

(* The transaction a greenlet polls. *)
LEMMA PolledNonce ==
  ASSUME Types, PhaseInv, NonceInv, NEW c \in Call, polls[c].seen \/ calls[c].pc = "poll"
  PROVE  calls[c].pc = "poll" /\ polls[c].nonce \in Nonce /\ PollsItsOwn(c)
<1>1. calls[c].pc = "poll"
  BY Zenon DEF PhaseInv, Phase
<1>2. PollsItsOwn(c)
  BY Zenon, <1>1 DEF NonceInv
<1> QED
  BY Zenon, <1>1, <1>2 DEF PollsItsOwn

(* Less than the blocks above a transaction. *)
LEMMA StaysLess ==
  ASSUME ClientOK, TxsOK, ChainInv, NEW n \in Nonce, NEW d \in Nat, NEW e \in Nat, NEW ok \in BOOLEAN,
         Stays(n, d + e, ok)
  PROVE  Stays(n, d, ok)
<1>1. d + e \in Nat
  OBVIOUS
<1>2. CASE txs[n].old
  <2>1. Window >= d + e /\ (ok => txs[n].storage = None)
    BY Zenon, <1>1, <1>2 DEF Stays
  <2>2. Window >= d
    BY <2>1, WindowFacts
  <2> QED
    BY Zenon, <1>2, <2>1, <2>2 DEF Stays
<1>3. CASE ~txs[n].old
  <2>1. PICK i \in 1 .. Window :
          InBlock(n, chain[i]) /\ Window - i >= d + e /\ (ok => n \notin chain[i].failed)
    BY Zenon, <1>1, <1>3 DEF Stays
  <2>2. Window - i >= d
    BY <2>1, WindowFacts
  <2> QED
    BY Zenon, <1>3, <2>1, <2>2 DEF Stays
<1> QED
  BY Zenon, <1>2, <1>3

-----------------------------------------------------------------------------
(* The steps of a call. *)

(* A step of call c: the others, the blocks and what was sent stay. *)
OnlyCall(c) ==
  /\ inst'.calls = inst.calls /\ inst'.secrets = inst.secrets
  /\ chain' = chain /\ up = TRUE /\ up' = TRUE
  /\ \A d \in Call \ {c} : calls'[d] = calls[d] /\ polls'[d] = polls[d]
  /\ \A n \in Nonce : txs[n].call # None => txs'[n] = txs[n]

(* What a step of call c must keep of the registries the calls share. *)
SharedOK ==
  /\ \A s \in inst.secrets : open[s] # None => OpenInv(s)
  /\ inflight # None => Kind(inflight) = "deposit"

(* The transaction of a greenlet stays where it is. *)
LEMMA SentStays ==
  ASSUME NEW c, OnlyCall(c), NEW n \in Nonce, txs[n].call # None, NEW d, NEW ok, Stays(n, d, ok)
  PROVE  Stays(n, d, ok)'
<1>1. txs'[n] = txs[n] /\ chain' = chain
  BY Zenon DEF OnlyCall
<1> QED
  BY Zenon, <1>1 DEF Stays

(* A step of a call keeps the invariant if it keeps what concerns that     *)
(* call, the nonces and the registries (transact, register_secret_batch,   *)
(* approve_and_deposit).                                                   *)
LEMMA CallKeeps ==
  ASSUME CInv, NEW c \in Call, OnlyCall(c), Types', ChainInv', Phase(c)', NoncesOK',
         (calls[c].pc = "poll" => PollsItsOwn(c))', Polled(c)', Justified(c)', SharedOK',
         \A s : Promises(c, s) => Promises(c, s)'
  PROVE  CInv'
<1>1. Types /\ PhaseInv /\ NonceInv /\ ChainInv /\ PollInv /\ EffectInv
  BY Zenon DEF CInv
<1>2. /\ inst'.calls = inst.calls /\ inst'.secrets = inst.secrets
      /\ chain' = chain /\ up = TRUE /\ up' = TRUE
      /\ \A d \in Call \ {c} : calls'[d] = calls[d] /\ polls'[d] = polls[d]
      /\ \A n \in Nonce : txs[n].call # None => txs'[n] = txs[n]
  BY Zenon DEF OnlyCall
<1>3. \A d : Kind(d)' = Kind(d) /\ Arg(d)' = Arg(d)
  BY Zenon, <1>2 DEF Kind, Arg
<1>4. ASSUME NEW d \in Call \ {c} PROVE Op(d)' = Op(d) /\ OpArg(d)' = OpArg(d)
  <2>1. calls'[d] = calls[d] /\ Kind(d)' = Kind(d) /\ Arg(d)' = Arg(d)
    BY Zenon, <1>2, <1>3
  <2>2. Op(d)' = Op(d)
    BY <2>1 DEF Op
  <2>3. OpArg(d)' = OpArg(d)
    BY <2>1 DEF OpArg
  <2> QED
    BY Zenon, <2>2, <2>3
<1>5. FinalStorage' = FinalStorage
  BY Zenon, <1>2 DEF FinalStorage
<1>6. None \notin Call
  BY Zenon, InstancesAssumption
<1>7. PhaseInv'
  <2>1. ASSUME NEW d \in Call, d # c PROVE Phase(d)'
    <3>1. Phase(d) /\ calls'[d] = calls[d] /\ polls'[d] = polls[d]
      BY Zenon, <1>1, <1>2, <2>1 DEF PhaseInv
    <3> QED
      BY Zenon, <1>2, <1>3, <3>1 DEF Phase
  <2> QED
    BY Zenon, <2>1 DEF PhaseInv
<1>8. NonceInv'
  <2>1. ASSUME NEW d \in Call, d # c, calls'[d].pc = "poll" PROVE PollsItsOwn(d)'
    <3>1. PollsItsOwn(d) /\ polls'[d] = polls[d]
      BY Zenon, <1>1, <1>2, <2>1 DEF NonceInv
    <3>2. Op(d)' = Op(d) /\ OpArg(d)' = OpArg(d)
      BY Zenon, <1>4, <2>1
    <3>3. txs'[polls[d].nonce] = txs[polls[d].nonce]
      BY Zenon, <1>2, <1>6, <3>1 DEF PollsItsOwn
    <3> QED
      BY Zenon, <3>1, <3>2, <3>3 DEF PollsItsOwn
  <2> QED
    BY Zenon, <2>1 DEF NonceInv
<1>9. PollInv'
  <2>1. ASSUME NEW d \in Call, d # c PROVE Polled(d)'
    <3>1. Polled(d) /\ calls'[d] = calls[d] /\ polls'[d] = polls[d]
      BY Zenon, <1>1, <1>2, <2>1 DEF PollInv
    <3>2. ASSUME polls'[d].seen, polls'[d].depth >= MaxReorg + polls'[d].since
          PROVE  Stays(polls[d].nonce, MaxReorg + polls[d].since, polls[d].storage = None)'
      <4>1. PICK n \in Nonce : n = polls[d].nonce /\ txs[n].call # None
        BY Zenon, <1>1, <1>6, <3>1, <3>2, PolledNonce DEF PollsItsOwn
      <4>2. PICK e, ok : e = MaxReorg + polls[d].since /\ ok = (polls[d].storage = None)
        BY Zenon
      <4>3. Stays(n, e, ok)
        BY Zenon, <3>1, <3>2, <4>1, <4>2 DEF Polled
      <4>4. Stays(n, e, ok)'
        BY Zenon, <4>1, <4>3, SentStays
      <4> QED
        BY Zenon, <3>1, <4>1, <4>2, <4>4 DEF Stays
    <3>3. ASSUME calls'[d].tx = Ok, polls'[d].nonce # 0
          PROVE  (txs[polls[d].nonce].call = d /\ Stays(polls[d].nonce, MaxReorg, TRUE))'
      <4>1. polls[d].nonce \in 0 .. MaxTx
        BY Zenon, <1>1 DEF Types, ClientOK, PollTypes
      <4>2. PICK n \in Nonce : n = polls[d].nonce
        BY Zenon, <3>1, <3>3, <4>1, NonceFacts
      <4>3. txs[n].call = d /\ Stays(n, MaxReorg, TRUE)
        BY Zenon, <3>1, <3>3, <4>2 DEF Polled
      <4>4. txs[n].call # None
        BY Zenon, <1>6, <4>3
      <4>5. Stays(n, MaxReorg, TRUE)' /\ txs'[n] = txs[n]
        BY Zenon, <1>2, <4>3, <4>4, SentStays
      <4> QED
        BY Zenon, <3>1, <4>2, <4>3, <4>5 DEF Stays
    <3> QED
      BY Zenon, <3>2, <3>3 DEF Polled
  <2> QED
    BY Zenon, <2>1 DEF PollInv
<1>10. EffectInv'
  <2>1. \A d \in Call : calls[d].waits \subseteq Call
    BY Zenon, <1>1 DEF Types, CallsOK, CallTypes
  <2>2. ASSUME NEW k \in Call, NEW s, Promises(k, s) PROVE Promises(k, s)'
    <3>1. CASE k = c
      BY Zenon, <2>2, <3>1 DEF Promises
    <3>2. CASE k # c
      BY Zenon, <1>2, <1>5, <2>2, <3>2 DEF Promises
    <3> QED
      BY Zenon, <3>1, <3>2
  <2>3. ASSUME NEW d \in Call, d # c PROVE Justified(d)'
    <3>1. Justified(d) /\ calls'[d] = calls[d]
      BY Zenon, <1>1, <1>2, <2>3 DEF EffectInv
    <3>2. HasEffect(d)' /\ WaitsFor(d)'
      BY Zenon, <1>3, <1>5, <3>1 DEF Justified, HasEffect, WaitsFor
    <3>3. SecretInv(d) => SecretInv(d)'
      BY Zenon, <1>3, <1>5, <2>1, <2>2, <3>1 DEF SecretInv
    <3> QED
      BY Zenon, <1>3, <3>1, <3>2, <3>3 DEF Justified
  <2> QED
    BY Zenon, <2>3 DEF EffectInv, SharedOK
<1> QED
  BY Zenon, <1>7, <1>8, <1>9, <1>10 DEF CInv

(* The errors of the proxies are errors. *)
LEMMA ErrorFacts ==
  /\ \A r \in Reasons : Recoverable(r) \in ErrorTypes /\ Fatal(r) \in ErrorTypes /\ Refused(r) \in ErrorTypes
  /\ InsufficientEth \in ErrorTypes /\ Aborted \in ErrorTypes
  /\ Ok \notin ErrorTypes /\ Nothing \notin ErrorTypes /\ Ok # Nothing
BY DEF ErrorTypes, Reasons, Recoverable, Fatal, Refused, InsufficientEth, Aborted, Ok, Nothing

(* The function and the argument of a call that sends (transact). *)
LEMMA OpFacts ==
  ASSUME Types, PhaseInv, NEW c \in Call, Kind(c) # "none"
  PROVE  /\ Op(c) \in Ops \ {"none"}
         /\ Op(c) = "registerSecretBatch" <=> Kind(c) = "secret"
         /\ Op(c) = "deposit" => Kind(c) = "deposit" /\ ~calls[c].approve
         /\ IF Op(c) = "registerSecretBatch" THEN OpArg(c) = calls[c].secrets /\ OpArg(c) \in SUBSET Secrets
            ELSE OpArg(c) \in Int
         /\ ~calls[c].approve /\ Kind(c) # "secret" => OpArg(c) = Arg(c)
         /\ ~calls[c].approve /\ Kind(c) = "deposit" => Op(c) = "deposit"
         /\ ~calls[c].approve /\ Kind(c) = "token" => Op(c) = "createERC20TokenNetwork"
<1>1. /\ Kind(c) \in {"secret", "deposit", "plan", "withdraw", "token", "mint"}
      /\ Kind(c) # "secret" => Arg(c) \in Int
  BY DEF Types, IsInstance, Kind, Arg
<1>2. calls[c].approve => Kind(c) = "deposit"
  BY Zenon DEF PhaseInv, Phase
<1>3. calls[c].amount \in Int /\ calls[c].secrets \in SUBSET Secrets
  BY DEF Types, CallsOK, CallTypes
<1>4. CASE calls[c].approve
  <2>1. Op(c) = "approve" /\ OpArg(c) = calls[c].amount + 1 /\ Kind(c) = "deposit"
    BY Zenon, <1>2, <1>4 DEF Op, OpArg
  <2> QED
    BY <1>3, <1>4, <2>1 DEF Ops
<1>5. CASE ~calls[c].approve
  <2>1. Op(c) = CASE Kind(c) = "deposit" -> "deposit"
                  [] Kind(c) = "plan" -> "planWithdraw"
                  [] Kind(c) = "withdraw" -> "withdraw"
                  [] Kind(c) = "token" -> "createERC20TokenNetwork"
                  [] Kind(c) = "mint" -> "mintFor"
                  [] Kind(c) = "secret" -> "registerSecretBatch"
    BY Zenon, <1>5 DEF Op
  <2>2. OpArg(c) = IF Kind(c) = "secret" THEN calls[c].secrets ELSE Arg(c)
    BY Zenon, <1>5 DEF OpArg
  <2> QED
    BY <1>1, <1>3, <1>5, <2>1, <2>2 DEF Ops
<1> QED
  BY Zenon, <1>4, <1>5

(* What the proxies say of a failed estimation and of a reverted           *)
(* transaction is an error, never a success (_deposit_check_result and the *)
(* like).                                                                  *)
LEMMA ProxyErrors ==
  ASSUME NEW op \in Ops \ {"none"}, NEW arg, NEW s
  PROVE  EstimationError(op, arg, s) \in ErrorTypes /\ RevertError(op, arg, s) \in ErrorTypes
<1>1. ASSUME NEW r \in Reasons
      PROVE  Recoverable(r) \in ErrorTypes /\ Fatal(r) \in ErrorTypes /\ Refused(r) \in ErrorTypes
  BY Zenon, ErrorFacts
<1>2. \A r \in {"allowance", "balance", "not_increased", "already_increased", "limit", "plan", "too_early",
                "underflow", "race_lost", "mint_failed", "unknown"} :
        Recoverable(r) \in ErrorTypes /\ Fatal(r) \in ErrorTypes /\ Refused(r) \in ErrorTypes
  BY <1>1 DEF Reasons
<1>3. deposit_estimation_error(arg, s) \in ErrorTypes
  BY <1>2 DEF deposit_estimation_error
<1>4. deposit_revert_error(arg, s) \in ErrorTypes
  BY <1>2 DEF deposit_revert_error
<1>5. plan_withdraw_revert_error(arg, s) \in ErrorTypes /\ withdraw_revert_error(arg, s) \in ErrorTypes
  BY <1>2 DEF plan_withdraw_revert_error, withdraw_revert_error
<1>6. add_token_estimation_error(s) \in ErrorTypes /\ add_token_revert_error(s) \in ErrorTypes
  BY <1>2 DEF add_token_estimation_error, add_token_revert_error
<1>7. /\ mint_for_error \in ErrorTypes /\ approve_error(arg, s) \in ErrorTypes
      /\ register_secret_estimation_error \in ErrorTypes /\ register_secret_revert_error \in ErrorTypes
      /\ Recoverable("unknown") \in ErrorTypes
  BY <1>2 DEF mint_for_error, approve_error, register_secret_estimation_error, register_secret_revert_error
<1>8. op \in {"approve", "deposit", "planWithdraw", "withdraw", "createERC20TokenNetwork", "mintFor",
              "registerSecretBatch"}
  BY DEF Ops
<1>9. EstimationError(op, arg, s) \in ErrorTypes
  BY <1>3, <1>6, <1>7, <1>8 DEF EstimationError
<1>10. RevertError(op, arg, s) \in ErrorTypes
  BY <1>4, <1>5, <1>6, <1>7, <1>8 DEF RevertError
<1> QED
  BY Zenon, <1>9, <1>10

(* Steps that send nothing keep the nonces and the blocks as they are. *)
LEMMA NoncesStay ==
  ASSUME NoncesOK, UNCHANGED <<inst, txs, nonce>>, up = TRUE, up' = TRUE, stopping => stopping'
  PROVE  NoncesOK'
<1>1. \A k : Filled(k)' <=> Filled(k)
  BY Zenon DEF Filled
<1>2. \A n \in Nonce : n >= nonce => txs[n].call = None
  BY Zenon DEF NoncesOK
<1>3. LostRegistration(nonce)' <=> LostRegistration(nonce)
  BY Zenon DEF LostRegistration
<1> QED
  BY Zenon, <1>1, <1>2, <1>3 DEF NoncesOK

(* The same for the blocks. *)
LEMMA BlocksStay ==
  ASSUME ChainInv, UNCHANGED <<chain, pool, txs>>
  PROVE  ChainInv'
BY Zenon DEF ChainInv, InBlockInv

(* A call that has not ended has no result yet; only a registration that   *)
(* waits for the others has sent its transaction (register_secret_batch).  *)
LEMMA OpenCall ==
  ASSUME PhaseInv, NEW c \in Call, calls[c].pc # "done"
  PROVE  /\ calls[c].result = Nothing
         /\ calls[c].tx # Nothing => calls[c].tx = Ok /\ calls[c].pc = "join" /\ Kind(c) = "secret"
BY Zenon DEF PhaseInv, Phase

(* A step that only moves a call on. *)
LEMMA PcFacts ==
  ASSUME CallsOK, NEW c \in Call, NEW pc \in Phases, ToPc(c, pc)
  PROVE  /\ calls' \in [Call -> CallTypes]
         /\ \A d \in Call \ {c} : calls'[d] = calls[d]
         /\ calls'[c].pc = pc /\ calls'[c].approve = calls[c].approve /\ calls'[c].amount = calls[c].amount
         /\ calls'[c].secrets = calls[c].secrets /\ calls'[c].waits = calls[c].waits
         /\ calls'[c].tx = calls[c].tx /\ calls'[c].result = calls[c].result
<1>1. calls \in [Call -> CallTypes]
  BY Zenon DEF CallsOK
<1>2. PICK r : r = [calls[c] EXCEPT !.pc = pc]
  BY Zenon
<1>3. r \in CallTypes /\ r.pc = pc /\ r.approve = calls[c].approve /\ r.amount = calls[c].amount
      /\ r.secrets = calls[c].secrets /\ r.waits = calls[c].waits
      /\ r.tx = calls[c].tx /\ r.result = calls[c].result
  BY <1>1, <1>2 DEF CallTypes
<1>4. calls' = [calls EXCEPT ![c] = r]
  BY <1>2 DEF ToPc
<1> QED
  BY <1>1, <1>3, <1>4

(* What a call that sends expects is still there when it moves on. *)
LEMMA SecretInvStays ==
  ASSUME Types, NEW c \in Call, OnlyCall(c), SecretInv(c), calls'[c].secrets = calls[c].secrets,
         calls'[c].waits = calls[c].waits, calls[c].pc \in Sending => calls'[c].pc \in Sending,
         \A s : Promises(c, s) => Promises(c, s)'
  PROVE  SecretInv(c)'
<1>1. FinalStorage' = FinalStorage /\ Arg(c)' = Arg(c)
  BY DEF OnlyCall, FinalStorage, Arg
<1>2. calls[c].waits \subseteq Call
  BY DEF Types, CallsOK, CallTypes
<1>3. ASSUME NEW k \in Call, NEW s, Promises(k, s) PROVE Promises(k, s)'
  <2>1. CASE k = c
    BY Zenon, <1>3, <2>1 DEF Promises
  <2>2. CASE k # c
    BY Zenon, <1>1, <1>3, <2>2 DEF Promises, OnlyCall
  <2> QED
    BY Zenon, <2>1, <2>2
<1> QED
  BY Zenon, <1>1, <1>2, <1>3 DEF SecretInv

(* A call takes a lock, or goes on to the estimation, to transact or to    *)
(* the look at the last block.                                             *)
LEMMA PcKeeps ==
  ASSUME CInv, NEW c \in Call, up, NEW pc \in {"lock", "estimate", "send", "diagnose"}, ToPc(c, pc),
         UNCHANGED <<clientVars, inflight, open, up, stopping, crashes>>,
         calls[c].pc \in {"idle", "lock", "estimate"}, Kind(c) # "none",
         Kind(c) = "secret" \/ calls[c].pc = "estimate" => calls[c].pc = "estimate" /\ pc \in {"send", "diagnose"}
  PROVE  CInv'
<1>1. Types /\ PhaseInv /\ NonceInv /\ ChainInv /\ PollInv /\ EffectInv
  BY Zenon DEF CInv
<1>2. pc \in Phases
  BY DEF Phases, Sending
<1>3. /\ calls' \in [Call -> CallTypes]
      /\ \A d \in Call \ {c} : calls'[d] = calls[d]
      /\ calls'[c].pc = pc /\ calls'[c].approve = calls[c].approve /\ calls'[c].amount = calls[c].amount
      /\ calls'[c].secrets = calls[c].secrets /\ calls'[c].waits = calls[c].waits
      /\ calls'[c].tx = calls[c].tx /\ calls'[c].result = calls[c].result
  BY Zenon, <1>1, <1>2, PcFacts DEF Types
<1>4. UNCHANGED <<inst, chain, pool, theirs, txs, nonce, poor, polls, reorgs>>
  BY Zenon DEF clientVars
<1>5. up = TRUE /\ up' = TRUE
  BY Zenon, <1>1 DEF Types, CallsOK
<1>6. OnlyCall(c)
  BY Zenon, <1>3, <1>4, <1>5 DEF OnlyCall
<1>7. Types'
  BY Zenon, <1>1, <1>3, <1>4 DEF Types, IsInstance, TxsOK, ClientOK, CallsOK
<1>8. ChainInv' /\ NoncesOK'
  BY Zenon, <1>1, <1>4, <1>5, BlocksStay, NoncesStay DEF NonceInv
<1>9. /\ calls[c].pc # "done" /\ calls[c].pc # "poll" /\ calls[c].pc # "join"
      /\ pc # "done" /\ pc # "poll" /\ pc # "join" /\ pc # "idle"
      /\ calls[c].pc = "estimate" <=> calls[c].pc \in Sending
      /\ calls[c].pc = "estimate" => pc \in Sending /\ pc # "lock"
  BY DEF Sending
<1>10. calls[c].result = Nothing /\ calls[c].tx = Nothing /\ Nothing # Ok /\ ~polls[c].seen
  BY Zenon, <1>1, <1>9, OpenCall, ErrorFacts DEF PhaseInv, Phase
<1>11. Kind(c)' = Kind(c)
  BY Zenon, <1>4 DEF Kind
<1>12. Phase(c)'
  BY Zenon, <1>1, <1>3, <1>4, <1>5, <1>9, <1>10, <1>11 DEF PhaseInv, Phase
<1>13. Polled(c)'
  BY Zenon, <1>3, <1>4, <1>10 DEF Polled
<1>14. ASSUME NEW s, Promises(c, s) PROVE Promises(c, s)'
  BY Zenon, <1>3, <1>9, <1>10, <1>14 DEF Promises
<1>15. Justified(c)'
  <2>1. Justified(c) /\ (\A d : Kind(d)' = Kind(d) /\ Arg(d)' = Arg(d))
    BY Zenon, <1>1, <1>4 DEF EffectInv, Kind, Arg
  <2>2. HasEffect(c)' /\ WaitsFor(c)'
    BY Zenon, <1>3, <1>9, <1>10, <2>1 DEF HasEffect, WaitsFor, Justified
  <2>3. ASSUME Kind(c) = "secret" PROVE SecretInv(c)'
    <3>1. SecretInv(c) /\ pc \in Sending
      BY Zenon, <1>9, <2>1, <2>3 DEF Justified
    <3> QED
      BY Zenon, <1>1, <1>3, <1>6, <1>14, <3>1, SecretInvStays
  <2> QED
    BY Zenon, <1>11, <2>2, <2>3 DEF Justified
<1>16. SharedOK'
  <2>1. ASSUME NEW s \in inst.secrets, open[s] # None PROVE OpenInv(s)'
    <3>1. OpenInv(s) /\ open[s] \in Call
      BY Zenon, <1>1, <2>1 DEF EffectInv, Types, CallsOK
    <3>2. \A k \in Call : /\ calls'[k].secrets = calls[k].secrets /\ calls'[k].tx = calls[k].tx
                          /\ calls[k].pc \in Sending => calls'[k].pc \in Sending
      BY Zenon, <1>3, <1>9
    <3> QED
      BY Zenon, <1>4, <3>1, <3>2 DEF OpenInv, Kind
  <2> QED
    BY Zenon, <1>1, <1>4, <2>1 DEF EffectInv, SharedOK, Kind
<1>17. (calls[c].pc = "poll" => PollsItsOwn(c))'
  BY Zenon, <1>3, <1>9
<1> QED
  BY Zenon, <1>6, <1>7, <1>8, <1>12, <1>13, <1>14, <1>15, <1>16, <1>17, CallKeeps

(* AcquireLock and Estimate. *)
LEMMA MovesOnKeep ==
  ASSUME CInv, NEW c \in Call, AcquireLock(c) \/ Estimate(c)
  PROVE  CInv'
<1>1. PICK pc \in {"estimate", "send", "diagnose"} :
         /\ ToPc(c, pc) /\ UNCHANGED <<clientVars, inflight, open, up, stopping, crashes>> /\ up
         /\ \/ calls[c].pc = "lock" /\ pc = "estimate"
            \/ calls[c].pc = "estimate" /\ pc \in {"send", "diagnose"}
  BY Zenon DEF AcquireLock, Estimate, Step
<1>2. Kind(c) # "none" /\ (calls[c].pc = "lock" => Kind(c) # "secret")
  BY <1>1 DEF CInv, PhaseInv, Phase, Phases, Sending
<1>3. pc \in {"lock", "estimate", "send", "diagnose"} /\ calls[c].pc \in {"idle", "lock", "estimate"}
  BY Zenon, <1>1
<1>4. Kind(c) = "secret" \/ calls[c].pc = "estimate" => calls[c].pc = "estimate" /\ pc \in {"send", "diagnose"}
  BY <1>1, <1>2
<1> QED
  BY Zenon, <1>1, <1>2, <1>3, <1>4, PcKeeps

(* The end of a call: its record, and what the finally clauses clean up. *)
LEMMA EndedFacts ==
  ASSUME Types, NEW c \in Call, NEW r \in ResultTypes, Ended(c, r), inst'.secrets = inst.secrets
  PROVE  /\ CallsOK' /\ up' = up /\ (stopping => stopping')
         /\ \A d \in Call \ {c} : calls'[d] = calls[d]
         /\ calls'[c].pc = "done" /\ calls'[c].approve = FALSE /\ calls'[c].result = r
         /\ calls'[c].tx = (IF calls[c].tx = Nothing THEN r ELSE calls[c].tx)
         /\ calls'[c].secrets = {} /\ calls'[c].waits = {}
         /\ inflight' = None \/ inflight' = inflight
         /\ \A s \in inst.secrets : open'[s] # None => open'[s] = open[s] /\ open[s] # c
<1>1. calls \in [Call -> CallTypes] /\ open \in [inst.secrets -> Call \union {None}]
  BY Zenon DEF Types, CallsOK
<1>2. PICK x \in ResultTypes : x = IF calls[c].tx = Nothing THEN r ELSE calls[c].tx
  BY <1>1 DEF CallTypes
<1>3. PICK e : e = [pc |-> "done", approve |-> FALSE, amount |-> 0, secrets |-> {}, waits |-> {},
                    tx |-> x, result |-> r]
  BY Zenon
<1>4. e \in CallTypes /\ e.pc = "done" /\ e.approve = FALSE /\ e.result = r /\ e.tx = x
      /\ e.secrets = {} /\ e.waits = {}
  BY <1>3 DEF CallTypes, Phases
<1>5. [Idle EXCEPT !.pc = "done", !.result = r, !.tx = x] = e
  <2>1. PICK a : a = [Idle EXCEPT !.pc = "done"]
    BY Zenon
  <2>2. a = [pc |-> "done", approve |-> FALSE, amount |-> 0, secrets |-> {}, waits |-> {},
             tx |-> Nothing, result |-> Nothing]
    BY Zenon, <2>1 DEF Idle
  <2>3. PICK b : b = [a EXCEPT !.result = r]
    BY Zenon
  <2>4. b = [pc |-> "done", approve |-> FALSE, amount |-> 0, secrets |-> {}, waits |-> {},
             tx |-> Nothing, result |-> r]
    BY Zenon, <2>2, <2>3
  <2>5. PICK d : d = [b EXCEPT !.tx = x]
    BY Zenon
  <2>6. d = [pc |-> "done", approve |-> FALSE, amount |-> 0, secrets |-> {}, waits |-> {},
             tx |-> x, result |-> r]
    BY Zenon, <2>4, <2>5
  <2>7. d = [Idle EXCEPT !.pc = "done", !.result = r, !.tx = x]
    BY ONLY <2>1, <2>3, <2>5
  <2> QED
    BY Zenon, <1>3, <2>6, <2>7
<1>6. calls' = [calls EXCEPT ![c] = e]
  BY Zenon, <1>2, <1>5 DEF Ended
<1>7. calls' \in [Call -> CallTypes] /\ calls'[c] = e /\ \A d \in Call \ {c} : calls'[d] = calls[d]
  BY <1>1, <1>4, <1>6
<1>8. /\ inflight' = (IF inflight = c THEN None ELSE inflight)
      /\ open' = [s \in DOMAIN open |-> IF open[s] = c THEN None ELSE open[s]]
      /\ stopping' = (stopping \/ StopsNode(c, r)) /\ UNCHANGED <<up, crashes>>
  BY Zenon DEF Ended
<1>9. open' \in [inst.secrets -> Call \union {None}]
      /\ \A s \in inst.secrets : open'[s] # None => open'[s] = open[s] /\ open[s] # c
  BY <1>1, <1>8
<1>10. CallsOK'
  <2>1. inflight' \in Call \union {None} /\ stopping' \in BOOLEAN /\ up' \in BOOLEAN /\ crashes' \in Nat
    BY Zenon, <1>8 DEF Types, CallsOK
  <2> QED
    BY Zenon, <1>7, <1>9, <2>1 DEF CallsOK
<1> QED
  BY Zenon, <1>2, <1>4, <1>7, <1>8, <1>9, <1>10

(* A call may end without an error when its effect is there for good and   *)
(* its transaction was successful.                                         *)
MayReturn(c) ==
  /\ Kind(c) = "secret" => calls[c].pc = "join" /\ Arg(c) \subseteq FinalStorage.secrets
  /\ Kind(c) = "deposit" => FinalStorage.deposit >= Arg(c)
  /\ Kind(c) = "token" => FinalStorage.registered
  /\ calls[c].tx = Nothing /\ polls[c].nonce # 0 =>
       polls[c].nonce \in Nonce /\ txs[polls[c].nonce].call = c /\ Stays(polls[c].nonce, MaxReorg, TRUE)

(* The end of a call keeps the invariant: who waits for it gets the error, *)
(* or finds its secrets registered.                                        *)
LEMMA EndedKeeps ==
  ASSUME CInv, NEW c \in Call, calls[c].pc # "done", NEW r \in ResultTypes, r # Nothing, Ended(c, r),
         r = Ok => MayReturn(c), OnlyCall(c),
         polls'[c].nonce = polls[c].nonce, polls'[c].seen = FALSE,
         IsInstance(inst)', TxsOK', ClientOK', ChainInv', NoncesOK'
  PROVE  CInv'
<1>1. Types /\ PhaseInv /\ NonceInv /\ ChainInv /\ PollInv /\ EffectInv
  BY Zenon DEF CInv
<1>2. /\ inst'.calls = inst.calls /\ inst'.secrets = inst.secrets
      /\ chain' = chain /\ up = TRUE /\ up' = TRUE
      /\ \A n \in Nonce : txs[n].call # None => txs'[n] = txs[n]
  BY Zenon DEF OnlyCall
<1>3. /\ CallsOK' /\ \A d \in Call \ {c} : calls'[d] = calls[d]
      /\ calls'[c].pc = "done" /\ calls'[c].approve = FALSE /\ calls'[c].result = r
      /\ calls'[c].tx = (IF calls[c].tx = Nothing THEN r ELSE calls[c].tx)
      /\ calls'[c].secrets = {} /\ calls'[c].waits = {}
      /\ inflight' = None \/ inflight' = inflight
      /\ \A s \in inst.secrets : open'[s] # None => open'[s] = open[s] /\ open[s] # c
  BY Zenon, <1>1, <1>2, EndedFacts
<1>4. Types'
  BY Zenon, <1>3 DEF Types
<1>5. Kind(c)' = Kind(c) /\ Arg(c)' = Arg(c) /\ FinalStorage' = FinalStorage
  BY <1>2 DEF Kind, Arg, FinalStorage
<1>6. /\ calls[c].result = Nothing
      /\ calls[c].tx # Nothing => calls[c].tx = Ok /\ calls[c].pc = "join" /\ Kind(c) = "secret"
      /\ Ok # Nothing
  BY Zenon, <1>1, OpenCall, ErrorFacts
<1>7. Phase(c)'
  <2>1. "done" \notin Phases \ {"idle", "done"} /\ "done" # "join" /\ "done" # "lock" /\ "done" # "poll"
        /\ "done" \notin {"idle", "join"}
    BY Zenon
  <2> QED
    BY Zenon, <1>3, <1>5, <1>6, <2>1 DEF Phase
<1>8. Polled(c)'
  <2>1. ASSUME calls'[c].tx = Ok, polls'[c].nonce # 0
        PROVE  (txs[polls[c].nonce].call = c /\ Stays(polls[c].nonce, MaxReorg, TRUE))'
    <3>1. polls[c].nonce \in 0 .. MaxTx
      BY <1>1 DEF Types, ClientOK, PollTypes
    <3>2. PICK n \in Nonce : n = polls[c].nonce
      BY Zenon, <2>1, <3>1, NonceFacts
    <3>3. txs[n].call = c /\ Stays(n, MaxReorg, TRUE)
      <4>1. CASE calls[c].tx = Nothing
        BY Zenon, <1>3, <2>1, <3>2, <4>1 DEF MayReturn
      <4>2. CASE calls[c].tx # Nothing
        BY Zenon, <1>1, <1>3, <2>1, <3>2, <4>2 DEF PollInv, Polled
      <4> QED
        BY Zenon, <4>1, <4>2
    <3>4. txs[n].call # None
      BY Zenon, <3>3, InstancesAssumption
    <3>5. Stays(n, MaxReorg, TRUE)' /\ txs'[n] = txs[n]
      BY Zenon, <1>2, <3>3, <3>4, SentStays
    <3> QED
      BY Zenon, <3>2, <3>3, <3>5 DEF Stays
  <2> QED
    BY Zenon, <2>1 DEF Polled
<1>9. ASSUME NEW s, Promises(c, s) PROVE Promises(c, s)'
  <2>1. CASE calls[c].tx = Nothing
    <3>1. s \in calls[c].secrets /\ calls[c].pc \in Sending
      BY Zenon, <1>9, <2>1 DEF Promises
    <3>2. Kind(c) = "secret" /\ calls[c].pc # "join"
      BY <1>1, <3>1 DEF PhaseInv, Phase, Sending
    <3> QED
      BY Zenon, <1>3, <2>1, <3>2 DEF Promises, MayReturn
  <2>2. CASE calls[c].tx # Nothing
    BY Zenon, <1>3, <1>5, <1>9, <2>2 DEF Promises
  <2> QED
    BY Zenon, <2>1, <2>2
<1>10. Justified(c)'
  <2>1. HasEffect(c)'
    BY Zenon, <1>3, <1>5 DEF HasEffect, MayReturn
  <2>2. WaitsFor(c)'
    BY <1>3 DEF WaitsFor
  <2>3. calls'[c].pc \notin Sending \union {"join"}
    BY <1>3 DEF Sending
  <2> QED
    BY Zenon, <2>1, <2>2, <2>3 DEF Justified
<1>11. SharedOK'
  <2>1. ASSUME NEW s \in inst.secrets, open'[s] # None PROVE OpenInv(s)'
    <3>1. OpenInv(s) /\ open[s] \in Call /\ open[s] # c /\ open'[s] = open[s]
      BY Zenon, <1>1, <1>3, <2>1 DEF EffectInv, Types, CallsOK
    <3>2. calls'[open[s]] = calls[open[s]]
      BY Zenon, <1>3, <3>1
    <3> QED
      BY Zenon, <1>2, <3>1, <3>2 DEF OpenInv, Kind
  <2>2. inflight' # None => Kind(inflight)' = "deposit"
    BY Zenon, <1>1, <1>2, <1>3 DEF EffectInv, Kind
  <2> QED
    BY Zenon, <1>2, <2>1, <2>2 DEF SharedOK
<1>12. (calls[c].pc = "poll" => PollsItsOwn(c))'
  BY Zenon, <1>3
<1> QED
  BY Zenon, <1>4, <1>7, <1>8, <1>9, <1>10, <1>11, <1>12, CallKeeps

(* The same for a call that ends with an error, or without having sent     *)
(* anything.                                                               *)
LEMMA EndedQuietly ==
  ASSUME CInv, NEW c \in Call, up, calls[c].pc # "done", NEW r \in ResultTypes, r # Nothing, Ended(c, r),
         r = Ok => MayReturn(c), UNCHANGED <<inst, chain, pool, txs, nonce>>,
         polls' \in [Call -> PollTypes], \A d \in Call \ {c} : polls'[d] = polls[d],
         polls'[c].nonce = polls[c].nonce, polls'[c].seen = FALSE
  PROVE  CInv'
<1>1. Types /\ NonceInv /\ ChainInv
  BY Zenon DEF CInv
<1>2. /\ CallsOK' /\ up' = up /\ (stopping => stopping')
      /\ \A d \in Call \ {c} : calls'[d] = calls[d]
  BY Zenon, <1>1, EndedFacts
<1>3. up = TRUE /\ up' = TRUE
  BY Zenon, <1>1, <1>2 DEF Types, CallsOK
<1>4. OnlyCall(c)
  BY Zenon, <1>2, <1>3 DEF OnlyCall
<1>5. IsInstance(inst)' /\ TxsOK' /\ ClientOK'
  BY Zenon, <1>1 DEF Types, IsInstance, TxsOK, ClientOK
<1>6. ChainInv' /\ NoncesOK'
  BY Zenon, <1>1, <1>2, <1>3, BlocksStay, NoncesStay DEF NonceInv
<1> QED
  BY Zenon, <1>4, <1>5, <1>6, EndedKeeps

(* A call that ends without having sent or read anything. *)
LEMMA EndedUnchanged ==
  ASSUME CInv, NEW c \in Call, up, calls[c].pc # "done", calls[c].pc # "poll",
         NEW r \in ResultTypes, r # Nothing, Ended(c, r), r = Ok => MayReturn(c), UNCHANGED clientVars
  PROVE  CInv'
<1>1. UNCHANGED <<inst, chain, pool, theirs, txs, nonce, poor, polls, reorgs>>
  BY Zenon DEF clientVars
<1>2. polls \in [Call -> PollTypes] /\ ~polls[c].seen
  BY Zenon DEF CInv, Types, ClientOK, PhaseInv, Phase
<1>3. polls[c].seen \in BOOLEAN
  BY <1>2 DEF PollTypes
<1> QED
  BY Zenon, <1>1, <1>2, <1>3, EndedQuietly

(* The same with an error. *)
LEMMA EndedWithError ==
  ASSUME CInv, NEW c \in Call, up, calls[c].pc # "done", calls[c].pc # "poll",
         NEW r \in ErrorTypes, Ended(c, r), UNCHANGED clientVars
  PROVE  CInv'
<1>1. r \in ResultTypes /\ r # Nothing /\ r # Ok
  BY Zenon, ErrorFacts DEF ResultTypes
<1> QED
  BY Zenon, <1>1, EndedUnchanged

(* A call that starts: its new record is e. *)
LEMMA StartKeeps ==
  ASSUME CInv, NEW c \in Call, up, calls[c].pc = "idle", NEW e \in CallTypes,
         calls' = [calls EXCEPT ![c] = e], UNCHANGED <<clientVars, up, stopping, crashes>>,
         e.pc \in {"join", "lock", "estimate"}, e.tx = Nothing, e.result = Nothing,
         e.approve => Kind(c) = "deposit", e.pc = "join" => Kind(c) \in {"secret", "deposit"},
         e.pc = "lock" => Kind(c) # "secret", Kind(c) # "secret" => e.secrets = {}, Kind(c) # "none",
         CallsOK', WaitsFor(c)', Kind(c) = "secret" => SecretInv(c)', SharedOK'
  PROVE  CInv'
<1>1. Types /\ PhaseInv /\ NonceInv /\ ChainInv /\ PollInv /\ EffectInv
  BY Zenon DEF CInv
<1>2. calls \in [Call -> CallTypes]
  BY Zenon, <1>1 DEF Types, CallsOK
<1>3. calls'[c] = e /\ \A d \in Call \ {c} : calls'[d] = calls[d]
  BY <1>2
<1>4. UNCHANGED <<inst, chain, pool, theirs, txs, nonce, poor, polls, reorgs>>
  BY Zenon DEF clientVars
<1>5. up = TRUE /\ up' = TRUE
  BY Zenon, <1>1 DEF Types, CallsOK
<1>6. OnlyCall(c)
  BY Zenon, <1>3, <1>4, <1>5 DEF OnlyCall
<1>7. Types'
  BY Zenon, <1>1, <1>4 DEF Types, IsInstance, TxsOK, ClientOK
<1>8. ChainInv' /\ NoncesOK'
  BY Zenon, <1>1, <1>4, <1>5, BlocksStay, NoncesStay DEF NonceInv
<1>9. calls[c].pc # "done" /\ calls[c].pc # "join" /\ calls[c].pc # "poll" /\ calls[c].pc \notin Sending
      /\ e.pc # "done" /\ e.pc # "poll" /\ e.pc # "idle"
  BY DEF Sending
<1>10. calls[c].result = Nothing /\ calls[c].tx = Nothing /\ Nothing # Ok /\ ~polls[c].seen
  BY Zenon, <1>1, <1>9, OpenCall, ErrorFacts DEF PhaseInv, Phase
<1>11. polls[c].nonce = 0
  BY Zenon, <1>1, <1>10 DEF PhaseInv, Phase
<1>12. Kind(c)' = Kind(c)
  BY Zenon, <1>4 DEF Kind
<1>13. Phase(c)'
  BY Zenon, <1>3, <1>4, <1>5, <1>9, <1>10, <1>11, <1>12 DEF Phase
<1>14. Polled(c)'
  BY Zenon, <1>3, <1>4, <1>10 DEF Polled
<1>15. \A s : ~Promises(c, s)
  BY Zenon, <1>9, <1>10 DEF Promises
<1>16. Justified(c)'
  BY Zenon, <1>3, <1>10, <1>12 DEF Justified, HasEffect
<1>17. (calls[c].pc = "poll" => PollsItsOwn(c))'
  BY Zenon, <1>3, <1>9
<1> QED
  BY Zenon, <1>6, <1>7, <1>8, <1>13, <1>14, <1>15, <1>16, <1>17, CallKeeps

(* The registries stay when a call that is not in them starts. *)
LEMMA SharedStays ==
  ASSUME Types, EffectInv, NEW c \in Call, calls[c].pc \notin Sending,
         \A d \in Call \ {c} : calls'[d] = calls[d], UNCHANGED <<inst, open>>
  PROVE  \A s \in inst.secrets : open'[s] # None => OpenInv(s)'
<1> SUFFICES ASSUME NEW s \in inst.secrets, open[s] # None PROVE OpenInv(s)'
  BY Zenon
<1>1. OpenInv(s) /\ open[s] \in Call
  BY Zenon DEF EffectInv, Types, CallsOK
<1>2. calls'[open[s]] = calls[open[s]]
  BY Zenon, <1>1 DEF OpenInv
<1> QED
  BY Zenon, <1>1, <1>2 DEF OpenInv, Kind

(* register_secret_batch: a secret is the call's own, it is promised by    *)
(* the greenlet that registers it, or it is registered for good.           *)
LEMMA StartSecretKeeps ==
  ASSUME CInv, NEW c \in Call, up, calls[c].pc = "idle", StartSecret(c)
  PROVE  CInv'
<1>1. Types /\ PhaseInv /\ ChainInv /\ EffectInv
  BY Zenon DEF CInv
<1>2. PICK busy, mine :
        /\ busy = {s \in Arg(c) : open[s] # None}
        /\ mine = {s \in Arg(c) \ busy : s \notin ConfirmedStorage.secrets}
  BY Zenon
<1>3. PICK pc, waits : pc = (IF mine = {} THEN "join" ELSE "estimate") /\ waits = {open[s] : s \in busy}
  BY Zenon
<1>4. /\ Kind(c) = "secret"
      /\ open' = [s \in DOMAIN open |-> IF s \in mine THEN c ELSE open[s]]
      /\ calls' = [calls EXCEPT ![c] = [Idle EXCEPT !.pc = pc, !.secrets = mine, !.waits = waits]]
      /\ UNCHANGED <<clientVars, inflight, up, stopping, crashes>>
  BY Zenon, <1>2, <1>3 DEF StartSecret
<1>5. UNCHANGED <<inst, chain, pool, theirs, txs, nonce, poor, polls, reorgs>>
  BY Zenon, <1>4 DEF clientVars
<1>6. Arg(c) \subseteq inst.secrets /\ inst.secrets \subseteq Secrets
  BY Zenon, <1>1, <1>4 DEF Types, IsInstance, Kind, Arg
<1>7. open \in [inst.secrets -> Call \union {None}] /\ calls \in [Call -> CallTypes]
  BY Zenon, <1>1 DEF Types, CallsOK
<1>8. PICK e : e = [pc |-> pc, approve |-> FALSE, amount |-> 0, secrets |-> mine, waits |-> waits,
                    tx |-> Nothing, result |-> Nothing]
  BY Zenon
<1>9. [Idle EXCEPT !.pc = pc, !.secrets = mine, !.waits = waits] = e
  <2>1. PICK x : x = [Idle EXCEPT !.pc = pc]
    BY Zenon
  <2>2. x = [pc |-> pc, approve |-> FALSE, amount |-> 0, secrets |-> {}, waits |-> {},
             tx |-> Nothing, result |-> Nothing]
    BY Zenon, <2>1 DEF Idle
  <2>3. PICK y : y = [x EXCEPT !.secrets = mine]
    BY Zenon
  <2>4. y = [pc |-> pc, approve |-> FALSE, amount |-> 0, secrets |-> mine, waits |-> {},
             tx |-> Nothing, result |-> Nothing]
    BY Zenon, <2>2, <2>3
  <2>5. PICK z : z = [y EXCEPT !.waits = waits]
    BY Zenon
  <2>6. z = [pc |-> pc, approve |-> FALSE, amount |-> 0, secrets |-> mine, waits |-> waits,
             tx |-> Nothing, result |-> Nothing]
    BY Zenon, <2>4, <2>5
  <2>7. z = [Idle EXCEPT !.pc = pc, !.secrets = mine, !.waits = waits]
    BY ONLY <2>1, <2>3, <2>5
  <2> QED
    BY Zenon, <1>8, <2>6, <2>7
<1>10. calls' = [calls EXCEPT ![c] = e]
  BY Zenon, <1>4, <1>9
<1>11. pc \in {"join", "estimate"} /\ mine \subseteq Arg(c) /\ waits \subseteq Call /\ (mine # {} => pc = "estimate")
  <2>1. \A s \in busy : open[s] \in Call
    BY Zenon, <1>2, <1>6, <1>7
  <2> QED
    BY Zenon, <1>2, <1>3, <2>1
<1>12. e \in CallTypes /\ e.pc = pc /\ e.approve = FALSE /\ e.secrets = mine /\ e.waits = waits
       /\ e.tx = Nothing /\ e.result = Nothing
  BY <1>6, <1>8, <1>11 DEF CallTypes, Phases, Sending, ResultTypes
<1>13. calls' \in [Call -> CallTypes] /\ calls'[c] = e /\ \A d \in Call \ {c} : calls'[d] = calls[d]
  BY <1>7, <1>10, <1>12
<1>14. CallsOK'
  <2>1. open' \in [inst.secrets -> Call \union {None}]
    BY <1>4, <1>7
  <2> QED
    BY Zenon, <1>1, <1>4, <1>5, <1>13, <2>1 DEF Types, CallsOK
<1>15. "idle" \notin Sending /\ "estimate" \in Sending
  BY DEF Sending
<1>16. ASSUME NEW s \in inst.secrets, open[s] # None
       PROVE  /\ OpenInv(s) /\ open[s] \in Call /\ open[s] # c
              /\ calls'[open[s]] = calls[open[s]]
  <2>1. OpenInv(s) /\ open[s] \in Call
    BY Zenon, <1>1, <1>7, <1>16 DEF EffectInv
  <2>2. open[s] # c
    BY Zenon, <1>15, <2>1 DEF OpenInv
  <2> QED
    BY Zenon, <1>13, <2>1, <2>2
<1>17. SharedOK'
  <2>1. ASSUME NEW s \in inst.secrets, open'[s] # None PROVE OpenInv(s)'
    <3>1. CASE s \in mine
      <4>1. open'[s] = c
        BY Zenon, <1>4, <1>7, <3>1
      <4> QED
        BY Zenon, <1>4, <1>5, <1>11, <1>12, <1>13, <1>15, <3>1, <4>1 DEF OpenInv, Kind
    <3>2. CASE s \notin mine
      <4>1. open'[s] = open[s]
        BY Zenon, <1>4, <1>7, <3>2
      <4> QED
        BY Zenon, <1>5, <1>16, <2>1, <4>1 DEF OpenInv, Kind
    <3> QED
      BY Zenon, <3>1, <3>2
  <2> QED
    BY Zenon, <1>1, <1>4, <1>5, <2>1 DEF EffectInv, SharedOK, Kind
<1>18. SecretInv(c)'
  <2>1. FinalStorage' = FinalStorage /\ Arg(c)' = Arg(c)
    BY <1>5 DEF FinalStorage, Arg
  <2>2. ASSUME NEW s \in Arg(c), s \in busy PROVE \E k \in waits : Promises(k, s)'
    <3>1. open[s] \in waits /\ open[s] # None
      BY Zenon, <1>2, <1>3, <2>2
    <3>2. OpenInv(s) /\ calls'[open[s]] = calls[open[s]]
      BY Zenon, <1>6, <1>16, <3>1
    <3>3. Promises(open[s], s)
      BY Zenon, <3>2, ErrorFacts DEF OpenInv, Promises
    <3>4. PICK k : k = open[s]
      BY Zenon
    <3>5. Promises(k, s)'
      BY Zenon, <2>1, <3>2, <3>3, <3>4 DEF Promises
    <3> QED
      BY Zenon, <3>1, <3>4, <3>5
  <2>3. ASSUME NEW s \in Arg(c), s \notin busy, s \notin mine PROVE s \in FinalStorage.secrets
    <3>1. s \in ConfirmedStorage.secrets
      BY Zenon, <1>2, <2>3
    <3>2. Window - Confirmations \in 1 .. Window /\ Window - MaxReorg \in 1 .. Window
          /\ Window - Confirmations <= Window - MaxReorg
      BY WindowFacts, ClientAssumption
    <3>3. Later(ConfirmedStorage, FinalStorage)
      BY Zenon, <1>1, <3>2, ChainIsLater DEF Types, ConfirmedStorage, FinalStorage
    <3> QED
      BY Zenon, <3>1, <3>3 DEF Later
  <2>4. ASSUME NEW s \in mine PROVE calls'[c].pc \in Sending /\ s \in calls'[c].secrets
    BY Zenon, <1>11, <1>12, <1>13, <1>15, <2>4
  <2> QED
    BY Zenon, <1>12, <1>13, <2>1, <2>2, <2>3, <2>4 DEF SecretInv
<1>19. WaitsFor(c)'
  BY Zenon, <1>4, <1>5 DEF WaitsFor, Kind
<1>20. Kind(c) # "none" /\ e.pc \in {"join", "lock", "estimate"} /\ e.pc # "lock"
  BY <1>4, <1>11, <1>12
<1> QED
  BY Zenon, <1>4, <1>10, <1>12, <1>14, <1>17, <1>18, <1>19, <1>20, StartKeeps

(* approve_and_deposit: a deposit joins one in flight that is at least as  *)
(* large, or waits for the token's lock.                                   *)
LEMMA StartDepositKeeps ==
  ASSUME CInv, NEW c \in Call, up, calls[c].pc = "idle", StartDeposit(c)
  PROVE  CInv'
<1>1. Types /\ PhaseInv /\ ChainInv /\ EffectInv
  BY Zenon DEF CInv
<1>2. Kind(c) = "deposit" /\ UNCHANGED clientVars /\ calls[c].pc # "done" /\ calls[c].pc # "poll"
  BY Zenon DEF StartDeposit
<1>3. Refused("deposit") \in ErrorTypes /\ Fatal("precondition") \in ErrorTypes
  BY ErrorFacts DEF Reasons
<1>4. ASSUME Ended(c, Refused("deposit")) \/ Ended(c, Fatal("precondition")) PROVE CInv'
  BY Zenon, <1>2, <1>3, <1>4, EndedWithError
<1>5. ASSUME NEW g \in GivenStorages,
             calls' = [calls EXCEPT ![c] =
               IF JoinsInflight(c) THEN [Idle EXCEPT !.pc = "join", !.waits = {inflight}]
               ELSE [Idle EXCEPT !.pc = "lock", !.approve = TRUE, !.amount = Arg(c) - g.deposit]],
             inflight' = IF JoinsInflight(c) THEN inflight ELSE c,
             UNCHANGED <<open, up, stopping, crashes>>
      PROVE  CInv'
  <2>1. UNCHANGED <<inst, chain, pool, theirs, txs, nonce, poor, polls, reorgs>>
    BY Zenon, <1>2 DEF clientVars
  <2>2. PICK i \in 1 .. Window : g = chain[i].storage
    <3>1. PICK i \in 1 .. Window - Confirmations : g = chain[i].storage
      BY Zenon, <1>5 DEF GivenStorages
    <3>2. i \in 1 .. Window
      BY <3>1, WindowFacts, ClientAssumption
    <3> QED
      BY Zenon, <3>1, <3>2
  <2>3. g \in Storages
    BY <1>1, <2>2 DEF Types, ClientOK, BlockTypes
  <2>4. Arg(c) \in Int /\ g.deposit \in Int
    <3>1. Arg(c) \in Int
      BY <1>1, <1>2 DEF Types, IsInstance, Arg, Kind
    <3> QED
      BY <2>3, <3>1 DEF Storages
  <2>5. PICK a : a = Arg(c) - g.deposit
    BY Zenon
  <2>6. a \in Int
    BY <2>4, <2>5
  <2>7. calls \in [Call -> CallTypes] /\ inflight \in Call \union {None}
    BY Zenon, <1>1 DEF Types, CallsOK
  <2>8. \A d : Kind(d)' = Kind(d) /\ Arg(d)' = Arg(d)
    BY Zenon, <2>1 DEF Kind, Arg
  <2>9. calls[c].pc \notin Sending
    BY DEF Sending
  <2>10. ASSUME NEW e \in CallTypes, calls' = [calls EXCEPT ![c] = e],
                e.pc \in {"join", "lock"}, e.tx = Nothing, e.result = Nothing, e.secrets = {},
                e.pc = "join" => e.waits # {},
                \A k \in e.waits : Kind(k) = "deposit" /\ Arg(k) >= Arg(c)
         PROVE  CInv'
    <3>1. calls' \in [Call -> CallTypes] /\ calls'[c] = e /\ \A d \in Call \ {c} : calls'[d] = calls[d]
      BY <2>7, <2>10
    <3>2. inflight' \in Call \union {None} /\ (inflight' # None => Kind(inflight') = "deposit")
      BY Zenon, <1>1, <1>2, <1>5, <2>7 DEF EffectInv
    <3>3. CallsOK'
      BY Zenon, <1>1, <1>5, <2>1, <3>1, <3>2 DEF Types, CallsOK
    <3>4. SharedOK'
      <4>1. \A s \in inst.secrets : open'[s] # None => OpenInv(s)'
        BY Zenon, <1>1, <1>5, <2>1, <2>9, <3>1, SharedStays
      <4>2. inflight' # None => Kind(inflight)' = "deposit"
        BY Zenon, <2>1, <3>2 DEF Kind
      <4> QED
        BY Zenon, <2>1, <4>1, <4>2 DEF SharedOK
    <3>5. WaitsFor(c)'
      BY Zenon, <2>8, <2>10, <3>1 DEF WaitsFor
    <3>6. Kind(c) # "none" /\ Kind(c) # "secret" /\ e.pc \in {"join", "lock", "estimate"}
      BY <1>2, <2>10
    <3>7. UNCHANGED <<clientVars, up, stopping, crashes>>
      BY Zenon, <1>2, <1>5
    <3>8. Kind(c) \in {"secret", "deposit"}
      BY Zenon, <1>2
    <3> QED
      BY Zenon, <1>2, <2>10, <3>3, <3>4, <3>5, <3>6, <3>7, <3>8, StartKeeps
  <2>11. CASE JoinsInflight(c)
    <3>1. inflight \in Call /\ inflight # None /\ Arg(inflight) >= Arg(c) /\ Kind(inflight) = "deposit"
      BY Zenon, <1>1, <2>7, <2>11 DEF JoinsInflight, EffectInv
    <3>2. PICK x : x = [Idle EXCEPT !.pc = "join"]
      BY Zenon
    <3>3. x = [pc |-> "join", approve |-> FALSE, amount |-> 0, secrets |-> {}, waits |-> {},
               tx |-> Nothing, result |-> Nothing]
      BY Zenon, <3>2 DEF Idle
    <3>4. PICK e : e = [x EXCEPT !.waits = {inflight}]
      BY Zenon
    <3>5. e = [pc |-> "join", approve |-> FALSE, amount |-> 0, secrets |-> {}, waits |-> {inflight},
               tx |-> Nothing, result |-> Nothing]
      BY Zenon, <3>3, <3>4
    <3>6. e = [Idle EXCEPT !.pc = "join", !.waits = {inflight}]
      BY ONLY <3>2, <3>4
    <3>7. calls' = [calls EXCEPT ![c] = e]
      BY Zenon, <1>5, <2>11, <3>6
    <3>8. e \in CallTypes /\ e.pc = "join" /\ e.waits = {inflight} /\ e.tx = Nothing /\ e.result = Nothing
          /\ e.secrets = {}
      BY <3>1, <3>5 DEF CallTypes, Phases, ResultTypes
    <3>9. \A k \in e.waits : Kind(k) = "deposit" /\ Arg(k) >= Arg(c)
      BY Zenon, <3>1, <3>8
    <3>10. e.pc \in {"join", "lock"} /\ e.waits # {}
      BY Zenon, <3>8
    <3> QED
      BY Zenon, <2>10, <3>7, <3>8, <3>9, <3>10
  <2>12. CASE ~JoinsInflight(c)
    <3>1. PICK x : x = [Idle EXCEPT !.pc = "lock"]
      BY Zenon
    <3>2. x = [pc |-> "lock", approve |-> FALSE, amount |-> 0, secrets |-> {}, waits |-> {},
               tx |-> Nothing, result |-> Nothing]
      BY Zenon, <3>1 DEF Idle
    <3>3. PICK y : y = [x EXCEPT !.approve = TRUE]
      BY Zenon
    <3>4. y = [pc |-> "lock", approve |-> TRUE, amount |-> 0, secrets |-> {}, waits |-> {},
               tx |-> Nothing, result |-> Nothing]
      BY Zenon, <3>2, <3>3
    <3>5. PICK e : e = [y EXCEPT !.amount = a]
      BY Zenon
    <3>6. e = [pc |-> "lock", approve |-> TRUE, amount |-> a, secrets |-> {}, waits |-> {},
               tx |-> Nothing, result |-> Nothing]
      BY Zenon, <3>4, <3>5
    <3>7. e = [Idle EXCEPT !.pc = "lock", !.approve = TRUE, !.amount = a]
      BY ONLY <3>1, <3>3, <3>5
    <3>8. calls' = [calls EXCEPT ![c] = e]
      BY Zenon, <1>5, <2>5, <2>12, <3>7
    <3>9. e \in CallTypes /\ e.pc = "lock" /\ e.waits = {} /\ e.tx = Nothing /\ e.result = Nothing
          /\ e.secrets = {}
      BY <2>6, <3>6 DEF CallTypes, Phases, ResultTypes
    <3>10. e.pc \in {"join", "lock"} /\ e.pc # "join"
      BY Zenon, <3>9
    <3> QED
      BY Zenon, <2>10, <3>8, <3>9, <3>10
  <2> QED
    BY Zenon, <2>11, <2>12
<1> QED
  BY Zenon, <1>4, <1>5 DEF StartDeposit

(* plan_withdraw, withdraw, add_token and mint_for up to their first wait. *)
LEMMA StartOthersKeep ==
  ASSUME CInv, NEW c \in Call, up, calls[c].pc = "idle", StartWithdraw(c) \/ StartToken(c)
  PROVE  CInv'
<1>1. /\ Kind(c) \in {"plan", "withdraw", "token", "mint"} /\ UNCHANGED clientVars
      /\ \/ Ended(c, Refused("withdraw")) \/ Ended(c, Refused("token")) \/ Ended(c, Fatal("precondition"))
         \/ \E pc \in {"lock", "estimate"} : ToPc(c, pc) /\ UNCHANGED <<inflight, open, up, stopping, crashes>>
  BY Zenon DEF StartWithdraw, StartToken
<1>2. Kind(c) # "none" /\ Kind(c) # "secret"
  BY <1>1
<1>3. Refused("withdraw") \in ErrorTypes /\ Refused("token") \in ErrorTypes /\ Fatal("precondition") \in ErrorTypes
  BY ErrorFacts DEF Reasons
<1>4. calls[c].pc # "done" /\ calls[c].pc # "poll" /\ calls[c].pc # "estimate" /\ calls[c].pc \in {"idle", "lock", "estimate"}
  BY Zenon
<1>5. ASSUME NEW r \in ErrorTypes, Ended(c, r) PROVE CInv'
  BY Zenon, <1>1, <1>4, <1>5, EndedWithError
<1>6. ASSUME NEW pc \in {"lock", "estimate"}, ToPc(c, pc), UNCHANGED <<inflight, open, up, stopping, crashes>>
      PROVE  CInv'
  <2>1. pc \in {"lock", "estimate", "send", "diagnose"}
    BY Zenon, <1>6
  <2>2. UNCHANGED <<clientVars, inflight, open, up, stopping, crashes>>
    BY Zenon, <1>1, <1>6
  <2> QED
    BY Zenon, <1>2, <1>4, <1>6, <2>1, <2>2, PcKeeps
<1> QED
  BY Zenon, <1>1, <1>3, <1>5, <1>6

(* A call that cannot send its transaction: the estimation failed, or      *)
(* transact was refused.                                                   *)
LEMMA NotSentKeeps ==
  ASSUME CInv, NEW c \in Call, Diagnose(c) \/ SendRejected(c)
  PROVE  CInv'
<1>1. up /\ calls[c].pc \in {"diagnose", "send"} /\ UNCHANGED clientVars
  BY Zenon DEF Diagnose, SendRejected, Step, TransactRejected
<1>2. calls[c].pc # "done" /\ calls[c].pc # "poll" /\ Kind(c) # "none"
  BY <1>1 DEF CInv, PhaseInv, Phase, Phases, Sending
<1>3. EstimationError(Op(c), OpArg(c), Storage) \in ErrorTypes
  BY Zenon, <1>2, OpFacts, ProxyErrors DEF CInv
<1>4. InsufficientEth \in ErrorTypes /\ Fatal("send") \in ErrorTypes /\ Fatal("nonce") \in ErrorTypes
  BY ErrorFacts DEF Reasons
<1>5. \A e \in TransactErrors : e \in ErrorTypes
  BY <1>4 DEF TransactErrors
<1>6. PICK r \in ErrorTypes : Ended(c, r)
  <2>1. CASE Diagnose(c)
    BY Zenon, <1>3, <1>4, <2>1 DEF Diagnose
  <2>2. CASE SendRejected(c)
    BY Zenon, <1>4, <1>5, <2>2 DEF SendRejected
  <2> QED
    BY Zenon, <2>1, <2>2
<1> QED
  BY Zenon, <1>1, <1>2, <1>6, EndedWithError

(* A call that waited for others returns when what it asked for is there:  *)
(* the secrets were promised by greenlets that succeeded, the deposit in   *)
(* flight was at least as large.                                           *)
LEMMA JoinKeeps ==
  ASSUME CInv, NEW c \in Call, Join(c)
  PROVE  CInv'
<1>1. Types /\ PhaseInv /\ EffectInv
  BY Zenon DEF CInv
<1>2. up /\ calls[c].pc = "join" /\ UNCHANGED clientVars /\ calls[c].pc # "done" /\ calls[c].pc # "poll"
  BY Zenon DEF Join, Step
<1>3. calls[c].waits \subseteq Call
  BY <1>1 DEF Types, CallsOK, CallTypes
<1>4. ASSUME NEW k \in calls[c].waits, calls[k].tx \notin {Nothing, Ok}, Ended(c, calls[k].tx) PROVE CInv'
  <2>1. calls[k].tx \in ResultTypes
    BY <1>1, <1>3, <1>4 DEF Types, CallsOK, CallTypes
  <2>2. PICK r \in ErrorTypes : r = calls[k].tx
    BY Zenon, <1>4, <2>1 DEF ResultTypes
  <2> QED
    BY Zenon, <1>2, <1>4, <2>2, EndedWithError
<1>5. ASSUME \A k \in calls[c].waits : calls[k].tx = Ok, Ended(c, Ok) PROVE CInv'
  <2>1. Justified(c) /\ Phase(c)
    BY Zenon, <1>1 DEF EffectInv, PhaseInv
  <2>2. ASSUME Kind(c) = "secret" PROVE Arg(c) \subseteq FinalStorage.secrets
    <3>1. SecretInv(c) /\ calls[c].pc \notin Sending
      BY <1>2, <2>1, <2>2 DEF Justified, Sending
    <3> QED
      BY Zenon, <1>5, <3>1 DEF SecretInv, Promises
  <2>3. ASSUME Kind(c) = "deposit" PROVE FinalStorage.deposit >= Arg(c)
    <3>1. PICK k \in calls[c].waits : Kind(k) = "deposit" /\ Arg(k) >= Arg(c)
      BY Zenon, <1>2, <2>1, <2>3 DEF Justified, WaitsFor
    <3>2. k \in Call /\ calls[k].tx = Ok /\ Kind(k) # "secret"
      BY Zenon, <1>3, <1>5, <3>1
    <3>3. calls[k].result = Ok
      BY Zenon, <1>1, <3>2 DEF PhaseInv, Phase
    <3>4. FinalStorage.deposit >= Arg(k)
      BY Zenon, <1>1, <3>1, <3>2, <3>3 DEF EffectInv, Justified, HasEffect
    <3>5. Arg(k) \in Int /\ Arg(c) \in Int
      BY <1>1, <2>3, <3>1, <3>2 DEF Types, IsInstance, Arg, Kind
    <3>6. FinalStorage.deposit \in Int
      BY <1>1, FinalStorageOK DEF Types, Storages
    <3> QED
      BY <3>1, <3>4, <3>5, <3>6
  <2>4. Kind(c) # "token"
    BY <1>2, <2>1 DEF Phase
  <2>5. calls[c].tx = Nothing => polls[c].nonce = 0
    BY Zenon, <1>2, <2>1 DEF Phase
  <2>6. MayReturn(c)
    BY Zenon, <1>2, <2>2, <2>3, <2>4, <2>5 DEF MayReturn
  <2>7. Ok \in ResultTypes /\ Ok # Nothing
    BY Zenon, ErrorFacts DEF ResultTypes
  <2> QED
    BY Zenon, <1>2, <1>5, <2>6, <2>7, EndedUnchanged
<1> QED
  BY Zenon, <1>4, <1>5 DEF Join

(* The record of a poll. *)
LEMMA PollRecord ==
  ASSUME Types, NEW c \in Call, NEW p \in PollTypes, polls' = [polls EXCEPT ![c] = p]
  PROVE  polls' \in [Call -> PollTypes] /\ polls'[c] = p /\ \A d \in Call \ {c} : polls'[d] = polls[d]
BY DEF Types, ClientOK

(* ... and the one of a poll that starts again. *)
LEMMA PollForgets ==
  ASSUME Types, NEW c \in Call, NEW p, p = [NoPoll EXCEPT !.nonce = polls[c].nonce]
  PROVE  p \in PollTypes /\ p.nonce = polls[c].nonce /\ p.seen = FALSE
<1>1. polls[c].nonce \in 0 .. MaxTx
  BY DEF Types, ClientOK, PollTypes
<1>2. p = [nonce |-> polls[c].nonce, seen |-> FALSE, depth |-> 0, since |-> 0, storage |-> None]
  BY Zenon DEF NoPoll
<1>3. 0 \in 0 .. Confirmations /\ 0 \in 0 .. PollDelay
  BY ClientAssumption
<1>4. PICK n \in 0 .. MaxTx : n = polls[c].nonce
  BY Zenon, <1>1
<1>5. [nonce |-> n, seen |-> FALSE, depth |-> 0, since |-> 0, storage |-> None] \in PollTypes
  BY <1>3, <1>4 DEF PollTypes
<1>6. p = [nonce |-> n, seen |-> FALSE, depth |-> 0, since |-> 0, storage |-> None]
  BY Zenon, <1>2, <1>4
<1>7. p.nonce = n /\ p.seen = FALSE
  BY ONLY <1>6
<1> QED
  BY Zenon, <1>4, <1>5, <1>6, <1>7

(* A step of poll_transaction that only reads. *)
LEMMA ReadKeeps ==
  ASSUME CInv, NEW c \in Call, up, calls[c].pc = "poll", NEW p \in PollTypes, polls' = [polls EXCEPT ![c] = p],
         p.nonce = polls[c].nonce,
         UNCHANGED <<inst, chain, pool, txs, nonce, calls, inflight, open, up, stopping, crashes>>,
         p.seen /\ p.depth >= MaxReorg + p.since => Stays(p.nonce, MaxReorg + p.since, p.storage = None)
  PROVE  CInv'
<1>1. Types /\ PhaseInv /\ NonceInv /\ ChainInv /\ PollInv /\ EffectInv
  BY Zenon DEF CInv
<1>2. polls' \in [Call -> PollTypes] /\ polls'[c] = p /\ \A d \in Call \ {c} : polls'[d] = polls[d]
  BY Zenon, <1>1, PollRecord
<1>3. up = TRUE /\ up' = TRUE
  BY Zenon, <1>1 DEF Types, CallsOK
<1>4. OnlyCall(c)
  BY Zenon, <1>2, <1>3 DEF OnlyCall
<1>5. Types'
  BY Zenon, <1>1, <1>2 DEF Types, IsInstance, TxsOK, ClientOK, CallsOK
<1>6. ChainInv' /\ NoncesOK'
  BY Zenon, <1>1, <1>3, BlocksStay, NoncesStay DEF NonceInv
<1>7. \A d : Kind(d)' = Kind(d) /\ Arg(d)' = Arg(d) /\ Op(d)' = Op(d) /\ OpArg(d)' = OpArg(d)
  BY DEF Kind, Arg, Op, OpArg
<1>8. Phase(c)'
  BY Zenon, <1>1, <1>2, <1>7 DEF PhaseInv, Phase
<1>9. calls[c].tx = Nothing /\ Nothing # Ok
  BY Zenon, <1>1, OpenCall, ErrorFacts
<1>10. Polled(c)'
  <2>1. ASSUME p.seen, p.depth >= MaxReorg + p.since
        PROVE  Stays(polls[c].nonce, MaxReorg + polls[c].since, polls[c].storage = None)'
    <3>1. PICK n, d, ok : n = p.nonce /\ d = MaxReorg + p.since /\ ok = (p.storage = None)
      BY Zenon
    <3>2. Stays(n, d, ok)
      BY Zenon, <2>1, <3>1
    <3>3. Stays(n, d, ok)'
      BY Zenon, <3>2 DEF Stays
    <3> QED
      BY Zenon, <1>2, <3>1, <3>3 DEF Stays
  <2> QED
    BY Zenon, <1>2, <1>9, <2>1 DEF Polled
<1>11. (calls[c].pc = "poll" => PollsItsOwn(c))'
  BY Zenon, <1>1, <1>2, <1>7 DEF NonceInv, PollsItsOwn
<1>12. FinalStorage' = FinalStorage
  BY DEF FinalStorage
<1>13. \A k, s : Promises(k, s)' <=> Promises(k, s)
  BY Zenon, <1>12 DEF Promises
<1>14. Justified(c)'
  BY Zenon, <1>1, <1>7, <1>12, <1>13 DEF EffectInv, Justified, HasEffect, WaitsFor, SecretInv
<1>15. SharedOK'
  BY Zenon, <1>1, <1>7 DEF EffectInv, SharedOK, OpenInv, Kind
<1> QED
  BY Zenon, <1>4, <1>5, <1>6, <1>8, <1>10, <1>11, <1>13, <1>14, <1>15, CallKeeps

(* poll_transaction reads the receipt, or sleeps and starts again.         *)
LEMMA PollKeeps ==
  ASSUME CInv, NEW c \in Call, Poll(c)
  PROVE  CInv'
<1>1. Types /\ PhaseInv /\ NonceInv /\ ChainInv
  BY Zenon DEF CInv
<1>2. /\ up /\ calls[c].pc = "poll" /\ UNCHANGED <<calls, inflight, open, up, stopping, crashes>>
      /\ UNCHANGED <<inst, chain, pool, txs, nonce>>
  BY Zenon DEF Poll, Step, PollReceipt, PollAgain
<1>3. CASE PollAgain(c)
  <2>1. PICK p : p = [NoPoll EXCEPT !.nonce = polls[c].nonce]
    BY Zenon
  <2>2. polls' = [polls EXCEPT ![c] = p]
    BY Zenon, <1>3, <2>1 DEF PollAgain
  <2>3. p \in PollTypes /\ p.nonce = polls[c].nonce /\ p.seen = FALSE
    BY Zenon, <1>1, <2>1, PollForgets
  <2> QED
    BY Zenon, <1>2, <2>2, <2>3, ReadKeeps
<1>4. CASE PollReceipt(c)
  <2>1. PICK n \in Nonce : n = polls[c].nonce
    BY Zenon, <1>1, <1>2, PolledNonce
  <2>2. PICK failed, at :
          /\ failed = (IF txs[n].old THEN txs[n].storage # None ELSE n \in chain[BlockIndex(n)].failed)
          /\ at = (IF txs[n].old THEN txs[n].storage ELSE chain[BlockIndex(n)].storage)
    BY Zenon
  <2>3. PICK dp, st : dp = Min({Depth(n), Confirmations}) /\ st = (IF failed THEN at ELSE None)
    BY Zenon
  <2>4. PICK p : p = [nonce |-> n, seen |-> TRUE, since |-> 0, depth |-> dp, storage |-> st]
    BY Zenon
  <2>5. Mined(n) /\ polls' = [polls EXCEPT ![c] = p]
    BY Zenon, <1>4, <2>1, <2>2, <2>3, <2>4 DEF PollReceipt
  <2>6. Depth(n) \in Nat /\ (~txs[n].old => BlockIndex(n) \in 1 .. Window)
    <3>1. CASE txs[n].old
      BY <3>1, WindowFacts DEF Depth
    <3>2. CASE ~txs[n].old
      <4>1. PICK i \in 1 .. Window : InBlock(n, chain[i])
        BY Zenon, <2>5, <3>2 DEF Mined
      <4>2. BlockIndex(n) \in 1 .. Window
        BY Zenon, <4>1 DEF BlockIndex
      <4>3. Depth(n) = Window - BlockIndex(n)
        BY Zenon, <3>2 DEF Depth
      <4> QED
        BY <4>2, <4>3, WindowFacts
    <3> QED
      BY Zenon, <3>1, <3>2
  <2>7. dp = IF Depth(n) <= Confirmations THEN Depth(n) ELSE Confirmations
    <3>1. Depth(n) \in Int /\ Confirmations \in Int
      BY <2>6, ClientAssumption
    <3> QED
      BY Zenon, <2>3, <3>1, MinOfTwo
  <2>8. dp \in 0 .. Confirmations /\ dp <= Depth(n) /\ 0 \in 0 .. PollDelay
    BY <2>6, <2>7, ClientAssumption
  <2>9. at \in Storages \union {None} /\ (failed => at # None)
    <3>1. CASE txs[n].old
      <4>1. txs[n].storage \in Storages \union {None}
        BY <1>1 DEF Types, TxsOK, TxTypes
      <4> QED
        BY Zenon, <2>2, <3>1, <4>1
    <3>2. CASE ~txs[n].old
      <4>1. chain[BlockIndex(n)].storage \in Storages
        BY <1>1, <2>6, <3>2 DEF Types, ClientOK, BlockTypes
      <4> QED
        BY Zenon, <2>2, <3>2, <4>1, InstancesAssumption
    <3> QED
      BY Zenon, <3>1, <3>2
  <2>10. st \in Storages \union {None} /\ (st = None => Successful(n))
    <3>1. ~failed => Successful(n)
      BY Zenon, <2>2 DEF Successful
    <3> QED
      BY Zenon, <2>3, <2>9, <3>1
  <2>11. n \in 0 .. MaxTx
    BY Zenon, NonceFacts
  <2>12. p \in PollTypes /\ p.nonce = n /\ p.since = 0 /\ p.depth = dp /\ p.storage = st
    BY <2>4, <2>8, <2>10, <2>11 DEF PollTypes
  <2>13. MaxReorg + 0 = MaxReorg /\ MaxReorg \in Nat
    BY ClientAssumption
  <2>14. ASSUME dp >= MaxReorg PROVE Stays(n, MaxReorg, st = None)
    <3>1. Depth(n) >= MaxReorg
      BY <2>6, <2>8, <2>13, <2>14
    <3>2. PICK ok : ok = (st = None)
      BY Zenon
    <3> QED
      BY Zenon, <1>1, <2>5, <2>10, <2>13, <3>1, <3>2, StaysDepth DEF Types
  <2>15. p.seen /\ p.depth >= MaxReorg + p.since => Stays(p.nonce, MaxReorg + p.since, p.storage = None)
    BY Zenon, <2>12, <2>13, <2>14
  <2> QED
    BY Zenon, <1>2, <2>1, <2>5, <2>12, <2>15, ReadKeeps
<1> QED
  BY Zenon, <1>3, <1>4 DEF Poll

(* poll_transaction returns: a transaction it finds successful is so deep  *)
(* that its effect is there for good.                                      *)
LEMMA PollDoneFacts ==
  ASSUME CInv, NEW c \in Call, PollDone(c)
  PROVE  /\ up /\ calls[c].pc = "poll" /\ polls[c].nonce \in Nonce /\ PollsItsOwn(c)
         /\ Kind(c) # "none" /\ calls[c].tx = Nothing /\ calls[c].result = Nothing
         /\ UNCHANGED <<inst, chain, pool, txs, nonce>>
         /\ polls' \in [Call -> PollTypes] /\ \A d \in Call \ {c} : polls'[d] = polls[d]
         /\ polls'[c].nonce = polls[c].nonce /\ polls'[c].seen = FALSE
         /\ polls[c].storage = None =>
              /\ Stays(polls[c].nonce, MaxReorg, TRUE)
              /\ Effect(txs[polls[c].nonce], FinalStorage)
<1>1. Types /\ PhaseInv /\ NonceInv /\ ChainInv /\ PollInv
  BY Zenon DEF CInv
<1>2. /\ up /\ calls[c].pc = "poll" /\ polls[c].seen /\ PollConfirmed(c)
      /\ polls' = [polls EXCEPT ![c] = [NoPoll EXCEPT !.nonce = polls[c].nonce]]
      /\ UNCHANGED <<inst, chain, pool, txs, nonce>>
  BY Zenon DEF PollDone, Step
<1>3. PICK n \in Nonce : n = polls[c].nonce /\ PollsItsOwn(c)
  BY Zenon, <1>1, <1>2, PolledNonce
<1>4. calls[c].pc # "done" /\ calls[c].pc # "join" /\ Kind(c) # "none"
  BY <1>1, <1>2 DEF PhaseInv, Phase, Phases, Sending
<1>5. calls[c].tx = Nothing /\ calls[c].result = Nothing
  BY Zenon, <1>1, <1>4, OpenCall
<1>6. PICK p : p = [NoPoll EXCEPT !.nonce = polls[c].nonce]
  BY Zenon
<1>7. p \in PollTypes /\ p.nonce = polls[c].nonce /\ p.seen = FALSE
  BY Zenon, <1>1, <1>6, PollForgets
<1>8. polls' \in [Call -> PollTypes] /\ polls'[c] = p /\ \A d \in Call \ {c} : polls'[d] = polls[d]
  BY Zenon, <1>1, <1>2, <1>6, <1>7, PollRecord
<1>9. ASSUME polls[c].storage = None PROVE Stays(n, MaxReorg, TRUE) /\ Effect(txs[n], FinalStorage)
  <2>1. polls[c].since \in 0 .. PollDelay /\ polls[c].depth \in 0 .. Confirmations
    BY <1>1 DEF Types, ClientOK, PollTypes
  <2>2. PICK e \in Nat : e = polls[c].since
    BY <2>1, ClientAssumption
  <2>3. polls[c].depth >= MaxReorg + polls[c].since /\ MaxReorg \in Nat /\ TRUE \in BOOLEAN
    BY <1>2, <2>1, ClientAssumption DEF PollConfirmed
  <2>4. Stays(n, MaxReorg + e, TRUE)
    BY Zenon, <1>1, <1>2, <1>3, <1>9, <2>2, <2>3 DEF PollInv, Polled
  <2>5. Stays(n, MaxReorg, TRUE)
    BY Zenon, <1>1, <2>3, <2>4, StaysLess DEF Types
  <2>6. Window - MaxReorg \in 1 .. Window /\ Window - MaxReorg >= Window - MaxReorg
    BY WindowFacts, ClientAssumption
  <2> QED
    BY Zenon, <1>1, <2>3, <2>5, <2>6, StaysEffect DEF Types, FinalStorage
<1> QED
  BY Zenon, <1>2, <1>3, <1>4, <1>5, <1>7, <1>8, <1>9

(* A reverted transaction: the call ends with an error.                    *)
LEMMA RevertedKeeps ==
  ASSUME CInv, NEW c \in Call, Reverted(c)
  PROVE  CInv'
<1>1. PollDone(c) /\ Ended(c, RevertError(Op(c), OpArg(c), polls[c].storage))
  BY Zenon DEF Reverted
<1>2. /\ up /\ calls[c].pc = "poll" /\ Kind(c) # "none" /\ UNCHANGED <<inst, chain, pool, txs, nonce>>
      /\ polls' \in [Call -> PollTypes] /\ \A d \in Call \ {c} : polls'[d] = polls[d]
      /\ polls'[c].nonce = polls[c].nonce /\ polls'[c].seen = FALSE
  BY Zenon, <1>1, PollDoneFacts
<1>3. PICK r \in ErrorTypes : r = RevertError(Op(c), OpArg(c), polls[c].storage)
  BY Zenon, <1>2, OpFacts, ProxyErrors DEF CInv
<1>4. r \in ResultTypes /\ r # Nothing /\ r # Ok
  BY Zenon, ErrorFacts DEF ResultTypes
<1>5. calls[c].pc # "done"
  BY Zenon, <1>2
<1> QED
  BY Zenon, <1>1, <1>2, <1>3, <1>4, <1>5, EndedQuietly

(* A transaction that was successful: the call returns, and its effect is  *)
(* there.                                                                  *)
LEMMA SucceededKeeps ==
  ASSUME CInv, NEW c \in Call, Succeeded(c)
  PROVE  CInv'
<1>1. PollDone(c) /\ polls[c].storage = None /\ ~calls[c].approve /\ Kind(c) # "secret" /\ Ended(c, Ok)
  BY Zenon DEF Succeeded
<1>2. /\ up /\ calls[c].pc = "poll" /\ Kind(c) # "none" /\ UNCHANGED <<inst, chain, pool, txs, nonce>>
      /\ polls' \in [Call -> PollTypes] /\ \A d \in Call \ {c} : polls'[d] = polls[d]
      /\ polls'[c].nonce = polls[c].nonce /\ polls'[c].seen = FALSE /\ polls[c].nonce \in Nonce
      /\ PollsItsOwn(c) /\ Stays(polls[c].nonce, MaxReorg, TRUE) /\ Effect(txs[polls[c].nonce], FinalStorage)
  BY Zenon, <1>1, PollDoneFacts
<1>3. txs[polls[c].nonce].call = c /\ txs[polls[c].nonce].op = Op(c) /\ txs[polls[c].nonce].arg = OpArg(c)
  BY Zenon, <1>2 DEF PollsItsOwn
<1>4. /\ OpArg(c) = Arg(c) /\ (Kind(c) = "deposit" => Op(c) = "deposit")
      /\ Kind(c) = "token" => Op(c) = "createERC20TokenNetwork"
  BY Zenon, <1>1, <1>2, OpFacts DEF CInv
<1>5. MayReturn(c)
  BY Zenon, <1>1, <1>2, <1>3, <1>4 DEF MayReturn, Effect
<1>6. Ok \in ResultTypes /\ Ok # Nothing /\ calls[c].pc # "done"
  BY Zenon, <1>2, ErrorFacts DEF ResultTypes
<1> QED
  BY Zenon, <1>1, <1>2, <1>5, <1>6, EndedQuietly

(* A step of poll_transaction that returns keeps the client's part. *)
LEMMA PollDoneClient ==
  ASSUME CInv, NEW c \in Call, PollDone(c), up' = up, UNCHANGED stopping,
         \A d \in Call \ {c} : calls'[d] = calls[d]
  PROVE  OnlyCall(c) /\ IsInstance(inst)' /\ TxsOK' /\ ClientOK' /\ ChainInv' /\ NoncesOK'
<1>1. Types /\ NonceInv /\ ChainInv
  BY Zenon DEF CInv
<1>2. /\ up /\ UNCHANGED <<inst, chain, pool, txs, nonce>>
      /\ polls' \in [Call -> PollTypes] /\ \A d \in Call \ {c} : polls'[d] = polls[d]
  BY Zenon, PollDoneFacts
<1>3. up = TRUE /\ up' = TRUE
  BY Zenon, <1>1, <1>2 DEF Types, CallsOK
<1>4. OnlyCall(c)
  BY Zenon, <1>2, <1>3 DEF OnlyCall
<1>5. IsInstance(inst)' /\ TxsOK' /\ ClientOK'
  BY Zenon, <1>1, <1>2 DEF Types, IsInstance, TxsOK, ClientOK
<1>6. ChainInv' /\ NoncesOK'
  BY Zenon, <1>1, <1>2, <1>3, BlocksStay, NoncesStay DEF NonceInv
<1> QED
  BY Zenon, <1>4, <1>5, <1>6

(* approve_and_deposit goes on when the approval is confirmed. *)
LEMMA ApprovedKeeps ==
  ASSUME CInv, NEW c \in Call, Approved(c)
  PROVE  CInv'
<1>1. Types /\ PhaseInv /\ NonceInv /\ ChainInv /\ PollInv /\ EffectInv
  BY Zenon DEF CInv
<1>2. /\ PollDone(c) /\ calls[c].approve /\ UNCHANGED <<inflight, open, up, stopping, crashes>>
      /\ calls' = [calls EXCEPT ![c].pc = "estimate", ![c].approve = FALSE]
  BY Zenon DEF Approved
<1>3. /\ calls[c].pc = "poll" /\ Kind(c) # "none" /\ calls[c].tx = Nothing /\ calls[c].result = Nothing
      /\ UNCHANGED <<inst, chain, pool, txs, nonce>> /\ polls'[c].seen = FALSE
  BY Zenon, <1>2, PollDoneFacts
<1>4. calls \in [Call -> CallTypes]
  BY Zenon, <1>1 DEF Types, CallsOK
<1>5. PICK a : a = [calls EXCEPT ![c].pc = "estimate"]
  BY Zenon
<1>6. /\ a \in [Call -> CallTypes] /\ \A d \in Call \ {c} : a[d] = calls[d]
      /\ a[c].pc = "estimate" /\ a[c].tx = calls[c].tx /\ a[c].result = calls[c].result
      /\ a[c].secrets = calls[c].secrets /\ a[c].waits = calls[c].waits
  BY <1>4, <1>5 DEF CallTypes, Phases, Sending
<1>7. PICK b : b = [a EXCEPT ![c].approve = FALSE]
  BY Zenon
<1>8. /\ b \in [Call -> CallTypes] /\ \A d \in Call \ {c} : b[d] = a[d]
      /\ b[c].pc = "estimate" /\ b[c].approve = FALSE /\ b[c].tx = a[c].tx /\ b[c].result = a[c].result
      /\ b[c].secrets = a[c].secrets /\ b[c].waits = a[c].waits
  <2>1. PICK f \in BOOLEAN : f = FALSE
    BY Zenon
  <2>2. PICK r : r = [a[c] EXCEPT !.approve = f]
    BY Zenon
  <2>3. /\ r \in CallTypes /\ r.pc = a[c].pc /\ r.approve = f /\ r.tx = a[c].tx
        /\ r.result = a[c].result /\ r.secrets = a[c].secrets /\ r.waits = a[c].waits
    BY <1>6, <2>2 DEF CallTypes
  <2>4. b = [a EXCEPT ![c] = r]
    BY Zenon, <1>7, <2>1, <2>2
  <2>5. b \in [Call -> CallTypes] /\ b[c] = r /\ \A d \in Call \ {c} : b[d] = a[d]
    BY <1>6, <2>3, <2>4
  <2> QED
    BY Zenon, <1>6, <2>1, <2>3, <2>5
<1>9. b = [calls EXCEPT ![c].pc = "estimate", ![c].approve = FALSE]
  BY ONLY <1>5, <1>7
<1>10. /\ calls' \in [Call -> CallTypes] /\ \A d \in Call \ {c} : calls'[d] = calls[d]
       /\ calls'[c].pc = "estimate" /\ calls'[c].approve = FALSE /\ calls'[c].tx = Nothing
       /\ calls'[c].result = Nothing
       /\ calls'[c].secrets = calls[c].secrets /\ calls'[c].waits = calls[c].waits
  BY Zenon, <1>2, <1>3, <1>6, <1>8, <1>9
<1>11. Kind(c) = "deposit" /\ Kind(c) # "secret" /\ calls[c].secrets = {}
  BY Zenon, <1>1, <1>2 DEF PhaseInv, Phase
<1>12. \A d : Kind(d)' = Kind(d) /\ Arg(d)' = Arg(d)
  BY Zenon, <1>3 DEF Kind, Arg
<1>13. OnlyCall(c) /\ Types' /\ ChainInv' /\ NoncesOK'
  <2>1. OnlyCall(c) /\ IsInstance(inst)' /\ TxsOK' /\ ClientOK' /\ ChainInv' /\ NoncesOK'
    BY Zenon, <1>2, <1>10, PollDoneClient
  <2> QED
    BY Zenon, <1>1, <1>2, <1>3, <1>10, <2>1 DEF Types, CallsOK
<1>14. Nothing # Ok
  BY Zenon, ErrorFacts
<1>15. Phase(c)'
  <2>1. calls'[c].pc \notin {"done", "join", "lock", "idle", "poll"}
    BY Zenon, <1>10
  <2> QED
    BY Zenon, <1>3, <1>10, <1>11, <1>12, <1>13, <1>14, <2>1 DEF Phase, OnlyCall
<1>16. Polled(c)'
  BY Zenon, <1>3, <1>10, <1>14 DEF Polled
<1>17. ASSUME NEW s PROVE ~Promises(c, s)
  BY Zenon, <1>3, <1>11 DEF Promises
<1>18. Justified(c)'
  <2>1. WaitsFor(c)
    BY Zenon, <1>1 DEF EffectInv, Justified
  <2>2. WaitsFor(c)' /\ HasEffect(c)'
    BY Zenon, <1>10, <1>12, <1>14, <2>1 DEF WaitsFor, HasEffect
  <2> QED
    BY Zenon, <1>11, <1>12, <2>2 DEF Justified
<1>19. SharedOK'
  <2>1. ASSUME NEW s \in inst.secrets, open[s] # None PROVE OpenInv(s)'
    <3>1. OpenInv(s) /\ open[s] \in Call
      BY Zenon, <1>1, <2>1 DEF EffectInv, Types, CallsOK
    <3>2. calls'[open[s]] = calls[open[s]]
      BY Zenon, <1>10, <1>11, <3>1 DEF OpenInv
    <3> QED
      BY Zenon, <1>2, <1>3, <3>1, <3>2 DEF OpenInv, Kind
  <2> QED
    BY Zenon, <1>1, <1>2, <1>3, <2>1 DEF EffectInv, SharedOK, Kind
<1>20. (calls[c].pc = "poll" => PollsItsOwn(c))'
  BY Zenon, <1>10
<1> QED
  BY Zenon, <1>13, <1>15, <1>16, <1>17, <1>18, <1>19, <1>20, CallKeeps

(* register_secret_batch has its result: those who wait for it find its    *)
(* secrets registered for good.                                            *)
LEMMA RegisteredKeeps ==
  ASSUME CInv, NEW c \in Call, Registered(c)
  PROVE  CInv'
<1>1. Types /\ PhaseInv /\ NonceInv /\ ChainInv /\ PollInv /\ EffectInv
  BY Zenon DEF CInv
<1>2. /\ PollDone(c) /\ polls[c].storage = None /\ Kind(c) = "secret"
      /\ UNCHANGED <<inflight, up, stopping, crashes>>
      /\ calls' = [calls EXCEPT ![c].pc = "join", ![c].tx = Ok]
      /\ open' = [s \in DOMAIN open |-> IF open[s] = c THEN None ELSE open[s]]
  BY Zenon DEF Registered
<1>3. /\ calls[c].pc = "poll" /\ Kind(c) # "none" /\ calls[c].tx = Nothing /\ calls[c].result = Nothing
      /\ UNCHANGED <<inst, chain, pool, txs, nonce>> /\ polls'[c].seen = FALSE
      /\ polls'[c].nonce = polls[c].nonce
      /\ polls[c].nonce \in Nonce /\ PollsItsOwn(c)
      /\ Stays(polls[c].nonce, MaxReorg, TRUE) /\ Effect(txs[polls[c].nonce], FinalStorage)
  BY Zenon, <1>2, PollDoneFacts
<1>4. calls \in [Call -> CallTypes] /\ open \in [inst.secrets -> Call \union {None}]
  BY Zenon, <1>1 DEF Types, CallsOK
<1>5. PICK a : a = [calls EXCEPT ![c].pc = "join"]
  BY Zenon
<1>6. /\ a \in [Call -> CallTypes] /\ \A d \in Call \ {c} : a[d] = calls[d]
      /\ a[c].pc = "join" /\ a[c].approve = calls[c].approve /\ a[c].result = calls[c].result
      /\ a[c].secrets = calls[c].secrets /\ a[c].waits = calls[c].waits
  BY <1>4, <1>5 DEF CallTypes, Phases
<1>7. PICK b : b = [a EXCEPT ![c].tx = Ok]
  BY Zenon
<1>8. /\ b \in [Call -> CallTypes] /\ \A d \in Call \ {c} : b[d] = a[d]
      /\ b[c].pc = "join" /\ b[c].approve = a[c].approve /\ b[c].tx = Ok /\ b[c].result = a[c].result
      /\ b[c].secrets = a[c].secrets /\ b[c].waits = a[c].waits
  BY <1>6, <1>7 DEF CallTypes, ResultTypes
<1>9. b = [calls EXCEPT ![c].pc = "join", ![c].tx = Ok]
  BY ONLY <1>5, <1>7
<1>10. /\ calls' \in [Call -> CallTypes] /\ \A d \in Call \ {c} : calls'[d] = calls[d]
       /\ calls'[c].pc = "join" /\ calls'[c].approve = calls[c].approve /\ calls'[c].tx = Ok
       /\ calls'[c].result = Nothing
       /\ calls'[c].secrets = calls[c].secrets /\ calls'[c].waits = calls[c].waits
  <2>1. calls' = b
    BY Zenon, <1>2, <1>9
  <2>2. b \in [Call -> CallTypes] /\ \A d \in Call \ {c} : b[d] = calls[d]
    BY Zenon, <1>6, <1>8
  <2>3. b[c].pc = "join" /\ b[c].approve = calls[c].approve /\ b[c].tx = Ok /\ b[c].result = Nothing
    BY Zenon, <1>3, <1>6, <1>8
  <2>4. b[c].secrets = calls[c].secrets /\ b[c].waits = calls[c].waits
    BY Zenon, <1>6, <1>8
  <2> QED
    BY Zenon, <2>1, <2>2, <2>3, <2>4
<1>11. calls[c].approve => Kind(c) = "deposit"
  BY Zenon, <1>1 DEF PhaseInv, Phase
<1>12. \A d : Kind(d)' = Kind(d) /\ Arg(d)' = Arg(d)
  BY Zenon, <1>3 DEF Kind, Arg
<1>13. open' \in [inst.secrets -> Call \union {None}]
       /\ \A s \in inst.secrets : open'[s] # None => open'[s] = open[s] /\ open[s] # c
  BY <1>2, <1>4
<1>14. OnlyCall(c) /\ Types' /\ ChainInv' /\ NoncesOK'
  <2>1. OnlyCall(c) /\ IsInstance(inst)' /\ TxsOK' /\ ClientOK' /\ ChainInv' /\ NoncesOK'
    BY Zenon, <1>2, <1>10, PollDoneClient
  <2> QED
    BY Zenon, <1>1, <1>2, <1>3, <1>10, <1>13, <2>1 DEF Types, CallsOK
<1>15. Nothing # Ok
  BY Zenon, ErrorFacts
<1>16. calls[c].secrets \subseteq FinalStorage.secrets
  <2>1. Op(c) = "registerSecretBatch" /\ OpArg(c) = calls[c].secrets
    BY Zenon, <1>1, <1>2, <1>3, OpFacts
  <2> QED
    BY Zenon, <1>3, <2>1 DEF PollsItsOwn, Effect
<1>17. FinalStorage' = FinalStorage
  BY <1>3 DEF FinalStorage
<1>18. Phase(c)'
  <2>1. calls'[c].pc \notin {"done", "lock", "poll"} /\ Kind(c) \in {"secret", "deposit"}
    BY Zenon, <1>2, <1>10
  <2> QED
    BY Zenon, <1>2, <1>3, <1>10, <1>11, <1>12, <1>14, <1>15, <2>1 DEF Phase, OnlyCall
<1>19. Polled(c)'
  <2>1. Stays(polls[c].nonce, MaxReorg, TRUE)'
    <3>1. PICK n : n = polls[c].nonce
      BY Zenon
    <3>2. Stays(n, MaxReorg, TRUE)'
      BY Zenon, <1>3, <3>1 DEF Stays
    <3> QED
      BY Zenon, <1>3, <3>1, <3>2 DEF Stays
  <2> QED
    BY Zenon, <1>3, <2>1 DEF Polled, PollsItsOwn
<1>20. ASSUME NEW s, Promises(c, s) PROVE Promises(c, s)'
  BY Zenon, <1>3, <1>10, <1>15, <1>16, <1>17, <1>20 DEF Promises
<1>21. Justified(c)'
  <2>1. SecretInv(c)
    BY <1>1, <1>2, <1>3 DEF EffectInv, Justified, Sending
  <2>2. calls[c].waits \subseteq Call
    BY <1>4 DEF CallTypes
  <2>3. ASSUME NEW k \in Call, NEW s, Promises(k, s) PROVE Promises(k, s)'
    <3>1. CASE k = c
      BY Zenon, <1>20, <2>3, <3>1 DEF Promises
    <3>2. CASE k # c
      BY Zenon, <1>10, <1>17, <2>3, <3>2 DEF Promises
    <3> QED
      BY Zenon, <3>1, <3>2
  <2>4. SecretInv(c)'
    BY Zenon, <1>10, <1>12, <1>16, <1>17, <2>1, <2>2, <2>3 DEF SecretInv
  <2>5. HasEffect(c)' /\ WaitsFor(c)'
    BY Zenon, <1>2, <1>10, <1>12, <1>15 DEF HasEffect, WaitsFor
  <2> QED
    BY Zenon, <2>4, <2>5 DEF Justified
<1>22. SharedOK'
  <2>1. ASSUME NEW s \in inst.secrets, open'[s] # None PROVE OpenInv(s)'
    <3>1. OpenInv(s) /\ open[s] \in Call /\ open[s] # c /\ open'[s] = open[s]
      BY Zenon, <1>1, <1>4, <1>13, <2>1 DEF EffectInv
    <3>2. calls'[open[s]] = calls[open[s]]
      BY Zenon, <1>10, <3>1
    <3> QED
      BY Zenon, <1>3, <3>1, <3>2 DEF OpenInv, Kind
  <2> QED
    BY Zenon, <1>1, <1>2, <1>3, <2>1 DEF EffectInv, SharedOK, Kind
<1>23. (calls[c].pc = "poll" => PollsItsOwn(c))'
  BY Zenon, <1>10
<1> QED
  BY Zenon, <1>14, <1>18, <1>19, <1>20, <1>21, <1>22, <1>23, CallKeeps

(* What transact writes down of a transaction it has sent. *)
IsTx(t, who, op, arg) ==
  /\ t \in TxTypes /\ TxArgs(t) /\ t # NoTx /\ t.old = FALSE
  /\ t.call = who /\ t.op = op /\ t.arg = arg

(* ... has the types of a transaction. *)
LEMMA TxForOK ==
  ASSUME NEW who \in Call \union {None}, NEW op \in Ops \ {"none"}, NEW arg, NEW run \in Nat,
         op = "registerSecretBatch" => arg \in SUBSET Secrets, op # "registerSecretBatch" => arg \in Int
  PROVE  IsTx(TxFor(who, op, arg, run), who, op, arg)
<1>0. PICK t : t = TxFor(who, op, arg, run)
  BY Zenon
<1>1. t = [call |-> who, op |-> op, arg |-> arg, run |-> run, old |-> FALSE, storage |-> None]
  <2>1. PICK a : a = [NoTx EXCEPT !.call = who]
    BY Zenon
  <2>2. a = [call |-> who, op |-> "none", arg |-> 0, run |-> 0, old |-> FALSE, storage |-> None]
    BY Zenon, <2>1 DEF NoTx
  <2>3. PICK b : b = [a EXCEPT !.op = op]
    BY Zenon
  <2>4. b = [call |-> who, op |-> op, arg |-> 0, run |-> 0, old |-> FALSE, storage |-> None]
    BY Zenon, <2>2, <2>3
  <2>5. PICK d : d = [b EXCEPT !.arg = arg]
    BY Zenon
  <2>6. d = [call |-> who, op |-> op, arg |-> arg, run |-> 0, old |-> FALSE, storage |-> None]
    BY Zenon, <2>4, <2>5
  <2>7. PICK e : e = [d EXCEPT !.run = run]
    BY Zenon
  <2>8. e = [call |-> who, op |-> op, arg |-> arg, run |-> run, old |-> FALSE, storage |-> None]
    BY Zenon, <2>6, <2>7
  <2>9. e = [NoTx EXCEPT !.call = who, !.op = op, !.arg = arg, !.run = run]
    BY ONLY <2>1, <2>3, <2>5, <2>7
  <2> QED
    BY Zenon, <1>0, <2>8, <2>9 DEF TxFor
<1>2. arg \in Arguments
  BY DEF Arguments
<1>3. PICK u : u = [call |-> who, op |-> op, arg |-> arg, run |-> run, old |-> FALSE, storage |-> None]
  BY Zenon
<1>4. u \in TxTypes /\ u.call = who /\ u.op = op /\ u.arg = arg
  BY <1>2, <1>3 DEF TxTypes
<1>5. u.old = FALSE
  BY Zenon, <1>3
<1>6. TxArgs(u)
  BY Zenon, <1>4 DEF TxArgs
<1>7. u # NoTx
  BY <1>4, NoTxFacts
<1>8. u = t
  BY Zenon, <1>1, <1>3
<1> QED
  BY Zenon, <1>0, <1>4, <1>5, <1>6, <1>7, <1>8 DEF IsTx

(* A new transaction in the pool, or one that replaces another there. *)
LEMMA NewTx ==
  ASSUME Types, ChainInv, NEW n \in Nonce, txs[n] = NoTx \/ n \in pool,
         NEW t \in TxTypes, TxArgs(t), t # NoTx, t.old = FALSE,
         txs' = [txs EXCEPT ![n] = t], pool' = pool \union {n}, chain' = chain
  PROVE  /\ TxsOK' /\ ChainInv' /\ pool' \subseteq Nonce
         /\ txs'[n] = t /\ \A m \in Nonce \ {n} : txs'[m] = txs[m]
<1>1. txs \in [Nonce -> TxTypes] /\ \A m \in Nonce : TxArgs(txs[m])
  BY Zenon DEF Types, TxsOK
<1>2. txs' \in [Nonce -> TxTypes] /\ txs'[n] = t /\ \A m \in Nonce \ {n} : txs'[m] = txs[m]
  BY <1>1
<1>3. TxsOK'
  <2>1. ASSUME NEW m \in Nonce PROVE TxArgs(txs[m])'
    <3>1. CASE m = n
      BY Zenon, <1>2, <3>1 DEF TxArgs
    <3>2. CASE m # n
      BY Zenon, <1>1, <1>2, <3>2 DEF TxArgs
    <3> QED
      BY Zenon, <3>1, <3>2
  <2> QED
    BY Zenon, <1>2, <2>1 DEF TxsOK
<1>4. pool' \subseteq Nonce
  BY Zenon DEF Types, ClientOK
<1>5. \A i \in 1 .. Window : ~InBlock(n, chain[i])
  BY Zenon DEF ChainInv, InBlockInv
<1>6. ChainInv'
  <2>1. ASSUME NEW m \in Nonce, NEW i \in 1 .. Window, InBlock(m, chain[i]) PROVE InBlockInv(m, i)'
    <3>1. m # n /\ InBlockInv(m, i)
      BY Zenon, <1>5, <2>1 DEF ChainInv
    <3>2. txs'[m] = txs[m] /\ (m \in pool' => m \in pool)
      BY Zenon, <1>2, <3>1
    <3> QED
      BY Zenon, <3>1, <3>2 DEF InBlockInv
  <2>2. ASSUME NEW m \in Nonce
        PROVE  /\ txs'[m].old => /\ txs'[m] # NoTx /\ m \notin pool'
                                 /\ txs'[m].storage = None => Effect(txs'[m], chain'[1].storage)
               /\ m \in pool' => txs'[m] # NoTx
    <3>1. CASE m = n
      BY Zenon, <1>2, <3>1
    <3>2. CASE m # n
      BY Zenon, <1>2, <3>2 DEF ChainInv
    <3> QED
      BY Zenon, <3>1, <3>2
  <2>3. \A i \in 1 .. Window - 1 : Later(chain[i].storage, chain[i + 1].storage)
    BY Zenon DEF ChainInv
  <2> QED
    BY Zenon, <2>1, <2>2, <2>3 DEF ChainInv
<1> QED
  BY Zenon, <1>2, <1>3, <1>4, <1>6

(* The nonces in use stay contiguous when the next one is used. *)
LEMMA FilledNext ==
  ASSUME NEW k \in 0 .. MaxTx, Filled(k), NEW n \in Nonce, n <= k + 1, NEW t, t # NoTx,
         txs'[n] = t, \A m \in Nonce \ {n} : txs'[m] = txs[m]
  PROVE  IF txs[n] = NoTx THEN n = k + 1 /\ k + 1 \in 0 .. MaxTx /\ Filled(k + 1)'
         ELSE n <= k /\ Filled(k)'
<1>1. n \in 1 .. MaxTx /\ MaxTx \in Nat
  BY ClientAssumption DEF Nonce
<1>2. CASE txs[n] = NoTx
  <2>1. ~(n <= k)
    BY Zenon, <1>2 DEF Filled
  <2>2. n = k + 1 /\ k + 1 \in 0 .. MaxTx
    BY <1>1, <2>1
  <2>3. ASSUME NEW m \in Nonce PROVE txs'[m] # NoTx <=> m <= k + 1
    <3>1. CASE m = n
      BY <2>2, <3>1
    <3>2. CASE m # n
      <4>1. txs'[m] # NoTx <=> m <= k
        BY Zenon, <3>2 DEF Filled
      <4>2. m \in 1 .. MaxTx
        BY Zenon DEF Nonce
      <4> QED
        BY <2>2, <3>2, <4>1, <4>2
    <3> QED
      BY Zenon, <3>1, <3>2
  <2>4. PICK j : j = k + 1
    BY Zenon
  <2>5. Filled(j)'
    BY Zenon, <2>3, <2>4 DEF Filled
  <2> QED
    BY Zenon, <1>2, <2>2, <2>4, <2>5 DEF Filled
<1>3. CASE txs[n] # NoTx
  <2>1. n <= k
    BY Zenon, <1>3 DEF Filled
  <2>2. Filled(k)'
    BY Zenon, <2>1 DEF Filled
  <2> QED
    BY Zenon, <1>3, <2>1, <2>2
<1> QED
  BY Zenon, <1>2, <1>3

(* transact: the nonce it takes was free, or belonged to a transaction     *)
(* whose answer was lost.                                                  *)
LEMMA SendKeeps ==
  ASSUME CInv, NEW c \in Call, Send(c)
  PROVE  CInv'
<1>1. Types /\ PhaseInv /\ NonceInv /\ ChainInv /\ PollInv /\ EffectInv
  BY Zenon DEF CInv
<1>2. /\ up /\ calls[c].pc = "send" /\ ToPc(c, "poll") /\ UNCHANGED <<inflight, open, up, stopping, crashes>>
      /\ Accepts(nonce) /\ txs' = [txs EXCEPT ![nonce] = TxFor(c, Op(c), OpArg(c), crashes)]
      /\ pool' = pool \union {nonce} /\ nonce' = nonce + 1
      /\ polls' = [polls EXCEPT ![c] = [NoPoll EXCEPT !.nonce = nonce]]
      /\ UNCHANGED <<inst, chain>>
  BY Zenon DEF Send, Step, TransactAccepted
<1>3. PICK n \in Nonce : n = nonce /\ (txs[n] = NoTx \/ n \in pool)
  BY Zenon, <1>2 DEF Accepts
<1>4. "poll" \in Phases /\ "poll" \in Sending /\ "send" \in Sending /\ Kind(c) # "none"
  BY <1>1, <1>2 DEF Phases, Sending, PhaseInv, Phase
<1>5. /\ calls' \in [Call -> CallTypes]
      /\ \A d \in Call \ {c} : calls'[d] = calls[d]
      /\ calls'[c].pc = "poll" /\ calls'[c].approve = calls[c].approve /\ calls'[c].amount = calls[c].amount
      /\ calls'[c].secrets = calls[c].secrets /\ calls'[c].waits = calls[c].waits
      /\ calls'[c].tx = calls[c].tx /\ calls'[c].result = calls[c].result
  BY Zenon, <1>1, <1>2, <1>4, PcFacts DEF Types
<1>6. PICK t : t = TxFor(c, Op(c), OpArg(c), crashes)
  BY Zenon
<1>7. /\ t \in TxTypes /\ TxArgs(t) /\ t # NoTx /\ t.old = FALSE
      /\ t.call = c /\ t.op = Op(c) /\ t.arg = OpArg(c)
  <2>1. /\ Op(c) \in Ops \ {"none"}
        /\ IF Op(c) = "registerSecretBatch" THEN OpArg(c) \in SUBSET Secrets ELSE OpArg(c) \in Int
    BY Zenon, <1>1, <1>4, OpFacts
  <2>2. c \in Call \union {None} /\ crashes \in Nat
    BY Zenon, <1>1 DEF Types, CallsOK
  <2>3. PICK op, arg : op \in Ops \ {"none"} /\ op = Op(c) /\ arg = OpArg(c)
    BY Zenon, <2>1
  <2>4. /\ op = "registerSecretBatch" => arg \in SUBSET Secrets
        /\ op # "registerSecretBatch" => arg \in Int
    BY Zenon, <2>1, <2>3
  <2>5. IsTx(TxFor(c, op, arg, crashes), c, op, arg)
    BY Zenon, <2>2, <2>3, <2>4, TxForOK
  <2> QED
    BY Zenon, <1>6, <2>3, <2>5 DEF IsTx
<1>8. /\ TxsOK' /\ ChainInv' /\ pool' \subseteq Nonce
      /\ txs'[n] = t /\ \A m \in Nonce \ {n} : txs'[m] = txs[m]
  BY Zenon, <1>1, <1>2, <1>3, <1>6, <1>7, NewTx
<1>9. PICK p : p = [NoPoll EXCEPT !.nonce = nonce]
  BY Zenon
<1>10. p \in PollTypes /\ p.nonce = n /\ p.seen = FALSE
  <2>1. p = [nonce |-> n, seen |-> FALSE, depth |-> 0, since |-> 0, storage |-> None]
    BY Zenon, <1>3, <1>9 DEF NoPoll
  <2>2. n \in 0 .. MaxTx /\ 0 \in 0 .. Confirmations /\ 0 \in 0 .. PollDelay
    BY ClientAssumption DEF Nonce
  <2>3. [nonce |-> n, seen |-> FALSE, depth |-> 0, since |-> 0, storage |-> None] \in PollTypes
    BY <2>2 DEF PollTypes
  <2>4. p.nonce = n /\ p.seen = FALSE
    BY ONLY <2>1
  <2> QED
    BY Zenon, <2>1, <2>3, <2>4
<1>11. polls' \in [Call -> PollTypes] /\ polls'[c] = p /\ \A d \in Call \ {c} : polls'[d] = polls[d]
  BY Zenon, <1>1, <1>2, <1>9, <1>10, PollRecord
<1>12. up = TRUE /\ up' = TRUE
  BY Zenon, <1>1, <1>2 DEF Types, CallsOK
<1>13. \A m \in Nonce : m >= nonce => txs[m].call = None
  BY Zenon, <1>1, <1>12 DEF NonceInv, NoncesOK
<1>14. n \in 1 .. MaxTx /\ n >= nonce /\ MaxTx \in Nat
  BY <1>3, ClientAssumption DEF Nonce
<1>15. OnlyCall(c)
  <2>1. \A m \in Nonce : txs[m].call # None => txs'[m] = txs[m]
    BY Zenon, <1>8, <1>13, <1>14
  <2> QED
    BY Zenon, <1>2, <1>5, <1>11, <1>12, <2>1 DEF OnlyCall
<1>16. Types'
  <2>1. nonce' \in 1 .. MaxTx + 1
    BY <1>2, <1>3, <1>14
  <2>2. ClientOK'
    BY Zenon, <1>1, <1>2, <1>8, <1>11, <2>1 DEF Types, ClientOK
  <2> QED
    BY Zenon, <1>1, <1>2, <1>5, <1>8, <2>2 DEF Types, IsInstance, CallsOK
<1>17. NoncesOK'
  <2>1. PICK k \in 0 .. MaxTx : Filled(k) /\ nonce <= k + 1 /\ (~stopping => nonce = k + 1 \/ nonce = k)
    BY Zenon, <1>1, <1>12 DEF NonceInv, NoncesOK
  <2>2. IF txs[n] = NoTx THEN n = k + 1 /\ k + 1 \in 0 .. MaxTx /\ Filled(k + 1)'
        ELSE n <= k /\ Filled(k)'
    BY Zenon, <1>3, <1>7, <1>8, <2>1, FilledNext
  <2>3. PICK j \in 0 .. MaxTx : Filled(j)' /\ nonce' <= j + 1 /\ (~stopping => nonce' = j + 1)
    <3>1. CASE txs[n] = NoTx
      <4>1. PICK j \in 0 .. MaxTx : j = k + 1 /\ Filled(k + 1)' /\ n = k + 1
        BY Zenon, <2>2, <3>1
      <4>2. Filled(j)'
        BY Zenon, <4>1 DEF Filled
      <4>3. nonce' = j + 1 /\ nonce' <= j + 1
        BY <1>2, <1>3, <1>14, <4>1
      <4> QED
        BY Zenon, <4>2, <4>3
    <3>2. CASE txs[n] # NoTx
      <4>1. n <= k /\ Filled(k)'
        BY Zenon, <2>2, <3>2
      <4>2. nonce' <= k + 1 /\ nonce # k + 1 /\ (nonce = k => nonce' = k + 1)
        BY <1>2, <1>3, <1>14, <2>1, <4>1
      <4> QED
        BY Zenon, <2>1, <4>1, <4>2
    <3> QED
      BY Zenon, <3>1, <3>2
  <2>4. ASSUME NEW m \in Nonce, m >= nonce' PROVE txs'[m].call = None
    <3>1. m \in 1 .. MaxTx
      BY Zenon DEF Nonce
    <3>2. m >= nonce /\ m # n
      BY <1>2, <1>3, <1>14, <2>4, <3>1
    <3> QED
      BY Zenon, <1>8, <1>13, <3>2
  <2> QED
    BY Zenon, <1>2, <1>12, <2>3, <2>4 DEF NoncesOK
<1>18. \A d : Kind(d)' = Kind(d) /\ Arg(d)' = Arg(d)
  BY Zenon, <1>2 DEF Kind, Arg
<1>19. /\ calls[c].result = Nothing /\ calls[c].tx = Nothing /\ Nothing # Ok
       /\ calls[c].pc \notin {"done", "join", "poll"}
  BY Zenon, <1>1, <1>2, OpenCall, ErrorFacts
<1>20. Phase(c)'
  <2>1. calls'[c].pc \notin {"done", "join", "lock", "idle"}
    BY Zenon, <1>5
  <2> QED
    BY Zenon, <1>1, <1>4, <1>5, <1>10, <1>11, <1>12, <1>18, <1>19, <2>1 DEF PhaseInv, Phase
<1>21. Polled(c)'
  BY Zenon, <1>5, <1>10, <1>11, <1>19 DEF Polled
<1>22. ASSUME NEW s, Promises(c, s) PROVE Promises(c, s)'
  BY Zenon, <1>4, <1>5, <1>19, <1>22 DEF Promises
<1>23. Justified(c)'
  <2>1. Justified(c) /\ calls'[c].pc # "join"
    BY Zenon, <1>1, <1>5 DEF EffectInv
  <2>2. HasEffect(c)' /\ WaitsFor(c)'
    BY Zenon, <1>5, <1>18, <1>19, <2>1 DEF HasEffect, WaitsFor, Justified
  <2>3. ASSUME Kind(c) = "secret" PROVE SecretInv(c)'
    <3>1. SecretInv(c)
      BY Zenon, <1>2, <1>4, <2>1, <2>3 DEF Justified
    <3> QED
      BY Zenon, <1>1, <1>4, <1>5, <1>15, <1>22, <3>1, SecretInvStays
  <2> QED
    BY Zenon, <1>18, <2>2, <2>3 DEF Justified
<1>24. SharedOK'
  <2>1. ASSUME NEW s \in inst.secrets, open[s] # None PROVE OpenInv(s)'
    <3>1. OpenInv(s) /\ open[s] \in Call
      BY Zenon, <1>1, <2>1 DEF EffectInv, Types, CallsOK
    <3>2. \A k \in Call : /\ calls'[k].secrets = calls[k].secrets /\ calls'[k].tx = calls[k].tx
                          /\ calls[k].pc \in Sending => calls'[k].pc \in Sending
      BY Zenon, <1>4, <1>5
    <3> QED
      BY Zenon, <1>2, <3>1, <3>2 DEF OpenInv, Kind
  <2> QED
    BY Zenon, <1>1, <1>2, <2>1 DEF EffectInv, SharedOK, Kind
<1>25. PollsItsOwn(c)'
  <2>0. /\ Kind(c)' = Kind(c) /\ Arg(c)' = Arg(c) /\ calls'[c].approve = calls[c].approve
        /\ calls'[c].secrets = calls[c].secrets /\ calls'[c].amount = calls[c].amount
    BY Zenon, <1>5, <1>18
  <2>1. Op(c)' = Op(c)
    BY <2>0 DEF Op
  <2>2. OpArg(c)' = OpArg(c)
    BY <2>0 DEF OpArg
  <2> QED
    BY Zenon, <1>7, <1>8, <1>10, <1>11, <2>1, <2>2 DEF PollsItsOwn
<1> QED
  BY Zenon, <1>8, <1>15, <1>16, <1>17, <1>20, <1>21, <1>22, <1>23, <1>24, <1>25, CallKeeps

(* transact when the answer is lost: the transaction has the next nonce,   *)
(* and the node stops, or it was a registration and the error is logged.   *)
LEMMA UnansweredKeeps ==
  ASSUME CInv, NEW c \in Call, SendUnanswered(c)
  PROVE  CInv'
<1>1. Types /\ PhaseInv /\ NonceInv /\ ChainInv
  BY Zenon DEF CInv
<1>2. /\ up /\ calls[c].pc = "send" /\ Ended(c, Fatal("send"))
      /\ nonce \in Nonce /\ txs[nonce] = NoTx
      /\ txs' = [txs EXCEPT ![nonce] = TxFor(None, Op(c), OpArg(c), crashes)]
      /\ pool' = pool \union {nonce} /\ inst' = [inst EXCEPT !.lost = FALSE]
      /\ UNCHANGED <<chain, nonce, polls>>
  BY Zenon DEF SendUnanswered, Step, TransactUnanswered
<1>3. Kind(c) # "none" /\ calls[c].pc # "done" /\ calls[c].pc # "poll"
  BY <1>1, <1>2 DEF Phases, Sending, PhaseInv, Phase
<1>4. PICK t : t = TxFor(None, Op(c), OpArg(c), crashes)
  BY Zenon
<1>5. t \in TxTypes /\ TxArgs(t) /\ t # NoTx /\ t.old = FALSE /\ t.call = None /\ t.op = Op(c)
  <2>1. /\ Op(c) \in Ops \ {"none"}
        /\ IF Op(c) = "registerSecretBatch" THEN OpArg(c) \in SUBSET Secrets ELSE OpArg(c) \in Int
    BY Zenon, <1>1, <1>3, OpFacts
  <2>2. None \in Call \union {None} /\ crashes \in Nat
    BY Zenon, <1>1 DEF Types, CallsOK
  <2>3. PICK op, arg : op \in Ops \ {"none"} /\ op = Op(c) /\ arg = OpArg(c)
    BY Zenon, <2>1
  <2>4. /\ op = "registerSecretBatch" => arg \in SUBSET Secrets
        /\ op # "registerSecretBatch" => arg \in Int
    BY Zenon, <2>1, <2>3
  <2>5. IsTx(TxFor(None, op, arg, crashes), None, op, arg)
    BY Zenon, <2>2, <2>3, <2>4, TxForOK
  <2> QED
    BY Zenon, <1>4, <2>3, <2>5 DEF IsTx
<1>6. PICK n \in Nonce : n = nonce
  BY Zenon, <1>2
<1>7. /\ TxsOK' /\ ChainInv' /\ pool' \subseteq Nonce
      /\ txs'[n] = t /\ \A m \in Nonce \ {n} : txs'[m] = txs[m]
  BY Zenon, <1>1, <1>2, <1>4, <1>5, <1>6, NewTx
<1>8. /\ inst'.calls = inst.calls /\ inst'.secrets = inst.secrets /\ IsInstance(inst)'
      /\ inst'.log_unrecoverable = inst.log_unrecoverable
  <2>1. inst = [calls |-> inst.calls, secrets |-> inst.secrets, storage |-> inst.storage,
                other |-> inst.other, poor |-> inst.poor, reorgs |-> inst.reorgs,
                crashes |-> inst.crashes, lost |-> inst.lost,
                log_unrecoverable |-> inst.log_unrecoverable]
    BY Zenon, <1>1 DEF Types, IsInstance
  <2>2. PICK a, b, d, e, f, g, h, i, l :
          inst = [calls |-> a, secrets |-> b, storage |-> d, other |-> e, poor |-> f, reorgs |-> g,
                  crashes |-> h, lost |-> i, log_unrecoverable |-> l]
    BY Zenon, <2>1
  <2>3. inst' = [calls |-> a, secrets |-> b, storage |-> d, other |-> e, poor |-> f, reorgs |-> g,
                 crashes |-> h, lost |-> FALSE, log_unrecoverable |-> l]
    BY Zenon, <1>2, <2>2
  <2>4. /\ inst.calls = a /\ inst.secrets = b /\ inst.storage = d /\ inst.other = e
        /\ inst'.calls = a /\ inst'.secrets = b /\ inst'.storage = d /\ inst'.other = e
        /\ inst'.poor = f /\ inst'.reorgs = g /\ inst'.crashes = h /\ inst'.lost = FALSE
        /\ inst.log_unrecoverable = l /\ inst'.log_unrecoverable = l
    BY ONLY <2>2, <2>3
  <2>5. IsInstance(inst)
    BY Zenon, <1>1 DEF Types
  <2> QED
    BY Zenon, <2>3, <2>4, <2>5 DEF IsInstance
<1>9. PICK r \in ErrorTypes : r = Fatal("send")
  BY ErrorFacts DEF Reasons
<1>10. r \in ResultTypes /\ r # Nothing /\ r # Ok /\ r.error = "fatal"
  <2>1. r.error = "fatal"
    BY <1>9 DEF Fatal
  <2> QED
    BY Zenon, <1>9, <2>1, ErrorFacts DEF ResultTypes
<1>11. CallsOK' /\ up' = up /\ \A d \in Call \ {c} : calls'[d] = calls[d]
  BY Zenon, <1>1, <1>2, <1>8, <1>9, <1>10, EndedFacts
<1>12. ~stopping' => Op(c) = "registerSecretBatch" /\ inst.log_unrecoverable
  <2>1. stopping' = (stopping \/ StopsNode(c, r))
    BY Zenon, <1>2, <1>9 DEF Ended
  <2>2. ~StopsNode(c, r) => Kind(c) = "secret" /\ inst.log_unrecoverable
    BY Zenon, <1>10 DEF StopsNode
  <2>3. Kind(c) = "secret" => ~calls[c].approve
    BY <1>1 DEF PhaseInv, Phase
  <2>4. Kind(c) = "secret" => Op(c) = "registerSecretBatch"
    BY <2>3 DEF Op
  <2> QED
    BY Zenon, <2>1, <2>2, <2>4
<1>13. up = TRUE /\ up' = TRUE
  BY Zenon, <1>1, <1>2, <1>11 DEF Types, CallsOK
<1>14. \A m \in Nonce : m >= nonce => txs[m].call = None
  BY Zenon, <1>1, <1>13 DEF NonceInv, NoncesOK
<1>15. n \in 1 .. MaxTx /\ n >= nonce
  BY <1>6, ClientAssumption DEF Nonce
<1>16. OnlyCall(c)
  <2>1. \A m \in Nonce : txs[m].call # None => txs'[m] = txs[m]
    BY Zenon, <1>7, <1>14, <1>15
  <2> QED
    BY Zenon, <1>2, <1>8, <1>11, <1>13, <2>1 DEF OnlyCall
<1>17. NoncesOK'
  <2>1. PICK k \in 0 .. MaxTx : Filled(k) /\ nonce <= k + 1
    BY Zenon, <1>1, <1>13 DEF NonceInv, NoncesOK
  <2>2. n = k + 1 /\ k + 1 \in 0 .. MaxTx /\ Filled(k + 1)'
    BY Zenon, <1>2, <1>5, <1>6, <1>7, <2>1, FilledNext
  <2>3. PICK j \in 0 .. MaxTx : j = k + 1
    BY Zenon, <2>2
  <2>4. Filled(j)'
    BY Zenon, <2>2, <2>3 DEF Filled
  <2>5. nonce' <= j + 1 /\ nonce' = j
    BY <1>2, <1>6, <1>15, <2>2, <2>3
  <2>6. ~stopping' => LostRegistration(nonce)'
    BY Zenon, <1>2, <1>5, <1>6, <1>7, <1>8, <1>12 DEF LostRegistration
  <2>7. \A m \in Nonce : m >= nonce => txs'[m].call = None
    BY Zenon, <1>5, <1>7, <1>14
  <2> QED
    BY Zenon, <1>2, <1>13, <2>4, <2>5, <2>6, <2>7 DEF NoncesOK
<1>18. ClientOK'
  BY Zenon, <1>1, <1>2, <1>7 DEF Types, ClientOK
<1>19. polls'[c].nonce = polls[c].nonce /\ polls'[c].seen = FALSE
  <2>1. polls[c].seen \in BOOLEAN
    BY <1>1 DEF Types, ClientOK, PollTypes
  <2>2. ~polls[c].seen
    BY Zenon, <1>1, <1>3 DEF PhaseInv, Phase
  <2> QED
    BY Zenon, <1>2, <2>1, <2>2
<1> QED
  BY Zenon, <1>2, <1>3, <1>7, <1>8, <1>9, <1>10, <1>16, <1>17, <1>18, <1>19, EndedKeeps

(* A crash: the calls end or start again, and only what a call has         *)
(* reported is left.                                                       *)
LEMMA CrashKeeps ==
  ASSUME CInv, Crash
  PROVE  CInv'
<1>1. Types /\ PhaseInv /\ NonceInv /\ ChainInv /\ PollInv /\ EffectInv
  BY Zenon DEF CInv
<1>2. /\ up' = FALSE /\ stopping' = FALSE /\ crashes' = crashes + 1
      /\ calls' = [c \in Call |-> IF Kind(c) = "secret" /\ calls[c].result # Ok THEN Idle
                              ELSE IF calls[c].pc \in {"idle", "done"} THEN calls[c]
                              ELSE [Idle EXCEPT !.pc = "done", !.tx = Aborted, !.result = Aborted]]
      /\ inflight' = None /\ open' = [s \in DOMAIN open |-> None]
      /\ polls' = [c \in Call |-> IF calls[c].result = Ok THEN polls[c] ELSE NoPoll]
      /\ UNCHANGED <<inst, chain, pool, txs, nonce>>
  BY Zenon DEF Crash
<1>3. calls \in [Call -> CallTypes] /\ polls \in [Call -> PollTypes] /\ crashes \in Nat
      /\ open \in [inst.secrets -> Call \union {None}]
  BY Zenon, <1>1 DEF Types, CallsOK, ClientOK
<1>4. \A d : Kind(d)' = Kind(d) /\ Arg(d)' = Arg(d)
  BY Zenon, <1>2 DEF Kind, Arg
<1>5. FinalStorage' = FinalStorage
  BY <1>2 DEF FinalStorage
<1>6. PICK z : z = [Idle EXCEPT !.pc = "done", !.tx = Aborted, !.result = Aborted]
  BY Zenon
<1>7. /\ z \in CallTypes /\ z.pc = "done" /\ z.approve = FALSE /\ z.secrets = {} /\ z.waits = {}
      /\ z.tx = Aborted /\ z.result = Aborted
  <2>1. PICK a : a = [Idle EXCEPT !.pc = "done"]
    BY Zenon
  <2>2. a = [pc |-> "done", approve |-> FALSE, amount |-> 0, secrets |-> {}, waits |-> {},
             tx |-> Nothing, result |-> Nothing]
    BY Zenon, <2>1 DEF Idle
  <2>3. PICK b : b = [a EXCEPT !.tx = Aborted]
    BY Zenon
  <2>4. b = [pc |-> "done", approve |-> FALSE, amount |-> 0, secrets |-> {}, waits |-> {},
             tx |-> Aborted, result |-> Nothing]
    BY Zenon, <2>2, <2>3
  <2>5. PICK d : d = [b EXCEPT !.result = Aborted]
    BY Zenon
  <2>6. d = [pc |-> "done", approve |-> FALSE, amount |-> 0, secrets |-> {}, waits |-> {},
             tx |-> Aborted, result |-> Aborted]
    BY Zenon, <2>4, <2>5
  <2>7. d = [Idle EXCEPT !.pc = "done", !.tx = Aborted, !.result = Aborted]
    BY ONLY <2>1, <2>3, <2>5
  <2>8. PICK r \in ErrorTypes : r = Aborted
    BY Zenon, ErrorFacts
  <2>9. r \in ResultTypes
    BY Zenon, <2>8 DEF ResultTypes
  <2>10. PICK y : y = [pc |-> "done", approve |-> FALSE, amount |-> 0, secrets |-> {}, waits |-> {},
                      tx |-> r, result |-> r]
    BY Zenon
  <2>11. y \in CallTypes /\ y.pc = "done" /\ y.approve = FALSE /\ y.secrets = {} /\ y.waits = {}
         /\ y.tx = r /\ y.result = r
    BY <2>9, <2>10 DEF CallTypes, Phases
  <2>12. y = z
    BY Zenon, <1>6, <2>6, <2>7, <2>8, <2>10
  <2> QED
    BY Zenon, <2>8, <2>11, <2>12
<1>8. /\ Idle \in CallTypes /\ Idle.pc = "idle" /\ Idle.approve = FALSE /\ Idle.secrets = {} /\ Idle.waits = {}
      /\ Idle.tx = Nothing /\ Idle.result = Nothing
  BY DEF Idle, CallTypes, Phases, ResultTypes
<1>9. NoPoll \in PollTypes /\ NoPoll.nonce = 0 /\ NoPoll.seen = FALSE
  <2>1. 0 \in 0 .. MaxTx /\ 0 \in 0 .. Confirmations /\ 0 \in 0 .. PollDelay
    BY ClientAssumption
  <2> QED
    BY <2>1 DEF NoPoll, PollTypes
<1>10. Nothing # Ok /\ Aborted # Ok /\ Aborted # Nothing
  BY Zenon, ErrorFacts
<1>11. ASSUME NEW c \in Call
       PROVE  /\ calls'[c] \in CallTypes /\ polls'[c] \in PollTypes
              /\ Phase(c)' /\ Polled(c)' /\ Justified(c)' /\ calls'[c].pc # "poll"
  <2>1. Phase(c) /\ Polled(c) /\ Justified(c)
    BY Zenon, <1>1 DEF PhaseInv, PollInv, EffectInv
  <2>2. calls'[c] = IF Kind(c) = "secret" /\ calls[c].result # Ok THEN Idle
                    ELSE IF calls[c].pc \in {"idle", "done"} THEN calls[c] ELSE z
    BY Zenon, <1>2, <1>6
  <2>3. polls'[c] = IF calls[c].result = Ok THEN polls[c] ELSE NoPoll
    BY Zenon, <1>2
  <2>4. calls'[c] \in CallTypes /\ polls'[c] \in PollTypes
    BY Zenon, <1>3, <1>7, <1>8, <1>9, <2>2, <2>3
  <2>5. polls'[c].seen = FALSE
    <3>1. CASE calls[c].result = Ok
      <4>1. calls[c].pc # "poll"
        BY Zenon, <1>10, <2>1, <3>1 DEF Phase
      <4>2. polls[c].seen \in BOOLEAN
        BY <1>3 DEF PollTypes
      <4> QED
        BY Zenon, <2>1, <2>3, <3>1, <4>1, <4>2 DEF Phase
    <3>2. CASE calls[c].result # Ok
      BY Zenon, <1>9, <2>3, <3>2
    <3> QED
      BY Zenon, <3>1, <3>2
  <2>6. CASE calls'[c] = Idle /\ calls[c].result # Ok
    <3>1. polls'[c].nonce = 0
      BY Zenon, <1>9, <2>3, <2>6
    <3>2. "idle" \notin {"done", "join", "lock", "poll"} /\ "idle" \notin Sending
      BY DEF Sending
    <3>3. Phase(c)'
      BY Zenon, <1>4, <1>8, <1>10, <2>5, <2>6, <3>1, <3>2 DEF Phase
    <3>4. Polled(c)'
      BY Zenon, <1>8, <1>10, <2>5, <2>6 DEF Polled
    <3>5. Justified(c)'
      BY Zenon, <1>8, <1>10, <2>6, <3>2 DEF Justified, HasEffect, WaitsFor
    <3> QED
      BY Zenon, <1>8, <2>4, <2>6, <3>2, <3>3, <3>4, <3>5
  <2>7. CASE calls'[c] = z /\ Kind(c) # "secret"
    <3>1. "done" \notin {"idle", "join", "lock", "poll"} /\ "done" \notin Sending
      BY DEF Sending
    <3>2. Phase(c)'
      BY Zenon, <1>4, <1>7, <1>10, <2>5, <2>7, <3>1 DEF Phase
    <3>3. Polled(c)'
      BY Zenon, <1>7, <1>10, <2>5, <2>7 DEF Polled
    <3>4. Justified(c)'
      BY Zenon, <1>7, <1>10, <2>7, <3>1 DEF Justified, HasEffect, WaitsFor
    <3> QED
      BY Zenon, <1>7, <2>4, <2>7, <3>1, <3>2, <3>3, <3>4
  <2>8. CASE calls'[c] = calls[c] /\ calls[c].pc \in {"idle", "done"} /\ (Kind(c) = "secret" => calls[c].result = Ok)
    <3>1. calls[c].pc \notin {"join", "lock", "poll"} /\ calls[c].pc \notin Sending
      BY <2>8 DEF Sending
    <3>2. calls[c].pc = "idle" => polls'[c].nonce = 0
      <4>1. calls[c].pc = "idle" => calls[c].result # Ok
        BY Zenon, <1>10, <2>1 DEF Phase
      <4> QED
        BY Zenon, <1>9, <2>3, <4>1
    <3>3. Phase(c)'
      BY Zenon, <1>4, <2>1, <2>5, <2>8, <3>1, <3>2 DEF Phase
    <3>4. ASSUME calls[c].tx = Ok PROVE calls[c].result = Ok
      BY Zenon, <2>1, <2>8, <3>4 DEF Phase
    <3>5. Polled(c)'
      <4>1. ASSUME calls'[c].tx = Ok, polls'[c].nonce # 0
            PROVE  (txs[polls[c].nonce].call = c /\ Stays(polls[c].nonce, MaxReorg, TRUE))'
        <5>1. polls'[c] = polls[c] /\ calls[c].tx = Ok
          BY Zenon, <2>3, <2>8, <3>4, <4>1
        <5>2. PICK n : n = polls[c].nonce
          BY Zenon
        <5>3. txs[n].call = c /\ Stays(n, MaxReorg, TRUE)
          BY Zenon, <2>1, <4>1, <5>1, <5>2 DEF Polled
        <5>4. Stays(n, MaxReorg, TRUE)'
          BY Zenon, <1>2, <5>3 DEF Stays
        <5> QED
          BY Zenon, <1>2, <5>1, <5>2, <5>3, <5>4 DEF Stays
      <4> QED
        BY Zenon, <2>5, <4>1 DEF Polled
    <3>6. Justified(c)'
      BY Zenon, <1>4, <1>5, <2>1, <2>8, <3>1 DEF Justified, HasEffect, WaitsFor
    <3> QED
      BY Zenon, <2>4, <2>8, <3>1, <3>3, <3>5, <3>6
  <2>9. calls[c].result = Ok => calls[c].pc \in {"idle", "done"}
    BY Zenon, <1>10, <2>1 DEF Phase
  <2> QED
    BY Zenon, <2>2, <2>6, <2>7, <2>8, <2>9
<1>12. Types'
  <2>1. calls' \in [Call -> CallTypes] /\ polls' \in [Call -> PollTypes]
    <3>1. calls' = [c \in Call |-> calls'[c]] /\ polls' = [c \in Call |-> polls'[c]]
      BY Zenon, <1>2
    <3> QED
      BY <1>11, <3>1
  <2>2. crashes' \in Nat
    BY <1>2, <1>3
  <2>3. open' \in [inst.secrets -> Call \union {None}]
    BY <1>2, <1>3
  <2> QED
    BY Zenon, <1>1, <1>2, <2>1, <2>2, <2>3 DEF Types, IsInstance, TxsOK, ClientOK, CallsOK
<1>13. PhaseInv' /\ PollInv'
  BY Zenon, <1>11 DEF PhaseInv, PollInv
<1>14. NonceInv'
  <2>1. \A k : Filled(k)' <=> Filled(k)
    BY Zenon, <1>2 DEF Filled
  <2> QED
    BY Zenon, <1>1, <1>2, <1>11, <2>1 DEF NonceInv, NoncesOK
<1>15. ChainInv'
  BY Zenon, <1>1, <1>2, BlocksStay
<1>16. EffectInv'
  <2>1. \A s \in inst.secrets : open'[s] = None
    BY Zenon, <1>2, <1>3
  <2> QED
    BY Zenon, <1>2, <1>11, <2>1 DEF EffectInv
<1> QED
  BY Zenon, <1>12, <1>13, <1>14, <1>15, <1>16 DEF CInv
=============================================================================
