---------------------- MODULE ContractProxies_proofs ----------------------
(***************************************************************************)
(* Proofs about the calls that send transactions, for any number of        *)
(* greenlets, transactions and secrets, any contents of the contracts, and *)
(* any confirmations and reorganisations that satisfy ClientAssumption:    *)
(* mining, reorganisations and a restart keep the invariant CInv of        *)
(* ContractProxies_calls, as the steps of the calls do, and what follows   *)
(* from it for the nonces and for the calls that report success.           *)
(***************************************************************************)
EXTENDS ContractProxies_calls, FiniteSetTheorems

-----------------------------------------------------------------------------
(***************************************************************************)
(* Sequences: the transactions of a block and the blocks of the chain.     *)
(***************************************************************************)
(* A function on an initial segment, such as the chain, is a sequence. *)
LEMMA FunctionIsSequence ==
    ASSUME NEW S, NEW n \in Nat, NEW f \in [1 .. n -> S]
    PROVE  f \in Seq(S) /\ Len(f) = n
OBVIOUS

(* The empty list, the transactions of an empty block. *)
LEMMA EmptySequence ==
    ASSUME NEW S PROVE <<>> \in Seq(S) /\ Len(<<>>) = 0
OBVIOUS

(* A list of transactions is a function on an initial segment. *)
LEMMA SequenceFacts ==
    ASSUME NEW S, NEW seq \in Seq(S)
    PROVE  /\ Len(seq) \in Nat
           /\ DOMAIN seq = 1 .. Len(seq)
           /\ seq \in [1 .. Len(seq) -> S]
           /\ \A i \in 1 .. Len(seq) : seq[i] \in S
OBVIOUS

(* A list of transactions of the node is a list of transactions. *)
LEMMA SequenceOfMore ==
    ASSUME NEW S, NEW T, S \subseteq T PROVE Seq(S) \subseteq Seq(T)
OBVIOUS

(* Putting the foreign transaction before or after those of the node. *)
LEMMA ConcatFacts ==
    ASSUME NEW S, NEW s \in Seq(S), NEW t \in Seq(S)
    PROVE  /\ s \o t \in Seq(S)
           /\ Len(s \o t) = Len(s) + Len(t)
           /\ \A i \in 1 .. Len(s) + Len(t) :
                 (s \o t)[i] = IF i <= Len(s) THEN s[i] ELSE t[i - Len(s)]
OBVIOUS

(* The window forgets its oldest block. *)
LEMMA TailFacts ==
    ASSUME NEW S, NEW seq \in Seq(S), seq # <<>>
    PROVE  /\ Tail(seq) \in Seq(S)
           /\ Len(Tail(seq)) = Len(seq) - 1
           /\ \A i \in 1 .. Len(Tail(seq)) : Tail(seq)[i] = seq[i + 1]
OBVIOUS

(* The window gets a new block. *)
LEMMA AppendFacts ==
    ASSUME NEW S, NEW seq \in Seq(S), NEW e \in S
    PROVE  /\ Append(seq, e) \in Seq(S)
           /\ Len(Append(seq, e)) = Len(seq) + 1
           /\ \A i \in 1 .. Len(seq) : Append(seq, e)[i] = seq[i]
           /\ Append(seq, e)[Len(seq) + 1] = e
OBVIOUS

-----------------------------------------------------------------------------
(* Numbers and recursion. *)

(* f is the function that starts with a and goes on with F. *)
Iterates(f, n, S, a, F) ==
  f \in [0 .. n -> S] /\ f[0] = a /\ \A i \in 1 .. n : f[i] = F[i][f[i - 1]]

(* A function may be defined by recursion over 0 .. n: run in Executed and *)
(* new in Reorg.                                                           *)
LEMMA Recursion ==
  ASSUME NEW S, NEW n \in Nat, NEW a \in S, NEW F \in [1 .. n -> [S -> S]]
  PROVE  \E f : Iterates(f, n, S, a, F)
<1> DEFINE Defines(f, k) == /\ f \in [0 .. k -> S] /\ f[0] = a
                            /\ \A i \in 1 .. k : f[i] = F[i][f[i - 1]]
           bad == {k \in 0 .. n : \A f : ~Defines(f, k)}
<1>1. SUFFICES bad = {}
  <2>1. n \notin bad
    BY Zenon, <1>1
  <2>2. PICK f : Defines(f, n)
    BY <2>1
  <2> QED
    BY Zenon, <2>2 DEF Iterates
<1>2. SUFFICES ASSUME bad # {} PROVE FALSE
  OBVIOUS
<1>3. PICK x \in bad : \A y \in bad : x <= y
  <2>1. bad \subseteq Nat
    OBVIOUS
  <2> HIDE DEF bad
  <2> QED
    BY Zenon, <1>2, <2>1, Least
<1>4. x # 0
  <2>1. SUFFICES ASSUME x = 0 PROVE FALSE
    OBVIOUS
  <2>2. Defines([i \in 0 .. 0 |-> a], 0)
    OBVIOUS
  <2> QED
    BY Zenon, <1>3, <2>1, <2>2
<1>5. x \in 1 .. n /\ x - 1 \in 0 .. n /\ x - 1 \notin bad
  <2>1. x \in 0 .. n
    BY <1>3
  <2>2. x \in 1 .. n /\ x - 1 \in 0 .. n /\ ~(x <= x - 1)
    BY <1>4, <2>1
  <2> HIDE DEF bad
  <2> QED
    BY <1>3, <2>2
<1>6. PICK g : Defines(g, x - 1)
  BY <1>5
<1>7. PICK h : h = [i \in 0 .. x |-> IF i = x THEN F[x][g[x - 1]] ELSE g[i]]
  BY Zenon
<1>8. Defines(h, x)
  <2>1. g[x - 1] \in S /\ F[x] \in [S -> S] /\ F[x][g[x - 1]] \in S
    BY <1>5, <1>6
  <2>2. h \in [0 .. x -> S]
    <3>1. \A i \in 0 .. x : i # x => i \in 0 .. x - 1
      BY <1>5
    <3>2. \A i \in 0 .. x : (IF i = x THEN F[x][g[x - 1]] ELSE g[i]) \in S
      BY <1>6, <2>1, <3>1
    <3> QED
      BY <1>7, <3>2
  <2>3. h[0] = a
    BY <1>5, <1>6, <1>7
  <2>4. ASSUME NEW i \in 1 .. x PROVE h[i] = F[i][h[i - 1]]
    <3>1. i - 1 \in 0 .. x /\ i - 1 # x /\ i \in 0 .. x
      BY <1>5
    <3>2. h[i - 1] = g[i - 1]
      BY <1>7, <3>1
    <3>3. CASE i = x
      BY <1>7, <3>1, <3>2, <3>3
    <3>4. CASE i # x
      <4>1. i \in 1 .. x - 1
        BY <1>5, <3>4
      <4>2. h[i] = g[i]
        BY <1>7, <3>1, <3>4
      <4> QED
        BY <1>6, <3>2, <4>1, <4>2
    <3> QED
      BY <3>3, <3>4
  <2> QED
    BY <2>2, <2>3, <2>4
<1> QED
  BY <1>3, <1>8

(* The larger of two numbers. *)
LEMMA MaxOfTwo ==
  ASSUME NEW a \in Int, NEW b \in Int
  PROVE  Max({a, b}) = IF a >= b THEN a ELSE b
<1> DEFINE m == IF a >= b THEN a ELSE b
<1>1. m \in {a, b} /\ \A y \in {a, b} : m >= y
  OBVIOUS
<1>2. ASSUME NEW x \in {a, b}, \A y \in {a, b} : x >= y PROVE x = m
  BY <1>2
<1> QED
  BY <1>1, <1>2 DEF Max

-----------------------------------------------------------------------------
(* The contracts. *)

(* A new block changes nothing but the time of a planned withdraw. *)
LEMMA NextBlockStorageOK ==
  ASSUME NEW s \in Storages
  PROVE  NextBlockStorage(s) \in Storages /\ Later(s, NextBlockStorage(s))
<1>1. s.plan.left - 1 \in Int
  BY DEF Storages
<1>2. PICK m : m = Max({s.plan.left - 1, 0})
  BY Zenon
<1>3. m \in Int
  BY <1>1, <1>2, MaxOfTwo
<1>4. NextBlockStorage(s) = [s EXCEPT !.plan = [s.plan EXCEPT !.left = m]]
  BY <1>2 DEF NextBlockStorage
<1>5. PICK p : p = [s.plan EXCEPT !.left = m]
  BY Zenon
<1>6. p \in [amount : Int, left : Int]
  BY <1>3, <1>5 DEF Storages
<1>7. [s EXCEPT !.plan = p] \in Storages /\ Later(s, [s EXCEPT !.plan = p])
  BY <1>6 DEF Storages, Later
<1> QED
  BY <1>4, <1>5, <1>7

(* The argument of a contract's function. *)
ArgumentOK(op, arg) == IF op = "registerSecretBatch" THEN arg \in SUBSET Secrets ELSE arg \in Int

(* What a transaction that does not fail does to the storage s. *)
Advances(op, arg, s, t) ==
  /\ t \in Storages /\ Later(s, t)
  /\ op = "registerSecretBatch" => arg \subseteq t.secrets
  /\ op = "deposit" => t.deposit >= arg
  /\ op = "createERC20TokenNetwork" => t.registered

(* The storage after one of our fields changed: the rest is as it was. *)
Same(s, t) ==
  /\ t \in Storages /\ t.deposit = s.deposit /\ t.secrets = s.secrets
  /\ t.registered = s.registered

(* A function that moves tokens: what it leaves alone. *)
LEMMA TokensMove ==
  ASSUME NEW s \in Storages, NEW b \in Int, NEW c \in Int, NEW d \in Int
  PROVE  Same(s, [s EXCEPT !.balance = b, !.whole = c, !.wallet = d])
<1>1. PICK s1 : s1 = [s EXCEPT !.balance = b]
  BY Zenon
<1>2. PICK s2 : s2 = [s1 EXCEPT !.whole = c]
  BY Zenon
<1>3. PICK s3 : s3 = [s2 EXCEPT !.wallet = d]
  BY Zenon
<1>4. Same(s, s1)
  BY <1>1 DEF Storages, Same
<1>5. Same(s1, s2)
  BY <1>2, <1>4 DEF Storages, Same
<1>6. Same(s2, s3)
  BY <1>3, <1>5 DEF Storages, Same
<1>7. s3 = [s EXCEPT !.balance = b, !.whole = c, !.wallet = d]
  BY ONLY <1>1, <1>2, <1>3
<1> QED
  BY <1>4, <1>5, <1>6, <1>7 DEF Same

(* A function that does not revert has its effect and undoes nobody's: the *)
(* deposit grows, no secret is forgotten and no token network disappears.  *)
LEMMA ExecuteAdvances ==
  ASSUME NEW op, NEW arg, ArgumentOK(op, arg), NEW s \in Storages, Require(op, arg, s)
  PROVE  Advances(op, arg, s, Execute(op, arg, s))
<1> DEFINE t == Execute(op, arg, s)
<1>1. CASE op = "approve"
  <2>1. t = [s EXCEPT !.allowance = arg]
    BY <1>1 DEF Execute
  <2> QED
    BY <1>1, <2>1 DEF Advances, Later, Storages, ArgumentOK
<1>2. CASE op = "mintFor"
  <2>1. t = [s EXCEPT !.wallet = s.wallet + arg]
    BY <1>2 DEF Execute
  <2> QED
    BY <1>2, <2>1 DEF Advances, Later, Storages, ArgumentOK
<1>3. CASE op = "registerSecretBatch"
  <2>1. t = [s EXCEPT !.secrets = s.secrets \union arg]
    BY <1>3 DEF Execute
  <2> QED
    BY <1>3, <2>1 DEF Advances, Later, Storages, ArgumentOK
<1>4. CASE op = "deposit"
  <2>1. PICK more : more = arg - s.deposit
    BY Zenon
  <2>2. arg \in Int /\ s.deposit \in Int /\ arg > s.deposit /\ more \in Int
    BY <1>4, <2>1 DEF Require, ArgumentOK, Storages
  <2>3. PICK s1 : s1 = [s EXCEPT !.balance = @ + more, !.whole = @ + more, !.wallet = @ - more]
    BY Zenon
  <2>4. s.balance + more \in Int /\ s.whole + more \in Int /\ s.wallet - more \in Int
        /\ s.allowance - more \in Int
    BY <2>2 DEF Storages
  <2>5. Same(s, s1)
    BY Zenon, <2>3, <2>4, TokensMove
  <2>6. PICK s2 : s2 = [s1 EXCEPT !.allowance = s.allowance - more]
    BY Zenon
  <2>7. Same(s, s2)
    BY <2>4, <2>5, <2>6 DEF Same, Storages
  <2>8. PICK s3 : s3 = [s2 EXCEPT !.deposit = arg]
    BY Zenon
  <2>9. s3 \in Storages /\ s3.deposit = arg /\ s3.secrets = s.secrets /\ s3.registered = s.registered
    BY <2>2, <2>7, <2>8 DEF Same, Storages
  <2>10. t = [s EXCEPT !.deposit = arg, !.balance = @ + more, !.whole = @ + more,
                       !.wallet = @ - more, !.allowance = @ - more]
    BY <1>4, <2>1 DEF Execute
  <2>11. s3 = t
    BY ONLY Zenon, <2>3, <2>6, <2>8, <2>10
  <2>12. Advances(op, arg, s, s3)
    BY <1>4, <2>2, <2>9 DEF Advances, Later
  <2> QED
    BY <2>11, <2>12
<1>5. CASE op = "planWithdraw"
  <2>1. t = [s EXCEPT !.plan = [amount |-> arg, left |-> WithdrawDelay]]
    BY <1>5 DEF Execute
  <2>2. arg \in Int /\ WithdrawDelay \in Int
    BY <1>5, ContractsAssumption DEF ArgumentOK
  <2> QED
    BY <1>5, <2>1, <2>2 DEF Advances, Later, Storages
<1>6. CASE op = "withdraw"
  <2>1. PICK less : less = Withdrawn(s, arg)
    BY Zenon
  <2>2. arg \in Int /\ s.balance \in Int
    BY <1>6 DEF ArgumentOK, Storages
  <2>3. less \in Int
    BY <2>1, <2>2, MinOfTwo DEF Withdrawn
  <2>4. s.balance - less \in Int /\ s.whole - less \in Int /\ s.wallet + less \in Int
    BY <2>3 DEF Storages
  <2>5. PICK s1 : s1 = [s EXCEPT !.balance = @ - less, !.whole = @ - less, !.wallet = @ + less]
    BY Zenon
  <2>6. Same(s, s1)
    BY Zenon, <2>4, <2>5, TokensMove
  <2>7. PICK s2 : s2 = [s1 EXCEPT !.plan = NoPlan]
    BY Zenon
  <2>8. Same(s, s2)
    BY <2>6, <2>7 DEF Same, Storages, NoPlan
  <2>9. t = [s EXCEPT !.balance = @ - less, !.whole = @ - less, !.wallet = @ + less, !.plan = NoPlan]
    BY <1>6, <2>1 DEF Execute
  <2>10. t = s2
    BY ONLY <2>5, <2>7, <2>9
  <2>11. Advances(op, arg, s, s2)
    BY <1>6, <2>8 DEF Advances, Same, Later, Storages
  <2> QED
    BY <2>10, <2>11
<1>7. CASE op \in {"createERC20TokenNetwork", "othersCreate"}
  <2>1. PICK s1 : s1 = [s EXCEPT !.registered = TRUE]
    BY Zenon
  <2>2. s1 \in Storages /\ s1.secrets = s.secrets /\ s1.deposit = s.deposit /\ s1.registered = TRUE
    BY Zenon, <2>1 DEF Storages
  <2>3. PICK s2 : s2 = [s1 EXCEPT !.networks = s.networks + 1]
    BY Zenon
  <2>4. s.networks + 1 \in Int
    BY DEF Storages
  <2>5. Same(s1, s2)
    BY Zenon, <2>2, <2>3, <2>4 DEF Same, Storages
  <2>6. t = [s EXCEPT !.registered = TRUE, !.networks = @ + 1]
    BY <1>7 DEF Execute
  <2>7. t = s2
    BY ONLY <2>1, <2>3, <2>6
  <2>8. Advances(op, arg, s, s2)
    BY <1>7, <2>2, <2>5 DEF Advances, Same, Later, Storages
  <2> QED
    BY <2>7, <2>8
<1>8. CASE op = "othersDeposit"
  <2>1. t = [s EXCEPT !.whole = s.whole + arg]
    BY <1>8 DEF Execute
  <2> QED
    BY <1>8, <2>1 DEF Advances, Later, Storages, ArgumentOK
<1>9. CASE op = "othersClaim"
  <2>1. PICK s1 : s1 = [s EXCEPT !.balance = s.balance - arg]
    BY Zenon
  <2>2. arg \in Int
    BY <1>9 DEF ArgumentOK
  <2>3. Same(s, s1)
    BY <2>1, <2>2 DEF Same, Storages
  <2>4. PICK s2 : s2 = [s1 EXCEPT !.whole = s.whole - arg]
    BY Zenon
  <2>5. Same(s, s2)
    BY <2>2, <2>3, <2>4 DEF Same, Storages
  <2>6. t = [s EXCEPT !.balance = @ - arg, !.whole = @ - arg]
    BY <1>9 DEF Execute
  <2>7. t = s2
    BY ONLY <2>1, <2>4, <2>6
  <2>8. Advances(op, arg, s, s2)
    BY <1>9, <2>5 DEF Advances, Same, Later, Storages
  <2> QED
    BY <2>7, <2>8
<1> QED
  BY SMTT(30), <1>1, <1>2, <1>3, <1>4, <1>5, <1>6, <1>7, <1>8, <1>9 DEF Require

-----------------------------------------------------------------------------
(* Blocks. *)

(* What is known of the variables when a block is executed. *)
BlocksOK == IsInstance(inst) /\ TxsOK

(* Block c is block b with transaction n behind it. *)
Includes(b, n, c) ==
  /\ c \in BlockTypes /\ c.txs = b.txs /\ Later(b.storage, c.storage)
  /\ b.failed \subseteq c.failed /\ c.failed \subseteq b.failed \union {n}
  /\ n \in Nonce /\ n \notin c.failed => Effect(txs[n], c.storage)

(* A transaction that does not fail has its effect in its block. *)
LEMMA IncludeOK ==
  ASSUME BlocksOK, NEW b \in BlockTypes, NEW n \in 0 .. MaxTx
  PROVE  Includes(b, n, Include(b, n))
<1>1. PICK t : t = TxOf(n)
  BY Zenon
<1>2. b.storage \in Storages /\ b.txs \in Seq(0 .. MaxTx) /\ b.failed \in SUBSET (0 .. MaxTx)
  BY DEF BlockTypes
<1>3. ArgumentOK(t.op, t.arg)
  <2>1. CASE n = 0
    BY <1>1, <2>1 DEF TxOf, BlocksOK, IsInstance, ArgumentOK
  <2>2. CASE n # 0
    <3>1. n \in Nonce
      BY <2>2, ClientAssumption DEF Nonce
    <3>2. TxArgs(txs[n])
      BY <3>1 DEF BlocksOK, TxsOK
    <3>3. t.op = txs[n].op /\ t.arg = txs[n].arg
      BY <1>1, <2>2 DEF TxOf
    <3> QED
      BY <3>2, <3>3 DEF ArgumentOK, TxArgs
  <2> QED
    BY Zenon, <2>1, <2>2
<1>4. CASE Require(t.op, t.arg, b.storage)
  <2>1. PICK u : u = Execute(t.op, t.arg, b.storage)
    BY Zenon
  <2>2. Advances(t.op, t.arg, b.storage, u)
    BY Zenon, <1>2, <1>3, <1>4, <2>1, ExecuteAdvances
  <2>3. PICK c : c = [b EXCEPT !.storage = u]
    BY Zenon
  <2>4. Include(b, n) = c
    BY <1>1, <1>4, <2>1, <2>3 DEF Include
  <2>5. u \in Storages /\ Later(b.storage, u)
    BY Zenon, <2>2 DEF Advances
  <2>6. c \in BlockTypes /\ c.txs = b.txs /\ c.failed = b.failed /\ c.storage = u
    BY <2>3, <2>5 DEF BlockTypes
  <2>7. ASSUME n \in Nonce PROVE Effect(txs[n], u)
    <3>1. n # 0
      BY <2>7, ClientAssumption DEF Nonce
    <3>2. t.op = txs[n].op /\ t.arg = txs[n].arg
      BY <1>1, <3>1 DEF TxOf
    <3> QED
      BY <2>2, <3>2 DEF Advances, Effect
  <2>8. Includes(b, n, c)
    BY <2>5, <2>6, <2>7 DEF Includes
  <2> QED
    BY <2>4, <2>8
<1>5. CASE ~Require(t.op, t.arg, b.storage)
  <2>1. PICK c : c = [b EXCEPT !.failed = b.failed \union {n}]
    BY Zenon
  <2>2. Include(b, n) = c
    BY <1>1, <1>5, <2>1 DEF Include
  <2>3. c \in BlockTypes /\ c.txs = b.txs /\ c.storage = b.storage /\ c.failed = b.failed \union {n}
    BY <1>2, <2>1 DEF BlockTypes
  <2>4. Later(b.storage, c.storage)
    BY <1>2, <2>3, LaterIsReflexive
  <2>5. Includes(b, n, c)
    BY <2>3, <2>4 DEF Includes
  <2> QED
    BY <2>2, <2>5
<1> QED
  BY Zenon, <1>4, <1>5

(* Block b may hold the transactions of seq on top of storage s. *)
BlockOf(seq, s, b) ==
  /\ b \in BlockTypes /\ b.txs = seq /\ Later(s, b.storage)
  /\ \A n \in Nonce : InBlock(n, b) /\ n \notin b.failed => Effect(txs[n], b.storage)

(* The same with its first i transactions only. *)
HalfBlock(seq, s, i, b) ==
  /\ b \in BlockTypes /\ b.txs = seq /\ Later(s, b.storage)
  /\ \A j \in 1 .. i : seq[j] \in Nonce /\ seq[j] \notin b.failed => Effect(txs[seq[j]], b.storage)

(* A block that has run i - 1 of its transactions runs the next. *)
LEMMA HalfBlockStep ==
  ASSUME BlocksOK, NEW seq \in Seq(0 .. MaxTx), NEW s \in Storages, NEW i \in 1 .. Len(seq),
         NEW b, HalfBlock(seq, s, i - 1, b)
  PROVE  HalfBlock(seq, s, i, Include(b, seq[i]))
<1>1. PICK c : c = Include(b, seq[i])
  BY Zenon
<1>2. seq[i] \in 0 .. MaxTx /\ b \in BlockTypes
  <2>1. seq[i] \in 0 .. MaxTx
    BY Zenon, SequenceFacts
  <2> QED
    BY Zenon, <2>1 DEF HalfBlock
<1>3. Includes(b, seq[i], c)
  BY Zenon, <1>1, <1>2, IncludeOK
<1>4. b.storage \in Storages /\ c.storage \in Storages
  BY <1>2, <1>3 DEF BlockTypes, Includes
<1>5. Later(s, c.storage)
  BY Zenon, <1>3, <1>4, LaterIsTransitive DEF HalfBlock, Includes
<1>6. ASSUME NEW j \in 1 .. i, seq[j] \in Nonce, seq[j] \notin c.failed
      PROVE  Effect(txs[seq[j]], c.storage)
  <2>1. CASE j = i
    BY Zenon, <1>3, <1>6, <2>1 DEF Includes
  <2>2. CASE j # i
    <3>1. j \in 1 .. i - 1
      BY <2>2
    <3>2. seq[j] \notin b.failed
      BY <1>3, <1>6 DEF Includes
    <3>3. Effect(txs[seq[j]], b.storage)
      BY Zenon, <1>6, <3>1, <3>2 DEF HalfBlock
    <3>4. txs[seq[j]] \in TxTypes /\ TxArgs(txs[seq[j]])
      BY <1>6 DEF BlocksOK, TxsOK
    <3> QED
      BY Zenon, <1>3, <1>4, <3>3, <3>4, EffectStays DEF Includes
  <2> QED
    BY Zenon, <2>1, <2>2
<1>7. c \in BlockTypes /\ c.txs = seq
  BY Zenon, <1>3 DEF Includes, HalfBlock
<1>8. HalfBlock(seq, s, i, c)
  BY Zenon, <1>5, <1>6, <1>7 DEF HalfBlock
<1> QED
  BY Zenon, <1>1, <1>8

(* A block that has run none of its transactions. *)
LEMMA HalfBlockInit ==
  ASSUME NEW seq \in Seq(0 .. MaxTx), NEW s \in Storages
  PROVE  HalfBlock(seq, s, 0, [Block(NextBlockStorage(s)) EXCEPT !.txs = seq])
<1>1. PICK u : u = NextBlockStorage(s)
  BY Zenon
<1>2. u \in Storages /\ Later(s, u)
  BY Zenon, <1>1, NextBlockStorageOK
<1>3. PICK b : b = [Block(u) EXCEPT !.txs = seq]
  BY Zenon
<1>4. b = [txs |-> seq, failed |-> {}, storage |-> u]
  BY Zenon, <1>3 DEF Block
<1>5. HalfBlock(seq, s, 0, b)
  BY <1>2, <1>4 DEF HalfBlock, BlockTypes
<1> QED
  BY Zenon, <1>1, <1>3, <1>5

(* Executed runs the transactions of seq one after the other. *)
LEMMA ExecutedOK ==
  ASSUME BlocksOK, NEW seq \in Seq(0 .. MaxTx), NEW s \in Storages
  PROVE  BlockOf(seq, s, Executed(seq, s))
<1>1. PICK n : n = Len(seq)
  BY Zenon
<1>2. n \in Nat
  BY <1>1, SequenceFacts
<1>3. PICK a : a = [Block(NextBlockStorage(s)) EXCEPT !.txs = seq]
  BY Zenon
<1>4. HalfBlock(seq, s, 0, a) /\ a \in BlockTypes
  BY Zenon, <1>3, HalfBlockInit DEF HalfBlock
<1>5. \A i \in 1 .. n : seq[i] \in 0 .. MaxTx
  BY Zenon, <1>1, SequenceFacts
<1> DEFINE F == [i \in 1 .. n |-> [b \in BlockTypes |-> Include(b, seq[i])]]
           Runs(f) == f = [i \in 0 .. n |-> IF i = 0 THEN a ELSE Include(f[i - 1], seq[i])]
<1>6. PICK f \in [0 .. n -> BlockTypes] : f[0] = a /\ \A i \in 1 .. n : f[i] = F[i][f[i - 1]]
  <2>1. ASSUME NEW i \in 1 .. n, NEW b \in BlockTypes PROVE Include(b, seq[i]) \in BlockTypes
    BY Zenon, <1>5, IncludeOK DEF Includes
  <2>2. F \in [1 .. n -> [BlockTypes -> BlockTypes]]
    BY <2>1
  <2>3. PICK G : G = F
    BY Zenon
  <2> HIDE DEF F
  <2>4. G \in [1 .. n -> [BlockTypes -> BlockTypes]]
    BY Zenon, <2>2, <2>3
  <2>5. PICK f : Iterates(f, n, BlockTypes, a, G)
    BY Zenon, <1>2, <1>4, <2>4, Recursion
  <2> QED
    BY Zenon, <2>3, <2>5 DEF Iterates
<1>7. \A i \in 1 .. n : i - 1 \in 0 .. n /\ i # 0 /\ f[i - 1] \in BlockTypes
  BY <1>2, <1>6
<1>8. \A i \in 1 .. n : f[i] = Include(f[i - 1], seq[i])
  BY Zenon, <1>6, <1>7
<1>9. \A i \in 0 .. n : i # 0 => i \in 1 .. n
  BY <1>2
<1>10. Runs(f)
  <2> HIDE DEF F
  <2>1. \A i \in 0 .. n : f[i] = IF i = 0 THEN a ELSE Include(f[i - 1], seq[i])
    BY Zenon, <1>6, <1>8, <1>9
  <2> QED
    BY <1>6, <2>1
<1>11. PICK g : g = CHOOSE h : Runs(h)
  BY Zenon
<1>12. Runs(g)
  BY Zenon, <1>10, <1>11
<1>13. Executed(seq, s) = g[n]
  BY <1>1, <1>3, <1>11 DEF Executed
<1>14. g[0] = a /\ \A i \in 1 .. n : g[i] = Include(g[i - 1], seq[i])
  <2>1. 0 \in 0 .. n /\ \A i \in 1 .. n : i \in 0 .. n /\ i # 0
    BY <1>2
  <2> QED
    BY Zenon, <1>12, <2>1
<1> HIDE DEF Runs, F
<1> DEFINE bad == {i \in 0 .. n : ~HalfBlock(seq, s, i, g[i])}
<1>15. bad = {}
  <2>1. SUFFICES ASSUME bad # {} PROVE FALSE
    OBVIOUS
  <2>2. PICK x \in bad : \A y \in bad : x <= y
    <3>1. bad \subseteq Nat
      OBVIOUS
    <3> HIDE DEF bad
    <3> QED
      BY Zenon, <2>1, <3>1, Least
  <2>3. x \in 0 .. n /\ ~HalfBlock(seq, s, x, g[x])
    BY <2>2
  <2>4. x # 0
    BY Zenon, <1>4, <1>14, <2>3
  <2>5. x \in 1 .. n /\ x - 1 \in 0 .. n /\ ~(x <= x - 1)
    BY <1>2, <2>3, <2>4
  <2>6. HalfBlock(seq, s, x - 1, g[x - 1])
    BY Zenon, <2>2, <2>5
  <2>7. HalfBlock(seq, s, x, Include(g[x - 1], seq[x]))
    BY Zenon, <1>1, <2>5, <2>6, HalfBlockStep
  <2> QED
    BY Zenon, <1>14, <2>3, <2>5, <2>7
<1>16. HalfBlock(seq, s, n, g[n])
  <2>1. n \in 0 .. n
    BY <1>2
  <2> QED
    BY Zenon, <1>15, <2>1
<1>17. BlockOf(seq, s, g[n])
  BY Zenon, <1>1, <1>16 DEF BlockOf, HalfBlock, InBlock
<1> QED
  BY Zenon, <1>13, <1>17

-----------------------------------------------------------------------------
(* The chain. *)

(* seq may be in a block when the transactions of p wait. *)
BatchOf(p, seq) ==
  /\ seq \in Seq(0 .. MaxTx)
  /\ \A i \in 1 .. Len(seq) : seq[i] = 0 \/ (seq[i] \in p /\ txs[seq[i]] # NoTx)

(* The transactions of seq. *)
LEMMA SeqRange ==
  ASSUME NEW seq \in Seq(0 .. MaxTx)
  PROVE  Range(seq) = {seq[i] : i \in 1 .. Len(seq)}
<1>1. DOMAIN seq = 1 .. Len(seq)
  BY Zenon, SequenceFacts
<1> QED
  BY Zenon, <1>1 DEF Range

(* Only transactions that wait are put into a block. *)
LEMMA BatchOK ==
  ASSUME NEW p \in SUBSET Nonce, NEW t, NEW seq \in Batches(p, t)
  PROVE  BatchOf(p, seq)
<1>1. PICK ours : ours = Executable(p)
  BY Zenon
<1>2. ours \subseteq Nonce /\ \A n \in ours : n \in p /\ txs[n] # NoTx
  <2>1. ASSUME NEW n \in ours PROVE n \in p /\ n \in 1 .. n /\ \A m \in 1 .. n : txs[m] # NoTx
    <3>1. n \in p /\ \A m \in 1 .. n : txs[m] # NoTx
      BY Zenon, <1>1, <2>1 DEF Executable
    <3>2. n \in Nat /\ n >= 1
      BY <3>1, ClientAssumption DEF Nonce
    <3> QED
      BY <3>1, <3>2
  <2> QED
    BY Zenon, <2>1
<1>3. Cardinality(ours) \in Nat
  <2>1. IsFiniteSet(Nonce)
    BY FS_Interval, ClientAssumption DEF Nonce
  <2> QED
    BY Zenon, <1>2, <2>1, FS_Subset, FS_CardinalityType
<1>4. PICK k \in 0 .. Cardinality(ours) :
        /\ Range(First(ours, k)) \subseteq ours
        /\ seq \in {First(ours, k)} \union IF t = "pool" THEN {<<0>> \o First(ours, k), First(ours, k) \o <<0>>}
                                                      ELSE {}
  BY Zenon, <1>1 DEF Batches
<1>5. PICK f : f = First(ours, k)
  BY Zenon
<1>6. PICK m : m = Min(ours)
  BY Zenon
<1>7. k \in Nat /\ f = [i \in 1 .. k |-> m + i - 1]
  BY <1>3, <1>5, <1>6 DEF First
<1>8. \A i \in 1 .. k : f[i] \in ours
  <2>1. DOMAIN f = 1 .. k
    BY <1>7
  <2> QED
    BY Zenon, <1>4, <1>5, <2>1 DEF Range
<1>9. f \in Seq(ours) /\ Len(f) = k
  <2>1. f \in [1 .. k -> ours]
    BY <1>7, <1>8
  <2>2. f \in Seq(ours)
    BY <1>7, <2>1, FunctionIsSequence
  <2>3. DOMAIN f = 1 .. Len(f) /\ DOMAIN f = 1 .. k /\ Len(f) \in Nat
    BY <2>1, <2>2, SequenceFacts
  <2> QED
    BY <1>7, <2>2, <2>3
<1>10. f \in Seq(0 .. MaxTx)
  <2>1. ours \subseteq 0 .. MaxTx
    BY <1>2, NonceFacts
  <2> QED
    BY Zenon, <1>9, <2>1, SequenceOfMore
<1>11. PICK z : z = <<0>>
  BY Zenon
<1>12. z \in Seq(0 .. MaxTx) /\ Len(z) = 1 /\ z[1] = 0
  BY <1>11, ClientAssumption
<1>13. CASE seq = f
  BY Zenon, <1>2, <1>8, <1>9, <1>10, <1>13 DEF BatchOf
<1>14. CASE seq = z \o f
  <2>1. seq \in Seq(0 .. MaxTx) /\ Len(seq) = 1 + k
        /\ \A i \in 1 .. 1 + k : seq[i] = IF i <= 1 THEN z[i] ELSE f[i - 1]
    <3>1. /\ z \o f \in Seq(0 .. MaxTx) /\ Len(z \o f) = Len(z) + Len(f)
          /\ \A i \in 1 .. Len(z) + Len(f) :
               (z \o f)[i] = IF i <= Len(z) THEN z[i] ELSE f[i - Len(z)]
      BY Zenon, <1>10, <1>12, ConcatFacts
    <3> QED
      BY Zenon, <1>9, <1>12, <1>14, <3>1
  <2>2. ASSUME NEW i \in 1 .. Len(seq) PROVE seq[i] = 0 \/ seq[i] \in ours
    <3>1. CASE i = 1
      BY <1>7, <1>12, <2>1, <3>1
    <3>2. CASE i # 1
      <4>1. i - 1 \in 1 .. k /\ ~(i <= 1) /\ i \in 1 .. 1 + k
        BY <1>7, <2>1, <3>2
      <4> QED
        BY Zenon, <1>8, <2>1, <4>1
    <3> QED
      BY Zenon, <3>1, <3>2
  <2> QED
    BY Zenon, <1>2, <2>1, <2>2 DEF BatchOf
<1>15. CASE seq = f \o z
  <2>1. seq \in Seq(0 .. MaxTx) /\ Len(seq) = k + 1
        /\ \A i \in 1 .. k + 1 : seq[i] = IF i <= k THEN f[i] ELSE z[i - k]
    <3>1. /\ f \o z \in Seq(0 .. MaxTx) /\ Len(f \o z) = Len(f) + Len(z)
          /\ \A i \in 1 .. Len(f) + Len(z) :
               (f \o z)[i] = IF i <= Len(f) THEN f[i] ELSE z[i - Len(f)]
      BY Zenon, <1>10, <1>12, ConcatFacts
    <3> QED
      BY Zenon, <1>9, <1>12, <1>15, <3>1
  <2>2. ASSUME NEW i \in 1 .. Len(seq) PROVE seq[i] = 0 \/ seq[i] \in ours
    <3>1. i \in 1 .. k \/ (i = k + 1 /\ i - k = 1 /\ ~(i <= k))
      BY <1>7, <2>1
    <3> QED
      BY <1>7, <1>8, <1>12, <2>1, <3>1
  <2> QED
    BY Zenon, <1>2, <2>1, <2>2 DEF BatchOf
<1> QED
  BY Zenon, <1>4, <1>5, <1>11, <1>13, <1>14, <1>15

(* What no block changes of a transaction: who sent it, and what it does. *)
SameTx(t, u) ==
  u.call = t.call /\ u.op = t.op /\ u.arg = t.arg /\ u.run = t.run

(* A transaction that retires keeps its effect. *)
LEMMA SameEffect ==
  ASSUME NEW t, NEW u, SameTx(t, u), NEW s
  PROVE  Effect(t, s) <=> Effect(u, s)
BY Zenon DEF SameTx, Effect

(* The transactions of the block b that leaves the window. *)
RetiredTx(t, b, n, u) ==
  /\ u \in TxTypes /\ SameTx(t, u)
  /\ InBlock(n, b) => u.old /\ (u.storage = None <=> n \notin b.failed)
  /\ ~InBlock(n, b) => u = t

(* Transactions that leave the window with the first block. *)
LEMMA RetiredOK ==
  ASSUME TxsOK, NEW b \in BlockTypes, NEW n \in Nonce
  PROVE  RetiredTx(txs[n], b, n, Retired(txs, b)[n])
<1>1. PICK t : t = txs[n]
  BY Zenon
<1>2. t \in TxTypes
  BY Zenon, <1>1 DEF TxsOK
<1>3. PICK u : u = Retired(txs, b)[n]
  BY Zenon
<1>4. CASE InBlock(n, b)
  <2>1. PICK s : s = IF n \in b.failed THEN b.storage ELSE None
    BY Zenon
  <2>2. b.storage \in Storages /\ b.storage # None
    BY InstancesAssumption DEF BlockTypes
  <2>3. s \in Storages \union {None} /\ (s = None <=> n \notin b.failed)
    BY Zenon, <2>1, <2>2
  <2>4. PICK v : v = [t EXCEPT !.old = TRUE]
    BY Zenon
  <2>5. v \in TxTypes /\ v.call = t.call /\ v.op = t.op /\ v.arg = t.arg /\ v.run = t.run /\ v.old = TRUE
    BY Zenon, <1>2, <2>4 DEF TxTypes
  <2>6. PICK w : w = [v EXCEPT !.storage = s]
    BY Zenon
  <2>7. w \in TxTypes /\ w.call = v.call /\ w.op = v.op /\ w.arg = v.arg /\ w.run = v.run /\ w.old = v.old
        /\ w.storage = s
    BY <2>3, <2>5, <2>6 DEF TxTypes
  <2>8. u = [t EXCEPT !.old = TRUE, !.storage = s]
    BY <1>1, <1>3, <1>4, <2>1 DEF Retired
  <2>9. u = w
    BY ONLY <2>4, <2>6, <2>8
  <2> QED
    BY <1>1, <1>3, <1>4, <2>3, <2>5, <2>7, <2>9 DEF RetiredTx, SameTx
<1>5. CASE ~InBlock(n, b)
  <2>1. u = t
    BY <1>1, <1>3, <1>5 DEF Retired
  <2> QED
    BY Zenon, <1>1, <1>2, <1>3, <1>5, <2>1 DEF RetiredTx, SameTx
<1> QED
  BY Zenon, <1>4, <1>5

(* What a new block does: the window moves on, b is the block that is new. *)
Mines(seq, b) ==
  /\ BatchOf(pool, seq) /\ BlockOf(seq, Storage, b)
  /\ chain' \in [1 .. Window -> BlockTypes] /\ chain'[Window] = b
  /\ \A i \in 1 .. Window - 1 : chain'[i] = chain[i + 1]
  /\ txs' \in [Nonce -> TxTypes]
  /\ \A n \in Nonce : RetiredTx(txs[n], chain[1], n, txs'[n])
  /\ pool' = pool \ Range(seq)

(* What a new block changes. *)
LEMMA MineFacts ==
  ASSUME Types, NEW seq \in Batches(pool, theirs), Mine(seq)
  PROVE  \E b : Mines(seq, b)
<1>1. /\ chain \in [1 .. Window -> BlockTypes] /\ pool \in SUBSET Nonce
      /\ BlocksOK /\ TxsOK
  BY Zenon DEF Types, ClientOK, BlocksOK
<1>2. BatchOf(pool, seq)
  BY Zenon, <1>1, BatchOK
<1>3. PICK b : b = Executed(seq, Storage)
  BY Zenon
<1>4. Storage \in Storages
  BY <1>1, WindowFacts DEF Storage, BlockTypes
<1>5. BlockOf(seq, Storage, b) /\ b \in BlockTypes
  BY Zenon, <1>1, <1>2, <1>3, <1>4, ExecutedOK DEF BatchOf, BlockOf
<1>6. chain' = Append(Tail(chain), b)
  BY Zenon, <1>3 DEF Mine
<1>7. /\ chain' \in [1 .. Window -> BlockTypes] /\ chain'[Window] = b
      /\ \A i \in 1 .. Window - 1 : chain'[i] = chain[i + 1]
  <2>1. chain \in Seq(BlockTypes)
    BY <1>1, WindowFacts, FunctionIsSequence
  <2>2. Len(chain) = Window
    <3>1. DOMAIN chain = 1 .. Len(chain) /\ Len(chain) \in Nat
      BY ONLY <2>1, SequenceFacts
    <3>2. DOMAIN chain = 1 .. Window
      BY Zenon, <1>1
    <3>3. Window \in 1 .. Len(chain)
      BY Zenon, <3>1, <3>2, WindowFacts
    <3>4. Len(chain) \in 1 .. Len(chain)
      BY <3>1, <3>3
    <3>5. Len(chain) \in 1 .. Window
      BY Zenon, <3>1, <3>2, <3>4
    <3> QED
      BY <3>3, <3>5, WindowFacts
  <2>3. PICK t : t = Tail(chain)
    BY Zenon
  <2>4. chain # << >>
    BY <2>2, WindowFacts
  <2>5. t \in Seq(BlockTypes) /\ Len(t) = Window - 1 /\ \A i \in 1 .. Window - 1 : t[i] = chain[i + 1]
    BY ONLY <2>1, <2>2, <2>3, <2>4, TailFacts
  <2>6. PICK c : c = Append(t, b)
    BY Zenon
  <2>7. /\ c \in Seq(BlockTypes) /\ Len(c) = Window /\ c[Window] = b
        /\ \A i \in 1 .. Window - 1 : c[i] = t[i]
    BY ONLY <1>5, <2>5, <2>6, AppendFacts, WindowFacts
  <2>8. c \in [1 .. Window -> BlockTypes]
    BY Zenon, <2>7, SequenceFacts
  <2> QED
    BY Zenon, <1>6, <2>3, <2>5, <2>6, <2>7, <2>8
<1>8. chain[1] \in BlockTypes
  BY <1>1, WindowFacts
<1>9. txs' = Retired(txs, chain[1])
  BY Zenon DEF Mine
<1>10. \A n \in Nonce : RetiredTx(txs[n], chain[1], n, txs'[n])
  BY Zenon, <1>1, <1>8, <1>9, RetiredOK
<1>11. txs' \in [Nonce -> TxTypes]
  <2>1. \A n \in Nonce : txs'[n] \in TxTypes
    BY Zenon, <1>10 DEF RetiredTx
  <2>2. txs' = [n \in Nonce |-> txs'[n]]
    BY Zenon, <1>9 DEF Retired
  <2> QED
    BY <2>1, <2>2
<1>12. pool' = pool \ Range(seq)
  BY Zenon DEF Mine
<1> QED
  BY Zenon, <1>2, <1>5, <1>7, <1>10, <1>11, <1>12 DEF Mines

(* The transactions a new block may hold are in no block yet. *)
LEMMA PoolIsNotMined ==
  ASSUME ChainInv, NEW n \in Nonce, n \in pool
  PROVE  /\ txs[n] # NoTx /\ ~txs[n].old
         /\ \A i \in 1 .. Window : ~InBlock(n, chain[i])
BY Zenon DEF ChainInv, InBlockInv

(* Only transactions that were sent retire. *)
LEMMA RetiredNoTx ==
  ASSUME TxsOK, ChainInv, NEW n \in Nonce, NEW u, RetiredTx(txs[n], chain[1], n, u)
  PROVE  u = NoTx <=> txs[n] = NoTx
<1>1. CASE InBlock(n, chain[1])
  <2>1. 1 \in 1 .. Window
    BY WindowFacts
  <2>2. txs[n] # NoTx
    BY Zenon, <1>1, <2>1 DEF ChainInv, InBlockInv
  <2>3. u.old
    BY Zenon, <1>1 DEF RetiredTx
  <2> QED
    BY Zenon, <2>2, <2>3, NoTxFacts
<1>2. CASE ~InBlock(n, chain[1])
  BY Zenon, <1>2 DEF RetiredTx
<1> QED
  BY Zenon, <1>1, <1>2

(* A transaction n in the block b of the batch seq. *)
LEMMA InBatch ==
  ASSUME NEW p \in SUBSET Nonce, NEW seq, BatchOf(p, seq), NEW b, b.txs = seq, NEW n \in Nonce
  PROVE  /\ InBlock(n, b) <=> n \in Range(seq)
         /\ n \in Range(seq) => n \in p /\ txs[n] # NoTx
<1>1. seq \in Seq(0 .. MaxTx)
  BY Zenon DEF BatchOf
<1>2. Range(seq) = {seq[i] : i \in 1 .. Len(seq)}
  BY Zenon, <1>1, SeqRange
<1>3. n # 0
  BY NonceFacts
<1> QED
  BY Zenon, <1>2, <1>3 DEF InBlock, BatchOf

(* A block at the top of the window. *)
LEMMA MineKeepsChain ==
  ASSUME Types, ChainInv, NEW seq, NEW b, Mines(seq, b)
  PROVE  ChainInv'
<1>1. TxsOK /\ ClientOK /\ pool \in SUBSET Nonce
  BY Zenon DEF Types, ClientOK
<1>2. /\ BatchOf(pool, seq) /\ BlockOf(seq, Storage, b) /\ b.txs = seq
      /\ chain'[Window] = b /\ \A i \in 1 .. Window - 1 : chain'[i] = chain[i + 1]
      /\ pool' = pool \ Range(seq)
  BY Zenon DEF Mines, BlockOf
<1>3. \A n \in Nonce : RetiredTx(txs[n], chain[1], n, txs'[n])
  BY Zenon DEF Mines
<1>4. \A n \in Nonce : SameTx(txs[n], txs'[n]) /\ (txs'[n] = NoTx <=> txs[n] = NoTx)
  BY Zenon, <1>1, <1>3, RetiredNoTx DEF RetiredTx
<1>5. \A i \in 1 .. Window : i = Window \/ (i \in 1 .. Window - 1 /\ i + 1 \in 1 .. Window /\ i + 1 # 1)
  BY WindowFacts
<1>6. 1 \in 1 .. Window /\ Window \in 1 .. Window /\ \A i \in 1 .. Window : chain[i].storage \in Storages
  BY <1>1, WindowFacts DEF ClientOK, BlockTypes
<1>7. ASSUME NEW n \in Nonce, n \in Range(seq)
      PROVE  /\ n \in pool /\ txs[n] # NoTx /\ txs'[n] = txs[n] /\ ~txs[n].old
             /\ \A i \in 1 .. Window : ~InBlock(n, chain[i])
  <2>1. n \in pool
    BY Zenon, <1>1, <1>2, <1>7, InBatch
  <2>2. txs[n] # NoTx /\ ~txs[n].old /\ \A i \in 1 .. Window : ~InBlock(n, chain[i])
    BY Zenon, <2>1, PoolIsNotMined
  <2> QED
    BY Zenon, <1>3, <1>6, <2>1, <2>2 DEF RetiredTx
<1>8. ASSUME NEW n \in Nonce, NEW i \in 1 .. Window, InBlock(n, chain'[i]) PROVE InBlockInv(n, i)'
  <2>1. CASE i = Window
    <3>1. n \in Range(seq)
      BY Zenon, <1>1, <1>2, <1>8, <2>1, InBatch
    <3>2. \A j \in 1 .. Window : InBlock(n, chain'[j]) => i = j
      BY Zenon, <1>2, <1>5, <1>7, <2>1, <3>1
    <3>3. n \notin chain'[i].failed => Effect(txs'[n], chain'[i].storage)
      BY Zenon, <1>2, <1>7, <1>8, <2>1, <3>1 DEF BlockOf
    <3> QED
      BY Zenon, <1>2, <1>7, <3>1, <3>2, <3>3 DEF InBlockInv
  <2>2. CASE i # Window
    <3>1. i \in 1 .. Window - 1 /\ i + 1 \in 1 .. Window /\ i + 1 # 1 /\ chain'[i] = chain[i + 1]
      BY Zenon, <1>2, <1>5, <2>2
    <3>2. InBlockInv(n, i + 1)
      BY Zenon, <1>8, <3>1 DEF ChainInv
    <3>3. txs'[n] = txs[n]
      BY Zenon, <1>3, <1>6, <3>1, <3>2 DEF InBlockInv, RetiredTx
    <3>4. n \notin Range(seq)
      BY Zenon, <1>7, <1>8, <3>1
    <3>5. ASSUME NEW j \in 1 .. Window, InBlock(n, chain'[j]) PROVE i = j
      <4>1. j # Window
        BY Zenon, <1>1, <1>2, <3>4, <3>5, InBatch
      <4>2. j + 1 \in 1 .. Window /\ chain'[j] = chain[j + 1]
        BY Zenon, <1>2, <1>5, <4>1
      <4>3. i + 1 = j + 1
        BY Zenon, <3>2, <3>5, <4>2 DEF InBlockInv
      <4> QED
        BY <4>3
    <3> QED
      BY Zenon, <1>2, <3>1, <3>2, <3>3, <3>5 DEF InBlockInv
  <2> QED
    BY Zenon, <2>1, <2>2
<1>9. Later(chain[1].storage, chain'[1].storage)
  <2>1. CASE 1 = Window
    BY Zenon, <1>2, <2>1 DEF BlockOf, Storage
  <2>2. CASE 1 # Window
    <3>1. 1 \in 1 .. Window - 1
      BY Zenon, <1>5, <1>6, <2>2
    <3> QED
      BY Zenon, <1>2, <3>1 DEF ChainInv
  <2> QED
    BY Zenon, <2>1, <2>2
<1>10. \A i \in 1 .. Window : chain'[i].storage \in Storages
  BY DEF Mines, BlockTypes
<1>11. ASSUME NEW n \in Nonce, txs'[n].old
       PROVE  /\ txs'[n] # NoTx /\ n \notin pool'
              /\ txs'[n].storage = None => Effect(txs'[n], chain'[1].storage)
  <2>1. ASSUME Effect(txs[n], chain[1].storage) PROVE Effect(txs'[n], chain'[1].storage)
    <3>1. txs[n] \in TxTypes /\ TxArgs(txs[n])
      BY Zenon, <1>1 DEF TxsOK
    <3>2. Effect(txs[n], chain'[1].storage)
      BY Zenon, <1>6, <1>9, <1>10, <2>1, <3>1, EffectStays
    <3> QED
      BY Zenon, <1>4, <3>2, SameEffect
  <2>2. CASE InBlock(n, chain[1])
    <3>1. InBlockInv(n, 1)
      BY Zenon, <1>6, <2>2 DEF ChainInv
    <3>2. txs'[n].storage = None => n \notin chain[1].failed
      BY Zenon, <1>3, <2>2 DEF RetiredTx
    <3> QED
      BY Zenon, <1>2, <1>4, <2>1, <3>1, <3>2 DEF InBlockInv
  <2>3. CASE ~InBlock(n, chain[1])
    <3>1. txs'[n] = txs[n]
      BY Zenon, <1>3, <2>3 DEF RetiredTx
    <3> QED
      BY Zenon, <1>2, <1>11, <2>1, <3>1 DEF ChainInv
  <2> QED
    BY Zenon, <2>2, <2>3
<1>12. \A n \in Nonce : n \in pool' => txs'[n] # NoTx
  BY Zenon, <1>2, <1>4 DEF ChainInv
<1>13. ASSUME NEW i \in 1 .. Window - 1 PROVE Later(chain'[i].storage, chain'[i + 1].storage)
  <2>1. chain'[i] = chain[i + 1]
    BY Zenon, <1>2
  <2>2. CASE i + 1 = Window
    BY Zenon, <1>2, <2>1, <2>2 DEF BlockOf, Storage
  <2>3. CASE i + 1 # Window
    <3>1. i + 1 \in 1 .. Window - 1
      BY <2>3, WindowFacts
    <3>2. chain'[i + 1] = chain[(i + 1) + 1]
      BY Zenon, <1>2, <3>1
    <3> QED
      BY Zenon, <2>1, <3>1, <3>2 DEF ChainInv
  <2> QED
    BY Zenon, <2>2, <2>3
<1> QED
  BY Zenon, <1>8, <1>11, <1>12, <1>13 DEF ChainInv

(* What the calls rely on when the chain changes, e blocks being added:    *)
(* the final storage only moves on, and what is deep enough stays.         *)
ChainKeeps(e) ==
  /\ Later(FinalStorage, FinalStorage')
  /\ \A n \in Nonce : SameTx(txs[n], txs'[n]) /\ (txs'[n] = NoTx <=> txs[n] = NoTx)
  /\ \A n \in Nonce, d \in Nat, ok \in BOOLEAN :
       d >= MaxReorg /\ d + e <= Window /\ Stays(n, d, ok) => Stays(n, d + e, ok)'

(* A new block puts one more block above every mined transaction. *)
LEMMA MineKeeps ==
  ASSUME Types, ChainInv, TxsOK', ClientOK', ChainInv', NEW seq, NEW b, Mines(seq, b)
  PROVE  ChainKeeps(1)
<1>1. TxsOK /\ ClientOK
  BY Zenon DEF Types
<1>2. /\ chain'[Window] = b /\ \A i \in 1 .. Window - 1 : chain'[i] = chain[i + 1]
      /\ BlockOf(seq, Storage, b)
  BY Zenon DEF Mines
<1>3. \A n \in Nonce : RetiredTx(txs[n], chain[1], n, txs'[n])
  BY Zenon DEF Mines
<1>4. \A n \in Nonce : SameTx(txs[n], txs'[n]) /\ (txs'[n] = NoTx <=> txs[n] = NoTx)
  BY Zenon, <1>1, <1>3, RetiredNoTx DEF RetiredTx
<1>5. Later(FinalStorage, FinalStorage')
  <2>1. CASE MaxReorg = 0
    <3>1. Window - MaxReorg = Window
      BY <2>1, WindowFacts
    <3> QED
      BY Zenon, <1>2, <3>1 DEF FinalStorage, BlockOf, Storage
  <2>2. CASE MaxReorg # 0
    <3>1. Window - MaxReorg \in 1 .. Window - 1
      BY <2>2, WindowFacts
    <3> QED
      BY Zenon, <1>2, <3>1 DEF FinalStorage, ChainInv
  <2> QED
    BY Zenon, <2>1, <2>2
<1>6. ASSUME NEW n \in Nonce, NEW d \in Nat, NEW ok \in BOOLEAN,
             d >= MaxReorg, d + 1 <= Window, Stays(n, d, ok)
      PROVE  Stays(n, d + 1, ok)'
  <2>0. d + 1 \in Nat /\ Window >= d + 1
    BY <1>6, WindowFacts
  <2>1. SUFFICES \/ txs'[n].old /\ (ok => txs'[n].storage = None)
                 \/ ~txs'[n].old /\ \E i \in 1 .. Window :
                      InBlock(n, chain'[i]) /\ Window - i >= d + 1 /\ (ok => n \notin chain'[i].failed)
    <3>1. Stays(n, d + 1, ok)' <=>
            \/ txs'[n].old /\ Window >= d + 1 /\ (ok => txs'[n].storage = None)
            \/ ~txs'[n].old /\ \E i \in 1 .. Window :
                 InBlock(n, chain'[i]) /\ Window - i >= d + 1 /\ (ok => n \notin chain'[i].failed)
      BY Zenon, <2>0 DEF Stays
    <3> QED
      BY Zenon, <2>0, <2>1, <3>1
  <2>2. CASE txs[n].old
    <3>1. ok => txs[n].storage = None
      BY Zenon, <1>1, <1>6, <2>2 DEF Stays
    <3>2. ~InBlock(n, chain[1])
      <4>1. 1 \in 1 .. Window
        BY WindowFacts
      <4> QED
        BY Zenon, <2>2, <4>1 DEF ChainInv, InBlockInv
    <3>3. txs'[n] = txs[n]
      BY Zenon, <1>3, <3>2 DEF RetiredTx
    <3> QED
      BY Zenon, <2>2, <3>1, <3>3
  <2>3. CASE ~txs[n].old
    <3>1. PICK i \in 1 .. Window : InBlock(n, chain[i]) /\ Window - i >= d /\ (ok => n \notin chain[i].failed)
      BY Zenon, <1>1, <1>6, <2>3 DEF Stays
    <3>2. \A j \in 1 .. Window : InBlock(n, chain[j]) => i = j
      BY Zenon, <3>1 DEF ChainInv, InBlockInv
    <3>3. CASE i = 1
      BY Zenon, <1>3, <3>1, <3>3 DEF RetiredTx
    <3>4. CASE i # 1
      <4>1. /\ 1 \in 1 .. Window /\ i - 1 \in 1 .. Window - 1 /\ i - 1 \in 1 .. Window
            /\ (i - 1) + 1 = i /\ Window - (i - 1) >= d + 1
        BY <3>1, <3>4, WindowFacts
      <4>2. chain'[i - 1] = chain[i]
        <5>1. chain'[i - 1] = chain[(i - 1) + 1]
          BY Zenon, <1>2, <4>1
        <5> QED
          BY <4>1, <5>1
      <4>3. txs'[n] = txs[n]
        BY Zenon, <1>3, <3>2, <3>4, <4>1 DEF RetiredTx
      <4> QED
        BY Zenon, <2>3, <3>1, <4>1, <4>2, <4>3
    <3> QED
      BY Zenon, <3>3, <3>4
  <2> QED
    BY Zenon, <2>2, <2>3
<1> QED
  BY Zenon, <1>4, <1>5, <1>6 DEF ChainKeeps

(* The blocks of Rebuilt: each one is executed on top of the one below it. *)
RebuiltChain(kept, seq, at, c) ==
  /\ c \in [1 .. Window -> BlockTypes]
  /\ \A i \in 1 .. kept : c[i] = chain[i]
  /\ \A i \in kept + 1 .. Window :
       BlockOf(IF i = at THEN seq ELSE <<>>, c[i - 1].storage, c[i])

(* The blocks of a reorganisation follow each other. *)
LEMMA RebuiltOK ==
  ASSUME BlocksOK, ClientOK, NEW kept \in 1 .. Window, NEW seq \in Seq(0 .. MaxTx), NEW at
  PROVE  RebuiltChain(kept, seq, at, Rebuilt(kept, seq, at))
<1>1. PICK d : d = Window - kept
  BY Zenon
<1>2. d \in Nat /\ \A j \in 1 .. d : j - 1 \in 0 .. d /\ kept + j \in kept + 1 .. Window /\ j # 0
  BY <1>1, WindowFacts
<1>3. PICK T : T = [i \in kept .. Window |-> IF i = at THEN seq ELSE <<>>]
  BY Zenon
<1>4. /\ \A i \in kept .. Window : T[i] = IF i = at THEN seq ELSE <<>>
      /\ \A i \in kept .. Window : T[i] \in Seq(0 .. MaxTx)
  <2>1. <<>> \in Seq(0 .. MaxTx)
    BY EmptySequence
  <2> QED
    BY Zenon, <1>3, <2>1
<1>5. \A i \in kept + 1 .. Window : i \in kept .. Window
  BY WindowFacts
<1>6. ASSUME NEW b \in BlockTypes, NEW i \in kept + 1 .. Window
      PROVE  /\ Executed(T[i], b.storage) \in BlockTypes
             /\ BlockOf(T[i], b.storage, Executed(T[i], b.storage))
  <2>1. b.storage \in Storages
    BY DEF BlockTypes
  <2> QED
    BY Zenon, <1>4, <1>5, <2>1, ExecutedOK DEF BlockOf
<1>7. PICK F : F = [j \in 1 .. d |-> [b \in BlockTypes |-> Executed(T[kept + j], b.storage)]]
  BY Zenon
<1>8. F \in [1 .. d -> [BlockTypes -> BlockTypes]]
  <2>1. ASSUME NEW j \in 1 .. d, NEW b \in BlockTypes PROVE Executed(T[kept + j], b.storage) \in BlockTypes
    BY Zenon, <1>2, <1>6
  <2> QED
    BY <1>7, <2>1
<1>9. PICK a : a = chain[kept]
  BY Zenon
<1>10. a \in BlockTypes
  BY <1>9 DEF ClientOK
<1>11. PICK f : Iterates(f, d, BlockTypes, a, F)
  BY Zenon, <1>2, <1>8, <1>10, Recursion
<1>12. f \in [0 .. d -> BlockTypes] /\ f[0] = a /\ \A j \in 1 .. d : f[j] = Executed(T[kept + j], f[j - 1].storage)
  <2>1. f \in [0 .. d -> BlockTypes] /\ f[0] = a /\ \A j \in 1 .. d : f[j] = F[j][f[j - 1]]
    BY Zenon, <1>11 DEF Iterates
  <2>2. \A j \in 1 .. d : f[j - 1] \in BlockTypes
    BY Zenon, <1>2, <2>1
  <2> QED
    BY Zenon, <1>7, <2>1, <2>2
<1> DEFINE New(h) == h = [i \in kept .. Window |->
                            IF i = kept THEN chain[i]
                                        ELSE Executed(IF i = at THEN seq ELSE <<>>, h[i - 1].storage)]
<1>13. PICK g : g = [i \in kept .. Window |-> f[i - kept]]
  BY Zenon
<1>14. New(g)
  <2>1. ASSUME NEW i \in kept .. Window
        PROVE  g[i] = IF i = kept THEN chain[i]
                                  ELSE Executed(IF i = at THEN seq ELSE <<>>, g[i - 1].storage)
    <3>1. CASE i = kept
      <4>1. i - kept = 0
        BY <3>1
      <4> QED
        BY Zenon, <1>9, <1>12, <1>13, <3>1, <4>1
    <3>2. CASE i # kept
      <4>1. i - kept \in 1 .. d /\ i - 1 \in kept .. Window /\ (i - 1) - kept = (i - kept) - 1
            /\ kept + (i - kept) = i
        BY <1>1, <3>2, WindowFacts
      <4>2. g[i] = f[i - kept] /\ g[i - 1] = f[(i - kept) - 1]
        BY Zenon, <1>13, <4>1
      <4>3. f[i - kept] = Executed(T[kept + (i - kept)], f[(i - kept) - 1].storage)
        BY Zenon, <1>12, <4>1
      <4>4. g[i] = Executed(T[i], g[i - 1].storage)
        BY Zenon, <4>1, <4>2, <4>3
      <4> QED
        BY Zenon, <1>4, <3>2, <4>4
    <3> QED
      BY Zenon, <3>1, <3>2
  <2>2. g = [i \in kept .. Window |-> g[i]]
    BY <1>13
  <2> QED
    BY Zenon, <2>1, <2>2
<1>15. PICK h : h = CHOOSE x : New(x)
  BY Zenon
<1>16. New(h)
  BY Zenon, <1>14, <1>15
<1>17. PICK c : c = Rebuilt(kept, seq, at)
  BY Zenon
<1>18. c = [i \in 1 .. Window |-> IF i <= kept THEN chain[i] ELSE h[i]]
  BY <1>15, <1>17 DEF Rebuilt
<1>19. /\ h[kept] = chain[kept]
       /\ \A i \in kept + 1 .. Window : h[i] = Executed(T[i], h[i - 1].storage)
  <2>1. kept \in kept .. Window /\ \A i \in kept + 1 .. Window : i # kept
    BY WindowFacts
  <2> HIDE DEF New
  <2>2. h = [i \in kept .. Window |-> IF i = kept THEN chain[i]
                                      ELSE Executed(IF i = at THEN seq ELSE <<>>, h[i - 1].storage)]
    BY Zenon, <1>16 DEF New
  <2> QED
    BY Zenon, <1>4, <1>5, <2>1, <2>2
<1> HIDE DEF New
<1> DEFINE bad == {i \in kept .. Window : h[i] \notin BlockTypes}
<1>20. bad = {}
  <2>1. SUFFICES ASSUME bad # {} PROVE FALSE
    OBVIOUS
  <2>2. PICK x \in bad : \A y \in bad : x <= y
    <3>1. bad \subseteq Nat
      OBVIOUS
    <3> HIDE DEF bad
    <3> QED
      BY Zenon, <2>1, <3>1, Least
  <2>3. x \in kept .. Window /\ h[x] \notin BlockTypes
    BY <2>2
  <2>4. x # kept
    BY Zenon, <1>9, <1>10, <1>19, <2>3
  <2>5. x \in kept + 1 .. Window /\ x - 1 \in kept .. Window /\ ~(x <= x - 1)
    BY <2>3, <2>4, WindowFacts
  <2>6. h[x - 1] \in BlockTypes
    BY Zenon, <2>2, <2>5
  <2> QED
    BY Zenon, <1>6, <1>19, <2>3, <2>5, <2>6
<1>21. \A i \in kept .. Window : h[i] \in BlockTypes /\ c[i] = h[i]
  <2>1. ASSUME NEW i \in kept .. Window PROVE c[i] = h[i]
    <3>1. i \in 1 .. Window /\ (i <= kept => i = kept)
      OBVIOUS
    <3> QED
      BY Zenon, <1>18, <1>19, <3>1
  <2> QED
    BY Zenon, <1>20, <2>1
<1>22. \A i \in 1 .. kept : c[i] = chain[i]
  <2>1. \A i \in 1 .. kept : i \in 1 .. Window /\ i <= kept
    BY WindowFacts
  <2> QED
    BY Zenon, <1>18, <2>1
<1>23. c \in [1 .. Window -> BlockTypes]
  <2>1. \A i \in 1 .. Window : i \in 1 .. kept \/ i \in kept .. Window
    OBVIOUS
  <2>2. \A i \in 1 .. Window : c[i] \in BlockTypes
    BY Zenon, <1>21, <1>22, <2>1 DEF ClientOK
  <2>3. c = [i \in 1 .. Window |-> c[i]]
    BY <1>18
  <2> QED
    BY <2>2, <2>3
<1>24. ASSUME NEW i \in kept + 1 .. Window
       PROVE  BlockOf(IF i = at THEN seq ELSE <<>>, c[i - 1].storage, c[i])
  <2>1. i \in kept .. Window /\ i - 1 \in kept .. Window
    BY WindowFacts
  <2>2. BlockOf(T[i], c[i - 1].storage, c[i])
    BY Zenon, <1>6, <1>19, <1>21, <2>1
  <2> QED
    BY Zenon, <1>4, <2>1, <2>2
<1> QED
  BY Zenon, <1>17, <1>22, <1>23, <1>24 DEF RebuiltChain

(* What a reorganisation does: the transactions of the blocks that are     *)
(* gone wait again, and some of them are in the new blocks.                *)
Reorganises(kept, free, seq, at) ==
  /\ kept \in 1 .. Window - 1 /\ kept >= Window - MaxReorg
  /\ free \in SUBSET Nonce /\ BatchOf(free, seq)
  /\ \A n \in free : n \in pool \/ \E i \in kept + 1 .. Window : InBlock(n, chain[i])
  /\ \A n \in pool : n \in free
  /\ RebuiltChain(kept, seq, at, chain')
  /\ pool' = free \ Range(seq)
  /\ txs' = txs

(* What a reorganisation changes. *)
LEMMA ReorgFacts ==
  ASSUME Types, NEW d \in 1 .. MaxReorg, Reorg(d)
  PROVE  \E kept, free, seq, at : Reorganises(kept, free, seq, at)
<1>1. PICK kept : kept = Window - d
  BY Zenon
<1>2. kept \in 1 .. Window - 1 /\ kept >= Window - MaxReorg /\ kept \in 1 .. Window
  BY <1>1, WindowFacts
<1>3. PICK lost : lost = UNION {Range(chain[i].txs) : i \in kept + 1 .. Window}
  BY Zenon
<1>4. PICK free : free = pool \union (lost \ {0})
  BY Zenon
<1>5. PICK back : back = IF 0 \in lost THEN "pool" ELSE theirs
  BY Zenon
<1>6. PICK seq \in Batches(free, back), at \in kept + 1 .. Window :
        chain' = Rebuilt(kept, seq, at) /\ pool' = free \ Range(seq)
  BY Zenon, <1>1, <1>3, <1>4, <1>5 DEF Reorg
<1>7. txs' = txs
  BY Zenon DEF Reorg
<1>8. BlocksOK /\ ClientOK
  BY Zenon DEF Types, BlocksOK
<1>9. ASSUME NEW n \in lost PROVE n \in 0 .. MaxTx /\ \E i \in kept + 1 .. Window : InBlock(n, chain[i])
  <2>1. PICK i \in kept + 1 .. Window : n \in Range(chain[i].txs)
    BY Zenon, <1>3, <1>9
  <2>2. i \in 1 .. Window
    BY <1>2, WindowFacts
  <2>3. chain[i].txs \in Seq(0 .. MaxTx)
    BY <1>8, <2>2 DEF ClientOK, BlockTypes
  <2>4. PICK j \in 1 .. Len(chain[i].txs) : n = chain[i].txs[j]
    BY Zenon, <2>1, <2>3, SeqRange
  <2>5. n \in 0 .. MaxTx
    BY Zenon, <2>3, <2>4, SequenceFacts
  <2> QED
    BY Zenon, <2>4, <2>5 DEF InBlock
<1>10. free \in SUBSET Nonce
  BY Zenon, <1>4, <1>8, <1>9, NonceFacts DEF ClientOK
<1>11. BatchOf(free, seq)
  BY Zenon, <1>6, <1>10, BatchOK
<1>12. RebuiltChain(kept, seq, at, chain')
  BY Zenon, <1>2, <1>6, <1>8, <1>11, RebuiltOK DEF BatchOf
<1> QED
  BY Zenon, <1>2, <1>4, <1>6, <1>7, <1>9, <1>10, <1>11, <1>12 DEF Reorganises

(* A transaction that a reorganisation removes is in the pool again, or in *)
(* one new block.                                                          *)
LEMMA ReorgKeepsChain ==
  ASSUME Types, ChainInv, NEW kept, NEW free, NEW seq, NEW at, Reorganises(kept, free, seq, at)
  PROVE  ChainInv'
<1>1. TxsOK /\ ClientOK
  BY Zenon DEF Types
<1>2. kept \in 1 .. Window - 1 /\ free \in SUBSET Nonce /\ BatchOf(free, seq) /\ txs' = txs
      /\ pool' = free \ Range(seq)
  BY Zenon DEF Reorganises
<1>3. /\ chain' \in [1 .. Window -> BlockTypes]
      /\ \A i \in 1 .. kept : chain'[i] = chain[i]
      /\ \A i \in kept + 1 .. Window :
           BlockOf(IF i = at THEN seq ELSE <<>>, chain'[i - 1].storage, chain'[i])
  BY Zenon DEF Reorganises, RebuiltChain
<1>4. \A i \in 1 .. Window : i \in 1 .. kept \/ i \in kept + 1 .. Window
  BY <1>2, WindowFacts
<1>5. \A i \in 1 .. kept : i \in 1 .. Window /\ i \notin kept + 1 .. Window
  BY <1>2, WindowFacts
<1>6. \A i \in kept + 1 .. Window : i \in 1 .. Window
  BY <1>2, WindowFacts
<1>7. ASSUME NEW n \in Nonce, n \in free
      PROVE  /\ txs[n] # NoTx /\ ~txs[n].old
             /\ \A i \in 1 .. kept : ~InBlock(n, chain[i])
  <2>1. CASE n \in pool
    BY Zenon, <1>5, <2>1, PoolIsNotMined
  <2>2. CASE \E i \in kept + 1 .. Window : InBlock(n, chain[i])
    <3>1. PICK i \in kept + 1 .. Window : InBlock(n, chain[i])
      BY Zenon, <2>2
    <3>2. InBlockInv(n, i)
      BY Zenon, <1>6, <3>1 DEF ChainInv
    <3> QED
      BY Zenon, <1>5, <3>1, <3>2 DEF InBlockInv
  <2> QED
    BY Zenon, <1>7, <2>1, <2>2 DEF Reorganises
<1>8. ASSUME NEW n \in Nonce, NEW i \in kept + 1 .. Window, InBlock(n, chain'[i])
      PROVE  i = at /\ n \in Range(seq) /\ n \in free
  <2>1. chain'[i].txs = IF i = at THEN seq ELSE <<>>
    BY Zenon, <1>3 DEF BlockOf
  <2>2. i = at
    <3>1. SUFFICES ASSUME i # at PROVE FALSE
      BY Zenon
    <3>2. chain'[i].txs = <<>>
      BY Zenon, <2>1, <3>1
    <3>3. Len(<<>>) = 0
      BY EmptySequence
    <3>4. PICK j \in 1 .. Len(chain'[i].txs) : chain'[i].txs[j] = n
      BY Zenon, <1>8 DEF InBlock
    <3>5. j \in 1 .. 0
      BY Zenon, <3>2, <3>3, <3>4
    <3> QED
      BY <3>5
  <2>3. chain'[i].txs = seq
    BY Zenon, <2>1, <2>2
  <2> QED
    BY Zenon, <1>2, <1>8, <2>2, <2>3, InBatch
<1>9. ASSUME NEW n \in Nonce, NEW i \in 1 .. Window, InBlock(n, chain'[i]) PROVE InBlockInv(n, i)'
  <2>1. CASE i \in 1 .. kept
    <3>1. chain'[i] = chain[i] /\ InBlockInv(n, i)
      BY Zenon, <1>3, <1>9, <2>1 DEF ChainInv
    <3>2. n \notin free
      BY Zenon, <1>7, <1>9, <2>1, <3>1
    <3>3. \A j \in 1 .. Window : InBlock(n, chain'[j]) => i = j
      BY Zenon, <1>3, <1>4, <1>8, <3>1, <3>2 DEF InBlockInv
    <3> QED
      BY Zenon, <1>2, <3>1, <3>2, <3>3 DEF InBlockInv
  <2>2. CASE i \in kept + 1 .. Window
    <3>1. i = at /\ n \in Range(seq) /\ n \in free
      BY Zenon, <1>8, <1>9, <2>2
    <3>2. txs[n] # NoTx /\ ~txs[n].old /\ \A j \in 1 .. kept : ~InBlock(n, chain[j])
      BY Zenon, <1>7, <3>1
    <3>3. \A j \in 1 .. Window : InBlock(n, chain'[j]) => i = j
      BY Zenon, <1>3, <1>4, <1>8, <3>1, <3>2
    <3>4. n \notin chain'[i].failed => Effect(txs'[n], chain'[i].storage)
      BY Zenon, <1>2, <1>3, <1>9, <2>2 DEF BlockOf
    <3> QED
      BY Zenon, <1>2, <3>1, <3>2, <3>3, <3>4 DEF InBlockInv
  <2> QED
    BY Zenon, <1>4, <2>1, <2>2
<1>10. 1 \in 1 .. kept
  BY <1>2
<1>11. ASSUME NEW n \in Nonce
       PROVE  /\ txs'[n].old => /\ txs'[n] # NoTx /\ n \notin pool'
                                /\ txs'[n].storage = None => Effect(txs'[n], chain'[1].storage)
              /\ n \in pool' => txs'[n] # NoTx
  BY Zenon, <1>2, <1>3, <1>7, <1>10 DEF ChainInv
<1>12. ASSUME NEW i \in 1 .. Window - 1 PROVE Later(chain'[i].storage, chain'[i + 1].storage)
  <2>1. CASE i + 1 \in 1 .. kept
    <3>1. i \in 1 .. kept
      BY <1>2, <2>1
    <3> QED
      BY Zenon, <1>3, <2>1, <3>1 DEF ChainInv
  <2>2. CASE i + 1 \in kept + 1 .. Window
    <3>1. (i + 1) - 1 = i
      OBVIOUS
    <3>2. Later(chain'[(i + 1) - 1].storage, chain'[i + 1].storage)
      BY Zenon, <1>3, <2>2 DEF BlockOf
    <3> QED
      BY <3>1, <3>2
  <2>3. i + 1 \in 1 .. Window
    BY WindowFacts
  <2> QED
    BY Zenon, <1>4, <2>1, <2>2, <2>3
<1> QED
  BY Zenon, <1>9, <1>11, <1>12 DEF ChainInv

(* A reorganisation leaves what has MaxReorg blocks above it. *)
LEMMA ReorgKeeps ==
  ASSUME Types, ChainInv, TxsOK', ClientOK', ChainInv',
         NEW kept, NEW free, NEW seq, NEW at, Reorganises(kept, free, seq, at)
  PROVE  ChainKeeps(0)
<1>1. TxsOK /\ ClientOK
  BY Zenon DEF Types
<1>2. kept \in 1 .. Window - 1 /\ kept >= Window - MaxReorg /\ txs' = txs
      /\ \A i \in 1 .. kept : chain'[i] = chain[i]
  BY Zenon DEF Reorganises, RebuiltChain
<1>3. Window - MaxReorg \in 1 .. kept /\ Window - MaxReorg \in 1 .. Window
  BY <1>2, WindowFacts
<1>4. chain[Window - MaxReorg].storage \in Storages
  BY <1>1, <1>3 DEF ClientOK, BlockTypes
<1>5. Later(FinalStorage, FinalStorage')
  BY Zenon, <1>2, <1>3, <1>4, LaterIsReflexive DEF FinalStorage
<1>6. ASSUME NEW n \in Nonce, NEW d \in Nat, NEW ok \in BOOLEAN, d >= MaxReorg, Stays(n, d, ok)
      PROVE  Stays(n, d + 0, ok)'
  <2>1. d + 0 = d
    OBVIOUS
  <2>2. Stays(n, d, ok)'
    <3>1. CASE txs[n].old
      <4>1. Window >= d /\ (ok => txs[n].storage = None)
        BY Zenon, <1>1, <1>6, <3>1 DEF Stays
      <4> QED
        BY Zenon, <1>2, <3>1, <4>1 DEF Stays
    <3>2. CASE ~txs[n].old
      <4>1. PICK i \in 1 .. Window : InBlock(n, chain[i]) /\ Window - i >= d /\ (ok => n \notin chain[i].failed)
        BY Zenon, <1>1, <1>6, <3>2 DEF Stays
      <4>2. i \in 1 .. kept
        BY <1>2, <1>6, <4>1, WindowFacts
      <4> QED
        BY Zenon, <1>2, <3>2, <4>1, <4>2 DEF Stays
    <3> QED
      BY Zenon, <3>1, <3>2
  <2> QED
    BY Zenon, <2>1, <2>2
<1>7. \A n \in Nonce : SameTx(txs[n], txs'[n]) /\ (txs'[n] = NoTx <=> txs[n] = NoTx)
  BY Zenon, <1>2 DEF SameTx
<1> QED
  BY Zenon, <1>5, <1>6, <1>7 DEF ChainKeeps

-----------------------------------------------------------------------------
(* The steps of the Ethereum node. *)

(* The effect of a call is in the final storage: it is never undone. *)
LEMMA EffectInvMovesOn ==
  ASSUME Types, EffectInv, ClientOK', Later(FinalStorage, FinalStorage'),
         UNCHANGED <<inst, calls, inflight, open, up, stopping, crashes>>
  PROVE  EffectInv'
<1>1. FinalStorage \in Storages
  BY Zenon, FinalStorageOK DEF Types
<1>2. FinalStorage' \in Storages
  BY WindowFacts DEF ClientOK, FinalStorage, BlockTypes
<1>3. /\ FinalStorage.secrets \subseteq FinalStorage'.secrets
      /\ FinalStorage.deposit <= FinalStorage'.deposit
      /\ FinalStorage.registered => FinalStorage'.registered
  BY Zenon DEF Later
<1>4. FinalStorage.deposit \in Int /\ FinalStorage'.deposit \in Int
  BY <1>1, <1>2 DEF Storages
<1>5. \A c \in Call : Kind(c) = "deposit" => Arg(c) \in Int
  BY Zenon DEF Types, IsInstance, Kind, Arg
<1>6. \A c \in Call : Kind(c)' = Kind(c) /\ Arg(c)' = Arg(c)
  BY Zenon DEF Kind, Arg
<1>7. ASSUME NEW c \in Call PROVE HasEffect(c)'
  <2>0. HasEffect(c)
    BY Zenon DEF EffectInv, Justified
  <2>1. ASSUME calls[c].result = Ok, Kind(c) = "deposit"
        PROVE  FinalStorage'.deposit >= Arg(c)
    <3>1. FinalStorage.deposit >= Arg(c)
      BY Zenon, <2>0, <2>1 DEF HasEffect
    <3>2. Arg(c) \in Int
      BY Zenon, <1>5, <2>1
    <3> QED
      BY <1>3, <1>4, <3>1, <3>2
  <2>2. ASSUME calls[c].result = Ok
        PROVE  /\ Kind(c) = "secret" => Arg(c) \subseteq FinalStorage'.secrets
               /\ Kind(c) = "token" => FinalStorage'.registered
    BY Zenon, <1>3, <2>0, <2>2 DEF HasEffect
  <2> QED
    BY Zenon, <1>6, <2>1, <2>2 DEF HasEffect
<1>8. ASSUME NEW k, NEW s, Promises(k, s) PROVE Promises(k, s)'
  BY Zenon, <1>3, <1>8 DEF Promises
<1>9. ASSUME NEW c \in Call, SecretInv(c) PROVE SecretInv(c)'
  BY Zenon, <1>3, <1>6, <1>8, <1>9 DEF SecretInv
<1>10. ASSUME NEW s \in inst.secrets, open[s] # None PROVE OpenInv(s)'
  <2>1. open[s] \in Call
    BY Zenon, <1>10 DEF Types, CallsOK
  <2> QED
    BY Zenon, <1>6, <1>10, <2>1 DEF EffectInv, OpenInv
<1>11. inflight # None => inflight \in Call
  BY Zenon DEF Types, CallsOK
<1>12. \A c \in Call : calls[c].waits \subseteq Call
  BY DEF Types, CallsOK, CallTypes
<1>13. ASSUME NEW c \in Call PROVE WaitsFor(c)'
  BY Zenon, <1>6, <1>12 DEF EffectInv, Justified, WaitsFor
<1>14. ASSUME NEW c \in Call PROVE Justified(c)'
  BY Zenon, <1>6, <1>7, <1>9, <1>13 DEF EffectInv, Justified
<1> QED
  BY Zenon, <1>6, <1>10, <1>11, <1>14 DEF EffectInv

(* What a greenlet has read is as old as it was, or e blocks older. *)
PollsMoveOn(e) ==
  \A c \in Call :
    /\ polls'[c].nonce = polls[c].nonce /\ polls'[c].seen = polls[c].seen
    /\ polls'[c].storage = polls[c].storage
    /\ polls[c].seen => polls'[c].since = polls[c].since + e
    /\ polls[c].seen /\ polls'[c].depth >= MaxReorg + polls'[c].since =>
         polls[c].depth >= MaxReorg + polls[c].since

(* The same for the state after a step. *)
Shrinkable ==
  \A n \in Nonce, d \in Nat, e \in Nat, ok \in BOOLEAN : Stays(n, d + e, ok) => Stays(n, d, ok)

(* ... as a formula that can be used in the next state. *)
LEMMA StaysShrinks == ClientOK /\ TxsOK /\ ChainInv => Shrinkable
BY Zenon, StaysLess DEF Shrinkable

(* A change of the chain that keeps what the calls rely on. *)
LEMMA ChainStepKeeps ==
  ASSUME CInv, NEW e \in {0, 1}, ChainKeeps(e), PollsMoveOn(e), Types', ChainInv',
         UNCHANGED <<inst, nonce, calls, inflight, open, up, stopping, crashes>>
  PROVE  CInv'
<1>1. Types /\ PhaseInv /\ NonceInv /\ ChainInv /\ PollInv /\ EffectInv
  BY Zenon DEF CInv
<1>2. \A c \in Call : Kind(c)' = Kind(c) /\ Arg(c)' = Arg(c) /\ Op(c)' = Op(c) /\ OpArg(c)' = OpArg(c)
  BY DEF Kind, Arg, Op, OpArg
<1>3. \A n \in Nonce : SameTx(txs[n], txs'[n]) /\ (txs'[n] = NoTx <=> txs[n] = NoTx)
  BY Zenon DEF ChainKeeps
<1>4. \A c \in Call : /\ polls'[c].nonce = polls[c].nonce /\ polls'[c].seen = polls[c].seen
                      /\ polls'[c].storage = polls[c].storage
                      /\ polls[c].seen => polls'[c].since = polls[c].since + e
  BY Zenon DEF PollsMoveOn
<1>5. PhaseInv'
  BY ZenonT(40), <1>1, <1>2, <1>4 DEF PhaseInv, Phase
<1>6. NonceInv'
  <2>1. \A k : Filled(k) => Filled(k)'
    BY Zenon, <1>3 DEF Filled
  <2>2. ASSUME NEW c \in Call, calls'[c].pc = "poll" PROVE PollsItsOwn(c)'
    <3>1. PollsItsOwn(c)
      BY Zenon, <1>1, <2>2 DEF NonceInv
    <3> QED
      BY Zenon, <1>2, <1>3, <1>4, <3>1 DEF PollsItsOwn, SameTx
  <2>3. \A n \in Nonce : txs'[n].call = txs[n].call
    BY Zenon, <1>3 DEF SameTx
  <2>4. LostRegistration(nonce) => LostRegistration(nonce)'
    BY Zenon, <1>3 DEF LostRegistration, SameTx
  <2> QED
    BY Zenon, <1>1, <2>1, <2>2, <2>3, <2>4 DEF NonceInv, NoncesOK
<1>7. Shrinkable'
  <2>1. (ClientOK /\ TxsOK /\ ChainInv)'
    BY Zenon DEF Types
  <2> QED
    BY <2>1, StaysShrinks, PTL
<1>8. e \in Nat /\ MaxReorg + e <= Window /\ MaxReorg \in Nat /\ MaxReorg >= MaxReorg
  BY WindowFacts
<1>9. PollInv'
  <2>1. ASSUME NEW c \in Call, polls'[c].seen, polls'[c].depth >= MaxReorg + polls'[c].since
        PROVE  Stays(polls[c].nonce, MaxReorg + polls[c].since, polls[c].storage = None)'
    <3>1. polls[c].seen /\ polls[c].depth >= MaxReorg + polls[c].since /\ polls'[c].since = polls[c].since + e
      BY Zenon, <1>4, <2>1 DEF PollsMoveOn
    <3>2. PICK n \in Nonce : n = polls[c].nonce
      BY Zenon, <1>1, <3>1, PolledNonce
    <3>3. PICK ok \in BOOLEAN : ok = (polls[c].storage = None)
      BY Zenon
    <3>4. polls[c].since \in 0 .. PollDelay /\ polls'[c].since \in 0 .. PollDelay
      BY <1>1 DEF Types, ClientOK, PollTypes
    <3>5. PICK d \in Nat : d = MaxReorg + polls[c].since
      BY <1>8, <3>4
    <3>6. d >= MaxReorg /\ d + e <= Window /\ d + e = MaxReorg + polls'[c].since
      BY <1>8, <3>1, <3>4, <3>5, WindowFacts
    <3>7. Stays(n, d, ok)
      BY Zenon, <1>1, <3>1, <3>2, <3>3, <3>5 DEF PollInv, Polled
    <3>8. Stays(n, d + e, ok)'
      BY Zenon, <3>6, <3>7 DEF ChainKeeps
    <3>9. PICK m : m = d + e
      BY Zenon
    <3>10. Stays(n, m, ok)' /\ n = polls'[c].nonce /\ m = MaxReorg + polls'[c].since
           /\ ok = (polls'[c].storage = None)
      BY Zenon, <1>4, <3>2, <3>3, <3>6, <3>8, <3>9
    <3> QED
      BY Zenon, <3>10 DEF Stays
  <2>2. ASSUME NEW c \in Call, calls'[c].tx = Ok, polls'[c].nonce # 0
        PROVE  (txs[polls[c].nonce].call = c /\ Stays(polls[c].nonce, MaxReorg, TRUE))'
    <3>1. calls[c].tx = Ok /\ polls[c].nonce # 0
      BY Zenon, <1>4, <2>2
    <3>2. polls[c].nonce \in 0 .. MaxTx
      BY <1>1 DEF Types, ClientOK, PollTypes
    <3>3. PICK n \in Nonce : n = polls[c].nonce
      BY Zenon, <3>1, <3>2, NonceFacts
    <3>4. txs[n].call = c /\ Stays(n, MaxReorg, TRUE)
      BY Zenon, <1>1, <3>1, <3>3 DEF PollInv, Polled
    <3>5. Stays(n, MaxReorg + e, TRUE)'
      BY Zenon, <1>8, <3>4 DEF ChainKeeps
    <3>6. Stays(n, MaxReorg, TRUE)'
      BY Zenon, <1>7, <1>8, <3>5 DEF Shrinkable
    <3>7. txs'[n].call = c
      BY Zenon, <1>3, <3>4 DEF SameTx
    <3> QED
      BY Zenon, <1>4, <3>3, <3>6, <3>7 DEF Stays
  <2> QED
    BY Zenon, <2>1, <2>2 DEF PollInv, Polled
<1>10. EffectInv'
  BY Zenon, <1>1, EffectInvMovesOn DEF ChainKeeps, Types
<1> QED
  BY Zenon, <1>5, <1>6, <1>9, <1>10 DEF CInv

(* A new block makes what a greenlet has read one block older. *)
LEMMA PollsOlder ==
  ASSUME NEW p \in PollTypes, p.since < PollDelay, NEW q,
         q = [p EXCEPT !.depth = Min({@ + 1, Confirmations}), !.since = @ + 1]
  PROVE  /\ q \in PollTypes /\ q.nonce = p.nonce /\ q.seen = p.seen /\ q.storage = p.storage
         /\ q.since = p.since + 1
         /\ q.depth >= MaxReorg + q.since => p.depth >= MaxReorg + p.since
<1>1. p.depth \in 0 .. Confirmations /\ p.since \in 0 .. PollDelay
  BY DEF PollTypes
<1>2. PICK m : m = Min({p.depth + 1, Confirmations})
  BY Zenon
<1>3. p.depth + 1 \in Int /\ Confirmations \in Int
  BY <1>1, WindowFacts
<1>4. m = IF p.depth + 1 <= Confirmations THEN p.depth + 1 ELSE Confirmations
  BY Zenon, <1>2, <1>3, MinOfTwo
<1>5. m \in 0 .. Confirmations /\ m <= p.depth + 1
  BY <1>1, <1>4, WindowFacts
<1>6. PICK r : r = [p EXCEPT !.depth = m]
  BY Zenon
<1>7. r \in PollTypes /\ r.nonce = p.nonce /\ r.seen = p.seen /\ r.storage = p.storage
      /\ r.since = p.since /\ r.depth = m
  BY <1>5, <1>6 DEF PollTypes
<1>8. p.since + 1 \in 0 .. PollDelay
  BY <1>1, WindowFacts
<1>9. PICK t : t = [r EXCEPT !.since = p.since + 1]
  BY Zenon
<1>10. t \in PollTypes /\ t.nonce = r.nonce /\ t.seen = r.seen /\ t.storage = r.storage
       /\ t.since = p.since + 1 /\ t.depth = m
  BY <1>7, <1>8, <1>9 DEF PollTypes
<1>11. t = q
  BY ONLY <1>2, <1>6, <1>9, q = [p EXCEPT !.depth = Min({@ + 1, Confirmations}), !.since = @ + 1]
<1> QED
  BY SMTT(30), <1>1, <1>5, <1>7, <1>10, <1>11, WindowFacts

(* A new block, and what the greenlets have read, one block older. *)
LEMMA MineStepKeeps ==
  ASSUME CInv, MineStep
  PROVE  CInv'
<1>1. PICK seq \in Batches(pool, theirs) : Mine(seq)
  BY Zenon DEF MineStep
<1>2. UNCHANGED <<calls, inflight, open, up, stopping, crashes>> /\ UNCHANGED <<inst, nonce>>
  BY Zenon, <1>1 DEF MineStep, Mine
<1>3. Types /\ ChainInv
  BY Zenon DEF CInv
<1>4. PICK b : Mines(seq, b)
  BY Zenon, <1>1, <1>3, MineFacts
<1>5. polls' = [c \in Call |-> IF polls[c].seen
                              THEN [polls[c] EXCEPT !.depth = Min({@ + 1, Confirmations}), !.since = @ + 1]
                              ELSE polls[c]]
  BY Zenon, <1>1 DEF Mine
<1>6. ASSUME NEW c \in Call
      PROVE  /\ polls'[c] \in PollTypes
             /\ polls'[c].nonce = polls[c].nonce /\ polls'[c].seen = polls[c].seen
             /\ polls'[c].storage = polls[c].storage
             /\ polls[c].seen => polls'[c].since = polls[c].since + 1
             /\ polls[c].seen /\ polls'[c].depth >= MaxReorg + polls'[c].since =>
                  polls[c].depth >= MaxReorg + polls[c].since
  <2>1. polls[c] \in PollTypes
    BY Zenon, <1>3 DEF Types, ClientOK
  <2>2. CASE polls[c].seen
    <3>1. polls[c].since < PollDelay
      BY Zenon, <1>1, <2>2 DEF Mine
    <3>2. polls'[c] = [polls[c] EXCEPT !.depth = Min({@ + 1, Confirmations}), !.since = @ + 1]
      BY Zenon, <1>5, <2>2
    <3> QED
      BY Zenon, <2>1, <3>1, <3>2, PollsOlder
  <2>3. CASE ~polls[c].seen
    <3>1. polls'[c] = polls[c]
      BY Zenon, <1>5, <2>3
    <3> QED
      BY Zenon, <2>1, <2>3, <3>1
  <2> QED
    BY Zenon, <2>2, <2>3
<1>7. PollsMoveOn(1)
  BY Zenon, <1>6 DEF PollsMoveOn
<1>8. TxsOK'
  <2>1. \A n \in Nonce : SameTx(txs[n], txs'[n])
    BY Zenon, <1>4 DEF Mines, RetiredTx
  <2> QED
    BY Zenon, <1>3, <1>4, <2>1 DEF Mines, Types, TxsOK, TxArgs, SameTx
<1>9. ClientOK'
  <2>1. polls' \in [Call -> PollTypes]
    <3>1. polls' = [c \in Call |-> polls'[c]]
      BY Zenon, <1>5
    <3> QED
      BY <1>6, <3>1
  <2>2. chain' \in [1 .. Window -> BlockTypes] /\ pool' \subseteq pool
    BY Zenon, <1>4 DEF Mines
  <2> QED
    BY Zenon, <1>2, <1>3, <2>1, <2>2 DEF ClientOK, Types
<1>10. Types'
  BY Zenon, <1>2, <1>3, <1>8, <1>9 DEF Types, IsInstance, CallsOK
<1>11. ChainInv'
  BY Zenon, <1>3, <1>4, MineKeepsChain
<1>12. ChainKeeps(1)
  BY Zenon, <1>3, <1>4, <1>8, <1>9, <1>11, MineKeeps
<1>13. 1 \in {0, 1}
  BY Zenon
<1> QED
  BY Zenon, <1>2, <1>7, <1>10, <1>11, <1>12, <1>13, ChainStepKeeps

(* A reorganisation: what poll_transaction counts on stays. *)
LEMMA ReorgStepKeeps ==
  ASSUME CInv, ReorgStep
  PROVE  CInv'
<1>1. PICK d \in 1 .. MaxReorg : Reorg(d)
  BY Zenon DEF ReorgStep
<1>2. /\ UNCHANGED <<calls, inflight, open, up, stopping, crashes>>
      /\ UNCHANGED <<inst, nonce, polls, txs>>
  BY Zenon, <1>1 DEF ReorgStep, Reorg
<1>3. Types /\ ChainInv
  BY Zenon DEF CInv
<1>4. PICK kept, free, seq, at : Reorganises(kept, free, seq, at)
  BY Zenon, <1>1, <1>3, ReorgFacts
<1>5. ASSUME NEW c \in Call, polls[c].seen PROVE polls[c].since = polls[c].since + 0
  <2>1. polls[c].since \in 0 .. PollDelay
    BY <1>3 DEF Types, ClientOK, PollTypes
  <2> QED
    BY <2>1
<1>6. PollsMoveOn(0)
  BY Zenon, <1>2, <1>5 DEF PollsMoveOn
<1>7. TxsOK'
  BY Zenon, <1>2, <1>3 DEF Types, TxsOK
<1>8. ClientOK'
  <2>1. chain' \in [1 .. Window -> BlockTypes] /\ pool' \subseteq Nonce
    BY Zenon, <1>4 DEF Reorganises, RebuiltChain
  <2> QED
    BY Zenon, <1>2, <1>3, <2>1 DEF ClientOK, Types
<1>9. Types'
  BY Zenon, <1>2, <1>3, <1>7, <1>8 DEF Types, IsInstance, CallsOK
<1>10. ChainInv'
  BY Zenon, <1>3, <1>4, ReorgKeepsChain
<1>11. ChainKeeps(0)
  BY Zenon, <1>3, <1>4, <1>7, <1>8, <1>10, ReorgKeeps
<1>12. 0 \in {0, 1}
  BY Zenon
<1> QED
  BY Zenon, <1>2, <1>6, <1>9, <1>10, <1>11, <1>12, ChainStepKeeps

(* The variables of the invariant. *)
invVars == <<inst, chain, pool, txs, nonce, polls, calls, inflight, open, up, stopping>>

(* Steps that change nothing of it. *)
LEMMA UnchangedKeeps ==
  ASSUME CInv, UNCHANGED invVars, crashes' \in Nat
  PROVE  CInv'
<1>1. UNCHANGED <<inst, chain, pool, txs, nonce, polls, calls, inflight, open, up, stopping>>
  BY Zenon DEF invVars
<1>2. Types'
  BY Zenon, <1>1 DEF CInv, Types, IsInstance, TxsOK, ClientOK, CallsOK
<1>3. PhaseInv'
  BY Zenon, <1>1 DEF CInv, PhaseInv, Phase, Kind
<1>4. \A c \in Call : Kind(c)' = Kind(c) /\ Arg(c)' = Arg(c) /\ Op(c)' = Op(c) /\ OpArg(c)' = OpArg(c)
  BY <1>1 DEF Kind, Arg, Op, OpArg
<1>5. NonceInv'
  BY Zenon, <1>1, <1>4 DEF CInv, NonceInv, NoncesOK, Filled, PollsItsOwn, LostRegistration
<1>6. ChainInv'
  BY Zenon, <1>1 DEF CInv, ChainInv, InBlockInv
<1>7. PollInv'
  BY Zenon, <1>1 DEF CInv, PollInv, Polled, Stays
<1>8. EffectInv'
  BY <1>1 DEF CInv, EffectInv, Justified, HasEffect, WaitsFor, SecretInv, Promises, OpenInv, FinalStorage, Kind, Arg
<1> QED
  BY Zenon, <1>2, <1>3, <1>5, <1>6, <1>7, <1>8 DEF CInv

(* Another account's transaction, and ether for ours. *)
LEMMA AccountStepKeeps ==
  ASSUME CInv, AccountStep
  PROVE  CInv'
<1>1. UNCHANGED invVars /\ crashes' = crashes
  BY Zenon DEF AccountStep, OthersSend, TopUp, invVars
<1> QED
  BY Zenon, <1>1, UnchangedKeeps DEF CInv, Types, CallsOK

-----------------------------------------------------------------------------
(* The restart of the node and the beginning. *)

(* geth_discover_next_available_nonce finds the first free nonce. *)
LEMMA Discovered ==
  ASSUME NEW k \in 0 .. MaxTx, Filled(k)
  PROVE  DiscoverNonce = k + 1
<1>1. {n \in Nonce : \A m \in 1 .. n : txs[m] # NoTx} = 1 .. k
  <2>1. ASSUME NEW n \in 1 .. k PROVE n \in Nonce /\ \A m \in 1 .. n : txs[m] # NoTx
    <3>1. n \in Nonce /\ \A m \in 1 .. n : m \in Nonce /\ m <= k
      BY ClientAssumption DEF Nonce
    <3> QED
      BY Zenon, <3>1 DEF Filled
  <2>2. ASSUME NEW n \in Nonce, \A m \in 1 .. n : txs[m] # NoTx PROVE n \in 1 .. k
    <3>1. n \in 1 .. n /\ n \in 1 .. MaxTx
      BY ClientAssumption DEF Nonce
    <3>2. n <= k
      BY Zenon, <2>2, <3>1 DEF Filled
    <3> QED
      BY <3>1, <3>2
  <2> QED
    BY Zenon, <2>1, <2>2
<1>2. Cardinality(1 .. k) = k
  <2>1. k \in Int /\ 1 \in Int
    OBVIOUS
  <2>2. Cardinality(1 .. k) = IF 1 > k THEN 0 ELSE k - 1 + 1
    BY Zenon, <2>1, FS_Interval
  <2> QED
    BY <2>1, <2>2
<1>3. DiscoverNonce = 1 + k
  BY Zenon, <1>1, <1>2 DEF DiscoverNonce
<1> QED
  BY <1>3

(* JSONRPCClient.__init__: the client goes on with the first free nonce.   *)
LEMMA RestartKeeps ==
  ASSUME CInv, Restart
  PROVE  CInv'
<1>1. Types /\ PhaseInv /\ NonceInv /\ ChainInv /\ PollInv /\ EffectInv
  BY Zenon DEF CInv
<1>2. /\ ~up /\ up' = TRUE /\ nonce' = DiscoverNonce
      /\ UNCHANGED <<inst, chain, pool, txs, polls, calls, inflight, open, stopping, crashes>>
  BY Zenon DEF Restart
<1>3. PICK k \in 0 .. MaxTx : Filled(k)
  BY Zenon, <1>1 DEF NonceInv, NoncesOK
<1>4. nonce' = k + 1
  BY Zenon, <1>2, <1>3, Discovered
<1>5. nonce' \in 1 .. MaxTx + 1 /\ nonce' <= k + 1
  BY <1>4, ClientAssumption
<1>6. Types'
  BY Zenon, <1>1, <1>2, <1>5 DEF Types, IsInstance, TxsOK, ClientOK, CallsOK
<1>7. \A c : Kind(c)' = Kind(c) /\ Arg(c)' = Arg(c) /\ Op(c)' = Op(c) /\ OpArg(c)' = OpArg(c)
  BY <1>2 DEF Kind, Arg, Op, OpArg
<1>8. PhaseInv'
  BY Zenon, <1>1, <1>2, <1>7 DEF PhaseInv, Phase
<1>9. NonceInv'
  <2>1. Filled(k)'
    BY Zenon, <1>2, <1>3 DEF Filled
  <2>2. ASSUME NEW n \in Nonce, n >= nonce' PROVE txs'[n].call = None
    <3>1. ~(n <= k)
      <4>1. n \in 1 .. MaxTx
        BY Zenon DEF Nonce
      <4> QED
        BY <1>4, <2>2, <4>1
    <3>2. txs[n] = NoTx
      BY Zenon, <1>3, <3>1 DEF Filled
    <3> QED
      BY <1>2, <3>2, NoTxFacts
  <2>3. NoncesOK'
    BY Zenon, <1>1, <1>2, <1>4, <1>5, <2>1, <2>2 DEF NonceInv, NoncesOK
  <2>4. \A c \in Call : calls'[c].pc = "poll" => PollsItsOwn(c)'
    BY Zenon, <1>1, <1>2, <1>7 DEF NonceInv, PollsItsOwn
  <2> QED
    BY Zenon, <2>3, <2>4 DEF NonceInv
<1>10. ChainInv'
  BY Zenon, <1>1, <1>2, BlocksStay
<1>11. PollInv'
  BY Zenon, <1>1, <1>2 DEF PollInv, Polled, Stays
<1>12. EffectInv'
  <2>1. \A c : Kind(c)' = Kind(c) /\ Arg(c)' = Arg(c)
    BY Zenon, <1>2 DEF Kind, Arg
  <2>2. FinalStorage' = FinalStorage
    BY Zenon, <1>2 DEF FinalStorage
  <2>3. \A w, s : Promises(w, s) => Promises(w, s)'
    BY Zenon, <1>2, <2>2 DEF Promises
  <2>4. \A c : SecretInv(c) => SecretInv(c)'
    BY Zenon, <1>2, <2>1, <2>2, <2>3 DEF SecretInv
  <2>5. \A c : HasEffect(c) /\ WaitsFor(c) => HasEffect(c)' /\ WaitsFor(c)'
    BY Zenon, <1>2, <2>1, <2>2 DEF HasEffect, WaitsFor
  <2>6. \A c \in Call : Justified(c)'
    BY Zenon, <1>1, <1>2, <2>1, <2>4, <2>5 DEF EffectInv, Justified
  <2>7. ASSUME NEW s \in inst.secrets, open[s] # None PROVE OpenInv(s)'
    <3>1. /\ Kind(open[s]) = "secret" /\ s \in calls[open[s]].secrets
          /\ calls[open[s]].tx = Nothing /\ calls[open[s]].pc \in Sending
      BY Zenon, <1>1, <2>7 DEF EffectInv, OpenInv
    <3>2. open' = open /\ calls' = calls /\ inst' = inst
      BY Zenon, <1>2
    <3> QED
      BY Zenon, <3>1, <3>2 DEF OpenInv, Kind
  <2>8. inflight # None => Kind(inflight)' = "deposit"
    BY Zenon, <1>1, <1>2 DEF EffectInv, Kind
  <2> QED
    BY Zenon, <1>2, <2>6, <2>7, <2>8 DEF EffectInv
<1> QED
  BY Zenon, <1>6, <1>8, <1>9, <1>10, <1>11, <1>12 DEF CInv

(* The invariant holds when the node starts. *)
LEMMA InitKeeps ==
  ASSUME Init
  PROVE  CInv
<1>1. PICK i \in DOMAIN Instances : ClientInit(Instances[i])
  BY Zenon DEF Init
<1>2. PICK x : x = Instances[i]
  BY Zenon
<1>3. IsInstance(x)
  BY Zenon, <1>2, InstancesAssumption
<1>4. /\ inst = x /\ chain = [k \in 1 .. Window |-> Block(x.storage)] /\ pool = {}
      /\ txs = [n \in Nonce |-> NoTx] /\ nonce = 1 /\ polls = [c \in Call |-> NoPoll]
  BY Zenon, <1>1, <1>2 DEF ClientInit
<1>5. /\ calls = [c \in Call |-> Idle] /\ inflight = None /\ open = [s \in inst.secrets |-> None]
      /\ up = TRUE /\ stopping = FALSE /\ crashes = 0
  BY Zenon DEF Init
<1>6. /\ Idle \in CallTypes /\ Idle.pc = "idle" /\ Idle.approve = FALSE /\ Idle.secrets = {} /\ Idle.waits = {}
      /\ Idle.tx = Nothing /\ Idle.result = Nothing
  BY DEF Idle, CallTypes, Phases, ResultTypes
<1>7. NoPoll \in PollTypes /\ NoPoll.nonce = 0 /\ NoPoll.seen = FALSE
  <2>1. 0 \in 0 .. MaxTx /\ 0 \in 0 .. Confirmations /\ 0 \in 0 .. PollDelay
    BY ClientAssumption
  <2> QED
    BY <2>1 DEF NoPoll, PollTypes
<1>8. PICK b \in BlockTypes : b = Block(x.storage) /\ b.txs = <<>> /\ b.storage \in Storages
  <2>1. x.storage \in Storages
    BY Zenon, <1>3 DEF IsInstance
  <2>2. <<>> \in Seq(0 .. MaxTx)
    OBVIOUS
  <2>3. PICK u \in Storages : u = x.storage
    BY Zenon, <2>1
  <2>4. PICK b : b = [txs |-> <<>>, failed |-> {}, storage |-> u]
    BY Zenon
  <2>5. b \in BlockTypes /\ b.txs = <<>> /\ b.storage = u
    BY <2>2, <2>4 DEF BlockTypes
  <2>6. b = Block(x.storage)
    BY Zenon, <2>3, <2>4 DEF Block
  <2> QED
    BY Zenon, <2>5, <2>6
<1>9. \A j \in 1 .. Window : chain[j] = b
  BY Zenon, <1>4, <1>8
<1>10. \A n, j : j \in 1 .. Window => ~InBlock(n, chain[j])
  <2>1. \A n : ~InBlock(n, b)
    BY <1>8 DEF InBlock
  <2> QED
    BY Zenon, <1>9, <2>1
<1>11. NoTx \in TxTypes /\ TxArgs(NoTx) /\ NoTx.old = FALSE /\ NoTx.call = None
  BY Zenon, NoTxFacts
<1>12. \A n \in Nonce : txs[n] = NoTx
  BY Zenon, <1>4
<1>13. Types
  <2>1. TxsOK
    <3>1. txs \in [Nonce -> TxTypes]
      BY <1>4, <1>11
    <3> QED
      BY Zenon, <1>11, <1>12, <3>1 DEF TxsOK
  <2>2. chain \in [1 .. Window -> BlockTypes]
    <3>1. chain = [k \in 1 .. Window |-> b]
      BY Zenon, <1>4, <1>8
    <3> QED
      BY <3>1
  <2>3. nonce \in 1 .. MaxTx + 1
    BY <1>4, ClientAssumption
  <2>4. polls \in [Call -> PollTypes] /\ calls \in [Call -> CallTypes]
    BY <1>4, <1>5, <1>6, <1>7
  <2>5. ClientOK
    BY Zenon, <1>4, <2>2, <2>3, <2>4 DEF ClientOK
  <2>6. open \in [inst.secrets -> Call \union {None}] /\ crashes \in Nat
    BY <1>5
  <2>7. CallsOK
    BY Zenon, <1>5, <2>4, <2>6 DEF CallsOK
  <2> QED
    BY Zenon, <1>3, <1>4, <2>1, <2>5, <2>7 DEF Types
<1>14. Nothing # Ok
  BY Zenon, ErrorFacts
<1>15. \A c \in Call : calls[c] = Idle /\ polls[c] = NoPoll
  BY Zenon, <1>4, <1>5
<1>16. "idle" \notin {"done", "join", "lock", "poll"} /\ "idle" \notin Sending
  BY DEF Sending
<1>17. PhaseInv
  BY Zenon, <1>6, <1>7, <1>14, <1>15, <1>16 DEF PhaseInv, Phase
<1>18. NonceInv
  <2>1. 0 \in 0 .. MaxTx /\ nonce <= 0 + 1 /\ nonce = 0 + 1
    BY <1>4, ClientAssumption
  <2>2. \A n \in Nonce : ~(n <= 0)
    BY ClientAssumption DEF Nonce
  <2>3. Filled(0)
    BY Zenon, <1>12, <2>2 DEF Filled
  <2>4. NoncesOK
    BY Zenon, <1>5, <1>11, <1>12, <2>1, <2>3 DEF NoncesOK
  <2> QED
    BY Zenon, <1>6, <1>15, <1>16, <2>4 DEF NonceInv
<1>19. ChainInv
  <2>1. ASSUME NEW j \in 1 .. Window - 1 PROVE Later(chain[j].storage, chain[j + 1].storage)
    <3>1. j \in 1 .. Window /\ j + 1 \in 1 .. Window
      BY WindowFacts
    <3>2. chain[j] = b /\ chain[j + 1] = b
      BY Zenon, <1>9, <3>1
    <3>3. Later(b.storage, b.storage)
      BY Zenon, <1>8, LaterIsReflexive
    <3> QED
      BY Zenon, <3>2, <3>3
  <2> QED
    BY Zenon, <1>4, <1>10, <1>11, <1>12, <2>1 DEF ChainInv
<1>20. PollInv
  BY Zenon, <1>6, <1>7, <1>14, <1>15 DEF PollInv, Polled
<1>21. EffectInv
  <2>1. \A s \in inst.secrets : open[s] = None
    BY Zenon, <1>5
  <2>2. \A c \in Call : Justified(c)
    BY Zenon, <1>6, <1>14, <1>15, <1>16 DEF Justified, HasEffect, WaitsFor
  <2> QED
    BY Zenon, <1>5, <2>1, <2>2 DEF EffectInv
<1> QED
  BY Zenon, <1>13, <1>17, <1>18, <1>19, <1>20, <1>21 DEF CInv
-----------------------------------------------------------------------------
(* The theorems. *)

(* Every step of the calls, of the node and of the Ethereum node keeps the *)
(* invariant.                                                              *)
LEMMA NextKeeps ==
  ASSUME CInv, [Next]_vars
  PROVE  CInv'
<1>1. ASSUME NEW c \in Call, Start(c) PROVE CInv'
  BY Zenon, <1>1, StartSecretKeeps, StartDepositKeeps, StartOthersKeep DEF Start
<1>2. ASSUME NEW c \in Call, CallStep(c) PROVE CInv'
  BY Zenon, <1>2, MovesOnKeep, NotSentKeeps, SendKeeps, UnansweredKeeps, PollKeeps, RevertedKeeps,
     ApprovedKeeps, RegisteredKeeps, SucceededKeeps, JoinKeeps DEF CallStep
<1>3. CASE UNCHANGED vars
  <2>1. UNCHANGED invVars /\ crashes' = crashes
    BY Zenon, <1>3 DEF vars, clientVars, invVars
  <2> QED
    BY Zenon, <2>1, UnchangedKeeps DEF CInv, Types, CallsOK
<1> QED
  BY Zenon, <1>1, <1>2, <1>3, CrashKeeps, RestartKeeps, MineStepKeeps, ReorgStepKeeps, AccountStepKeeps DEF Next

(* CInv is an inductive invariant of the calls that send transactions      *)
(* (transact, poll_transaction, register_secret_batch,                     *)
(* approve_and_deposit, the blocks and their reorganisations).             *)
THEOREM CallsInvariant == Spec => []CInv
<1>1. Init => CInv
  BY Zenon, InitKeeps
<1>2. CInv /\ [Next]_vars => CInv'
  BY Zenon, NextKeeps
<1> QED
  BY <1>1, <1>2, PTL DEF Spec

(* The nonces transact gives out have no gap: the next one is the one      *)
(* geth_discover_next_available_nonce would find, or that of a last        *)
(* registration whose answer was lost and whose error _handle_events has   *)
(* only logged; and the transaction a greenlet polls is its own.           *)
THEOREM NoncesHaveNoGap == Spec => []NoncesContiguous
<1>1. ASSUME CInv PROVE NoncesContiguous
  <2>1. PICK k \in 0 .. MaxTx :
          Filled(k) /\ (up /\ ~stopping => nonce = k + 1 \/ (nonce = k /\ LostRegistration(nonce)))
    BY Zenon, <1>1 DEF CInv, NonceInv, NoncesOK
  <2>2. ASSUME NEW n \in Nonce, txs[n] # NoTx, NEW m \in 1 .. n PROVE txs[m] # NoTx
    <3>1. n <= k
      BY Zenon, <2>1, <2>2 DEF Filled
    <3>2. m \in Nonce /\ m <= k
      BY <3>1, ClientAssumption DEF Nonce
    <3> QED
      BY Zenon, <2>1, <3>2 DEF Filled
  <2>3. up /\ ~stopping => nonce = DiscoverNonce \/ (nonce + 1 = DiscoverNonce /\ LostRegistration(nonce))
    BY Zenon, <2>1, Discovered
  <2>4. \A c \in Call : calls[c].pc = "poll" => txs[polls[c].nonce].call = c
    BY Zenon, <1>1 DEF CInv, NonceInv, PollsItsOwn
  <2> QED
    BY Zenon, <2>2, <2>3, <2>4 DEF NoncesContiguous
<1>2. CInv => NoncesContiguous
  BY Zenon, <1>1
<1> QED
  BY <1>2, CallsInvariant, PTL

(* What a proxy reports as done stays done: its transaction is in a block  *)
(* no reorganisation can replace, and the secrets, the deposit or the      *)
(* token network it was called for are there, also when it only waited for *)
(* another greenlet (poll_transaction, register_secret_batch,              *)
(* approve_and_deposit).                                                   *)
THEOREM WhatIsReportedIsFinal == Spec => []SuccessIsFinal
<1>1. ASSUME CInv PROVE SuccessIsFinal
  <2>1. Types /\ ChainInv /\ PollInv /\ EffectInv
    BY Zenon, <1>1 DEF CInv
  <2>2. EffectIsThere
    BY Zenon, <2>1 DEF EffectInv, Justified, HasEffect, EffectIsThere
  <2>3. ASSUME NEW c \in Call, calls[c].tx = Ok, polls[c].nonce # 0
        PROVE  LET n == polls[c].nonce IN
               /\ txs[n].call = c /\ Mined(n) /\ Depth(n) >= MaxReorg
               /\ IF txs[n].old THEN txs[n].storage = None ELSE n \notin chain[BlockIndex(n)].failed
    <3>1. polls[c].nonce \in 0 .. MaxTx
      BY <2>1 DEF Types, ClientOK, PollTypes
    <3>2. PICK n \in Nonce : n = polls[c].nonce
      BY Zenon, <2>3, <3>1, NonceFacts
    <3>3. txs[n].call = c /\ Stays(n, MaxReorg, TRUE)
      BY Zenon, <2>1, <2>3, <3>2 DEF PollInv, Polled
    <3>4. MaxReorg \in Nat
      BY ClientAssumption
    <3>5. Mined(n) /\ Depth(n) >= MaxReorg /\ Successful(n)
      BY Zenon, <2>1, <3>3, <3>4, StaysDepth DEF Types
    <3> QED
      BY Zenon, <3>2, <3>3, <3>5 DEF Successful
  <2>4. ResultIsFinal
    BY Zenon, <2>3 DEF ResultIsFinal
  <2> QED
    BY Zenon, <2>2, <2>4 DEF SuccessIsFinal
<1>2. CInv => SuccessIsFinal
  BY Zenon, <1>1
<1> QED
  BY <1>2, CallsInvariant, PTL
=============================================================================
