----------------------- MODULE NettingChannel_histories ----------------------
(***************************************************************************)
(* The channel implements the ledger, for every number of payments, every  *)
(* amount, deposit and timeout.                                            *)
(*                                                                         *)
(* Each step of the channel is a step of the ledger or leaves it as it is: *)
(* a mined deposit is Deposit, sending LockedTransfer, Unlock and          *)
(* LockExpired are Lock, Pay and Return, and whatever is received or       *)
(* synchronised changes nothing.  The hard one is Lock.  A node decides    *)
(* what it may lock from its own end and from an old copy of its partner's *)
(* end, and from a deposit it may have seen long ago; the ledger decides   *)
(* from the present.  It is safe because both only grow, which is what     *)
(* DepositHistory and TransferHistory add to the invariant IInv.           *)
(*                                                                         *)
(* A node that has processed the confirmed blocks accepts the next message *)
(* of its partner, for every number of payments, every amount, deposit and *)
(* timeout, and whatever was lost, repeated or overtaken before.           *)
(*                                                                         *)
(* What a message was created from is gone when the message arrives: the   *)
(* sender's end has moved on, and its view of the chain and of the         *)
(* receiver's end was older than the receiver's is now.  So the invariant  *)
(* is about the history of messages.  Each message follows from the state  *)
(* signed by the one before it (SignedChain), which is the receiver's copy *)
(* by ViewsAgree; it spends only what is confirmed by now (SpendHistory);  *)
(* and a LockExpired was sent so late that the receiver has confirmed the  *)
(* expiration as well (ExpirationHistory), and is not holding the lock as  *)
(* one whose secret was registered in time (OnchainHistory).               *)
(***************************************************************************)
EXTENDS NettingChannel_proofs

(* The ledger's variables. *)
Deposits == [n \in Node |-> total_deposit[n][head]]
Paid == [n \in Node |-> our[n].transferred]
UnderLock == [n \in Node |-> get_amount_locked(our[n])]

(* Total deposits never decrease, and a node believes in no larger one     *)
(* than the last.                                                          *)
DepositHistory ==
    \A n \in Node :
        /\ \A b \in 1 .. head : total_deposit[n][b] <= total_deposit[n][head]
        /\ our[n].contract_balance <= total_deposit[n][head]

(* Nothing a node ever signed transfers more than its own state does. *)
TransferHistory ==
    \A n \in Node : \A i \in DOMAIN sent[n] : sent[n][i].transferred <= our[n].transferred

LInv == IInv /\ DepositHistory /\ TransferHistory

-----------------------------------------------------------------------------
(* Facts about single states. *)

LEMMA ChainTypes ==
    ASSUME IInv
    PROVE  /\ head \in Nat /\ head # 0
           /\ \A n \in Node : /\ total_deposit[n] \in Seq(Nat)
                              /\ Len(total_deposit[n]) = head
                              /\ total_deposit[n][head] \in Nat
<1>1. /\ head \in Nat
      /\ \A n \in Node : total_deposit[n] \in Seq(Nat) /\ Len(total_deposit[n]) = head
  BY DEF IInv, ChainOK
<1>2. head # 0
  BY ChannelStateAssumption DEF IInv, ChainOK, Node, ChannelStateAssumption
<1> QED
  BY <1>1, <1>2

LEMMA AmountIsPositive ==
    ASSUME NEW e, EndOK(e), NEW lock \in Locks(e)
    PROVE  lock.amount \in Nat /\ lock.amount # 0
<1>1. lock \in HashTimeLockState
  BY EndTypes
<1> QED
  BY <1>1, ChannelStateAssumption, Zenon DEF HashTimeLockState, ChannelStateAssumption

(* A node's copy of its partner's end has been paid no more than the       *)
(* partner has transferred.                                                *)
LEMMA CopyIsOlder ==
    ASSUME LInv, NEW n \in Node
    PROVE  partner[n].transferred <= our[Other(n)].transferred
<1> DEFINE p == Other(n)
           q == partner[n]
<1>1. p \in Node /\ Other(p) = n
  BY OtherNode
<1>2. /\ q.nonce \in Nat /\ q.transferred \in Nat /\ our[p].transferred \in Nat
      /\ our[p].nonce \in Nat
  BY <1>1, EndTypes DEF LInv, IInv, EndsOK
<1>3. /\ our[p].nonce = Len(sent[p]) /\ q.nonce <= our[p].nonce
      /\ IsSignedState(q, sent[p])
  BY <1>1 DEF LInv, IInv, ViewsAgree
<1>4. sent[p] \in Seq(EnvelopeMessage)
  BY <1>1 DEF LInv, IInv, MessagesWellFormed
<1>5. CASE q.nonce = 0
  BY <1>2, <1>3, <1>5 DEF IsSignedState
<1>6. CASE q.nonce # 0
  <2>1. q.nonce \in DOMAIN sent[p]
    BY <1>2, <1>3, <1>4, <1>6
  <2>2. q.transferred = sent[p][q.nonce].transferred
    BY <1>3, <1>6 DEF IsSignedState
  <2> QED
    BY <1>1, <2>1, <2>2 DEF LInv, TransferHistory
<1> QED
  BY <1>5, <1>6

(* What a node is able to lock is the ledger's to spend. *)
LEMMA DistributableIsSpendable ==
    ASSUME LInv, NEW n \in Node
    PROVE  /\ get_distributable(our[n], partner[n])
                <= Deposits[n] - Paid[n] + Paid[Other(n)] - UnderLock[n]
           /\ get_distributable(our[n], partner[n]) \in Int
<1> DEFINE e == our[n]
           q == partner[n]
           r == our[Other(n)]
<1>1. /\ e.contract_balance \in Nat /\ e.total_withdraw \in Nat /\ e.transferred \in Nat
      /\ get_amount_locked(e) \in Nat
  BY EndTypes DEF LInv, IInv, EndsOK
<1>2. q.transferred \in Nat /\ r.transferred \in Nat
  BY OtherNode, EndTypes DEF LInv, IInv, EndsOK
<1>3. q.transferred <= r.transferred
  BY CopyIsOlder
<1>4. e.contract_balance <= total_deposit[n][head] /\ total_deposit[n][head] \in Nat
  BY ChainTypes DEF LInv, DepositHistory
<1>5. UINT256_MAX \in Nat
  BY ChannelStateAssumption DEF ChannelStateAssumption
<1>6. /\ Deposits[n] = total_deposit[n][head] /\ Paid[n] = e.transferred
      /\ Paid[Other(n)] = r.transferred /\ UnderLock[n] = get_amount_locked(e)
  BY OtherNode DEF Deposits, Paid, UnderLock
<1>7. get_distributable(e, q)
        <= e.contract_balance - e.total_withdraw - e.transferred + q.transferred
             - get_amount_locked(e)
      /\ get_distributable(e, q) \in Int
  BY <1>1, <1>2, <1>5 DEF get_distributable, get_balance, AtMost, AtLeast
<1> HIDE DEF e, q, r
<1>8. total_deposit[n][head] - e.transferred + r.transferred - get_amount_locked(e)
        >= e.contract_balance - e.total_withdraw - e.transferred + q.transferred
             - get_amount_locked(e)
  BY <1>1, <1>2, <1>3, <1>4
<1> QED
  BY <1>1, <1>2, <1>4, <1>6, <1>7, <1>8 DEF e, q, r

-----------------------------------------------------------------------------
(* The ledger when one end moves. *)
LEMMA EndMoves ==
    ASSUME IInv, NEW n \in Node, NEW f, our' = [our EXCEPT ![n] = f],
           UNCHANGED <<head, total_deposit>>
    PROVE  /\ Deposits' = Deposits
           /\ Paid' = [Paid EXCEPT ![n] = f.transferred]
           /\ UnderLock' = [UnderLock EXCEPT ![n] = get_amount_locked(f)]
           /\ Paid \in [Node -> Nat] /\ UnderLock \in [Node -> Nat]
           /\ Paid[n] = our[n].transferred /\ UnderLock[n] = get_amount_locked(our[n])
<1>1. our'[n] = f /\ \A k \in Node : k # n => our'[k] = our[k]
  BY DEF IInv, EndsOK
<1>2. \A k \in Node : our[k].transferred \in Nat /\ get_amount_locked(our[k]) \in Nat
  BY EndTypes DEF IInv, EndsOK
<1>3. Paid' = [k \in Node |-> our'[k].transferred]
  BY DEF Paid
<1>4. UnderLock' = [k \in Node |-> get_amount_locked(our'[k])]
  BY DEF UnderLock, get_amount_locked
<1>5. Deposits' = Deposits
  BY DEF Deposits
<1>6. Paid' = [Paid EXCEPT ![n] = f.transferred]
  <2>1. \A k \in Node : our'[k].transferred = IF k = n THEN f.transferred ELSE our[k].transferred
    BY <1>1
  <2>2. [Paid EXCEPT ![n] = f.transferred]
          = [k \in Node |-> IF k = n THEN f.transferred ELSE our[k].transferred]
    BY Zenon DEF Paid
  <2> QED
    BY <1>3, <2>1, <2>2, Zenon
<1>7. UnderLock' = [UnderLock EXCEPT ![n] = get_amount_locked(f)]
  <2>1. \A k \in Node : get_amount_locked(our'[k])
                          = IF k = n THEN get_amount_locked(f) ELSE get_amount_locked(our[k])
    BY <1>1
  <2>2. [UnderLock EXCEPT ![n] = get_amount_locked(f)]
          = [k \in Node |-> IF k = n THEN get_amount_locked(f) ELSE get_amount_locked(our[k])]
    BY Zenon DEF UnderLock
  <2> QED
    BY <1>4, <2>1, <2>2, Zenon
<1>8. /\ Paid \in [Node -> Nat] /\ UnderLock \in [Node -> Nat]
      /\ Paid[n] = our[n].transferred /\ UnderLock[n] = get_amount_locked(our[n])
  BY <1>2 DEF Paid, UnderLock
<1> QED
  BY <1>5, <1>6, <1>7, <1>8

(* The histories when a node sends m and moves its end to f. *)
LEMMA SendHistory ==
    ASSUME LInv, NEW n \in Node, NEW m, m.transferred \in Nat, NEW f,
           f.contract_balance = our[n].contract_balance,
           f.transferred = m.transferred, m.transferred >= our[n].transferred,
           our' = [our EXCEPT ![n] = f],
           sent' = [sent EXCEPT ![n] = Append(@, m)],
           UNCHANGED <<head, total_deposit>>
    PROVE  DepositHistory' /\ TransferHistory'
<1>1. our'[n] = f /\ \A k \in Node : k # n => our'[k] = our[k]
  BY DEF LInv, IInv, EndsOK
<1>2. DepositHistory'
  BY <1>1 DEF LInv, DepositHistory
<1>3. sent[n] \in Seq(EnvelopeMessage) /\ sent'[n] = Append(sent[n], m)
      /\ \A k \in Node : k # n => sent'[k] = sent[k]
  BY DEF LInv, IInv, MessagesWellFormed
<1>4. \A i \in DOMAIN sent[n] : sent[n][i].transferred \in Nat
  <2>1. \A x \in EnvelopeMessage : x.transferred \in Nat
    BY DEF EnvelopeMessage, LockedTransferMessage, UnlockMessage, LockExpiredMessage
  <2> QED
    BY <1>3, <2>1
<1>5. m.transferred \in Nat /\ our[n].transferred \in Nat
  BY EndTypes DEF LInv, IInv, EndsOK
<1>6. \A i \in DOMAIN sent'[n] : sent'[n][i].transferred <= f.transferred
  <2> SUFFICES ASSUME NEW i \in DOMAIN sent'[n] PROVE sent'[n][i].transferred <= f.transferred
    OBVIOUS
  <2>1. CASE i \in DOMAIN sent[n]
    <3>1. sent'[n][i] = sent[n][i]
      BY <1>3, <2>1
    <3>2. sent[n][i].transferred <= our[n].transferred
      BY <2>1 DEF LInv, TransferHistory
    <3> QED
      BY <1>4, <1>5, <2>1, <3>1, <3>2
  <2>2. CASE i \notin DOMAIN sent[n]
    <3>1. i = Len(sent[n]) + 1
      BY <1>3, <2>2
    <3>2. sent'[n][i] = m
      BY <1>3, <3>1
    <3> QED
      BY <1>5, <3>2
  <2> QED
    BY <2>1, <2>2
<1>7. TransferHistory'
  <2> SUFFICES ASSUME NEW k \in Node
               PROVE  \A i \in DOMAIN sent'[k] : sent'[k][i].transferred <= our'[k].transferred
    BY DEF TransferHistory
  <2>1. CASE k = n
    BY <1>1, <1>6, <2>1
  <2>2. CASE k # n
    BY <1>1, <1>3, <2>2 DEF LInv, TransferHistory
  <2> QED
    BY <2>1, <2>2
<1> QED
  BY <1>2, <1>7

-----------------------------------------------------------------------------
(* The steps that move the ledger. *)
LEMMA LockStep ==
    ASSUME LInv, NEW n \in Node, NEW lock \in HashTimeLockState,
           SendLockedTransfer(n, lock)
    PROVE  Ledger!Lock(n) /\ DepositHistory' /\ TransferHistory'
<1> DEFINE e == our[n]
           m == create_sendlockedtransfer(e, lock)
           f == AddLock(e, m)
<1>1. /\ IsNewPayment(n, lock.secrethash)
      /\ lock.amount <= get_distributable(e, partner[n])
      /\ our' = [our EXCEPT ![n] = f]
      /\ sent' = [sent EXCEPT ![n] = Append(@, m)]
      /\ UNCHANGED <<head, total_deposit>>
  BY DEF SendLockedTransfer, is_channel_usable_for_new_transfer
<1>2. EndOK(e)
  BY DEF LInv, IInv, EndsOK
<1>3. /\ m.nonce = e.nonce + 1 /\ m.transferred = e.transferred /\ m.lock = lock
      /\ m.nonce \in Nat /\ m.transferred \in Nat
  BY <1>2, EndTypes DEF create_sendlockedtransfer
<1> HIDE DEF m
<1>4. get_amount_locked(f) = get_amount_locked(e) + lock.amount
  BY <1>1, <1>2, <1>3, AddLockOK DEF IsNewPayment
<1>5. f.transferred = e.transferred /\ f.contract_balance = e.contract_balance
  BY <1>2, <1>3 DEF AddLock, EndOK, NettingChannelEndState
<1> HIDE DEF f
<1>6. /\ Deposits' = Deposits
      /\ Paid' = [Paid EXCEPT ![n] = f.transferred]
      /\ UnderLock' = [UnderLock EXCEPT ![n] = get_amount_locked(f)]
      /\ Paid \in [Node -> Nat] /\ UnderLock \in [Node -> Nat]
      /\ Paid[n] = e.transferred /\ UnderLock[n] = get_amount_locked(e)
  BY Zenon, <1>1, EndMoves DEF LInv
<1>7. Paid' = Paid /\ UnderLock' = [UnderLock EXCEPT ![n] = UnderLock[n] + lock.amount]
  BY <1>4, <1>5, <1>6
<1>8. lock.amount \in 1 .. Deposits[n] - Paid[n] + Paid[Other(n)] - UnderLock[n]
  <2>1. lock.amount \in Nat /\ lock.amount # 0
    BY ChannelStateAssumption, Zenon DEF HashTimeLockState, ChannelStateAssumption
  <2>2. Deposits[n] \in Nat /\ Paid[Other(n)] \in Nat /\ Paid[n] \in Nat /\ UnderLock[n] \in Nat
    BY <1>6, ChainTypes, OtherNode DEF Deposits, LInv
  <2> QED
    BY <1>1, <2>1, <2>2, DistributableIsSpendable
<1>9. Ledger!Lock(n)
  BY Zenon, <1>6, <1>7, <1>8
     DEF Ledger!Lock, Ledger!Spendable, Ledger!Counterparty, Other, Deposits, Paid, UnderLock
<1>10. m.transferred >= e.transferred
  BY <1>3
<1> QED
  BY Zenon, <1>1, <1>3, <1>5, <1>9, <1>10, SendHistory

LEMMA PayStep ==
    ASSUME LInv, NEW n \in Node, NEW lock, SendUnlock(n, lock)
    PROVE  Ledger!Pay(n) /\ DepositHistory' /\ TransferHistory'
<1> DEFINE e == our[n]
           m == create_unlock(e, lock)
           f == ClaimLock(e, m, lock)
<1>1. /\ lock \in Locks(e)
      /\ our' = [our EXCEPT ![n] = f]
      /\ sent' = [sent EXCEPT ![n] = Append(@, m)]
      /\ UNCHANGED <<head, total_deposit>>
  BY DEF SendUnlock
<1>2. EndOK(e)
  BY DEF LInv, IInv, EndsOK
<1>3. m.nonce = e.nonce + 1 /\ m.transferred = e.transferred + lock.amount
  BY DEF create_unlock
<1>4. /\ lock.amount \in Nat /\ lock.amount # 0
      /\ e.nonce \in Nat /\ e.transferred \in Nat /\ get_amount_locked(e) \in Nat
  BY <1>1, <1>2, EndTypes, AmountIsPositive
<1>5. m.nonce \in Nat /\ m.transferred \in Nat /\ m.transferred >= e.transferred
  BY <1>3, <1>4
<1> HIDE DEF m
<1>6. EndOK(f) /\ get_amount_locked(f) = get_amount_locked(e) - lock.amount
  BY <1>1, <1>2, <1>5, ClaimLockOK
<1>7. f.transferred = m.transferred /\ f.contract_balance = e.contract_balance
  BY <1>2 DEF ClaimLock, EndOK, NettingChannelEndState
<1> HIDE DEF f
<1>8. /\ Deposits' = Deposits
      /\ Paid' = [Paid EXCEPT ![n] = f.transferred]
      /\ UnderLock' = [UnderLock EXCEPT ![n] = get_amount_locked(f)]
      /\ Paid \in [Node -> Nat] /\ UnderLock \in [Node -> Nat]
      /\ Paid[n] = e.transferred /\ UnderLock[n] = get_amount_locked(e)
  BY Zenon, <1>1, EndMoves DEF LInv
<1>9. /\ Paid' = [Paid EXCEPT ![n] = Paid[n] + lock.amount]
      /\ UnderLock' = [UnderLock EXCEPT ![n] = UnderLock[n] - lock.amount]
  BY <1>3, <1>6, <1>7, <1>8
<1>10. lock.amount \in 1 .. UnderLock[n]
  <2>1. get_amount_locked(f) \in Nat
    BY <1>6, EndTypes
  <2> QED
    BY <1>4, <1>6, <1>8, <2>1
<1>11. Ledger!Pay(n)
  BY Zenon, <1>8, <1>9, <1>10 DEF Ledger!Pay, Deposits, Paid, UnderLock
<1> QED
  BY Zenon, <1>1, <1>5, <1>7, <1>11, SendHistory

LEMMA ReturnStep ==
    ASSUME LInv, NEW n \in Node, NEW lock, SendLockExpired(n, lock)
    PROVE  Ledger!Return(n) /\ DepositHistory' /\ TransferHistory'
<1> DEFINE e == our[n]
           m == create_sendexpiredlock(e, lock)
           f == RemoveExpiredLock(e, m, lock)
<1>1. /\ lock \in e.locked \cup e.unlocked
      /\ our' = [our EXCEPT ![n] = f]
      /\ sent' = [sent EXCEPT ![n] = Append(@, m)]
      /\ UNCHANGED <<head, total_deposit>>
  BY DEF SendLockExpired
<1>2. EndOK(e)
  BY DEF LInv, IInv, EndsOK
<1>3. m.nonce = e.nonce + 1 /\ m.transferred = e.transferred
  BY DEF create_sendexpiredlock
<1>4. /\ lock.amount \in Nat /\ lock.amount # 0
      /\ e.nonce \in Nat /\ e.transferred \in Nat /\ get_amount_locked(e) \in Nat
  <2>1. lock \in Locks(e)
    BY <1>1 DEF Locks
  <2> QED
    BY <1>2, <2>1, EndTypes, AmountIsPositive
<1>5. m.nonce \in Nat /\ m.transferred \in Nat /\ m.transferred >= e.transferred
  BY <1>3, <1>4
<1> HIDE DEF m
<1>6. EndOK(f) /\ get_amount_locked(f) = get_amount_locked(e) - lock.amount
  BY <1>1, <1>2, <1>5, RemoveExpiredLockOK
<1>7. f.transferred = m.transferred /\ f.contract_balance = e.contract_balance
  BY <1>2 DEF RemoveExpiredLock, EndOK, NettingChannelEndState
<1> HIDE DEF f
<1>8. /\ Deposits' = Deposits
      /\ Paid' = [Paid EXCEPT ![n] = f.transferred]
      /\ UnderLock' = [UnderLock EXCEPT ![n] = get_amount_locked(f)]
      /\ Paid \in [Node -> Nat] /\ UnderLock \in [Node -> Nat]
      /\ Paid[n] = e.transferred /\ UnderLock[n] = get_amount_locked(e)
  BY Zenon, <1>1, EndMoves DEF LInv
<1>9. /\ Paid' = Paid
      /\ UnderLock' = [UnderLock EXCEPT ![n] = UnderLock[n] - lock.amount]
  BY <1>3, <1>6, <1>7, <1>8
<1>10. lock.amount \in 1 .. UnderLock[n]
  <2>1. get_amount_locked(f) \in Nat
    BY <1>6, EndTypes
  <2> QED
    BY <1>4, <1>6, <1>8, <2>1
<1>11. Ledger!Return(n)
  BY Zenon, <1>8, <1>9, <1>10 DEF Ledger!Return, Deposits, Paid, UnderLock
<1> QED
  BY Zenon, <1>1, <1>5, <1>7, <1>11, SendHistory

(* A block that is mined is a deposit, of nothing when it holds none. *)
LEMMA DepositStep ==
    ASSUME LInv, ChainNext
    PROVE  (\E m \in Node : Ledger!Deposit(m)) /\ DepositHistory' /\ TransferHistory'
<1>1. head' = head + 1 /\ UNCHANGED <<our, sent>>
  BY DEF ChainNext, MineEmptyBlock, MineSecretReveal, MineDeposit
<1>2. /\ head \in Nat /\ head # 0
      /\ \A n \in Node : /\ total_deposit[n] \in Seq(Nat) /\ Len(total_deposit[n]) = head
                         /\ total_deposit[n][head] \in Nat
  BY ChainTypes DEF LInv
<1>3. PICK m \in Node, a \in Nat :
        total_deposit' = [n \in Node |->
            Append(total_deposit[n], total_deposit[n][head] + IF n = m THEN a ELSE 0)]
  <2>1. CASE total_deposit' = [n \in Node |-> Append(total_deposit[n], total_deposit[n][head])]
    <3>1. \A n \in Node : total_deposit[n][head] + (IF n = Alice THEN 0 ELSE 0)
                            = total_deposit[n][head]
      BY <1>2
    <3>2. Alice \in Node /\ 0 \in Nat
      BY DEF Node
    <3> QED
      BY Zenon, <2>1, <3>1, <3>2
  <2>2. CASE \E m \in Node, amount \in DepositAmount : MineDeposit(m, amount)
    <3>1. PICK m \in Node, amount \in DepositAmount : MineDeposit(m, amount)
      BY <2>2
    <3>2. amount \in Nat
      BY NettingChannelAssumption
    <3> QED
      BY <3>1, <3>2, Zenon DEF MineDeposit
  <2> QED
    BY <2>1, <2>2, Zenon DEF ChainNext, MineEmptyBlock, MineSecretReveal
<1> DEFINE new(n) == total_deposit[n][head] + IF n = m THEN a ELSE 0
<1>4. \A n \in Node : /\ new(n) \in Nat /\ new(n) >= total_deposit[n][head]
                      /\ n # m => new(n) = total_deposit[n][head]
  BY <1>2
<1>5. \A n \in Node : /\ total_deposit'[n][head'] = new(n)
                      /\ \A b \in 1 .. head : total_deposit'[n][b] = total_deposit[n][b]
  <2> SUFFICES ASSUME NEW n \in Node
               PROVE  /\ total_deposit'[n][head'] = new(n)
                      /\ \A b \in 1 .. head : total_deposit'[n][b] = total_deposit[n][b]
    OBVIOUS
  <2>1. total_deposit'[n] = Append(total_deposit[n], new(n))
    BY <1>3
  <2> HIDE DEF new
  <2> QED
    BY <1>1, <1>2, <1>4, <2>1
<1> HIDE DEF new
<1>6. DepositHistory'
  <2> SUFFICES ASSUME NEW n \in Node
               PROVE  /\ \A b \in 1 .. head' : total_deposit'[n][b] <= total_deposit'[n][head']
                      /\ our'[n].contract_balance <= total_deposit'[n][head']
    BY DEF DepositHistory
  <2>1. /\ \A b \in 1 .. head : total_deposit[n][b] <= total_deposit[n][head]
        /\ our[n].contract_balance <= total_deposit[n][head]
    BY DEF LInv, DepositHistory
  <2>2. our[n].contract_balance \in Nat /\ \A b \in 1 .. head : total_deposit[n][b] \in Nat
    BY <1>2, EndTypes DEF LInv, IInv, EndsOK
  <2> QED
    BY <1>1, <1>2, <1>4, <1>5, <2>1, <2>2
<1>7. TransferHistory'
  BY <1>1 DEF LInv, TransferHistory
<1>8. Paid' = Paid /\ UnderLock' = UnderLock
  BY <1>1 DEF Paid, UnderLock, get_amount_locked
<1>9. /\ Deposits' = [Deposits EXCEPT ![m] = new(m)]
      /\ Deposits'[m] = new(m) /\ Deposits[m] = total_deposit[m][head]
  BY Zenon, <1>4, <1>5 DEF Deposits
<1>10. Deposits'[m] \in Nat /\ Deposits'[m] >= Deposits[m]
       /\ Deposits' = [Deposits EXCEPT ![m] = Deposits'[m]]
  BY Zenon, <1>4, <1>9
<1>11. Ledger!Deposit(m)
  BY <1>8, <1>10 DEF Ledger!Deposit, Deposits, Paid, UnderLock
<1> QED
  BY <1>6, <1>7, <1>11

-----------------------------------------------------------------------------
(* The steps the ledger does not see. *)

(* An end takes note of a secret or of a deposit that was mined. *)
LEMMA QuietStep ==
    ASSUME LInv, NEW n \in Node, NEW f, SameSignedState(our[n], f),
           f.contract_balance <= total_deposit[n][head],
           our' = [our EXCEPT ![n] = f],
           UNCHANGED <<head, total_deposit, sent>>
    PROVE  UNCHANGED <<Deposits, Paid, UnderLock>> /\ DepositHistory' /\ TransferHistory'
<1>1. our'[n] = f /\ \A k \in Node : k # n => our'[k] = our[k]
  BY DEF LInv, IInv, EndsOK
<1>2. f.transferred = our[n].transferred /\ get_amount_locked(f) = get_amount_locked(our[n])
  BY DEF SameSignedState
<1>3. UNCHANGED <<Deposits, Paid, UnderLock>>
  <2>1. /\ Deposits' = Deposits
        /\ Paid' = [Paid EXCEPT ![n] = f.transferred]
        /\ UnderLock' = [UnderLock EXCEPT ![n] = get_amount_locked(f)]
        /\ Paid \in [Node -> Nat] /\ UnderLock \in [Node -> Nat]
        /\ Paid[n] = our[n].transferred /\ UnderLock[n] = get_amount_locked(our[n])
    BY Zenon, EndMoves DEF LInv
  <2> QED
    BY <1>2, <2>1
<1>4. DepositHistory'
  BY <1>1 DEF LInv, DepositHistory
<1>5. TransferHistory'
  BY <1>1, <1>2 DEF LInv, TransferHistory
<1> QED
  BY <1>3, <1>4, <1>5

LEMMA SynchronizeIsQuiet ==
    ASSUME LInv, NEW n \in Node, NEW b \in block[n] + 1 .. head, Synchronize(n, b)
    PROVE  UNCHANGED <<Deposits, Paid, UnderLock>> /\ DepositHistory' /\ TransferHistory'
<1> DEFINE e == our[n]
           d == total_deposit[n][b]
           f == ContractEvents(e, d, NewlyRegistered(n, b))
<1>1. our' = [our EXCEPT ![n] = f] /\ UNCHANGED <<head, total_deposit, sent>>
  BY DEF Synchronize
<1>2. EndOK(e)
  BY DEF LInv, IInv, EndsOK
<1>3. b \in 1 .. head /\ d \in Nat
  <2>1. block[n] \in Nat /\ head \in Nat
    BY DEF LInv, IInv, ChainOK
  <2>2. total_deposit[n] \in Seq(Nat) /\ Len(total_deposit[n]) = head
    BY ChainTypes DEF LInv
  <2> QED
    BY <2>1, <2>2
<1>4. SameSignedState(e, f)
  BY <1>2, <1>3, ContractEventsOK
<1>5. f.contract_balance = AtLeast(e.contract_balance, d)
  <2>1. e \in NettingChannelEndState
    BY <1>2 DEF EndOK
  <2> QED
    BY <2>1 DEF ContractEvents, register_onchain_secret_endstate, update_contract_balance,
                NettingChannelEndState
<1>6. f.contract_balance <= total_deposit[n][head]
  BY <1>3, <1>5 DEF AtLeast, LInv, DepositHistory
<1> HIDE DEF f
<1> QED
  BY Zenon, <1>1, <1>4, <1>6, QuietStep

LEMMA SecretIsQuiet ==
    ASSUME LInv, NEW n \in Node, NEW h, RegisterOffchainSecret(n, h)
    PROVE  UNCHANGED <<Deposits, Paid, UnderLock>> /\ DepositHistory' /\ TransferHistory'
<1> DEFINE f == register_secret_endstate(our[n], h)
<1>1. our' = [our EXCEPT ![n] = f] /\ UNCHANGED <<head, total_deposit, sent>>
  BY DEF RegisterOffchainSecret
<1>2. EndOK(our[n])
  BY DEF LInv, IInv, EndsOK
<1>3. SameSignedState(our[n], f) /\ f.contract_balance = our[n].contract_balance
  BY <1>2, LearnedSecretOK
<1> HIDE DEF f
<1>4. f.contract_balance <= total_deposit[n][head]
  BY <1>3 DEF LInv, DepositHistory
<1> QED
  BY Zenon, <1>1, <1>3, <1>4, QuietStep

(* Receiving changes the copy of the partner's end only. *)
LEMMA ReceiveIsQuiet ==
    ASSUME LInv, UNCHANGED <<head, total_deposit, our, sent>>
    PROVE  UNCHANGED <<Deposits, Paid, UnderLock>> /\ DepositHistory' /\ TransferHistory'
<1>1. UNCHANGED <<Deposits, Paid, UnderLock>>
  BY DEF Deposits, Paid, UnderLock, get_amount_locked
<1>2. DepositHistory' /\ TransferHistory'
  BY DEF LInv, DepositHistory, TransferHistory
<1> QED
  BY <1>1, <1>2

-----------------------------------------------------------------------------
LEMMA RefinementInit == Init => LInv /\ Ledger!LInit
<1> SUFFICES ASSUME Init PROVE LInv /\ Ledger!LInit
  OBVIOUS
<1>1. IInv
  BY InitInv
<1>2. head = 1 + Confirmations /\ Confirmations \in Nat
  BY ChannelStateAssumption DEF Init, ChannelStateAssumption
<1>3. \A n \in Node : /\ \A b \in 1 .. head : total_deposit[n][b] = InitialDeposit[n]
                      /\ our[n].contract_balance = InitialDeposit[n]
                      /\ our[n].transferred = 0 /\ sent[n] = << >>
                      /\ InitialDeposit[n] \in Nat
  <2> SUFFICES ASSUME NEW n \in Node
               PROVE  /\ \A b \in 1 .. head : total_deposit[n][b] = InitialDeposit[n]
                      /\ our[n].contract_balance = InitialDeposit[n]
                      /\ our[n].transferred = 0 /\ sent[n] = << >>
                      /\ InitialDeposit[n] \in Nat
    OBVIOUS
  <2>1. our[n] = EmptyEndState(InitialDeposit[n]) /\ sent[n] = << >>
    BY DEF Init
  <2>2. total_deposit[n] = [b \in 1 .. 1 + Confirmations |-> InitialDeposit[n]]
    BY DEF Init
  <2>3. \A b \in 1 .. head : total_deposit[n][b] = InitialDeposit[n]
    BY <1>2, <2>2
  <2>4. our[n].contract_balance = InitialDeposit[n] /\ our[n].transferred = 0
    <3>1. \A d : EmptyEndState(d).contract_balance = d /\ EmptyEndState(d).transferred = 0
      BY DEF EmptyEndState
    <3> QED
      BY <2>1, <3>1
  <2>5. InitialDeposit[n] \in Nat
    BY NettingChannelAssumption
  <2> QED
    BY <2>1, <2>3, <2>4, <2>5
<1>4. head \in 1 .. head
  BY <1>2
<1>5. DepositHistory /\ TransferHistory
  BY <1>3, <1>4 DEF DepositHistory, TransferHistory
<1>6. \A n \in Node : get_amount_locked(our[n]) = 0
  BY <1>1, <1>3 DEF IInv, ViewsAgree, IsSignedState
<1>7. /\ Deposits \in [Node -> Nat] /\ Paid = [n \in Node |-> 0]
      /\ UnderLock = [n \in Node |-> 0]
  BY <1>3, <1>4, <1>6 DEF Deposits, Paid, UnderLock
<1>8. Ledger!LInit
  BY <1>7 DEF Ledger!LInit, Ledger!Participant, Node, Deposits, Paid, UnderLock
<1> QED
  BY <1>1, <1>5, <1>8 DEF LInv

LEMMA RefinementStep == LInv /\ [Next]_vars => LInv' /\ [Ledger!LNext]_(Ledger!ledger)
<1> SUFFICES ASSUME LInv, [Next]_vars PROVE LInv' /\ [Ledger!LNext]_(Ledger!ledger)
  OBVIOUS
<1> DEFINE Goal == [Ledger!LNext]_(Ledger!ledger) /\ DepositHistory' /\ TransferHistory'
<1>1. IInv'
  BY NextInv DEF LInv
<1>2. ASSUME UNCHANGED <<Deposits, Paid, UnderLock>>, DepositHistory', TransferHistory'
      PROVE  Goal
  BY <1>2 DEF Ledger!ledger, Deposits, Paid, UnderLock
<1>3. ASSUME NEW n \in Node, Ledger!Deposit(n) \/ Ledger!Lock(n) \/ Ledger!Pay(n) \/ Ledger!Return(n),
             DepositHistory', TransferHistory'
      PROVE  Goal
  BY <1>3 DEF Ledger!LNext, Ledger!Participant, Node
<1> HIDE DEF Goal
<1>4. ASSUME ChainNext PROVE Goal
  BY <1>3, <1>4, DepositStep
<1>5. ASSUME NEW n \in Node, NEW b \in block[n] + 1 .. head, Synchronize(n, b) PROVE Goal
  BY <1>2, <1>5, SynchronizeIsQuiet
<1>6. ASSUME NEW n \in Node, NEW h \in SecretHash, RegisterOffchainSecret(n, h) PROVE Goal
  BY <1>2, <1>6, SecretIsQuiet
<1>7. ASSUME NEW n \in Node, SendNext(n) PROVE Goal
  <2>1. ASSUME NEW h \in SecretHash, NEW amount \in Amount,
               SendLockedTransfer(n, HashTimeLock(amount, h))
        PROVE  Goal
    <3>1. HashTimeLock(amount, h) \in HashTimeLockState
      BY ChannelStateAssumption DEF HashTimeLock, HashTimeLockState, ChannelStateAssumption
    <3> QED
      BY <1>3, <2>1, <3>1, LockStep
  <2>2. ASSUME NEW lock, SendUnlock(n, lock) PROVE Goal
    BY <1>3, <2>2, PayStep
  <2>3. ASSUME NEW lock, SendLockExpired(n, lock) PROVE Goal
    BY <1>3, <2>3, ReturnStep
  <2> QED
    BY <1>7, <2>1, <2>2, <2>3 DEF SendNext
<1>8. ASSUME NEW n \in Node, ReceiveNext(n) PROVE Goal
  <2>1. UNCHANGED <<head, total_deposit, our, sent>>
    BY <1>8 DEF ReceiveNext, ReceiveLockedTransfer, ReceiveUnlock, ReceiveLockExpired,
                RejectMessage, vars
  <2> QED
    BY <1>2, <2>1, ReceiveIsQuiet
<1>9. ASSUME UNCHANGED vars PROVE Goal
  <2>1. UNCHANGED <<head, total_deposit, our, sent>>
    BY <1>9 DEF vars
  <2> QED
    BY <1>2, <2>1, ReceiveIsQuiet
<1>10. Goal
  BY <1>4, <1>5, <1>6, <1>7, <1>8, <1>9 DEF Next
<1> QED
  BY <1>1, <1>10 DEF LInv, Goal

(* The channel of channel.py, with its two copies of the state, delayed,   *)
(* repeated and lost messages and two views of the chain, is the ledger:   *)
(* get_distributable never lets a node lock what it does not own, and each *)
(* lock is paid or returned once.                                          *)
THEOREM ChannelImplementsLedger == Spec => ImplementsLedger
BY RefinementInit, RefinementStep, PTL DEF Spec, ImplementsLedger, Ledger!LSpec

(* No node ever owes more than the contract holds for it at that moment,   *)
(* although it checks its balance against what it has seen of the chain    *)
(* and of its partner: the first line of sanity_check, about the present.  *)
THEOREM ChannelSolvent == Spec => []Ledger!Solvent
<1>1. LInv => Ledger!Solvent
  <2> SUFFICES ASSUME LInv, NEW n \in Node
               PROVE  /\ Deposits[n] - Paid[n] + Paid[Other(n)] - UnderLock[n] >= 0
                      /\ UnderLock[n] >= 0
    BY DEF Ledger!Solvent, Ledger!Spendable, Ledger!Participant, Ledger!Counterparty,
           Node, Other, Deposits, Paid, UnderLock
  <2> DEFINE e == our[n]
             q == partner[n]
             r == our[Other(n)]
  <2>1. /\ e.contract_balance \in Nat /\ e.total_withdraw \in Nat /\ e.transferred \in Nat
        /\ get_amount_locked(e) \in Nat
    BY EndTypes DEF LInv, IInv, EndsOK
  <2>2. q.transferred \in Nat /\ r.transferred \in Nat
    BY OtherNode, EndTypes DEF LInv, IInv, EndsOK
  <2>3. q.transferred <= r.transferred
    BY CopyIsOlder
  <2>4. e.contract_balance <= total_deposit[n][head] /\ total_deposit[n][head] \in Nat
    BY ChainTypes DEF LInv, DepositHistory
  <2>5. e.contract_balance - e.total_withdraw - e.transferred + q.transferred
          - get_amount_locked(e) >= 0
    <3>1. IsSolvent(e, q)
      BY DEF LInv, IInv, EndsOK
    <3> QED
      BY <2>1, <2>2, <3>1 DEF IsSolvent, get_balance
  <2>6. /\ Deposits[n] = total_deposit[n][head] /\ Paid[n] = e.transferred
        /\ Paid[Other(n)] = r.transferred /\ UnderLock[n] = get_amount_locked(e)
    BY OtherNode DEF Deposits, Paid, UnderLock
  <2> HIDE DEF e, q, r
  <2> QED
    BY <2>1, <2>2, <2>3, <2>4, <2>5, <2>6
<1> QED
  BY <1>1, RefinementInit, RefinementStep, PTL DEF Spec

-----------------------------------------------------------------------------

(* The state signed by the message before the i-th of s. *)
RootBefore(s, i) == IF i = 1 THEN << >> ELSE s[i - 1].locksroot
PaidBefore(s, i) == IF i = 1 THEN 0 ELSE s[i - 1].transferred
LockedBefore(s, i) == IF i = 1 THEN 0 ELSE s[i - 1].locked_amount

(* Message m is one its sender creates from a state with the pending locks *)
(* root, the transferred amount paid and the locked amount sum.            *)
Follows(m, root, paid, sum) ==
    /\ is_balance_proof_safe_for_onchain_operations(m)
    /\ m.type = "LockedTransfer" =>
         /\ m.locksroot = Append(root, m.lock)
         /\ Len(m.locksroot) <= MAXIMUM_PENDING_TRANSFERS
         /\ m.transferred = paid
         /\ m.locked_amount = sum + m.lock.amount
    /\ m.type # "LockedTransfer" =>
         \E j \in DOMAIN root :
            /\ root[j].secrethash = m.secrethash
            /\ m.locksroot = compute_locks_without(root, root[j])
            /\ m.transferred = IF m.type = "Unlock" THEN paid + root[j].amount ELSE paid
            /\ m.locked_amount = sum - root[j].amount

SignedChain ==
    \A n \in Node : \A i \in DOMAIN sent[n] :
        Follows(sent[n][i], RootBefore(sent[n], i), PaidBefore(sent[n], i), LockedBefore(sent[n], i))

(* What a message signs away is covered by the sender's confirmed deposit  *)
(* and what the receiver has transferred.                                  *)
SpendHistory ==
    \A n \in Node : \A i \in DOMAIN sent[n] :
        sent[n][i].transferred + sent[n][i].locked_amount
            <= total_deposit[n][head - Confirmations] + our[Other(n)].transferred

(* Deposits never decrease.  A node knows its own deposit as of some       *)
(* confirmed block, and its partner's at least as of its own block.        *)
DepositView ==
    \A n \in Node :
        /\ \A b, c \in 1 .. head : b <= c => total_deposit[n][b] <= total_deposit[n][c]
        /\ our[n].contract_balance <= total_deposit[n][head - Confirmations]
        /\ total_deposit[Other(n)][block[n]] <= partner[n].contract_balance
        /\ our[n].total_withdraw = 0 /\ partner[n].total_withdraw = 0

ExpirationHistory ==
    \A n \in Node : \A i \in DOMAIN sent[n] :
        /\ \A j \in DOMAIN sent[n][i].locksroot :
             LET l == sent[n][i].locksroot[j] IN l.expiration = PaymentExpiration[l.secrethash]
        /\ sent[n][i].type = "LockExpired" =>
             PaymentExpiration[sent[n][i].secrethash] + Confirmations <= head - Confirmations

OnchainHistory ==
    \A n \in Node : \A l \in our[n].onchain \cup partner[n].onchain :
        registered[l.secrethash] \in 1 .. l.expiration

History == SignedChain /\ SpendHistory /\ DepositView /\ ExpirationHistory /\ OnchainHistory

AInv == JInv /\ LInv /\ History

-----------------------------------------------------------------------------
(* The confirmed part of the chain. *)
LEMMA ConfirmedBlock ==
    ASSUME IInv
    PROVE  /\ Confirmations \in Nat /\ head \in Nat
           /\ head - Confirmations \in 1 .. head
           /\ \A n \in Node : block[n] \in 1 .. head - Confirmations
           /\ \A n \in Node : \A b \in 1 .. head : total_deposit[n][b] \in Nat
<1>1. Confirmations \in Nat
  BY ChannelStateAssumption DEF ChannelStateAssumption
<1>2. head \in Nat /\ \A n \in Node : block[n] \in 1 .. head - Confirmations
  BY DEF IInv, ChainOK
<1>3. head - Confirmations \in 1 .. head
  BY <1>1, <1>2 DEF Node
<1>4. \A n \in Node : total_deposit[n] \in Seq(Nat) /\ Len(total_deposit[n]) = head
  BY ChainTypes
<1> QED
  BY <1>1, <1>2, <1>3, <1>4

(* The fields of a message have their types.                               *)
LEMMA MessageTypes ==
    ASSUME NEW m \in EnvelopeMessage
    PROVE  /\ m.nonce \in Nat /\ m.transferred \in Nat /\ m.locked_amount \in Int
           /\ m.locksroot \in Seq(HashTimeLockState)
           /\ m.type \in {"LockedTransfer", "Unlock", "LockExpired"}
           /\ m.type = "LockedTransfer" => m.lock \in HashTimeLockState
           /\ m.type # "LockedTransfer" => m.secrethash \in SecretHash
<1>1. CASE m \in LockedTransferMessage
  BY <1>1 DEF LockedTransferMessage
<1>2. CASE m \in UnlockMessage
  BY <1>2 DEF UnlockMessage
<1>3. CASE m \in LockExpiredMessage
  BY <1>3 DEF LockExpiredMessage
<1> QED
  BY <1>1, <1>2, <1>3 DEF EnvelopeMessage

(* An end state of n that n signed: the state before the next message, the *)
(* expirations of its locks, and the cover of what it spends.              *)
LEMMA SignedState ==
    ASSUME IInv, NEW n \in Node, NEW e, EndOK(e), e.nonce <= Len(sent[n]),
           IsSignedState(e, sent[n])
    PROVE  /\ RootBefore(sent[n], e.nonce + 1) = e.pending_locks
           /\ PaidBefore(sent[n], e.nonce + 1) = e.transferred
           /\ LockedBefore(sent[n], e.nonce + 1) = get_amount_locked(e)
           /\ ExpirationHistory =>
                \A l \in Locks(e) : l.expiration = PaymentExpiration[l.secrethash]
           /\ SpendHistory => e.transferred + get_amount_locked(e)
                <= total_deposit[n][head - Confirmations] + our[Other(n)].transferred
<1>1. sent[n] \in Seq(EnvelopeMessage) /\ e.nonce \in Nat
  BY EndTypes DEF IInv, MessagesWellFormed
<1>2. Locks(e) = {e.pending_locks[j] : j \in DOMAIN e.pending_locks}
  BY DEF EndOK, LocksInSync
<1>3. total_deposit[n][head - Confirmations] \in Nat /\ our[Other(n)].transferred \in Nat
  BY ConfirmedBlock, OtherNode, EndTypes DEF IInv, EndsOK
<1>4. CASE e.nonce = 0
  <2>1. e.transferred = 0 /\ e.pending_locks = << >> /\ get_amount_locked(e) = 0
    BY <1>4 DEF IsSignedState
  <2>2. e.nonce + 1 = 1
    BY <1>4
  <2>3. Locks(e) = {}
    BY <1>2, <2>1
  <2> QED
    BY <1>3, <2>1, <2>2, <2>3 DEF RootBefore, PaidBefore, LockedBefore
<1>5. CASE e.nonce # 0
  <2>1. e.nonce \in DOMAIN sent[n] /\ e.nonce + 1 # 1 /\ e.nonce + 1 - 1 = e.nonce
    BY <1>1, <1>5
  <2>2. /\ e.transferred = sent[n][e.nonce].transferred
        /\ e.pending_locks = sent[n][e.nonce].locksroot
        /\ get_amount_locked(e) = sent[n][e.nonce].locked_amount
    BY <1>5 DEF IsSignedState
  <2>3. ExpirationHistory =>
          \A l \in Locks(e) : l.expiration = PaymentExpiration[l.secrethash]
    BY <1>2, <2>1, <2>2 DEF ExpirationHistory
  <2>4. SpendHistory => e.transferred + get_amount_locked(e)
                <= total_deposit[n][head - Confirmations] + our[Other(n)].transferred
    BY <2>1, <2>2 DEF SpendHistory
  <2> QED
    BY <2>1, <2>2, <2>3, <2>4 DEF RootBefore, PaidBefore, LockedBefore
<1> QED
  BY <1>4, <1>5

(* The next message of n follows from the copy n has of its partner's end. *)
LEMMA NextFollows ==
    ASSUME AInv, NEW n \in Node, Undelivered(n)
    PROVE  LET m == NextMessage(n)
               q == partner[n]
           IN  /\ m \in EnvelopeMessage /\ m.nonce = q.nonce + 1
               /\ UniqueHashes(m.locksroot)
               /\ Follows(m, q.pending_locks, q.transferred, get_amount_locked(q))
               /\ m.transferred + m.locked_amount
                    <= total_deposit[Other(n)][head - Confirmations] + our[n].transferred
               /\ m.type = "LockExpired" =>
                    /\ ExpiredForGood(m.secrethash)
                    /\ PaymentExpiration[m.secrethash] + Confirmations <= head - Confirmations
<1> DEFINE p == Other(n)
           q == partner[n]
           i == q.nonce + 1
           m == sent[p][i]
<1>1. p \in Node /\ Other(p) = n
  BY OtherNode
<1>2. EndOK(q) /\ IsSignedState(q, sent[p]) /\ q.nonce \in Nat
  BY <1>1, EndTypes DEF AInv, LInv, IInv, EndsOK, ViewsAgree
<1>3. sent[p] \in Seq(EnvelopeMessage)
  BY <1>1 DEF AInv, LInv, IInv, MessagesWellFormed
<1>4. i \in DOMAIN sent[p] /\ q.nonce <= Len(sent[p])
  BY <1>2, <1>3 DEF Undelivered
<1>5. m \in EnvelopeMessage /\ m.nonce = i /\ UniqueHashes(m.locksroot)
  BY <1>1, <1>3, <1>4 DEF AInv, LInv, IInv, MessagesWellFormed
<1>6. Follows(m, RootBefore(sent[p], i), PaidBefore(sent[p], i), LockedBefore(sent[p], i))
  BY <1>1, <1>4, Zenon DEF AInv, History, SignedChain
<1>7. /\ RootBefore(sent[p], i) = q.pending_locks
      /\ PaidBefore(sent[p], i) = q.transferred
      /\ LockedBefore(sent[p], i) = get_amount_locked(q)
  BY <1>1, <1>2, <1>4, SignedState DEF AInv, LInv
<1>8. m.transferred + m.locked_amount <= total_deposit[p][head - Confirmations] + our[n].transferred
  BY <1>1, <1>4 DEF AInv, History, SpendHistory
<1>9. m.type = "LockExpired" =>
        /\ ExpiredForGood(m.secrethash)
        /\ PaymentExpiration[m.secrethash] + Confirmations <= head - Confirmations
  <2>1. ASSUME m.type = "LockExpired" PROVE ExpiredForGood(m.secrethash)
    <3>1. CancelledInOrder(p, m.secrethash, i)
      BY Zenon, <1>1, <1>4, <2>1 DEF AInv, JInv, ExpiredHistory
    <3>2. \A j \in DOMAIN sent[p] : q.nonce < j /\ j <= i => j = i
      BY <1>2, <1>3
    <3>3. m.type # "LockedTransfer"
      BY <2>1
    <3>4. ~DroppedLock(p, m.secrethash, i)
      BY Zenon, <1>1, <3>2, <3>3 DEF DroppedLock, IsDropped
    <3> QED
      BY Zenon, <3>1, <3>4 DEF CancelledInOrder
  <2> QED
    BY <1>1, <1>4, <2>1 DEF AInv, History, ExpirationHistory
<1>10. NextMessage(n) = m
  BY DEF NextMessage
<1> QED
  BY Zenon, <1>5, <1>6, <1>7, <1>8, <1>9, <1>10

(* is_valid_lockedtransfer holds of the next LockedTransfer: it extends the *)
(* receiver's copy, and what it spends is in the receiver's view by now.   *)
LEMMA LockedTransferAcceptable ==
    ASSUME AInv, NEW n \in Node, Undelivered(n), block[n] = head - Confirmations,
           NextMessage(n).type = "LockedTransfer"
    PROVE  is_valid_lockedtransfer(NextMessage(n), partner[n], our[n])
<1> DEFINE m == NextMessage(n)
           q == partner[n]
           e == our[n]
           d == total_deposit[Other(n)][head - Confirmations]
<1>1. /\ m \in EnvelopeMessage /\ m.nonce = q.nonce + 1 /\ UniqueHashes(m.locksroot)
      /\ Follows(m, q.pending_locks, q.transferred, get_amount_locked(q))
      /\ m.transferred + m.locked_amount <= d + e.transferred
  BY NextFollows
<1>2. /\ EndOK(q) /\ EndOK(e)
      /\ q.contract_balance \in Nat /\ q.total_withdraw = 0 /\ q.transferred \in Nat
      /\ get_amount_locked(q) \in Nat /\ e.transferred \in Nat
      /\ q.pending_locks \in Seq(HashTimeLockState)
  BY EndTypes DEF AInv, LInv, IInv, EndsOK, History, DepositView
<1>3. d \in Nat /\ d <= q.contract_balance
  BY ConfirmedBlock, OtherNode DEF AInv, LInv, History, DepositView
<1>4. /\ is_balance_proof_safe_for_onchain_operations(m)
      /\ m.locksroot = Append(q.pending_locks, m.lock)
      /\ Len(m.locksroot) <= MAXIMUM_PENDING_TRANSFERS
      /\ m.transferred = q.transferred
      /\ m.locked_amount = get_amount_locked(q) + m.lock.amount
  BY <1>1 DEF Follows
<1>5. m.lock \in HashTimeLockState /\ m.lock.amount \in Nat
  BY <1>1, MessageTypes, LockTypes
<1> HIDE DEF m, q, e, d
<1>6. ~IsPending(q.pending_locks, m.lock)
  <2> SUFFICES ASSUME NEW j \in DOMAIN q.pending_locks, q.pending_locks[j] = m.lock PROVE FALSE
    BY DEF IsPending
  <2> DEFINE s == q.pending_locks
             r == Append(s, m.lock)
  <2>1. /\ j \in DOMAIN r /\ Len(s) + 1 \in DOMAIN r /\ j # Len(s) + 1
        /\ r[j] = s[j] /\ r[Len(s) + 1] = m.lock
    BY <1>2, <1>5
  <2> QED
    BY <1>1, <1>4, <2>1 DEF UniqueHashes
<1>7. m.lock.amount <= get_distributable(q, e)
  <2>1. UINT256_MAX \in Nat
    BY ChannelStateAssumption DEF ChannelStateAssumption
  <2>2. m.lock.amount <= UINT256_MAX - q.transferred - get_amount_locked(q)
    BY <1>2, <1>4, <1>5, <2>1 DEF is_balance_proof_safe_for_onchain_operations
  <2>3. m.lock.amount <= get_balance(q, e) - get_amount_locked(q)
    BY <1>1, <1>2, <1>3, <1>4, <1>5 DEF get_balance
  <2> QED
    BY <1>2, <1>5, <2>1, <2>2, <2>3 DEF get_distributable, get_balance, AtMost, AtLeast
<1> QED
  BY <1>1, <1>4, <1>6, <1>7
     DEF is_valid_lockedtransfer, is_balance_proof_usable_onchain, compute_locks_with, m, q, e

(* An Unlock or LockExpired names a lock the receiver has. *)
LEMMA RemovalKnown ==
    ASSUME AInv, NEW n \in Node, Undelivered(n), NextMessage(n).type # "LockedTransfer"
    PROVE  LET m == NextMessage(n)
               q == partner[n]
           IN  \E lock \in Locks(q) :
                 /\ lock.secrethash = m.secrethash
                 /\ IsPending(q.pending_locks, lock)
                 /\ is_balance_proof_usable_onchain(m, q)
                 /\ m.locksroot = compute_locks_without(q.pending_locks, lock)
                 /\ m.transferred = IF m.type = "Unlock" THEN q.transferred + lock.amount
                                                         ELSE q.transferred
                 /\ m.locked_amount = get_amount_locked(q) - lock.amount
<1> DEFINE m == NextMessage(n)
           q == partner[n]
           s == q.pending_locks
<1>1. m.nonce = q.nonce + 1 /\ Follows(m, s, q.transferred, get_amount_locked(q))
  BY NextFollows
<1>2. Locks(q) = {s[j] : j \in DOMAIN s}
  BY DEF AInv, LInv, IInv, EndsOK, EndOK, LocksInSync
<1>3. PICK j \in DOMAIN s :
            /\ s[j].secrethash = m.secrethash
            /\ m.locksroot = compute_locks_without(s, s[j])
            /\ m.transferred = IF m.type = "Unlock" THEN q.transferred + s[j].amount ELSE q.transferred
            /\ m.locked_amount = get_amount_locked(q) - s[j].amount
  BY <1>1 DEF Follows
<1>4. is_balance_proof_usable_onchain(m, q)
  BY <1>1 DEF Follows, is_balance_proof_usable_onchain
<1>5. s[j] \in Locks(q) /\ IsPending(s, s[j])
  BY <1>2 DEF IsPending
<1> HIDE DEF m, q, s
<1>6. \E lock \in Locks(q) :
         /\ lock.secrethash = m.secrethash
         /\ IsPending(s, lock)
         /\ is_balance_proof_usable_onchain(m, q)
         /\ m.locksroot = compute_locks_without(s, lock)
         /\ m.transferred = IF m.type = "Unlock" THEN q.transferred + lock.amount ELSE q.transferred
         /\ m.locked_amount = get_amount_locked(q) - lock.amount
  BY <1>3, <1>4, <1>5
<1> QED
  BY <1>6 DEF m, q, s

(* No lock of a cancelled payment is known to be registered in time, in    *)
(* either direction.                                                       *)
LEMMA CancelledNotOnchain ==
    ASSUME AInv, NEW n \in Node, NEW h \in SecretHash, ExpiredForGood(h)
    PROVE  \A l \in our[n].onchain \cup partner[n].onchain : l.secrethash # h
<1> SUFFICES ASSUME NEW l \in our[n].onchain \cup partner[n].onchain, l.secrethash = h
             PROVE  FALSE
  OBVIOUS
<1>1. registered[h] \in 1 .. l.expiration
  BY DEF AInv, History, OnchainHistory
<1>2. EndOK(our[n]) /\ EndOK(partner[n])
  BY DEF AInv, LInv, IInv, EndsOK
<1>3. l \in Locks(our[n]) \/ l \in Locks(partner[n])
  BY DEF Locks
<1>4. l.expiration \in Nat /\ l.expiration = PaymentExpiration[h]
  <2>1. ASSUME NEW k \in Node, NEW e, EndOK(e), IsSignedState(e, sent[k]), e.nonce <= Len(sent[k]),
               l \in Locks(e)
        PROVE  l.expiration \in Nat /\ l.expiration = PaymentExpiration[h]
    <3>1. l \in HashTimeLockState
      BY <2>1, EndTypes
    <3>2. IInv /\ ExpirationHistory
      BY DEF AInv, LInv, History
    <3> QED
      BY <2>1, <3>1, <3>2, SignedState, LockTypes
  <2>2. IsSignedState(our[n], sent[n]) /\ our[n].nonce <= Len(sent[n])
    BY <1>2, EndTypes DEF AInv, LInv, IInv, ViewsAgree
  <2>3. /\ Other(n) \in Node /\ IsSignedState(partner[n], sent[Other(n)])
        /\ partner[n].nonce <= Len(sent[Other(n)])
    BY OtherNode DEF AInv, LInv, IInv, ViewsAgree
  <2> QED
    BY <1>2, <1>3, <2>1, <2>2, <2>3
<1> QED
  BY <1>1, <1>4 DEF ExpiredForGood

(* is_valid_lock_expired holds of the next LockExpired: the receiver has   *)
(* the lock, has confirmed its expiration and knows no registration.       *)
LEMMA LockExpiredAcceptable ==
    ASSUME AInv, NEW n \in Node, Undelivered(n), block[n] = head - Confirmations,
           NextMessage(n).type = "LockExpired"
    PROVE  \E lock \in partner[n].locked \cup partner[n].unlocked :
              AcceptsLockExpired(n, NextMessage(n), lock)
<1> DEFINE m == NextMessage(n)
           q == partner[n]
<1>1. /\ m \in EnvelopeMessage /\ ExpiredForGood(m.secrethash)
      /\ PaymentExpiration[m.secrethash] + Confirmations <= block[n]
  BY NextFollows
<1>2. m.secrethash \in SecretHash
  BY <1>1, MessageTypes
<1>3. PICK lock \in Locks(q) :
         /\ lock.secrethash = m.secrethash
         /\ IsPending(q.pending_locks, lock)
         /\ is_balance_proof_usable_onchain(m, q)
         /\ m.locksroot = compute_locks_without(q.pending_locks, lock)
         /\ m.transferred = q.transferred
         /\ m.locked_amount = get_amount_locked(q) - lock.amount
  BY RemovalKnown
<1>4. \A l \in our[n].onchain \cup q.onchain : l.secrethash # m.secrethash
  BY <1>1, <1>2, CancelledNotOnchain
<1>5. lock \in q.locked \cup q.unlocked
  BY <1>3, <1>4 DEF Locks
<1>6. lock.expiration = PaymentExpiration[lock.secrethash]
  <2>1. IInv /\ ExpirationHistory
    BY DEF AInv, LInv, History
  <2>2. /\ EndOK(q) /\ Other(n) \in Node /\ IsSignedState(q, sent[Other(n)])
        /\ q.nonce <= Len(sent[Other(n)])
    BY OtherNode DEF AInv, LInv, IInv, EndsOK, ViewsAgree
  <2> QED
    BY <1>3, <2>1, <2>2, SignedState
<1>7. is_lock_expired(our[n], lock, block[n], get_receiver_expiration_threshold(lock.expiration))
  <2>1. \A l \in our[n].onchain : l.secrethash # lock.secrethash
    BY <1>3, <1>4
  <2>2. lock.expiration + Confirmations <= block[n]
    BY <1>1, <1>3, <1>6
  <2>3. lock.expiration \in Nat /\ Confirmations \in Nat /\ block[n] \in Nat
    <3>1. lock \in HashTimeLockState
      BY EndTypes DEF AInv, LInv, IInv, EndsOK
    <3> QED
      BY <3>1, LockTypes, ConfirmedBlock DEF AInv, LInv
  <2> QED
    BY <2>1, <2>2, <2>3 DEF is_lock_expired, get_receiver_expiration_threshold
<1> HIDE DEF m
<1>8. is_valid_lock_expired(m, lock, q, our[n], block[n])
  BY <1>3, <1>4, <1>7 DEF is_valid_lock_expired
<1> QED
  BY <1>3, <1>5, <1>8 DEF AcceptsLockExpired, m

(* The invariant gives the property: one case per type of message.         *)
LEMMA HistoryAccepts == AInv => NextMessageAcceptable
<1> SUFFICES ASSUME AInv, NEW n \in Node, Undelivered(n), block[n] = head - Confirmations
             PROVE  Accepts(n, NextMessage(n)) \/ IsDropped(NextMessage(n))
  BY DEF NextMessageAcceptable
<1> DEFINE m == NextMessage(n)
<1>1. m.type \in {"LockedTransfer", "Unlock", "LockExpired"}
  BY NextFollows, MessageTypes
<1>2. CASE m.type = "LockedTransfer"
  BY <1>2, LockedTransferAcceptable DEF Accepts, AcceptsLockedTransfer, IsDropped
<1>3. CASE m.type = "Unlock"
  <2>1. \E lock \in Locks(partner[n]) : AcceptsUnlock(n, m, lock)
    BY <1>3, RemovalKnown DEF AcceptsUnlock, is_valid_unlock
  <2> QED
    BY <2>1 DEF Accepts
<1>4. CASE m.type = "LockExpired"
  BY <1>4, LockExpiredAcceptable DEF Accepts
<1> QED
  BY <1>1, <1>2, <1>3, <1>4

-----------------------------------------------------------------------------
(* Sending m extends the history: what holds of m and of the messages      *)
(* before it holds of all.                                                 *)
LEMMA SendExtends ==
    ASSUME AInv, NEW n \in Node, NEW m \in EnvelopeMessage, NEW f,
           Follows(m, our[n].pending_locks, our[n].transferred, get_amount_locked(our[n])),
           m.transferred + m.locked_amount
             <= total_deposit[n][head - Confirmations] + our[Other(n)].transferred,
           \A j \in DOMAIN m.locksroot :
             m.locksroot[j].expiration = PaymentExpiration[m.locksroot[j].secrethash],
           m.type = "LockExpired" =>
             PaymentExpiration[m.secrethash] + Confirmations <= head - Confirmations,
           f.contract_balance = our[n].contract_balance, f.total_withdraw = our[n].total_withdraw,
           f.onchain \subseteq our[n].onchain,
           f.transferred \in Nat, our[n].transferred <= f.transferred,
           our' = [our EXCEPT ![n] = f],
           sent' = [sent EXCEPT ![n] = Append(@, m)],
           UNCHANGED <<head, registered, total_deposit, block, partner>>
    PROVE  History'
<1>1. our'[n] = f /\ \A k \in Node : k # n => our'[k] = our[k]
  BY DEF AInv, LInv, IInv, EndsOK
<1>2. /\ sent[n] \in Seq(EnvelopeMessage) /\ sent'[n] = Append(sent[n], m)
      /\ \A k \in Node : k # n => sent'[k] = sent[k]
  BY DEF AInv, LInv, IInv, MessagesWellFormed
<1>3. /\ Len(sent[n]) \in Nat /\ DOMAIN sent[n] = 1 .. Len(sent[n])
      /\ DOMAIN sent'[n] = 1 .. Len(sent[n]) + 1
      /\ \A i \in 1 .. Len(sent[n]) : sent'[n][i] = sent[n][i]
      /\ sent'[n][Len(sent[n]) + 1] = m
  BY <1>2
<1> DEFINE last == Len(sent[n]) + 1
<1>4. \A k \in Node : \A i \in DOMAIN sent'[k] :
        \/ i \in DOMAIN sent[k] /\ sent'[k][i] = sent[k][i]
        \/ k = n /\ i = last /\ sent'[k][i] = m
  BY <1>2, <1>3
<1>5. SignedChain'
  <2> SUFFICES ASSUME NEW k \in Node, NEW i \in DOMAIN sent'[k]
               PROVE  Follows(sent'[k][i], RootBefore(sent'[k], i), PaidBefore(sent'[k], i),
                              LockedBefore(sent'[k], i))
    BY Zenon DEF SignedChain, Follows, RootBefore, PaidBefore, LockedBefore
  <2>1. CASE i \in DOMAIN sent[k] /\ sent'[k][i] = sent[k][i]
    <3>1. i # 1 => sent'[k][i - 1] = sent[k][i - 1]
      <4>1. CASE k = n
        BY <1>3, <2>1, <4>1
      <4>2. CASE k # n
        BY <1>2, <4>2
      <4> QED
        BY <4>1, <4>2
    <3>2. /\ RootBefore(sent'[k], i) = RootBefore(sent[k], i)
          /\ PaidBefore(sent'[k], i) = PaidBefore(sent[k], i)
          /\ LockedBefore(sent'[k], i) = LockedBefore(sent[k], i)
      BY <3>1 DEF RootBefore, PaidBefore, LockedBefore
    <3>3. Follows(sent[k][i], RootBefore(sent[k], i), PaidBefore(sent[k], i), LockedBefore(sent[k], i))
      BY <2>1, Zenon DEF AInv, History, SignedChain
    <3> QED
      BY <2>1, <3>2, <3>3
  <2>2. CASE k = n /\ i = last /\ sent'[k][i] = m
    <3>1. /\ EndOK(our[n]) /\ our[n].nonce = Len(sent[n]) /\ our[n].nonce <= Len(sent[n])
          /\ IsSignedState(our[n], sent[n])
      BY SMTT(20), <1>3 DEF AInv, LInv, IInv, EndsOK, ViewsAgree
    <3>2. /\ RootBefore(sent[n], last) = our[n].pending_locks
          /\ PaidBefore(sent[n], last) = our[n].transferred
          /\ LockedBefore(sent[n], last) = get_amount_locked(our[n])
      BY <3>1, SignedState DEF AInv, LInv
    <3>3. last # 1 => sent'[n][last - 1] = sent[n][last - 1]
      BY <1>3
    <3>4. /\ RootBefore(sent'[n], last) = RootBefore(sent[n], last)
          /\ PaidBefore(sent'[n], last) = PaidBefore(sent[n], last)
          /\ LockedBefore(sent'[n], last) = LockedBefore(sent[n], last)
      BY <3>3 DEF RootBefore, PaidBefore, LockedBefore
    <3> QED
      BY <2>2, <3>2, <3>4
  <2> QED
    BY <1>4, <2>1, <2>2
<1>6. SpendHistory'
  <2> SUFFICES ASSUME NEW k \in Node, NEW i \in DOMAIN sent'[k]
               PROVE  sent'[k][i].transferred + sent'[k][i].locked_amount
                        <= total_deposit[k][head - Confirmations] + our'[Other(k)].transferred
    BY DEF SpendHistory
  <2>1. /\ sent'[k][i] \in EnvelopeMessage
        /\ sent'[k][i].transferred + sent'[k][i].locked_amount
             <= total_deposit[k][head - Confirmations] + our[Other(k)].transferred
    <3>1. CASE i \in DOMAIN sent[k] /\ sent'[k][i] = sent[k][i]
      BY <3>1 DEF AInv, LInv, IInv, MessagesWellFormed, History, SpendHistory
    <3>2. CASE k = n /\ i = last /\ sent'[k][i] = m
      BY <3>2
    <3> QED
      BY <1>4, <3>1, <3>2
  <2>2. our[Other(k)].transferred \in Nat /\ our'[Other(k)].transferred \in Nat
        /\ our[Other(k)].transferred <= our'[Other(k)].transferred
    <3>1. Other(k) \in Node /\ \A j \in Node : our[j].transferred \in Nat
      BY OtherNode, EndTypes DEF AInv, LInv, IInv, EndsOK
    <3> QED
      BY <1>1, <3>1
  <2>3. total_deposit[k][head - Confirmations] \in Nat
    BY ConfirmedBlock DEF AInv, LInv
  <2>4. sent'[k][i].transferred \in Nat /\ sent'[k][i].locked_amount \in Int
    BY <2>1, MessageTypes
  <2> DEFINE a == sent'[k][i].transferred
             b == sent'[k][i].locked_amount
             c == total_deposit[k][head - Confirmations]
             x == our[Other(k)].transferred
             y == our'[Other(k)].transferred
  <2>5. a \in Int /\ b \in Int /\ c \in Int /\ x \in Int /\ y \in Int /\ a + b <= c + x /\ x <= y
    BY <2>1, <2>2, <2>3, <2>4
  <2> HIDE DEF a, b, c, x, y
  <2>6. a + b <= c + y
    BY <2>5
  <2> QED
    BY <2>6 DEF a, b, c, y
<1>7. DepositView'
  BY <1>1 DEF AInv, History, DepositView
<1>8. ExpirationHistory'
  <2> SUFFICES ASSUME NEW k \in Node, NEW i \in DOMAIN sent'[k]
               PROVE  /\ \A j \in DOMAIN sent'[k][i].locksroot :
                           LET l == sent'[k][i].locksroot[j]
                           IN  l.expiration = PaymentExpiration[l.secrethash]
                      /\ sent'[k][i].type = "LockExpired" =>
                           PaymentExpiration[sent'[k][i].secrethash] + Confirmations
                             <= head - Confirmations
    BY Zenon DEF ExpirationHistory
  <2>1. CASE i \in DOMAIN sent[k] /\ sent'[k][i] = sent[k][i]
    <3>1. ExpirationHistory
      BY Zenon DEF AInv, History
    <3>2. /\ \A j \in DOMAIN sent[k][i].locksroot :
                LET l == sent[k][i].locksroot[j]
                IN  l.expiration = PaymentExpiration[l.secrethash]
          /\ sent[k][i].type = "LockExpired" =>
                PaymentExpiration[sent[k][i].secrethash] + Confirmations <= head - Confirmations
      BY Zenon, <2>1, <3>1 DEF ExpirationHistory
    <3> QED
      BY Zenon, <2>1, <3>2
  <2>2. CASE k = n /\ i = last /\ sent'[k][i] = m
    BY <2>2
  <2> QED
    BY Zenon, <1>4, <2>1, <2>2
<1>9. OnchainHistory'
  BY <1>1 DEF AInv, History, OnchainHistory
<1> QED
  BY <1>5, <1>6, <1>7, <1>8, <1>9 DEF History

(* A sequence below its limit has room for one more element, as the pending *)
(* locks have for a lock under MAXIMUM_PENDING_TRANSFERS.                   *)
LEMMA AppendFits ==
    ASSUME NEW S, NEW q \in Seq(S), NEW x \in S, NEW max \in Nat, Len(q) < max
    PROVE  Append(q, x) \in Seq(S) /\ Len(Append(q, x)) <= max
OBVIOUS

(* The LockedTransfer that create_sendlockedtransfer makes is a message. *)
LEMMA LockedTransferType ==
    ASSUME NEW nonce \in Nat, NEW amount \in Nat, NEW held \in Int,
           NEW root \in Seq(HashTimeLockState), NEW lock \in HashTimeLockState
    PROVE  [type |-> "LockedTransfer", nonce |-> nonce, transferred |-> amount,
            locked_amount |-> held, locksroot |-> root, lock |-> lock] \in EnvelopeMessage
BY DEF EnvelopeMessage, LockedTransferMessage

(* A new LockedTransfer continues the history: it is signed over the state *)
(* after the last message and covered by confirmed deposits.               *)
LEMMA SendLockedTransferHistory ==
    ASSUME AInv, NEW n \in Node, NEW h \in SecretHash, NEW amount \in Amount,
           SendLockedTransfer(n, HashTimeLock(amount, h))
    PROVE  History'
<1> DEFINE lock == HashTimeLock(amount, h)
           e == our[n]
           m == create_sendlockedtransfer(e, lock)
           f == AddLock(e, m)
           root == compute_locks_with(e.pending_locks, lock)
<1>1. /\ Len(e.pending_locks) < MAXIMUM_PENDING_TRANSFERS
      /\ lock.amount <= get_distributable(e, partner[n])
      /\ is_valid_amount(e, lock.amount)
      /\ our' = [our EXCEPT ![n] = f]
      /\ sent' = [sent EXCEPT ![n] = Append(@, m)]
      /\ UNCHANGED <<head, registered, total_deposit, block, partner>>
  BY DEF SendLockedTransfer, is_channel_usable_for_new_transfer
<1>2. lock \in HashTimeLockState /\ lock.expiration = PaymentExpiration[lock.secrethash]
  BY ChannelStateAssumption DEF HashTimeLock, HashTimeLockState, ChannelStateAssumption
<1>3. /\ EndOK(e) /\ e \in NettingChannelEndState
      /\ e.nonce \in Nat /\ e.transferred \in Nat /\ get_amount_locked(e) \in Nat
      /\ e.contract_balance \in Nat /\ e.total_withdraw = 0
      /\ e.pending_locks \in Seq(HashTimeLockState)
  BY EndTypes DEF AInv, LInv, IInv, EndsOK, EndOK, History, DepositView
<1>4. lock.amount \in Nat
  BY <1>2, LockTypes
<1> HIDE DEF lock
<1>5. root \in Seq(HashTimeLockState) /\ Len(root) <= MAXIMUM_PENDING_TRANSFERS
  <2>1. MAXIMUM_PENDING_TRANSFERS \in Nat
    BY ChannelStateAssumption DEF ChannelStateAssumption
  <2> QED
    BY Zenon, <1>1, <1>2, <1>3, <2>1, AppendFits DEF compute_locks_with
<1>6. /\ m.type = "LockedTransfer" /\ m.nonce = e.nonce + 1 /\ m.transferred = e.transferred
      /\ m.locked_amount = get_amount_locked(e) + lock.amount
      /\ m.locksroot = root /\ m.lock = lock
  BY Zenon DEF create_sendlockedtransfer
<1>7. m \in EnvelopeMessage
  <2>1. e.nonce + 1 \in Nat /\ e.transferred \in Nat /\ get_amount_locked(e) + lock.amount \in Int
    BY <1>3, <1>4
  <2> QED
    BY Zenon, <1>2, <1>5, <2>1, LockedTransferType DEF create_sendlockedtransfer
<1>8. Follows(m, e.pending_locks, e.transferred, get_amount_locked(e))
  <2>1. UINT256_MAX \in Nat
    BY ChannelStateAssumption DEF ChannelStateAssumption
  <2>2. is_balance_proof_safe_for_onchain_operations(m)
    BY <1>1, <1>3, <1>4, <1>6, <2>1
       DEF is_balance_proof_safe_for_onchain_operations, is_valid_amount
  <2> QED
    BY <1>5, <1>6, <2>2 DEF Follows, compute_locks_with
<1>9. \A j \in DOMAIN m.locksroot :
        m.locksroot[j].expiration = PaymentExpiration[m.locksroot[j].secrethash]
  <2>1. \A l \in Locks(e) : l.expiration = PaymentExpiration[l.secrethash]
    <3>1. IsSignedState(e, sent[n]) /\ e.nonce <= Len(sent[n])
      BY <1>3 DEF AInv, LInv, IInv, ViewsAgree
    <3> QED
      BY <1>3, <3>1, SignedState DEF AInv, LInv, History
  <2>2. Locks(e) = {e.pending_locks[j] : j \in DOMAIN e.pending_locks}
    BY <1>3 DEF EndOK, LocksInSync
  <2>3. \A j \in DOMAIN root : root[j] = lock \/ root[j] \in Locks(e)
    BY <1>2, <1>3, <2>2 DEF compute_locks_with
  <2> QED
    BY <1>2, <1>6, <2>1, <2>3
<1>10. m.transferred + m.locked_amount
         <= total_deposit[n][head - Confirmations] + our[Other(n)].transferred
  <2> DEFINE q == partner[n]
             d == total_deposit[n][head - Confirmations]
             t == our[Other(n)].transferred
  <2>1. q.transferred \in Nat /\ t \in Nat /\ q.transferred <= t
    BY OtherNode, CopyIsOlder, EndTypes DEF AInv, LInv, IInv, EndsOK
  <2>2. e.contract_balance <= d /\ d \in Nat
    BY ConfirmedBlock DEF AInv, LInv, History, DepositView
  <2>3. lock.amount <= e.contract_balance - e.transferred + q.transferred - get_amount_locked(e)
    <3>1. UINT256_MAX \in Nat
      BY ChannelStateAssumption DEF ChannelStateAssumption
    <3>2. lock.amount <= get_distributable(e, q)
      BY <1>1
    <3>3. /\ e.contract_balance \in Nat /\ e.total_withdraw = 0 /\ e.transferred \in Nat
          /\ get_amount_locked(e) \in Nat
      BY <1>3
    <3> HIDE DEF e, q
    <3>4. get_distributable(e, q)
            <= e.contract_balance - e.transferred + q.transferred - get_amount_locked(e)
          /\ get_distributable(e, q) \in Int
      BY <2>1, <3>1, <3>3 DEF get_distributable, get_balance, AtMost, AtLeast
    <3> QED
      BY <1>4, <2>1, <3>2, <3>3, <3>4
  <2> HIDE DEF e, m, q, d, t
  <2>4. m.transferred + m.locked_amount <= d + t
    BY <1>3, <1>4, <1>6, <2>1, <2>2, <2>3
  <2> QED
    BY <2>4 DEF d, t
<1>11. /\ f.contract_balance = e.contract_balance /\ f.total_withdraw = e.total_withdraw
       /\ f.onchain \subseteq e.onchain /\ f.transferred = m.transferred
  BY <1>3 DEF AddLock, NettingChannelEndState
<1>12. f.transferred \in Nat /\ e.transferred <= f.transferred
  BY <1>3, <1>6, <1>11
<1> HIDE DEF m, f
<1> QED
  BY Zenon, <1>1, <1>6, <1>7, <1>8, <1>9, <1>10, <1>11, <1>12, SendExtends

(* What create_unlock and create_sendexpiredlock have in common: m removes *)
(* a pending lock.                                                         *)
LEMMA RemovalFollows ==
    ASSUME AInv, NEW n \in Node, NEW lock \in Locks(our[n]), NEW m,
           m.type \in {"Unlock", "LockExpired"}, m.secrethash = lock.secrethash,
           m.locksroot = compute_locks_without(our[n].pending_locks, lock),
           m.transferred = IF m.type = "Unlock" THEN our[n].transferred + lock.amount
                                                ELSE our[n].transferred,
           m.locked_amount = get_amount_locked(our[n]) - lock.amount
    PROVE  /\ Follows(m, our[n].pending_locks, our[n].transferred, get_amount_locked(our[n]))
           /\ m.transferred + m.locked_amount
                <= total_deposit[n][head - Confirmations] + our[Other(n)].transferred
           /\ \A j \in DOMAIN m.locksroot :
                m.locksroot[j].expiration = PaymentExpiration[m.locksroot[j].secrethash]
           /\ lock.expiration = PaymentExpiration[lock.secrethash]
           /\ m.transferred \in Nat /\ our[n].transferred <= m.transferred
<1> DEFINE e == our[n]
           s == e.pending_locks
<1>1. /\ EndOK(e) /\ e.nonce \in Nat /\ e.transferred \in Nat /\ get_amount_locked(e) \in Nat
      /\ s \in Seq(HashTimeLockState) /\ UniqueHashes(s)
      /\ Locks(e) = {s[j] : j \in DOMAIN s}
      /\ e.transferred + get_amount_locked(e) <= UINT256_MAX
  BY Zenon, EndTypes DEF AInv, LInv, IInv, EndsOK, IsSolvent, EndOK, LocksInSync
<1>2. PICK j \in DOMAIN s : lock = s[j]
  BY <1>1
<1>3. lock.amount \in Nat
  BY <1>1, AmountIsPositive
<1>4. IsSignedState(e, sent[n]) /\ e.nonce <= Len(sent[n])
  BY <1>1 DEF AInv, LInv, IInv, ViewsAgree
<1>5. /\ \A l \in Locks(e) : l.expiration = PaymentExpiration[l.secrethash]
      /\ e.transferred + get_amount_locked(e)
           <= total_deposit[n][head - Confirmations] + our[Other(n)].transferred
  BY <1>1, <1>4, SignedState DEF AInv, LInv, History
<1>6. \A i \in DOMAIN m.locksroot : m.locksroot[i] \in Locks(e)
  <2>1. IsPending(s, lock)
    BY <1>2 DEF IsPending
  <2> DEFINE r == compute_locks_without(s, lock)
  <2>2. {r[i] : i \in DOMAIN r} = {s[i] : i \in DOMAIN s} \ {lock}
    BY <1>1, <2>1, WithoutLock, Zenon
  <2>3. m.locksroot = r
    OBVIOUS
  <2> HIDE DEF r
  <2> QED
    BY <1>1, <2>2, <2>3
<1> DEFINE d == total_deposit[n][head - Confirmations]
           t == our[Other(n)].transferred
           a == get_amount_locked(e)
<1>7. UINT256_MAX \in Nat /\ d \in Nat /\ t \in Nat
  <2>1. UINT256_MAX \in Nat
    BY ChannelStateAssumption DEF ChannelStateAssumption
  <2> QED
    BY <2>1, ConfirmedBlock, OtherNode, EndTypes DEF AInv, LInv, IInv, EndsOK
<1>8. /\ m.transferred \in Nat /\ e.transferred <= m.transferred
      /\ m.transferred + m.locked_amount <= UINT256_MAX
      /\ m.transferred + m.locked_amount <= d + t
  <2>1. /\ a \in Nat /\ e.transferred \in Nat /\ lock.amount \in Nat
        /\ e.transferred + a <= UINT256_MAX /\ e.transferred + a <= d + t
        /\ m.locked_amount = a - lock.amount
        /\ (m.transferred = e.transferred + lock.amount \/ m.transferred = e.transferred)
    BY <1>1, <1>3, <1>5
  <2> HIDE DEF e, d, t, a
  <2> QED
    BY <1>7, <2>1
<1>9. Follows(m, s, e.transferred, a)
  BY Zenon, <1>2, <1>8 DEF Follows, is_balance_proof_safe_for_onchain_operations
<1> QED
  BY <1>5, <1>6, <1>8, <1>9

(* So does an Unlock ...                                                   *)
LEMMA SendUnlockHistory ==
    ASSUME AInv, NEW n \in Node, NEW lock, SendUnlock(n, lock)
    PROVE  History'
<1> DEFINE e == our[n]
           m == create_unlock(e, lock)
           f == ClaimLock(e, m, lock)
<1>1. /\ lock \in Locks(e)
      /\ our' = [our EXCEPT ![n] = f]
      /\ sent' = [sent EXCEPT ![n] = Append(@, m)]
      /\ UNCHANGED <<head, registered, total_deposit, block, partner>>
  BY DEF SendUnlock
<1>2. /\ m.type = "Unlock" /\ m.secrethash = lock.secrethash
      /\ m.transferred = e.transferred + lock.amount
      /\ m.locked_amount = get_amount_locked(e) - lock.amount
      /\ m.locksroot = compute_locks_without(e.pending_locks, lock)
  BY Zenon DEF create_unlock
<1>3. m \in EnvelopeMessage
  <2>1. IInv' /\ sent[n] \in Seq(EnvelopeMessage)
    BY SendUnlockInv, JTypes DEF AInv, LInv
  <2>2. sent'[n] = Append(sent[n], m) /\ sent'[n] \in Seq(EnvelopeMessage)
    BY <1>1, <2>1 DEF AInv, LInv, IInv, MessagesWellFormed
  <2> HIDE DEF m
  <2>3. sent'[n][Len(sent[n]) + 1] = m /\ Len(sent[n]) + 1 \in DOMAIN sent'[n]
    BY <2>1, <2>2
  <2> QED
    BY <2>2, <2>3
<1>4. e \in NettingChannelEndState
  BY DEF AInv, LInv, IInv, EndsOK
<1>5. /\ f.contract_balance = e.contract_balance /\ f.total_withdraw = e.total_withdraw
      /\ f.onchain \subseteq e.onchain /\ f.transferred = m.transferred
  BY <1>4 DEF ClaimLock, Without, NettingChannelEndState
<1> HIDE DEF m, f
<1>6. m.type # "LockExpired"
  BY <1>2
<1>7. /\ Follows(m, e.pending_locks, e.transferred, get_amount_locked(e))
      /\ m.transferred + m.locked_amount
           <= total_deposit[n][head - Confirmations] + our[Other(n)].transferred
      /\ \A j \in DOMAIN m.locksroot :
           m.locksroot[j].expiration = PaymentExpiration[m.locksroot[j].secrethash]
      /\ m.transferred \in Nat /\ e.transferred <= m.transferred
  <2>1. /\ m.type \in {"Unlock", "LockExpired"}
        /\ m.transferred = IF m.type = "Unlock" THEN e.transferred + lock.amount ELSE e.transferred
    BY Zenon, <1>2
  <2> QED
    BY <1>1, <1>2, <2>1, RemovalFollows
<1> QED
  BY Zenon, <1>1, <1>3, <1>5, <1>6, <1>7, SendExtends

(* ... and a LockExpired, which the sender delays until Confirmations      *)
(* blocks after the expiration of a confirmed block.                       *)
LEMMA SendLockExpiredHistory ==
    ASSUME AInv, NEW n \in Node, NEW lock, SendLockExpired(n, lock)
    PROVE  History'
<1> DEFINE e == our[n]
           m == create_sendexpiredlock(e, lock)
           f == RemoveExpiredLock(e, m, lock)
<1>1. /\ lock \in Locks(e) /\ block[n] >= lock.expiration + 2 * Confirmations
      /\ our' = [our EXCEPT ![n] = f]
      /\ sent' = [sent EXCEPT ![n] = Append(@, m)]
      /\ UNCHANGED <<head, registered, total_deposit, block, partner>>
  BY Zenon DEF SendLockExpired, Locks, is_lock_expired, get_sender_expiration_threshold
<1>2. /\ m.type = "LockExpired" /\ m.secrethash = lock.secrethash
      /\ m.transferred = e.transferred
      /\ m.locked_amount = get_amount_locked(e) - lock.amount
      /\ m.locksroot = compute_locks_without(e.pending_locks, lock)
  BY DEF create_sendexpiredlock
<1>3. m \in EnvelopeMessage
  <2>1. IInv' /\ sent[n] \in Seq(EnvelopeMessage)
    BY SendLockExpiredInv, JTypes DEF AInv, LInv
  <2>2. sent'[n] = Append(sent[n], m) /\ sent'[n] \in Seq(EnvelopeMessage)
    BY <1>1, <2>1 DEF AInv, LInv, IInv, MessagesWellFormed
  <2> HIDE DEF m
  <2>3. sent'[n][Len(sent[n]) + 1] = m /\ Len(sent[n]) + 1 \in DOMAIN sent'[n]
    BY <2>1, <2>2
  <2> QED
    BY <2>2, <2>3
<1>4. EndOK(e) /\ e \in NettingChannelEndState
  BY DEF AInv, LInv, IInv, EndsOK
<1>5. /\ f.contract_balance = e.contract_balance /\ f.total_withdraw = e.total_withdraw
      /\ f.onchain \subseteq e.onchain /\ f.transferred = m.transferred
  BY <1>4 DEF RemoveExpiredLock, NettingChannelEndState
<1> HIDE DEF m, f
<1>6. lock.expiration = PaymentExpiration[lock.secrethash]
  BY <1>1, <1>2, RemovalFollows
<1>7. PaymentExpiration[m.secrethash] + Confirmations <= head - Confirmations
  <2>1. lock.expiration \in Nat /\ Confirmations \in Nat /\ block[n] \in Nat
        /\ head \in Nat /\ block[n] <= head - Confirmations
    <3>1. lock \in HashTimeLockState
      BY <1>1, <1>4, EndTypes
    <3> QED
      BY <3>1, LockTypes, ConfirmedBlock DEF AInv, LInv
  <2>2. lock.expiration + Confirmations <= head - Confirmations
    BY <1>1, <2>1
  <2> QED
    BY <1>2, <1>6, <2>2
<1>8. /\ Follows(m, e.pending_locks, e.transferred, get_amount_locked(e))
      /\ m.transferred + m.locked_amount
           <= total_deposit[n][head - Confirmations] + our[Other(n)].transferred
      /\ \A j \in DOMAIN m.locksroot :
           m.locksroot[j].expiration = PaymentExpiration[m.locksroot[j].secrethash]
      /\ m.transferred \in Nat /\ e.transferred <= m.transferred
  BY <1>1, <1>2, RemovalFollows
<1> QED
  BY Zenon, <1>1, <1>3, <1>5, <1>7, <1>8, SendExtends

-----------------------------------------------------------------------------
(* Nothing of SignedChain depends on anything but the messages.            *)
LEMMA SameMessages ==
    ASSUME SignedChain, sent' = sent
    PROVE  SignedChain'
<1> SUFFICES ASSUME NEW k \in Node, NEW i \in DOMAIN sent'[k]
             PROVE  Follows(sent'[k][i], RootBefore(sent'[k], i), PaidBefore(sent'[k], i),
                            LockedBefore(sent'[k], i))
  BY Zenon DEF SignedChain, Follows, RootBefore, PaidBefore, LockedBefore
<1> QED
  BY Zenon DEF SignedChain

(* A step of n that signs nothing: its ends become f and g, its block b.   *)
LEMMA LocalHistory ==
    ASSUME AInv, NEW n \in Node, NEW f, NEW g, NEW b,
           f.transferred = our[n].transferred,
           f.total_withdraw = 0, g.total_withdraw = 0,
           f.contract_balance <= total_deposit[n][head - Confirmations],
           total_deposit[Other(n)][b] <= g.contract_balance,
           \A l \in f.onchain \cup g.onchain : registered[l.secrethash] \in 1 .. l.expiration,
           our' = [our EXCEPT ![n] = f],
           partner' = [partner EXCEPT ![n] = g],
           block' = [block EXCEPT ![n] = b],
           UNCHANGED <<head, registered, total_deposit, sent>>
    PROVE  History'
<1>1. /\ our'[n] = f /\ \A k \in Node : k # n => our'[k] = our[k]
      /\ partner'[n] = g /\ \A k \in Node : k # n => partner'[k] = partner[k]
      /\ block'[n] = b /\ \A k \in Node : k # n => block'[k] = block[k]
  BY DEF AInv, LInv, IInv, EndsOK, ChainOK
<1>2. SignedChain' /\ ExpirationHistory'
  BY Zenon, SameMessages DEF AInv, History, ExpirationHistory
<1>3. SpendHistory'
  <2>1. \A k \in Node : our'[k].transferred = our[k].transferred
    BY <1>1
  <2> QED
    BY <2>1, OtherNode DEF AInv, History, SpendHistory
<1>4. DepositView'
  BY <1>1 DEF AInv, History, DepositView
<1>5. OnchainHistory'
  BY <1>1 DEF AInv, History, OnchainHistory
<1> QED
  BY Zenon, <1>2, <1>3, <1>4, <1>5 DEF History

(* A received message moves the receiver's copy and no message.            *)
LEMMA ReceiveHistory ==
    ASSUME AInv, NEW n \in Node, ReceiveNext(n)
    PROVE  History'
<1> DEFINE q == partner[n]
<1>1. q \in NettingChannelEndState
  BY DEF AInv, LInv, IInv, EndsOK
<1>2. ASSUME NEW g, g.contract_balance = q.contract_balance, g.total_withdraw = q.total_withdraw,
             g.onchain \subseteq q.onchain, partner' = [partner EXCEPT ![n] = g],
             UNCHANGED <<head, registered, total_deposit, block, our, sent>>
      PROVE  History'
  <2>1. our' = [our EXCEPT ![n] = our[n]] /\ block' = [block EXCEPT ![n] = block[n]]
    BY <1>2 DEF AInv, LInv, IInv, EndsOK, ChainOK
  <2>2. /\ our[n].transferred = our[n].transferred
        /\ our[n].total_withdraw = 0 /\ g.total_withdraw = 0
        /\ our[n].contract_balance <= total_deposit[n][head - Confirmations]
        /\ total_deposit[Other(n)][block[n]] <= g.contract_balance
        /\ \A l \in our[n].onchain \cup g.onchain : registered[l.secrethash] \in 1 .. l.expiration
    BY <1>2 DEF AInv, History, DepositView, OnchainHistory
  <2> QED
    BY Zenon, <1>2, <2>1, <2>2, LocalHistory
<1>3. ASSUME NEW m, ReceiveLockedTransfer(n, m) PROVE History'
  <2> DEFINE g == AddLock(q, m)
  <2>1. /\ g.contract_balance = q.contract_balance /\ g.total_withdraw = q.total_withdraw
        /\ g.onchain \subseteq q.onchain
    BY <1>1 DEF AddLock, NettingChannelEndState
  <2> HIDE DEF g
  <2> QED
    BY Zenon, <1>2, <1>3, <2>1 DEF ReceiveLockedTransfer, g
<1>4. ASSUME NEW m, ReceiveUnlock(n, m) PROVE History'
  <2>1. PICK lock : /\ partner' = [partner EXCEPT ![n] = ClaimLock(q, m, lock)]
                    /\ UNCHANGED <<head, registered, total_deposit, block, our, sent>>
    BY Zenon, <1>4 DEF ReceiveUnlock
  <2> DEFINE g == ClaimLock(q, m, lock)
  <2>2. /\ g.contract_balance = q.contract_balance /\ g.total_withdraw = q.total_withdraw
        /\ g.onchain \subseteq q.onchain
    BY <1>1 DEF ClaimLock, Without, NettingChannelEndState
  <2> HIDE DEF g
  <2> QED
    BY Zenon, <1>2, <2>1, <2>2 DEF g
<1>5. ASSUME NEW m, ReceiveLockExpired(n, m) PROVE History'
  <2>1. PICK lock : /\ partner' = [partner EXCEPT ![n] = RemoveExpiredLock(q, m, lock)]
                    /\ UNCHANGED <<head, registered, total_deposit, block, our, sent>>
    BY Zenon, <1>5 DEF ReceiveLockExpired
  <2> DEFINE g == RemoveExpiredLock(q, m, lock)
  <2>2. /\ g.contract_balance = q.contract_balance /\ g.total_withdraw = q.total_withdraw
        /\ g.onchain \subseteq q.onchain
    BY <1>1 DEF RemoveExpiredLock, NettingChannelEndState
  <2> HIDE DEF g
  <2> QED
    BY Zenon, <1>2, <2>1, <2>2 DEF g
<1>6. ASSUME NEW m, RejectMessage(n, m) PROVE History'
  <2>1. /\ UNCHANGED <<head, registered, total_deposit, block, our, sent>>
        /\ partner' = [partner EXCEPT ![n] = q]
    BY <1>6 DEF RejectMessage, vars, AInv, LInv, IInv, EndsOK
  <2> QED
    BY Zenon, <1>2, <2>1
<1> QED
  BY <1>3, <1>4, <1>5, <1>6 DEF ReceiveNext

(* A secret learned off chain moves locks between the dictionaries only.   *)
LEMMA SecretHistory ==
    ASSUME AInv, NEW n \in Node, NEW h \in SecretHash, RegisterOffchainSecret(n, h)
    PROVE  History'
<1> DEFINE e == our[n]
           q == partner[n]
           f == register_secret_endstate(e, h)
           g == register_secret_endstate(q, h)
<1>1. e \in NettingChannelEndState /\ q \in NettingChannelEndState
  BY DEF AInv, LInv, IInv, EndsOK
<1>2. /\ f.transferred = e.transferred /\ f.onchain = e.onchain
      /\ f.total_withdraw = e.total_withdraw /\ f.contract_balance = e.contract_balance
      /\ g.onchain = q.onchain
      /\ g.total_withdraw = q.total_withdraw /\ g.contract_balance = q.contract_balance
  BY <1>1 DEF register_secret_endstate, NettingChannelEndState
<1>3. /\ our' = [our EXCEPT ![n] = f] /\ partner' = [partner EXCEPT ![n] = g]
      /\ block' = [block EXCEPT ![n] = block[n]]
      /\ UNCHANGED <<head, registered, total_deposit, sent>>
  BY DEF RegisterOffchainSecret, AInv, LInv, IInv, ChainOK
<1> HIDE DEF f, g
<1>4. /\ f.total_withdraw = 0 /\ g.total_withdraw = 0
      /\ f.contract_balance <= total_deposit[n][head - Confirmations]
      /\ total_deposit[Other(n)][block[n]] <= g.contract_balance
      /\ \A l \in f.onchain \cup g.onchain : registered[l.secrethash] \in 1 .. l.expiration
  BY Zenon, <1>2 DEF AInv, History, DepositView, OnchainHistory
<1> QED
  BY Zenon, <1>2, <1>3, <1>4, LocalHistory

(* What the contract events do to an end. *)
LEMMA EventsHistory ==
    ASSUME NEW e \in NettingChannelEndState, NEW d, NEW hashes
    PROVE  LET f == ContractEvents(e, d, hashes)
           IN  /\ f.transferred = e.transferred /\ f.total_withdraw = e.total_withdraw
               /\ f.contract_balance = AtLeast(e.contract_balance, d)
               /\ \A l \in f.onchain : \/ l \in e.onchain
                                       \/ /\ l.secrethash \in hashes
                                          /\ registered[l.secrethash] <= l.expiration
BY DEF ContractEvents, register_onchain_secret_endstate, update_contract_balance, NettingChannelEndState

(* Processing confirmed blocks brings deposits and registrations that the  *)
(* chain has, and so keeps DepositView and OnchainHistory.                 *)
LEMMA SynchronizeHistory ==
    ASSUME AInv, NEW n \in Node, NEW b \in block[n] + 1 .. head, Synchronize(n, b)
    PROVE  History'
<1> DEFINE e == our[n]
           q == partner[n]
           c == head - Confirmations
           f == ContractEvents(e, total_deposit[n][b], NewlyRegistered(n, b))
           g == ContractEvents(q, total_deposit[Other(n)][b], NewlyRegistered(n, b))
<1>1. /\ b <= c
      /\ our' = [our EXCEPT ![n] = f] /\ partner' = [partner EXCEPT ![n] = g]
      /\ block' = [block EXCEPT ![n] = b]
      /\ UNCHANGED <<head, registered, total_deposit, sent>>
  BY Zenon DEF Synchronize
<1>2. /\ e \in NettingChannelEndState /\ q \in NettingChannelEndState
      /\ e.contract_balance \in Nat /\ q.contract_balance \in Nat
  BY EndTypes DEF AInv, LInv, IInv, EndsOK
<1>3. /\ f.transferred = e.transferred /\ f.total_withdraw = e.total_withdraw
      /\ g.total_withdraw = q.total_withdraw
      /\ f.contract_balance = AtLeast(e.contract_balance, total_deposit[n][b])
      /\ g.contract_balance = AtLeast(q.contract_balance, total_deposit[Other(n)][b])
      /\ \A l \in f.onchain \cup g.onchain :
           \/ l \in e.onchain \cup q.onchain
           \/ /\ l.secrethash \in NewlyRegistered(n, b)
              /\ registered[l.secrethash] <= l.expiration
  <2>1. /\ f.transferred = e.transferred /\ f.total_withdraw = e.total_withdraw
        /\ f.contract_balance = AtLeast(e.contract_balance, total_deposit[n][b])
        /\ \A l \in f.onchain : \/ l \in e.onchain
                                \/ /\ l.secrethash \in NewlyRegistered(n, b)
                                   /\ registered[l.secrethash] <= l.expiration
    BY Zenon, <1>2, EventsHistory
  <2>2. /\ g.total_withdraw = q.total_withdraw
        /\ g.contract_balance = AtLeast(q.contract_balance, total_deposit[Other(n)][b])
        /\ \A l \in g.onchain : \/ l \in q.onchain
                                \/ /\ l.secrethash \in NewlyRegistered(n, b)
                                   /\ registered[l.secrethash] <= l.expiration
    BY <1>2, EventsHistory
  <2> HIDE DEF f, g
  <2> QED
    BY Zenon, <2>1, <2>2
<1>4. b \in 1 .. head /\ c \in 1 .. head /\ block[n] \in Nat
  BY ConfirmedBlock DEF AInv, LInv
<1>5. /\ total_deposit[n][b] \in Nat /\ total_deposit[Other(n)][b] \in Nat
      /\ total_deposit[n][c] \in Nat /\ total_deposit[n][b] <= total_deposit[n][c]
  BY Zenon, <1>1, <1>4, ConfirmedBlock, OtherNode DEF AInv, LInv, History, DepositView
<1> HIDE DEF f, g
<1>6. f.contract_balance <= total_deposit[n][c]
  BY Zenon, <1>2, <1>3, <1>5 DEF AtLeast, AInv, History, DepositView
<1>7. total_deposit[Other(n)][b] <= g.contract_balance
  <2>1. g.contract_balance = AtLeast(q.contract_balance, total_deposit[Other(n)][b])
    BY Zenon, <1>3
  <2>2. q.contract_balance \in Nat /\ total_deposit[Other(n)][b] \in Nat
    BY Zenon, <1>2, <1>5
  <2> QED
    BY ONLY <2>1, <2>2 DEF AtLeast
<1>8. \A l \in f.onchain \cup g.onchain : registered[l.secrethash] \in 1 .. l.expiration
  <2> SUFFICES ASSUME NEW l \in f.onchain \cup g.onchain
               PROVE  registered[l.secrethash] \in 1 .. l.expiration
    BY Zenon
  <2>1. CASE l \in e.onchain \cup q.onchain
    BY Zenon, <2>1 DEF AInv, History, OnchainHistory
  <2>2. CASE l.secrethash \in NewlyRegistered(n, b) /\ registered[l.secrethash] <= l.expiration
    <3>1. registered[l.secrethash] \in block[n] + 1 .. b
      BY <2>2 DEF NewlyRegistered
    <3>2. l.expiration \in Nat
      <4>1. l \in HashTimeLockState
        <5>1. f \in NettingChannelEndState /\ g \in NettingChannelEndState
          <6>1. EndOK(e) /\ EndOK(q)
            BY Zenon DEF AInv, LInv, IInv, EndsOK
          <6> QED
            BY Zenon, <1>5, <6>1, ContractEventsOK DEF EndOK, f, g
        <5> QED
          BY <5>1 DEF NettingChannelEndState
      <4> QED
        BY <4>1, LockTypes
    <3> QED
      BY <1>4, <2>2, <3>1, <3>2
  <2> QED
    BY Zenon, <1>3, <2>1, <2>2
<1>9. f.total_withdraw = 0 /\ g.total_withdraw = 0
  BY Zenon, <1>3 DEF AInv, History, DepositView
<1> QED
  BY Zenon, <1>1, <1>3, <1>6, <1>7, <1>8, <1>9, LocalHistory

(* The chain grows. *)
LEMMA ChainHistory ==
    ASSUME AInv, ChainNext
    PROVE  History'
<1>1. /\ UNCHANGED <<our, partner, sent, block>> /\ head' = head + 1
      /\ \A h \in SecretHash : registered'[h] = registered[h] \/ registered[h] = 0
  <2>1. registered \in [SecretHash -> Nat]
    BY JTypes DEF AInv, LInv
  <2> QED
    BY <2>1 DEF ChainNext, MineEmptyBlock, MineSecretReveal, MineDeposit
<1>2. /\ Confirmations \in Nat /\ head \in Nat /\ head - Confirmations \in 1 .. head
      /\ \A k \in Node : block[k] \in 1 .. head
      /\ \A k \in Node : \A b \in 1 .. head : total_deposit[k][b] \in Nat
  BY ConfirmedBlock DEF AInv, LInv
<1>3. \A k \in Node : /\ total_deposit[k] \in Seq(Nat) /\ Len(total_deposit[k]) = head
  BY ChainTypes DEF AInv, LInv
<1>4. \A k \in Node : \E d \in Nat :
        total_deposit'[k] = Append(total_deposit[k], total_deposit[k][head] + d)
  <2> SUFFICES ASSUME NEW k \in Node
               PROVE  \E d \in Nat : total_deposit'[k]
                                       = Append(total_deposit[k], total_deposit[k][head] + d)
    OBVIOUS
  <2>1. total_deposit[k][head] \in Nat /\ total_deposit[k][head] + 0 = total_deposit[k][head]
    BY ChainTypes DEF AInv, LInv
  <2>2. CASE MineEmptyBlock \/ \E h \in SecretHash : MineSecretReveal(h)
    <3>1. total_deposit'[k] = Append(total_deposit[k], total_deposit[k][head])
      BY <2>2 DEF MineEmptyBlock, MineSecretReveal
    <3> QED
      BY <2>1, <3>1
  <2>3. ASSUME NEW m \in Node, NEW amount \in DepositAmount, MineDeposit(m, amount)
        PROVE  \E d \in Nat : total_deposit'[k]
                                = Append(total_deposit[k], total_deposit[k][head] + d)
    <3> DEFINE d == IF k = m THEN amount ELSE 0
    <3>1. d \in Nat
      BY <2>3, NettingChannelAssumption
    <3>2. total_deposit'[k] = Append(total_deposit[k], total_deposit[k][head] + d)
      BY <2>3 DEF MineDeposit
    <3> QED
      BY <3>1, <3>2
  <2> QED
    BY <2>2, <2>3 DEF ChainNext
<1>5. \A k \in Node : \A b \in 1 .. head :
        total_deposit'[k][b] = total_deposit[k][b] /\ total_deposit[k][b] <= total_deposit'[k][head + 1]
  <2> SUFFICES ASSUME NEW k \in Node, NEW b \in 1 .. head
               PROVE  /\ total_deposit'[k][b] = total_deposit[k][b]
                      /\ total_deposit[k][b] <= total_deposit'[k][head + 1]
    OBVIOUS
  <2>1. PICK d \in Nat : total_deposit'[k] = Append(total_deposit[k], total_deposit[k][head] + d)
    BY <1>4
  <2>2. /\ total_deposit[k][head] \in Nat /\ total_deposit[k][b] \in Nat
        /\ total_deposit[k][b] <= total_deposit[k][head]
    BY <1>2 DEF AInv, History, DepositView
  <2>3. /\ total_deposit'[k][b] = total_deposit[k][b]
        /\ total_deposit'[k][head + 1] = total_deposit[k][head] + d
    <3> DEFINE x == total_deposit[k][head] + d
    <3>1. x \in Nat
      BY <2>2
    <3> HIDE DEF x
    <3>2. Append(total_deposit[k], x)[b] = total_deposit[k][b]
          /\ Append(total_deposit[k], x)[head + 1] = x
      BY <1>2, <1>3, <3>1
    <3> QED
      BY Zenon, <2>1, <3>2 DEF x
  <2> QED
    BY <2>2, <2>3
<1>6. \A k \in Node : total_deposit[k][head - Confirmations] \in Nat
        /\ total_deposit'[k][head' - Confirmations] \in Nat
        /\ total_deposit[k][head - Confirmations] <= total_deposit'[k][head' - Confirmations]
  <2> SUFFICES ASSUME NEW k \in Node
               PROVE  /\ total_deposit[k][head - Confirmations] \in Nat
                      /\ total_deposit'[k][head' - Confirmations] \in Nat
                      /\ total_deposit[k][head - Confirmations]
                           <= total_deposit'[k][head' - Confirmations]
    OBVIOUS
  <2>1. total_deposit[k][head - Confirmations] \in Nat
    BY <1>2
  <2>2. CASE Confirmations = 0
    <3>1. head' - Confirmations = head + 1
      BY <1>1, <1>2, <2>2
    <3>2. total_deposit'[k][head + 1] \in Nat
      <4>1. total_deposit'[k] \in Seq(Nat) /\ Len(total_deposit'[k]) = head + 1
        BY <1>1, NextInv DEF AInv, LInv, IInv, ChainOK, Next
      <4> QED
        BY <1>2, <4>1
    <3> QED
      BY <1>2, <1>5, <2>1, <3>1, <3>2
  <2>3. CASE Confirmations # 0
    <3>1. /\ head' - Confirmations \in 1 .. head
          /\ head - Confirmations <= head' - Confirmations
      BY <1>1, <1>2, <2>3
    <3>2. total_deposit'[k][head' - Confirmations] = total_deposit[k][head' - Confirmations]
      BY <1>5, <3>1
    <3>3. total_deposit[k][head - Confirmations] <= total_deposit[k][head' - Confirmations]
      BY <1>2, <3>1 DEF AInv, History, DepositView
    <3> QED
      BY <1>2, <2>1, <3>1, <3>2, <3>3
  <2> QED
    BY <2>2, <2>3
<1>7. SignedChain'
  BY <1>1, SameMessages DEF AInv, History
<1>8. SpendHistory'
  <2> SUFFICES ASSUME NEW k \in Node, NEW i \in DOMAIN sent[k]
               PROVE  sent[k][i].transferred + sent[k][i].locked_amount
                        <= total_deposit'[k][head' - Confirmations] + our[Other(k)].transferred
    BY <1>1 DEF SpendHistory
  <2> DEFINE a == sent[k][i].transferred
             l == sent[k][i].locked_amount
             c == total_deposit[k][head - Confirmations]
             d == total_deposit'[k][head' - Confirmations]
             t == our[Other(k)].transferred
  <2>1. a + l <= c + t
    BY DEF AInv, History, SpendHistory
  <2>2. c \in Nat /\ d \in Nat /\ c <= d /\ t \in Nat
    BY <1>6, OtherNode, EndTypes DEF AInv, LInv, IInv, EndsOK
  <2>3. a \in Nat /\ l \in Int
    <3>1. sent[k][i] \in EnvelopeMessage
      BY DEF AInv, LInv, IInv, MessagesWellFormed
    <3> QED
      BY <3>1, MessageTypes
  <2> HIDE DEF a, l, c, d, t
  <2>4. a + l <= d + t
    BY <2>1, <2>2, <2>3
  <2> QED
    BY <2>4 DEF a, l, d, t
<1>9. DepositView'
  <2> SUFFICES ASSUME NEW k \in Node
               PROVE  /\ \A b, c \in 1 .. head' : b <= c => total_deposit'[k][b] <= total_deposit'[k][c]
                      /\ our[k].contract_balance <= total_deposit'[k][head' - Confirmations]
                      /\ total_deposit'[Other(k)][block[k]] <= partner[k].contract_balance
                      /\ our[k].total_withdraw = 0 /\ partner[k].total_withdraw = 0
    BY <1>1 DEF DepositView
  <2>1. ASSUME NEW b \in 1 .. head', NEW c \in 1 .. head', b <= c
        PROVE  total_deposit'[k][b] <= total_deposit'[k][c]
    <3>1. CASE c \in 1 .. head
      <4>1. b \in 1 .. head
        BY <1>1, <1>2, <2>1, <3>1
      <4>2. total_deposit[k][b] <= total_deposit[k][c]
        BY <2>1, <3>1, <4>1 DEF AInv, History, DepositView
      <4> QED
        BY <1>5, <3>1, <4>1, <4>2
    <3>2. CASE c = head + 1 /\ b \in 1 .. head
      BY <1>5, <3>2
    <3>3. CASE c = head + 1 /\ b = head + 1
      <4>1. total_deposit'[k] \in Seq(Nat) /\ Len(total_deposit'[k]) = head + 1
        BY <1>1, NextInv DEF AInv, LInv, IInv, ChainOK, Next
      <4>2. total_deposit'[k][head + 1] \in Nat
        BY <1>2, <4>1
      <4> QED
        BY <3>3, <4>2
    <3> QED
      BY <1>1, <1>2, <2>1, <3>1, <3>2, <3>3
  <2>2. our[k].contract_balance <= total_deposit'[k][head' - Confirmations]
    <3>1. our[k].contract_balance <= total_deposit[k][head - Confirmations]
      BY DEF AInv, History, DepositView
    <3>2. our[k].contract_balance \in Nat
      BY EndTypes DEF AInv, LInv, IInv, EndsOK
    <3> QED
      BY <1>6, <3>1, <3>2
  <2>3. total_deposit'[Other(k)][block[k]] <= partner[k].contract_balance
    <3>1. total_deposit'[Other(k)][block[k]] = total_deposit[Other(k)][block[k]]
      BY <1>2, <1>5, OtherNode
    <3> QED
      BY <3>1 DEF AInv, History, DepositView
  <2> QED
    BY <2>1, <2>2, <2>3 DEF AInv, History, DepositView
<1>10. ExpirationHistory'
  <2> SUFFICES ASSUME NEW k \in Node, NEW i \in DOMAIN sent[k], sent[k][i].type = "LockExpired"
               PROVE  PaymentExpiration[sent[k][i].secrethash] + Confirmations
                        <= head' - Confirmations
    BY <1>1 DEF AInv, History, ExpirationHistory
  <2>1. PaymentExpiration[sent[k][i].secrethash] + Confirmations <= head - Confirmations
    BY DEF AInv, History, ExpirationHistory
  <2>2. PaymentExpiration[sent[k][i].secrethash] \in Nat
    <3>1. sent[k][i] \in EnvelopeMessage
      BY DEF AInv, LInv, IInv, MessagesWellFormed
    <3> QED
      BY <3>1, MessageTypes, ChannelStateAssumption DEF ChannelStateAssumption
  <2> QED
    BY <1>1, <1>2, <2>1, <2>2
<1>11. OnchainHistory'
  <2> SUFFICES ASSUME NEW k \in Node, NEW l \in our[k].onchain \cup partner[k].onchain
               PROVE  registered'[l.secrethash] \in 1 .. l.expiration
    BY <1>1 DEF OnchainHistory
  <2>1. registered[l.secrethash] \in 1 .. l.expiration
    BY DEF AInv, History, OnchainHistory
  <2>2. l.secrethash \in SecretHash
    <3>1. our[k] \in NettingChannelEndState /\ partner[k] \in NettingChannelEndState
      BY DEF AInv, LInv, IInv, EndsOK
    <3>2. l \in HashTimeLockState
      BY <3>1 DEF NettingChannelEndState
    <3> QED
      BY <3>2, LockTypes
  <2>3. registered[l.secrethash] # 0
    BY <2>1
  <2> QED
    BY <1>1, <2>1, <2>2, <2>3
<1> QED
  BY <1>7, <1>8, <1>9, <1>10, <1>11 DEF History

-----------------------------------------------------------------------------
(* There are no messages at first.                                         *)
LEMMA AcceptanceInit == Init => AInv
<1> SUFFICES ASSUME Init PROVE AInv
  OBVIOUS
<1>1. IInv /\ JInv /\ LInv
  BY InitInv, JInit, RefinementInit
<1>2. head = 1 + Confirmations /\ Confirmations \in Nat
  BY ChannelStateAssumption DEF Init, ChannelStateAssumption
<1>3. \A d : /\ EmptyEndState(d).contract_balance = d /\ EmptyEndState(d).total_withdraw = 0
             /\ EmptyEndState(d).onchain = {}
  BY DEF EmptyEndState
<1>4. \A n \in Node : /\ our[n] = EmptyEndState(InitialDeposit[n])
                      /\ partner[n] = EmptyEndState(InitialDeposit[Other(n)])
                      /\ sent[n] = << >> /\ block[n] = 1
                      /\ InitialDeposit[n] \in Nat
  BY NettingChannelAssumption DEF Init
<1>5. \A n \in Node : \A b \in 1 .. head : total_deposit[n][b] = InitialDeposit[n]
  BY <1>2 DEF Init
<1>6. head - Confirmations \in 1 .. head /\ 1 \in 1 .. head
  BY <1>2
<1>7. SignedChain /\ SpendHistory /\ ExpirationHistory
  BY <1>4 DEF SignedChain, SpendHistory, ExpirationHistory
<1>8. DepositView
  <2> SUFFICES ASSUME NEW n \in Node
               PROVE  /\ \A b, c \in 1 .. head : b <= c => total_deposit[n][b] <= total_deposit[n][c]
                      /\ our[n].contract_balance <= total_deposit[n][head - Confirmations]
                      /\ total_deposit[Other(n)][block[n]] <= partner[n].contract_balance
                      /\ our[n].total_withdraw = 0 /\ partner[n].total_withdraw = 0
    BY DEF DepositView
  <2>1. Other(n) \in Node /\ InitialDeposit[n] \in Nat /\ InitialDeposit[Other(n)] \in Nat
    BY <1>4, OtherNode
  <2>2. /\ our[n].contract_balance = InitialDeposit[n] /\ our[n].total_withdraw = 0
        /\ partner[n].contract_balance = InitialDeposit[Other(n)] /\ partner[n].total_withdraw = 0
    BY <1>3, <1>4
  <2>3. block[n] = 1
    BY <1>4
  <2>4. /\ \A b \in 1 .. head : total_deposit[n][b] = InitialDeposit[n]
        /\ total_deposit[Other(n)][1] = InitialDeposit[Other(n)]
    BY <1>5, <1>6, <2>1
  <2> QED
    BY <1>6, <2>1, <2>2, <2>3, <2>4
<1>9. OnchainHistory
  <2>1. \A n \in Node : our[n].onchain = {} /\ partner[n].onchain = {}
    BY <1>3, <1>4
  <2> QED
    BY <2>1 DEF OnchainHistory
<1> QED
  BY <1>1, <1>7, <1>8, <1>9 DEF AInv, History

(* Every action keeps the history; JInv and LInv are kept by the earlier   *)
(* theorems.                                                               *)
LEMMA AcceptanceStep == AInv /\ [Next]_vars => AInv'
<1> SUFFICES ASSUME AInv, [Next]_vars PROVE History'
  BY JNext, RefinementStep DEF AInv
<1>1. ASSUME ChainNext PROVE History'
  BY <1>1, ChainHistory
<1>2. ASSUME NEW n \in Node, NEW b \in block[n] + 1 .. head, Synchronize(n, b) PROVE History'
  BY <1>2, SynchronizeHistory
<1>3. ASSUME NEW n \in Node, NEW h \in SecretHash, RegisterOffchainSecret(n, h) PROVE History'
  BY <1>3, SecretHistory
<1>4. ASSUME NEW n \in Node, SendNext(n) PROVE History'
  BY <1>4, SendLockedTransferHistory, SendUnlockHistory, SendLockExpiredHistory DEF SendNext
<1>5. ASSUME NEW n \in Node, ReceiveNext(n) PROVE History'
  BY <1>5, ReceiveHistory
<1>6. ASSUME UNCHANGED vars PROVE History'
  <2>1. UNCHANGED <<head, registered, total_deposit, block, our, partner, sent>>
    BY <1>6 DEF vars
  <2>2. SignedChain'
    BY <2>1, SameMessages DEF AInv, History
  <2> QED
    BY Zenon, <2>1, <2>2
       DEF AInv, History, SpendHistory, DepositView, ExpirationHistory, OnchainHistory
<1> QED
  BY <1>1, <1>2, <1>3, <1>4, <1>5, <1>6 DEF Next

(* Sender and receiver never disagree about what a valid balance proof is: *)
(* whatever create_sendlockedtransfer, create_unlock or                    *)
(* create_sendexpiredlock signs passes the validation of a receiver that   *)
(* has caught up with the chain, although each decides from its own view   *)
(* of the deposits, of the block number and of the other's transfers.  The *)
(* nonces of a channel cannot get stuck.                                   *)
THEOREM NextMessageAlwaysAcceptable == Spec => []NextMessageAcceptable
BY AcceptanceInit, AcceptanceStep, HistoryAccepts, PTL DEF Spec
=============================================================================
