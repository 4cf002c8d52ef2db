------------------------- MODULE TokenNetworkProxy -------------------------
(***************************************************************************)
(* The operations of raiden/network/proxies/token_network.py on one        *)
(* channel, as functions of the channel's on-chain record.  Every          *)
(* operation has the same shape: preconditions are checked against the     *)
(* record at the block that triggered the call, the gas estimation runs    *)
(* the transaction on the pending block, and a transaction that fails is   *)
(* diagnosed by reading the record again (at the last block when the       *)
(* estimation failed, at the receipt's block when it was mined and         *)
(* reverted).  The diagnosis picks the exception; what the caller tells    *)
(* apart is whether it is a RaidenRecoverableError, which is logged, or    *)
(* one that stops the node (RaidenUnrecoverableError,                      *)
(* BrokenPreconditionError).  The ...Fatal operators below are true for    *)
(* the second kind.                                                        *)
(*                                                                         *)
(* A balance proof is known by its nonce; Transferred and Pending give     *)
(* the amounts a nonce stands for.  Every lock is worth one token.         *)
(***************************************************************************)
EXTENDS Integers, FiniteSets, Sequences

CONSTANTS Node,              \* the two participants
          None,              \* no participant
          SettleTimeout,     \* blocks between the close and the settle
          Transferred,       \* [nonce -> transferred amount]
          Pending,           \* [nonce -> pending locks]
          Tokens,            \* token balance of a node before any deposit
          ParticipantLimit,  \* channel_participant_deposit_limit
          NetworkLimit       \* token_network_deposit_limit

\* ChannelState of raiden.network.proxies.token_network's contract
NONEXISTENT == 0
OPENED == 1
CLOSED == 2
SETTLED == 3
REMOVED == 4

Partner(n) == CHOOSE m \in Node : m # n

\* locked_amount plus transferred_amount of a balance proof
Spent(k) == Transferred[k] + Cardinality(Pending[k])

\* hash_balance_data: equal hashes mean equal amounts and locks
BalanceHash(k) == <<Transferred[k], Pending[k]>>

EmptyChannel ==
  [state |-> NONEXISTENT, closed |-> 0, closer |-> None, deprecated |-> FALSE,
   deposit |-> [n \in Node |-> 0], withdrawn |-> [n \in Node |-> 0],
   nonce |-> [n \in Node |-> 0], locks |-> [n \in Node |-> 0]]

Total(f) == f[CHOOSE n \in Node : TRUE] + f[Partner(CHOOSE n \in Node : TRUE)]
SettleBlock(ch) == ch.closed + SettleTimeout

\* rest says what is in the other channels of the token network: held, by the
\* network, and by, of each participant's tokens
Alone == [held |-> 0, by |-> [n \in Node |-> 0]]
\* token.balance_of the token network, and of the node
NetworkDeposit(ch, rest) == Total(ch.deposit) - Total(ch.withdrawn) + rest.held
Wallet(n, ch, rest) == Tokens - ch.deposit[n] + ch.withdrawn[n] - rest.by[n]

(***************************************************************************)
(* The contract (external: modelled from how the proxy uses it).  Require  *)
(* is what the transaction of n needs in block b; Execute its effect.      *)
(***************************************************************************)
Require(n, op, arg, ch, b, rest) ==
  LET p == Partner(n) IN
  \/ /\ op = "openChannel"
     /\ ch.state = NONEXISTENT /\ ~ch.deprecated /\ NetworkDeposit(ch, rest) < NetworkLimit
  \/ /\ op = "setTotalDeposit"
     /\ ch.state = OPENED /\ ~ch.deprecated
     /\ arg[1] > ch.deposit[n] /\ arg[1] <= ParticipantLimit
     /\ NetworkDeposit(ch, rest) + arg[1] - ch.deposit[n] <= NetworkLimit
     /\ Wallet(n, ch, rest) >= arg[1] - ch.deposit[n]
  \/ /\ op = "setTotalWithdraw"
     /\ ch.state = OPENED /\ b < arg[2]
     /\ arg[1] > ch.withdrawn[n]
     /\ arg[1] + ch.withdrawn[p] <= Total(ch.deposit)
  \/ op = "cooperativeSettle" /\ ch.state = OPENED /\ b < arg[1]
  \/ op = "closeChannel" /\ ch.state = OPENED
  \/ /\ op = "updateNonClosingBalanceProof"
     /\ ch.state = CLOSED /\ b <= SettleBlock(ch) /\ ch.closer = p
     /\ arg[1] > ch.nonce[p]
  \/ /\ op = "settleChannel"  \* arg is <<participant1, nonce1, participant2, nonce2>>
     /\ ch.state = CLOSED /\ b > SettleBlock(ch)
     /\ BalanceHash(ch.nonce[arg[1]]) = BalanceHash(arg[2])
     /\ BalanceHash(ch.nonce[arg[3]]) = BalanceHash(arg[4])
     /\ Spent(arg[4]) >= Spent(arg[2])
  \/ /\ op = "unlock"         \* arg[1] is the sender of the locks
     /\ ch.state = SETTLED /\ ch.locks[arg[1]] # 0
     /\ Pending[ch.locks[arg[1]]] = Pending[arg[2]]

\* the storage left by a settlement: the locks that still have to be unlocked
Settled(ch, locks) ==
  [EmptyChannel EXCEPT !.state = IF \A n \in Node : locks[n] = 0 THEN REMOVED ELSE SETTLED,
                       !.locks = locks, !.deprecated = ch.deprecated]

Execute(n, op, arg, ch, b) ==
  CASE op = "openChannel" -> [ch EXCEPT !.state = OPENED]
    [] op = "setTotalDeposit" -> [ch EXCEPT !.deposit[n] = arg[1]]
    [] op = "setTotalWithdraw" -> [ch EXCEPT !.withdrawn[n] = arg[1]]
    [] op = "cooperativeSettle" -> Settled(ch, [m \in Node |-> 0])
    [] op = "closeChannel" -> [ch EXCEPT !.state = CLOSED, !.closed = b, !.closer = n,
                                         !.nonce[Partner(n)] = arg[1]]
    [] op = "updateNonClosingBalanceProof" -> [ch EXCEPT !.nonce[Partner(n)] = arg[1]]
    [] op = "settleChannel" ->
         Settled(ch, [m \in Node |-> IF Pending[ch.nonce[m]] = {} THEN 0 ELSE ch.nonce[m]])
    [] op = "unlock" -> Settled(ch, [ch.locks EXCEPT ![arg[1]] = 0])

(***************************************************************************)
(* Precondition checks at the triggering block: record g, number gb.       *)
(***************************************************************************)
\* new_netting_channel: every broken precondition goes to the caller
OpenPrecheckFails(g, rest) ==
  \/ g.state \in {OPENED, CLOSED}
  \/ NetworkDeposit(g, rest) >= NetworkLimit
  \/ g.deprecated

\* approve_and_set_total_deposit
DepositPrecheckFails(n, total, g, rest) ==
  \/ g.state # OPENED
  \/ g.deprecated
  \/ total <= g.deposit[n]
  \/ total > ParticipantLimit
  \/ NetworkDeposit(g, rest) + total - g.deposit[n] > NetworkLimit
  \/ Wallet(n, g, rest) < total - g.deposit[n]

\* set_total_withdraw: WithdrawMismatch is a RaidenRecoverableError
WithdrawMismatch(n, total, g) ==
  \/ g.withdrawn[n] >= total
  \/ total + g.withdrawn[Partner(n)] > Total(g.deposit)
WithdrawPrecheckFatal(n, total, expiration, g, gb) ==
  \/ g.state # OPENED
  \/ ~WithdrawMismatch(n, total, g) /\ expiration <= gb

ClosePrecheckFatal(g) == g.state # OPENED

UpdatePrecheckFatal(nonce, g, gb) ==
  nonce <= 0 \/ g.state # CLOSED \/ SettleBlock(g) < gb
\* "update transfer was already done": a RaidenRecoverableError
UpdateAlreadyDone(n, nonce, g) == g.nonce[Partner(n)] = nonce

UnlockPrecheckFatal(sender, nonce, g) ==
  \/ g.state # SETTLED
  \/ g.locks[sender] = 0
  \/ Pending[g.locks[sender]] # Pending[nonce]

\* settle: our proof is the one of nonce mine, the partner's of nonce theirs
SettlePrecheckFatal(n, mine, theirs, g, gb) ==
  \/ gb < SettleBlock(g)
  \/ g.state # CLOSED
  \/ BalanceHash(g.nonce[n]) # BalanceHash(mine)
  \/ BalanceHash(g.nonce[Partner(n)]) # BalanceHash(theirs)

\* _settle: the second participant is the one that spent more
SettleArguments(n, mine, theirs) ==
  IF Spent(mine) > Spent(theirs) THEN <<Partner(n), theirs, n, mine>>
                                 ELSE <<n, mine, Partner(n), theirs>>

(***************************************************************************)
(* Diagnosis of a failed estimation, from the record l of the last block,  *)
(* whose number is lb, and of a reverted transaction, from the record r of *)
(* the receipt's block rb.                                                 *)
(***************************************************************************)

\* these failures are recoverable whatever the diagnosis finds: the token may
\* be malicious, the network may have been deprecated, the partner may have
\* been faster
OpenFailureFatal == FALSE
CoopSettleFailureFatal == FALSE
DepositRevertFatal == FALSE
UnlockRevertFatal == FALSE

DepositEstimationFatal(n, total, l, rest) ==
  /\ ~l.deprecated
  /\ Wallet(n, l, rest) >= total - l.deposit[n]
  /\ l.state = NONEXISTENT

WithdrawEstimationFatal(n, total, expiration, l, lb) ==
  \/ l.state < OPENED
  \/ l.state = OPENED /\ expiration > lb /\ l.withdrawn[n] < total
WithdrawRevertFatal(n, total, expiration, r, rb) ==
  /\ r.withdrawn[n] < total
  /\ \/ r.state < OPENED
     \/ /\ r.state = OPENED /\ expiration > rb
        /\ total + r.withdrawn[Partner(n)] <= Total(r.deposit)

CloseEstimationFatal(l) == l.state < CLOSED
CloseRevertFatal(n, r) == r.closer # Partner(n)

UpdateEstimationFatal(l, lb) ==
  \/ l.state < CLOSED
  \/ l.state = CLOSED /\ SettleBlock(l) >= lb
UpdateRevertFatal(r, rb) ==
  r.state < SETTLED /\ SettleBlock(r) >= rb

UnlockEstimationFatal(sender, l) ==
  l.state < SETTLED \/ l.locks[sender] # 0

\* _settle, the same checks in both branches
SettleFailureFatal(n, mine, theirs, l, lb) ==
  /\ l.state \notin {SETTLED, REMOVED}
  /\ \/ l.state # CLOSED \/ lb <= SettleBlock(l)
     \/ BalanceHash(l.nonce[n]) # BalanceHash(mine)
     \/ BalanceHash(l.nonce[Partner(n)]) # BalanceHash(theirs)

=============================================================================
