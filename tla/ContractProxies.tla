-------------------------- MODULE ContractProxies --------------------------
(***************************************************************************)
(* Calls of a running node that send transactions, each in a greenlet of   *)
(* its own: SecretRegistry.register_secret_batch, UserDeposit's            *)
(* approve_and_deposit, plan_withdraw and withdraw, TokenNetworkRegistry's *)
(* add_token and CustomToken.mint_for, with the checks of RaidenAPI in     *)
(* front of them.  They share the account's nonces (EthClient), the        *)
(* token's lock, UserDeposit's withdraw lock, its in-flight deposits and   *)
(* the secret registry's open transactions.                                *)
(*                                                                         *)
(* A greenlet runs until it waits for the Ethereum node, a lock or another *)
(* greenlet's result; pc says what it waits for:                           *)
(*   lock       the token's or the withdraw lock                           *)
(*   estimate   the answer of the gas estimation                           *)
(*   diagnose   the last block, after the estimation failed                *)
(*   send       the answer to the transaction                              *)
(*   poll       poll_transaction                                           *)
(*   join       the results of the greenlets in waits                      *)
(* approve is TRUE while approve_and_deposit approves.                     *)
(***************************************************************************)
EXTENDS EthClient

CONSTANT Instances  \* a sequence of instances

\* What an instance is: the calls and their arguments, the secrets they register,
\* the contracts' storage, another account's transaction, and the faults.
Secrets == UNION {Instances[i].secrets : i \in DOMAIN Instances}
Storages == [deposit : Int, balance : Int, whole : Int, plan : [amount : Int, left : Int],
             wallet : Int, allowance : Int, secrets : SUBSET Secrets, registered : BOOLEAN,
             networks : Int]
IsInstance(x) ==
  /\ x = [calls |-> x.calls, secrets |-> x.secrets, storage |-> x.storage, other |-> x.other,
          poor |-> x.poor, reorgs |-> x.reorgs, crashes |-> x.crashes, lost |-> x.lost,
          log_unrecoverable |-> x.log_unrecoverable]
  /\ \A c \in Call :
       IF x.calls[c].kind = "secret" THEN x.calls[c].arg \subseteq x.secrets
       ELSE /\ x.calls[c].kind \in {"none", "deposit", "plan", "withdraw", "token", "mint"}
            /\ x.calls[c].arg \in Int
  /\ x.secrets \subseteq Secrets /\ x.storage \in Storages
  /\ x.other \in [op : {"none", "othersDeposit", "othersClaim", "othersCreate"}, arg : Int]

ASSUME InstancesAssumption ==
  /\ \A i \in DOMAIN Instances : IsInstance(Instances[i])
  /\ None \notin Call \union Storages

VARIABLES calls,     \* the greenlets
          inflight,  \* _inflight_deposits[our address]: the greenlet
          open,      \* open_secret_transactions: the greenlet of a secret
          up,        \* the node is running
          stopping,  \* an exception nobody handles is stopping it
          crashes

vars == <<clientVars, calls, inflight, open, up, stopping, crashes>>

Ok == [error |-> "no", reason |-> "ok"]
Nothing == [error |-> "none", reason |-> "none"]
Aborted == [error |-> "aborted", reason |-> "crash"]
Idle == [pc |-> "idle", approve |-> FALSE, amount |-> 0, secrets |-> {}, waits |-> {},
         tx |-> Nothing, result |-> Nothing]

Kind(c) == inst.calls[c].kind
Arg(c) == inst.calls[c].arg

Init ==
  /\ \E i \in DOMAIN Instances : ClientInit(Instances[i])
  /\ calls = [c \in Call |-> Idle]
  /\ inflight = None
  /\ open = [s \in inst.secrets |-> None]
  /\ up = TRUE /\ stopping = FALSE /\ crashes = 0

\* the contract function a greenlet is calling
Op(c) ==
  IF calls[c].approve THEN "approve"
  ELSE CASE Kind(c) = "deposit" -> "deposit"
         [] Kind(c) = "plan" -> "planWithdraw"
         [] Kind(c) = "withdraw" -> "withdraw"
         [] Kind(c) = "token" -> "createERC20TokenNetwork"
         [] Kind(c) = "mint" -> "mintFor"
         [] Kind(c) = "secret" -> "registerSecretBatch"

\* approve_and_deposit approves one more than it deposits
OpArg(c) ==
  IF calls[c].approve THEN calls[c].amount + 1
  ELSE IF Kind(c) = "secret" THEN calls[c].secrets ELSE Arg(c)

\* Mutant: the lock covers the approval only
HoldsTokenLock_Approval(c) ==
  Kind(c) = "deposit" /\ calls[c].approve /\ calls[c].pc \in {"estimate", "diagnose", "send", "poll"}

\* Mutant: an error leaves the lock acquired
HoldsTokenLock_Leaked(c) ==
  /\ Kind(c) = "deposit"
  /\ \/ calls[c].approve /\ calls[c].pc \in {"estimate", "diagnose", "send", "poll"}
     \/ ~calls[c].approve /\ calls[c].pc \in {"estimate", "send"}
     \/ calls[c].result.error = "recoverable"

\* token_lock is held from the approval until the deposit was sent
HoldsTokenLock(c) ==
  /\ Kind(c) = "deposit"
  /\ \/ calls[c].approve /\ calls[c].pc \in {"estimate", "diagnose", "send", "poll"}
     \/ ~calls[c].approve /\ calls[c].pc \in {"estimate", "send"}

\* _withdraw_lock is held until the result was checked
HoldsWithdrawLock(c) ==
  Kind(c) \in {"plan", "withdraw"} /\ calls[c].pc \in {"estimate", "diagnose", "send", "poll"}

ToPc(c, pc) == calls' = [calls EXCEPT ![c].pc = pc]

\* The exception stops the node.  A registration runs in _handle_events, which only
\* logs an unrecoverable error in production, unless it is configured to crash.
StopsNode(c, r) == r.error = "fatal" /\ ~(Kind(c) = "secret" /\ inst.log_unrecoverable)

\* a call ends: what its caller and the greenlets waiting for it get, and what
\* the finally clauses clean up
Ended(c, r) ==
  /\ calls' = [calls EXCEPT ![c] = [Idle EXCEPT !.pc = "done", !.result = r,
                 !.tx = IF calls[c].tx = Nothing THEN r ELSE calls[c].tx]]
  /\ inflight' = IF inflight = c THEN None ELSE inflight
  /\ open' = [s \in DOMAIN open |-> IF open[s] = c THEN None ELSE open[s]]
  /\ stopping' = (stopping \/ StopsNode(c, r))
  /\ UNCHANGED <<up, crashes>>

\* the storage the node's checks read: its chain_state may lag behind
GivenStorages == {chain[i].storage : i \in 1 .. Window - Confirmations}

-----------------------------------------------------------------------------
(* How the calls start. *)

\* register_secret_batch: a secret another greenlet is registering is waited
\* for, one that is registered in the confirmed block needs nothing
StartSecret(c) ==
  LET busy == {s \in Arg(c) : open[s] # None}
      mine == {s \in Arg(c) \ busy : s \notin ConfirmedStorage.secrets}
  IN
  /\ Kind(c) = "secret"
  /\ open' = [s \in DOMAIN open |-> IF s \in mine THEN c ELSE open[s]]
  /\ calls' = [calls EXCEPT ![c] = [Idle EXCEPT !.pc = IF mine = {} THEN "join" ELSE "estimate",
                                                !.secrets = mine, !.waits = {open[s] : s \in busy}]]
  /\ UNCHANGED <<clientVars, inflight, up, stopping, crashes>>

\* set_total_udc_deposit and approve_and_deposit up to the token's lock: a deposit
\* in flight that is at least as large is waited for
JoinsInflight(c) == inflight # None /\ Arg(inflight) >= Arg(c)

StartDeposit(c) ==
  /\ Kind(c) = "deposit"
  /\ UNCHANGED clientVars
  /\ \E g \in GivenStorages :
       \/ set_total_udc_deposit_refuses(Arg(c), g) /\ Ended(c, Refused("deposit"))
       \/ /\ ~set_total_udc_deposit_refuses(Arg(c), g)
          /\ deposit_preconditions_broken(Arg(c), g)
          /\ Ended(c, Fatal("precondition"))
       \/ /\ ~set_total_udc_deposit_refuses(Arg(c), g) /\ ~deposit_preconditions_broken(Arg(c), g)
          /\ calls' = [calls EXCEPT ![c] =
               IF JoinsInflight(c) THEN [Idle EXCEPT !.pc = "join", !.waits = {inflight}]
               ELSE [Idle EXCEPT !.pc = "lock", !.approve = TRUE, !.amount = Arg(c) - g.deposit]]
          /\ inflight' = IF JoinsInflight(c) THEN inflight ELSE c
          /\ UNCHANGED <<open, up, stopping, crashes>>

\* plan_udc_withdraw and withdraw_from_udc up to the withdraw lock
WithdrawRefused(c, g) ==
  IF Kind(c) = "plan" THEN plan_udc_withdraw_refuses(Arg(c), g) ELSE withdraw_from_udc_refuses(Arg(c), g)
WithdrawBroken(c, g) ==
  IF Kind(c) = "plan" THEN plan_withdraw_preconditions_broken(Arg(c), g)
                      ELSE withdraw_preconditions_broken(Arg(c), g)

StartWithdraw(c) ==
  /\ Kind(c) \in {"plan", "withdraw"}
  /\ UNCHANGED clientVars
  /\ \E g \in GivenStorages :
       \/ WithdrawRefused(c, g) /\ Ended(c, Refused("withdraw"))
       \/ ~WithdrawRefused(c, g) /\ WithdrawBroken(c, g) /\ Ended(c, Fatal("precondition"))
       \/ /\ ~WithdrawRefused(c, g) /\ ~WithdrawBroken(c, g)
          /\ ToPc(c, "lock")
          /\ UNCHANGED <<inflight, open, up, stopping, crashes>>

\* token_network_register and add_token; mint_token_for checks nothing
StartToken(c) ==
  /\ Kind(c) \in {"token", "mint"}
  /\ UNCHANGED clientVars
  /\ \E g \in GivenStorages :
       \/ Kind(c) = "token" /\ add_token_refuses(g) /\ Ended(c, Refused("token"))
       \/ /\ Kind(c) = "token" => ~add_token_refuses(g)
          /\ ToPc(c, "estimate")
          /\ UNCHANGED <<inflight, open, up, stopping, crashes>>

Start(c) ==
  /\ up /\ calls[c].pc = "idle"
  /\ StartSecret(c) \/ StartDeposit(c) \/ StartWithdraw(c) \/ StartToken(c)

-----------------------------------------------------------------------------
(* The steps every call has in common. *)

Step(c, pc) == up /\ calls[c].pc = pc

AcquireLock(c) ==
  /\ Step(c, "lock")
  /\ IF Kind(c) = "deposit" THEN \A k \in Call : ~HoldsTokenLock(k)
                            ELSE \A k \in Call : ~HoldsWithdrawLock(k)
  /\ ToPc(c, "estimate")
  /\ UNCHANGED <<clientVars, inflight, open, up, stopping, crashes>>

Estimate(c) ==
  /\ Step(c, "estimate")
  /\ ToPc(c, IF EstimateSucceeds(Op(c), OpArg(c)) THEN "send" ELSE "diagnose")
  /\ UNCHANGED <<clientVars, inflight, open, up, stopping, crashes>>

\* mint_for does not look at the account's ether, and register_secret_batch asks
\* check_for_insufficient_eth not to
Diagnose(c) ==
  /\ Step(c, "diagnose")
  /\ Ended(c, IF check_for_insufficient_eth /\ Kind(c) \notin {"mint", "secret"}
              THEN InsufficientEth ELSE EstimationError(Op(c), OpArg(c), Storage))
  /\ UNCHANGED clientVars

Send(c) ==
  /\ Step(c, "send")
  /\ TransactAccepted(c, Op(c), OpArg(c), crashes)
  /\ ToPc(c, "poll")
  /\ UNCHANGED <<inflight, open, up, stopping, crashes>>

\* register_secret_batch turns every exception into an unrecoverable error
SendRejected(c) ==
  /\ Step(c, "send")
  /\ TransactRejected
  /\ \E e \in TransactErrors : Ended(c, IF Kind(c) = "secret" THEN Fatal("send") ELSE e)

SendUnanswered(c) ==
  /\ Step(c, "send")
  /\ TransactUnanswered(c, Op(c), OpArg(c), crashes)
  /\ Ended(c, Fatal("send"))

Poll(c) ==
  /\ Step(c, "poll")
  /\ PollReceipt(c) \/ PollAgain(c)
  /\ UNCHANGED <<calls, inflight, open, up, stopping, crashes>>

PollDone(c) ==
  /\ Step(c, "poll") /\ polls[c].seen /\ PollConfirmed(c)
  /\ polls' = [polls EXCEPT ![c] = [NoPoll EXCEPT !.nonce = polls[c].nonce]]
  /\ UNCHANGED <<inst, chain, pool, theirs, txs, nonce, poor, reorgs>>

\* was_transaction_successfully_mined is false
Reverted(c) ==
  /\ PollDone(c) /\ polls[c].storage # None
  /\ Ended(c, RevertError(Op(c), OpArg(c), polls[c].storage))

\* the approval is confirmed: the deposit itself comes next
Approved(c) ==
  /\ PollDone(c) /\ polls[c].storage = None /\ calls[c].approve
  /\ calls' = [calls EXCEPT ![c].pc = "estimate", ![c].approve = FALSE]
  /\ UNCHANGED <<inflight, open, up, stopping, crashes>>

\* register_secret_batch sets its result before it waits for the others
Registered(c) ==
  /\ PollDone(c) /\ polls[c].storage = None /\ Kind(c) = "secret"
  /\ calls' = [calls EXCEPT ![c].pc = "join", ![c].tx = Ok]
  /\ open' = [s \in DOMAIN open |-> IF open[s] = c THEN None ELSE open[s]]
  /\ UNCHANGED <<inflight, up, stopping, crashes>>

Succeeded(c) ==
  /\ PollDone(c) /\ polls[c].storage = None /\ ~calls[c].approve /\ Kind(c) # "secret"
  /\ Ended(c, Ok)

\* joinall: the first exception is raised, a result is returned when all are there
Join(c) ==
  /\ Step(c, "join")
  /\ \/ \E k \in calls[c].waits : calls[k].tx \notin {Nothing, Ok} /\ Ended(c, calls[k].tx)
     \/ (\A k \in calls[c].waits : calls[k].tx = Ok) /\ Ended(c, Ok)
  /\ UNCHANGED clientVars

CallStep(c) ==
  \/ AcquireLock(c) \/ Estimate(c) \/ Diagnose(c) \/ Send(c) \/ SendRejected(c) \/ SendUnanswered(c)
  \/ Poll(c) \/ Reverted(c) \/ Approved(c) \/ Registered(c) \/ Succeeded(c) \/ Join(c)

-----------------------------------------------------------------------------
(* Crashes and restarts. *)

\* the callers of an API call get no answer; a secret's registration is queued in
\* the node's state and starts again
Crash ==
  /\ up /\ (stopping \/ crashes < inst.crashes)
  /\ up' = FALSE /\ stopping' = FALSE
  /\ crashes' = crashes + 1
  /\ calls' = [c \in Call |-> IF Kind(c) = "secret" /\ calls[c].result # Ok THEN Idle
                              ELSE IF calls[c].pc \in {"idle", "done"} THEN calls[c]
                              ELSE [Idle EXCEPT !.pc = "done", !.tx = Aborted, !.result = Aborted]]
  /\ inflight' = None
  /\ open' = [s \in DOMAIN open |-> None]
  /\ polls' = [c \in Call |-> IF calls[c].result = Ok THEN polls[c] ELSE NoPoll]
  /\ UNCHANGED <<inst, chain, pool, theirs, txs, nonce, poor, reorgs>>

\* Mutant: only the mined transactions are counted
Restart_Mined ==
  /\ ~up /\ up' = TRUE
  /\ nonce' = 1 + Cardinality({n \in Nonce : Mined(n)})
  /\ UNCHANGED <<inst, chain, pool, theirs, txs, poor, polls, reorgs>>
  /\ UNCHANGED <<calls, inflight, open, stopping, crashes>>

\* JSONRPCClient.__init__
Restart ==
  /\ ~up /\ up' = TRUE
  /\ nonce' = DiscoverNonce
  /\ UNCHANGED <<inst, chain, pool, theirs, txs, poor, polls, reorgs>>
  /\ UNCHANGED <<calls, inflight, open, stopping, crashes>>

MineStep == /\ \E seq \in Batches(pool, theirs) : Mine(seq)
            /\ UNCHANGED <<calls, inflight, open, up, stopping, crashes>>
ReorgStep == /\ \E d \in 1 .. MaxReorg : Reorg(d)
             /\ UNCHANGED <<calls, inflight, open, up, stopping, crashes>>
AccountStep == /\ OthersSend \/ TopUp
               /\ UNCHANGED <<calls, inflight, open, up, stopping, crashes>>

Next ==
  \/ \E c \in Call : Start(c) \/ CallStep(c)
  \/ Crash \/ Restart \/ MineStep \/ ReorgStep \/ AccountStep

Spec == Init /\ [][Next]_vars

\* greenlets run when what they wait for is there, a process supervisor restarts
\* the node, and the miners take what they are sent
MineAll ==
  /\ Mine(IF theirs = "pool" THEN <<0>> \o InOrder(Executable(pool)) ELSE InOrder(Executable(pool)))
  /\ UNCHANGED <<calls, inflight, open, up, stopping, crashes>>

LiveSpec ==
  /\ Spec
  /\ \A c \in Call : WF_vars(Start(c)) /\ WF_vars(CallStep(c))
  /\ WF_vars(stopping /\ Crash) /\ WF_vars(Restart) /\ SF_vars(MineAll)

-----------------------------------------------------------------------------
(* Properties. *)

Results == {Nothing, Ok, Aborted, InsufficientEth}
             \union [error : {"refused", "recoverable", "fatal"}, reason : STRING]

\* The type invariant.  A greenlet never waits for itself, it is done when it has a
\* result, and what waits in the pool was sent and is not mined (register_secret_batch,
\* transact).
TypeOK ==
  /\ nonce \in 1 .. MaxTx + 1
  /\ pool \subseteq Nonce /\ theirs \in {"unsent", "pool", "mined"}
  /\ Len(chain) = Window
  /\ \A c \in Call :
       /\ calls[c].pc \in {"idle", "lock", "estimate", "diagnose", "send", "poll", "join", "done"}
       /\ calls[c].result \in Results /\ calls[c].tx \in Results
       /\ calls[c].waits \subseteq Call \ {c}
       /\ calls[c].pc = "done" <=> calls[c].result # Nothing
       /\ polls[c].depth \in 0 .. Confirmations /\ polls[c].since \in 0 .. PollDelay
  /\ inflight \in {None} \union Call /\ Range(open) \subseteq {None} \union Call
  /\ \A n \in pool : txs[n] # NoTx /\ ~Mined(n)

\* a registration whose answer was lost, when the error was only logged
LostRegistration(n) ==
  n \in Nonce /\ txs[n].call = None /\ txs[n].op = "registerSecretBatch" /\ inst.log_unrecoverable

\* transact's nonces have no gap and are never given twice while the node runs, not
\* after a rejected transaction and not after a restart with a full pool: every
\* transaction in the pool can be mined, and the one a greenlet polls is its own.
\* The one nonce that may be given again is that of a registration whose answer was
\* lost and whose error was only logged (_handle_events): it is the last one, and no
\* greenlet polls the registration that may be replaced.
NoncesContiguous ==
  /\ \A n \in Nonce : txs[n] # NoTx => \A m \in 1 .. n : txs[m] # NoTx
  /\ up /\ ~stopping =>
       nonce = DiscoverNonce \/ (nonce + 1 = DiscoverNonce /\ LostRegistration(nonce))
  /\ \A c \in Call : calls[c].pc = "poll" => txs[polls[c].nonce].call = c

\* poll_transaction "handling reorgs": a transaction that a proxy reported as mined
\* successfully is in a block no reorganisation can replace.
ResultIsFinal ==
  \A c \in Call : calls[c].tx = Ok /\ polls[c].nonce # 0 =>
    LET n == polls[c].nonce IN
    /\ txs[n].call = c /\ Mined(n) /\ Depth(n) >= MaxReorg
    /\ IF txs[n].old THEN txs[n].storage = None ELSE n \notin chain[BlockIndex(n)].failed

\* open_secret_transactions "is used to avoid sending a transaction for the same
\* secret more than once": in one run of the node no secret is in two of its
\* transactions, however the greenlets that register it overlap.
SecretSentOnce ==
  \A n, m \in Nonce :
    /\ n < m /\ txs[n].op = "registerSecretBatch" /\ txs[m].op = "registerSecretBatch"
    /\ txs[n].run = txs[m].run /\ txs[n].call # None /\ txs[m].call # None
    => txs[n].arg \cap txs[m].arg = {}

FinalStorage == chain[Window - MaxReorg].storage

\* A call that returns without an error has had its effect, in a block no
\* reorganisation can replace, also when it only waited for another greenlet:
\* register_secret_batch returns when all its secrets are registered,
\* approve_and_deposit when the total deposit is at least the one asked for.
EffectIsThere ==
  \A c \in Call : calls[c].result = Ok =>
    /\ Kind(c) = "secret" => Arg(c) \subseteq FinalStorage.secrets
    /\ Kind(c) = "deposit" => FinalStorage.deposit >= Arg(c)
    /\ Kind(c) = "token" => FinalStorage.registered

\* What a proxy reports as done stays done: its transaction and its effect survive
\* every reorganisation (poll_transaction).
SuccessIsFinal == ResultIsFinal /\ EffectIsThere

\* "Make sure another `approve` transactions is not sent before the deposit,
\* otherwise the value would be overwritten": when the deposit is estimated and sent
\* the allowance still covers what is missing to the total deposit.
AllowanceCovers ==
  \A c \in Call :
    Kind(c) = "deposit" /\ ~calls[c].approve /\ calls[c].pc \in {"estimate", "send"} =>
      PendingStorage.deposit + PendingStorage.allowance >= Arg(c)

\* plan_withdraw "Returns the block number at which the withdraw is ready": when it
\* returns, the contract's plan is the caller's, and its block is the one returned.
PlanStands ==
  \A c \in Call :
    Kind(c) = "plan" /\ calls[c].pc = "poll" /\ calls'[c].result = Ok =>
      /\ Storage.plan.amount = Arg(c)
      /\ Storage.plan.left = Max({0, WithdrawDelay - Depth(polls[c].nonce)})

\* Calls that run at the same time do not get in each other's way: no secret is sent
\* twice (open_secret_transactions), no allowance is overwritten (the token's lock),
\* no plan is replaced before its caller knows of it (withdraw_lock).
CallsDoNotInterfere == [][SecretSentOnce' /\ AllowanceCovers' /\ PlanStands]_vars

\* A transaction that was mined and failed is diagnosed from the storage of its
\* block: the error names the cause, it is never "failed for an unknown reason",
\* and for add_token, where that stops the node, a lost race is always found.
RevertExplained ==
  [][\A c \in Call :
       calls[c].pc = "poll" /\ calls'[c].pc = "done" /\ calls'[c].result \notin {Ok, Aborted} =>
         calls'[c].result.reason \notin {"unknown", "not_increased", "already_increased"}]_vars

\* Every call ends, whatever the others do: no greenlet waits for ever for a lock,
\* for another's result ("otherwise we have a dead-lock") or for its transaction.
EveryCallReturns == \A c \in Call : <>[](inst.calls[c].kind = "none" \/ calls[c].pc = "done")

=============================================================================
