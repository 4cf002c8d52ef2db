------------------------- MODULE ServiceContracts -------------------------
(***************************************************************************)
(* The contracts a node calls besides its token networks: the token, the   *)
(* UserDeposit contract, the secret registry and the token network         *)
(* registry, and what their proxies (raiden/network/proxies/*.py) decide   *)
(* from the contracts' storage.  The contracts themselves are external:    *)
(* they are modelled from the checks and the diagnoses of the proxies.     *)
(*                                                                         *)
(* One record holds the storage that concerns this node:                   *)
(*   deposit, balance    total_deposit and balances of UserDeposit         *)
(*   whole               whole_balance of UserDeposit                      *)
(*   plan                withdraw_plans: the amount, and in how many       *)
(*                       blocks it is ready                                *)
(*   wallet, allowance   the token's balanceOf and allowance               *)
(*   secrets             the secrets registered                            *)
(*   registered          token_to_token_networks is set for our token      *)
(*   networks            token_network_created                             *)
(***************************************************************************)
EXTENDS Integers, FiniteSets, Sequences, FiniteSetsExt

CONSTANTS WholeLimit,      \* whole_balance_limit of UserDeposit
          WithdrawDelay,   \* withdraw_delay of UserDeposit
          MaxNetworks      \* max_token_networks of the registry

ASSUME ContractsAssumption ==
  WholeLimit \in Nat /\ WithdrawDelay \in Nat /\ MaxNetworks \in Nat

NoPlan == [amount |-> 0, left |-> 0]

\* the account owns tokens, deposited of which are in UserDeposit
InitialStorage(tokens, deposited) ==
  [deposit |-> deposited, balance |-> deposited, whole |-> deposited, plan |-> NoPlan,
   wallet |-> tokens - deposited, allowance |-> 0, secrets |-> {}, registered |-> FALSE, networks |-> 0]

\* a new block brings a planned withdraw one block closer
NextBlockStorage(s) == [s EXCEPT !.plan.left = Max({@ - 1, 0})]

(***************************************************************************)
(* The contracts' functions: op is the function, arg its argument.  The    *)
(* functions named others... are called by other accounts.                 *)
(***************************************************************************)
Require(op, arg, s) ==
  \/ op \in {"approve", "registerSecretBatch", "mintFor"}
  \/ /\ op = "deposit"
     /\ arg > s.deposit
     /\ s.allowance >= arg - s.deposit
     /\ s.wallet >= arg - s.deposit
     /\ s.whole + arg - s.deposit <= WholeLimit
  \/ op = "planWithdraw" /\ arg > 0 /\ s.balance >= arg
  \/ op = "withdraw" /\ arg <= s.plan.amount /\ s.plan.left = 0
  \/ op \in {"createERC20TokenNetwork", "othersCreate"} /\ ~s.registered /\ s.networks < MaxNetworks
  \/ op = "othersDeposit" /\ s.whole + arg <= WholeLimit
  \/ op = "othersClaim" /\ s.balance >= arg

Withdrawn(s, amount) == Min({amount, s.balance})

Execute(op, arg, s) ==
  CASE op = "approve" -> [s EXCEPT !.allowance = arg]
    [] op = "mintFor" -> [s EXCEPT !.wallet = @ + arg]
    [] op = "registerSecretBatch" -> [s EXCEPT !.secrets = @ \union arg]
    [] op = "deposit" ->
         LET more == arg - s.deposit IN
         [s EXCEPT !.deposit = arg, !.balance = @ + more, !.whole = @ + more,
                   !.wallet = @ - more, !.allowance = @ - more]
    [] op = "planWithdraw" -> [s EXCEPT !.plan = [amount |-> arg, left |-> WithdrawDelay]]
    [] op = "withdraw" ->
         LET less == Withdrawn(s, arg) IN
         [s EXCEPT !.balance = @ - less, !.whole = @ - less, !.wallet = @ + less, !.plan = NoPlan]
    [] op \in {"createERC20TokenNetwork", "othersCreate"} ->
         [s EXCEPT !.registered = TRUE, !.networks = @ + 1]
    [] op = "othersDeposit" -> [s EXCEPT !.whole = @ + arg]
    [] op = "othersClaim" -> [s EXCEPT !.balance = @ - arg, !.whole = @ - arg]

(***************************************************************************)
(* What RaidenAPI and the proxies check before they send anything, at the  *)
(* confirmed block the node has processed last, whose storage is g.        *)
(***************************************************************************)

\* RaidenAPI.set_total_udc_deposit: DepositMismatch, DepositOverLimit, InsufficientFunds
set_total_udc_deposit_refuses(total, g) ==
  \/ total <= g.deposit
  \/ g.whole + total - g.deposit > WholeLimit
  \/ g.wallet < total - g.deposit

\* RaidenAPI.plan_udc_withdraw: WithdrawMismatch
plan_udc_withdraw_refuses(amount, g) == amount <= 0 \/ amount > g.balance

\* RaidenAPI.withdraw_from_udc: WithdrawMismatch
withdraw_from_udc_refuses(amount, g) ==
  amount <= 0 \/ amount > g.plan.amount \/ g.plan.left > 0 \/ g.whole - amount < 0

\* UserDeposit._deposit_preconditions: BrokenPreconditionError
deposit_preconditions_broken(total, g) ==
  LET amount_to_deposit == total - g.deposit IN
  \/ g.whole + amount_to_deposit > WholeLimit
  \/ total < g.deposit \/ total = g.deposit
  \/ g.wallet < amount_to_deposit

\* UserDeposit._plan_withdraw_preconditions
plan_withdraw_preconditions_broken(amount, g) == amount <= 0 \/ g.balance < amount

\* UserDeposit._withdraw_preconditions
withdraw_preconditions_broken(amount, g) ==
  amount > g.plan.amount \/ g.plan.left > 0 \/ g.whole - amount < 0

\* TokenNetworkRegistry.add_token: MaxTokenNetworkNumberReached or
\* BrokenPreconditionError, both reported to the caller
add_token_refuses(g) == g.networks >= MaxNetworks \/ g.registered

(***************************************************************************)
(* What a proxy raises when the gas estimation failed, from the storage s  *)
(* of the last block, or when the transaction was mined and failed, from   *)
(* the storage s of the receipt's block: a RaidenRecoverableError, an      *)
(* error for the caller ("refused") or an exception that stops the node    *)
(* ("fatal"), and the reason given.                                        *)
(***************************************************************************)
Recoverable(reason) == [error |-> "recoverable", reason |-> reason]
Fatal(reason) == [error |-> "fatal", reason |-> reason]
Refused(reason) == [error |-> "refused", reason |-> reason]
InsufficientEth == [error |-> "insufficient_eth", reason |-> "funds"]

\* UserDeposit._deposit_check_result without a transaction
deposit_estimation_error(total, s) ==
  LET amount_to_deposit == total - s.deposit IN
  CASE s.allowance < amount_to_deposit -> Recoverable("allowance")
    [] /\ s.allowance >= amount_to_deposit
       /\ s.wallet < amount_to_deposit -> Recoverable("balance")
    [] /\ s.allowance >= amount_to_deposit /\ s.wallet >= amount_to_deposit
       /\ s.deposit < total -> Recoverable("not_increased")
    [] /\ s.deposit >= total
       /\ s.whole + amount_to_deposit > WholeLimit -> Recoverable("limit")
    [] OTHER -> Recoverable("unknown")

\* Mutant: the limit is not looked at
deposit_revert_error_NoLimit(total, s) ==
  LET amount_to_deposit == total - s.deposit IN
  CASE s.deposit >= total -> Recoverable("already_increased")
    [] s.deposit < total /\ s.allowance < amount_to_deposit -> Recoverable("allowance")
    [] /\ s.deposit < total /\ s.allowance >= amount_to_deposit
       /\ s.wallet < amount_to_deposit -> Recoverable("balance")
    [] OTHER -> Recoverable("not_increased")

\* UserDeposit._deposit_check_result with a receipt
deposit_revert_error(total, s) ==
  LET amount_to_deposit == total - s.deposit IN
  CASE s.deposit >= total -> Recoverable("already_increased")
    [] s.deposit < total /\ s.allowance < amount_to_deposit -> Recoverable("allowance")
    [] /\ s.deposit < total /\ s.allowance >= amount_to_deposit
       /\ s.wallet < amount_to_deposit -> Recoverable("balance")
    [] /\ s.deposit < total /\ s.allowance >= amount_to_deposit /\ s.wallet >= amount_to_deposit
       /\ s.whole + amount_to_deposit > WholeLimit -> Recoverable("limit")
    [] OTHER -> Recoverable("not_increased")

\* UserDeposit._plan_withdraw_check_result
plan_withdraw_revert_error(amount, s) ==
  IF s.balance < amount THEN Recoverable("balance") ELSE Recoverable("unknown")

\* UserDeposit._withdraw_check_result; the wallet decides between the last two
\* messages, neither of which names a cause
withdraw_revert_error(amount, s) ==
  CASE amount > s.plan.amount -> Recoverable("plan")
    [] amount <= s.plan.amount /\ s.plan.left > 0 -> Recoverable("too_early")
    [] amount <= s.plan.amount /\ s.plan.left = 0 /\ s.whole < amount -> Recoverable("underflow")
    [] OTHER -> Recoverable("unknown")

\* TokenNetworkRegistry._add_token, the same questions in both branches.  The
\* controller, the chain id, the registry's address, the timeouts and the token
\* are valid, as add_token has checked: what is left is the unknown reason.
add_token_estimation_error(s) ==
  CASE s.networks >= MaxNetworks -> Recoverable("limit")
    [] s.networks < MaxNetworks /\ s.registered -> Recoverable("race_lost")
    [] OTHER -> Fatal("unknown")

add_token_revert_error(s) ==
  CASE s.networks >= MaxNetworks -> Recoverable("limit")
    [] s.networks < MaxNetworks /\ s.registered -> Recoverable("race_lost")
    [] OTHER -> Fatal("unknown")

\* CustomToken.mint_for: MintFailed
mint_for_error == Refused("mint_failed")

\* Token.approve
approve_error(allowance, s) ==
  IF s.wallet < allowance THEN Recoverable("balance") ELSE Recoverable("unknown")

\* SecretRegistry._register_secret_batch: the contract has no require, so a
\* transaction that was mined and failed is a bug
register_secret_estimation_error == Recoverable("unknown")
register_secret_revert_error == Fatal("unknown")

EstimationError(op, arg, s) ==
  CASE op = "createERC20TokenNetwork" -> add_token_estimation_error(s)
    [] op = "deposit" -> deposit_estimation_error(arg, s)
    [] op \in {"planWithdraw", "withdraw"} -> Recoverable("unknown")
    [] op = "mintFor" -> mint_for_error
    [] op = "registerSecretBatch" -> register_secret_estimation_error
    [] op = "approve" -> approve_error(arg, s)

RevertError(op, arg, s) ==
  CASE op = "createERC20TokenNetwork" -> add_token_revert_error(s)
    [] op = "deposit" -> deposit_revert_error(arg, s)
    [] op = "planWithdraw" -> plan_withdraw_revert_error(arg, s)
    [] op = "withdraw" -> withdraw_revert_error(arg, s)
    [] op = "mintFor" -> mint_for_error
    [] op = "registerSecretBatch" -> register_secret_revert_error
    [] op = "approve" -> approve_error(arg, s)

=============================================================================
