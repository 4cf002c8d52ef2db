------------------------- MODULE MCContractProxies -------------------------
(***************************************************************************)
(* Instances of ContractProxies: greenlets that register overlapping       *)
(* batches of secrets; deposits of different sizes at once; withdraws that *)
(* are planned twice; a token registration that races with another         *)
(* account's, with room for one network more and without; an account       *)
(* without ether; answers that are lost.                                   *)
(***************************************************************************)
EXTENDS ContractProxies, TLC

CONSTANTS c1, c2, c3, s1, s2

NoOther == [op |-> "none", arg |-> 0]
Does(kind, arg) == [kind |-> kind, arg |-> arg]
Unused == Does("none", 0)

Instance(a, b, c, secrets, storage, other) ==
  [calls |-> (c1 :> a @@ c2 :> b @@ c3 :> c), secrets |-> secrets, storage |-> storage,
   other |-> other, poor |-> FALSE, reorgs |-> 1, crashes |-> 0, lost |-> FALSE,
   log_unrecoverable |-> FALSE]

SecretBatches ==
  [Instance(Does("secret", {s1, s2}), Does("secret", {s2}), Unused,
            {s1, s2}, InitialStorage(0, 0), NoOther) EXCEPT !.crashes = 1, !.reorgs = 2]

ThreeBatches ==
  Instance(Does("secret", {s1, s2}), Does("secret", {s2}), Does("secret", {s1}),
           {s1, s2}, InitialStorage(0, 0), NoOther)

Deposits ==
  Instance(Does("deposit", 1), Does("deposit", 3), Does("deposit", 2), {},
           InitialStorage(3, 0), [op |-> "othersDeposit", arg |-> 2])

Withdraws ==
  [Instance(Does("plan", 2), Does("plan", 1), Does("withdraw", 1), {},
            InitialStorage(2, 2), [op |-> "othersClaim", arg |-> 1]) EXCEPT !.crashes = 1]

Tokens ==
  [Instance(Does("token", 0), Does("mint", 1), Unused, {},
            InitialStorage(0, 0), [op |-> "othersCreate", arg |-> 0])
     EXCEPT !.crashes = 1, !.lost = TRUE, !.poor = TRUE]

\* the last network the registry takes
LastToken ==
  Instance(Does("token", 0), Does("mint", 1), Unused, {},
           [InitialStorage(0, 0) EXCEPT !.networks = 1], [op |-> "othersCreate", arg |-> 0])

\* the answer to any of the transactions is lost, and for a registration only logged
LostAnswers ==
  [Instance(Does("secret", {s1}), Does("secret", {s1, s2}), Does("mint", 1), {s1, s2},
            InitialStorage(0, 0), NoOther) EXCEPT !.lost = TRUE, !.log_unrecoverable = TRUE]

LostInDeposit ==
  [Instance(Does("deposit", 2), Does("plan", 1), Does("deposit", 1), {},
            InitialStorage(3, 1), NoOther) EXCEPT !.lost = TRUE]

MCInstances ==
  <<SecretBatches, ThreeBatches, Deposits, Withdraws, Tokens, LastToken, LostAnswers, LostInDeposit>>

=============================================================================
