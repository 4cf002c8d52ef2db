--------------------------- MODULE MCPathQueries ---------------------------
(***************************************************************************)
(* Two payments, both to a partner or one of them to somebody else.        *)
(***************************************************************************)
EXTENDS PathQueries

MCTargets == {<<"t", "b">>, <<"b", "b">>}
MCBudget == [price |-> 1, claim |-> 1, lost |-> 1, error |-> 1, close |-> 1, total |-> 2]

\* what a payment at the block before the first one has left at the service
MCEarlierIous == {[amount |-> 1, expiration |-> 2]}

=============================================================================
