------------------------- MODULE MCInitiatorPayment -------------------------
(***************************************************************************)
(* Instances of InitiatorPayment for TLC.                                  *)
(***************************************************************************)
EXTENDS InitiatorPayment

MCChannel == 1 .. 2

\* One payment through a repeated refund and a restart; two payments with a
\* refund; a payment whose lock expires and its retry.
MCInstances ==
  {[payments |-> 1, secrets |-> 3, blocks |-> 6, restarts |-> 1, duplicates |-> 1],
   [payments |-> 2, secrets |-> 3, blocks |-> 5, restarts |-> 0, duplicates |-> 0],
   [payments |-> 2, secrets |-> 2, blocks |-> 7, restarts |-> 0, duplicates |-> 0]}
=============================================================================
