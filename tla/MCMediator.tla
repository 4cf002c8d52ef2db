----------------------------- MODULE MCMediator -----------------------------
(* A small instance of Mediator for TLC: the bounds of a behaviour are those *)
(* of a scenario chosen in the initial state.                                *)
EXTENDS Mediator, TLC

CONSTANTS
    A, B, C,       \* channels
    MaxBlock       \* bound on the length of the chain

MCTwoRoutes == <<B, C>>

(* Channel B can only be used once the lock's timeout is short enough. *)
MCSettleTimeout == [c \in Channel |-> IF c = B THEN 6 ELSE 9]

(* Only B has capacity; the payer's channel and B may be closed. *)
OneRoute == [payees |-> {B}, closable |-> {A, B}]

(* Both routes have capacity, so a refund gets a second pair. *)
Refunds == [payees |-> {A, B, C}, closable |-> {B}]

VARIABLE scenario  \* the bounds of this behaviour

Bounded ==
    /\ head' <= MaxBlock
    /\ \A c \in Channel : closed'[c] # 0 => c \in scenario.closable
    /\ \A p \in Pairs(task') : p.payee \in scenario.payees

MCNext == Next /\ Bounded /\ UNCHANGED scenario

MCInit == Init /\ scenario \in {OneRoute, Refunds}

MCSpec == MCInit /\ [][MCNext]_<<vars, scenario>>
=============================================================================
