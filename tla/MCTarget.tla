------------------------------ MODULE MCTarget ------------------------------
(* Small instances of Target for TLC. *)
EXTENDS Target

CONSTANTS
    A,          \* the channel
    MaxBlock    \* bound on the length of the chain

MCNext == Next /\ head' <= MaxBlock

MCSpec == Init /\ [][MCNext]_vars
=============================================================================
