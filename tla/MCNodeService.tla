--------------------------- MODULE MCNodeService ---------------------------
(* Instances of NodeService for TLC. *)
EXTENDS NodeService

Instance(role, transfers, ids, stl, eff, dwn, skp) ==
  [role |-> role, transfers |-> transfers, ids |-> ids, stale |-> stl, effects |-> eff,
   downs |-> dwn, skips |-> skp]

\* one transfer with concurrent effects, duplicates, a crash and requests that
\* are skipped; two transfers and a crash; two transfers whose effects are
\* concurrent; a target
MCInstances ==
  {Instance("mediator", 1, 1, 1, 2, 1, TRUE), Instance("mediator", 2, 2, 0, 1, 1, FALSE),
   Instance("mediator", 2, 2, 0, 2, 0, FALSE), Instance("target", 1, 2, 0, 1, 1, TRUE)}
=============================================================================
