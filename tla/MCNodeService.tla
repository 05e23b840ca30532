--------------------------- MODULE MCNodeService ---------------------------
(* Instances of NodeService for TLC.                                       *)
EXTENDS NodeService, TLC

CONSTANTS t1, t2, c1, c2
=============================================================================
