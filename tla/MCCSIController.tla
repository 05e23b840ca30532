------------------------- MODULE MCCSIController -------------------------
(* Instances of CSIController for TLC.                                     *)
EXTENDS CSIController, TLC

CONSTANTS g1, g2

\* Two volume groups with different extents.
Extents == [l \in LVGs |-> IF l = g1 THEN 2 ELSE 3]
\* The extents of the second group are not published yet.
PartlyKnown == [l \in LVGs |-> IF l = g1 THEN 2 ELSE 0]
=============================================================================
