-------------------------- MODULE MCCSINodeWatcher --------------------------
(* Instances of CSINodeWatcher for TLC.                                    *)
EXTENDS CSINodeWatcher, TLC

CONSTANTS n1, n2, a, b, c1

\* One volume group on each node.
OneEach == [l \in LVGs |-> IF l = a THEN n1 ELSE n2]
=============================================================================
