--------------------------- MODULE MCCSISnapshots ---------------------------
(* Instances of CSISnapshots for TLC.                                      *)
EXTENDS CSISnapshots, TLC
=============================================================================
