------------------------------ MODULE MCLLVGC ------------------------------
(* Instances of LLVGC for TLC.                                             *)
EXTENDS LLVGC, TLC

CONSTANTS v1, v2, s1, s2

NoPVs == {}
NoVSCs == {}
\* A hand-written PersistentVolume: only its handle refers to the volume.
ByHandle == [name |-> NoName, own |-> TRUE, handle |-> v1]
OneByHandle == {ByHandle}
\* A VolumeSnapshotContent whose status carries the handle.
ContentOfS1 == {[own |-> TRUE, status |-> s1, spec |-> NoName]}

NothingYet == [o \in Objects |-> 0]
AllThere == [o \in Objects |-> IF o = v1 THEN 1 ELSE IF o = s1 THEN 2 ELSE 3]

\* Two volumes that nothing tells apart.
Twins == Permutations({v1, v2})

\* Every snapshot is one of v1.
AllOfV1 == [s \in Snaps |-> v1]
=============================================================================
