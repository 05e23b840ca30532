------------------------------ MODULE Cluster ------------------------------
(***************************************************************************)
(* The API server as the garbage collector of the controller meets it: the *)
(* LVMLogicalVolumes and LVMLogicalVolumeSnapshots, the PersistentVolumes  *)
(* and VolumeSnapshotContents that refer to them, the informer caches that *)
(* lag behind, and the other writers of those objects (the CSI driver, the *)
(* sds-node-configurator agent, an administrator).                         *)
(*                                                                         *)
(* An object is what the collector reads of it: its UID, whether a         *)
(* deletion timestamp is set, and which of the two finalizers it carries.  *)
(* The timestamp itself is kept per UID in "waited" (time since the        *)
(* deletion was requested, saturating at Grace): it is set once in the     *)
(* life of an object, so every copy of the object agrees on it.            *)
(***************************************************************************)
EXTENDS Integers

CONSTANTS
    Vols,       \* names of LVMLogicalVolumes (CSI volume IDs)
    Snaps,      \* names of LVMLogicalVolumeSnapshots
    SourceOf,   \* Spec.LVMLogicalVolumeName of each snapshot
    NoName,     \* the empty string
    PVs,        \* PersistentVolumes that may exist: [name, own, handle]
    VSCs,       \* VolumeSnapshotContents: [own, status, spec] handles
    InitUid,    \* UIDs of the objects that exist at first, 0 for the others
    InitLast,   \* UIDs handed out before
    MaxUid,     \* bound: objects created in a behaviour
    Grace       \* LLVOrphanGracePeriod, in ticks

ASSUME ClusterAssumption ==
    /\ Vols \cap Snaps = {}
    /\ SourceOf \in [Snaps -> Vols \cup {NoName}]
    /\ NoName \notin Vols \cup Snaps
    /\ MaxUid \in Nat
    /\ InitLast \in 0 .. MaxUid
    /\ InitUid \in [Vols \cup Snaps -> 0 .. InitLast]
    /\ \A o, p \in Vols \cup Snaps : InitUid[o] = InitUid[p] /\ InitUid[o] # 0 => o = p
    /\ Grace \in Nat

VARIABLES
    obj,        \* live objects, by name
    lastUid,    \* UIDs handed out so far
    waited,     \* by UID: ticks since its deletion was requested, or NotRequested
    pvs,        \* the PersistentVolumes that exist
    vscs,       \* the VolumeSnapshotContents that exist
    cobj,       \* the informer caches of the two LVM kinds
    cpvs        \* the informer cache of PersistentVolumes

clusterVars == <<obj, lastUid, waited, pvs, vscs, cobj, cpvs>>

Objects == Vols \cup Snaps
Uids == 1 .. MaxUid
NotRequested == -1

CSIFinalizer == "storage.deckhouse.io/sds-local-volume-csi"
AgentFinalizer == "storage.deckhouse.io/sds-node-configurator"
Finalizers == {CSIFinalizer, AgentFinalizer}

Object == [uid : 0 .. MaxUid, deleting : BOOLEAN, fin : SUBSET Finalizers]
Absent == [uid |-> 0, deleting |-> FALSE, fin |-> {}]
Exists(o) == obj[o].uid # 0

(***************************************************************************)
(* What an object reduces to once written: one that is being deleted and   *)
(* has lost its last finalizer is removed by the API server.               *)
(***************************************************************************)
Stored(r) == IF r.deleting /\ r.fin = {} THEN Absent ELSE r
Write(o, r) == obj' = [obj EXCEPT ![o] = Stored(r)]

\* Mutant: PersistentVolumes are matched by name only.
PVRefs_NameOnly(p) == {p.name}

(***************************************************************************)
(* Who refers to what.  A PersistentVolume refers to a volume by its own   *)
(* name, whatever its driver, and by its handle if the driver is this      *)
(* module's.  A VolumeSnapshotContent of this driver refers to a snapshot  *)
(* through the handle in its status or in its spec.                        *)
(***************************************************************************)
PVRefs(p) == {p.name} \cup (IF p.own THEN {p.handle} \ {NoName} ELSE {})
referencingPersistentVolumes(S) == UNION {PVRefs(p) : p \in S}

VSCRefs(c) == IF c.own THEN {c.status, c.spec} \ {NoName} ELSE {}
snapshotContentHandles(S) == UNION {VSCRefs(c) : c \in S}

snapshottedVolumeNames(f) == {SourceOf[s] : s \in {t \in Snaps : f[t].uid # 0}} \ {NoName}

-----------------------------------------------------------------------------
\* Objects that are there at first are owned by the driver and the agent.
ClusterInit ==
    /\ obj = [o \in Objects |->
                IF InitUid[o] = 0 THEN Absent
                ELSE [uid |-> InitUid[o], deleting |-> FALSE, fin |-> Finalizers]]
    /\ lastUid = InitLast
    /\ waited = [u \in Uids |-> NotRequested]
    /\ pvs = {}
    /\ vscs = {}
    /\ cobj = obj
    /\ cpvs = pvs

\* CreateVolume / CreateSnapshot: the driver creates the resource with its
\* own finalizer on it.  A name is reused when the sidecar retries.
DriverCreate(o) ==
    /\ ~ Exists(o)
    /\ lastUid < MaxUid
    /\ lastUid' = lastUid + 1
    /\ obj' = [obj EXCEPT ![o] =
                 [uid |-> lastUid + 1, deleting |-> FALSE, fin |-> {CSIFinalizer}]]
    /\ UNCHANGED <<waited, pvs, vscs, cobj, cpvs>>

\* DeleteVolume / DeleteSnapshot: the driver takes its finalizer off before
\* it issues the delete (the delete is RequestDeletion).
DriverUnfinalize(o) ==
    /\ Exists(o)
    /\ CSIFinalizer \in obj[o].fin
    /\ Write(o, [obj[o] EXCEPT !.fin = @ \ {CSIFinalizer}])
    /\ UNCHANGED <<lastUid, waited, pvs, vscs, cobj, cpvs>>

\* A delete call, from the driver or from "d8 k delete".
RequestDeletion(o) ==
    /\ Exists(o)
    /\ ~ obj[o].deleting
    /\ Write(o, [obj[o] EXCEPT !.deleting = TRUE])
    /\ waited' = [waited EXCEPT ![obj[o].uid] = 0]
    /\ UNCHANGED <<lastUid, pvs, vscs, cobj, cpvs>>

\* The agent adds its finalizer before it creates the logical volume.  The
\* API server refuses a new finalizer on an object that is being deleted.
AgentAdopt(o) ==
    /\ Exists(o)
    /\ ~ obj[o].deleting
    /\ AgentFinalizer \notin obj[o].fin
    /\ Write(o, [obj[o] EXCEPT !.fin = @ \cup {AgentFinalizer}])
    /\ UNCHANGED <<lastUid, waited, pvs, vscs, cobj, cpvs>>

\* The agent runs lvremove, and then drops its finalizer, only once its
\* finalizer is the last one.
AgentRelease(o) ==
    /\ Exists(o)
    /\ obj[o].deleting
    /\ obj[o].fin = {AgentFinalizer}
    /\ Write(o, [obj[o] EXCEPT !.fin = {}])
    /\ UNCHANGED <<lastUid, waited, pvs, vscs, cobj, cpvs>>

\* An operator (or a node-configurator hook) forces the agent's finalizer off.
AgentFinalizerStripped(o) ==
    /\ Exists(o)
    /\ obj[o].fin = Finalizers
    /\ Write(o, [obj[o] EXCEPT !.fin = {CSIFinalizer}])
    /\ UNCHANGED <<lastUid, waited, pvs, vscs, cobj, cpvs>>

CreatePV(p) ==
    /\ p \notin pvs
    /\ pvs' = pvs \cup {p}
    /\ UNCHANGED <<obj, lastUid, waited, vscs, cobj, cpvs>>

\* The PersistentVolume really goes: one in Terminating is still in pvs.
DeletePV(p) ==
    /\ p \in pvs
    /\ pvs' = pvs \ {p}
    /\ UNCHANGED <<obj, lastUid, waited, vscs, cobj, cpvs>>

CreateVSC(c) ==
    /\ c \notin vscs
    /\ vscs' = vscs \cup {c}
    /\ UNCHANGED <<obj, lastUid, waited, pvs, cobj, cpvs>>

DeleteVSC(c) ==
    /\ c \in vscs
    /\ vscs' = vscs \ {c}
    /\ UNCHANGED <<obj, lastUid, waited, pvs, cobj, cpvs>>

\* An informer catches up.  The kinds are watched independently.
SyncKind(K) ==
    /\ cobj' = [o \in Objects |-> IF o \in K THEN obj[o] ELSE cobj[o]]
    /\ cobj' # cobj
    /\ UNCHANGED <<obj, lastUid, waited, pvs, vscs, cpvs>>

SyncPVs ==
    /\ cpvs # pvs
    /\ cpvs' = pvs
    /\ UNCHANGED <<obj, lastUid, waited, pvs, vscs, cobj>>

\* Time passes for every requested deletion; nobody asks for more than Grace.
Age ==
    /\ waited' = [u \in Uids |-> IF waited[u] = NotRequested \/ waited[u] = Grace
                                 THEN waited[u] ELSE waited[u] + 1]
    /\ UNCHANGED <<obj, lastUid, pvs, vscs, cobj, cpvs>>

-----------------------------------------------------------------------------
ClusterTypeOK ==
    /\ obj \in [Objects -> Object]
    /\ lastUid \in 0 .. MaxUid
    /\ waited \in [Uids -> -1 .. Grace]
    /\ pvs \subseteq PVs
    /\ vscs \subseteq VSCs
    /\ cobj \in [Objects -> Object]
    /\ cpvs \subseteq PVs
=============================================================================
