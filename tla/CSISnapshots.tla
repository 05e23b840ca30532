---------------------------- MODULE CSISnapshots ----------------------------
(***************************************************************************)
(* Snapshots in the controller service of the CSI driver: CreateSnapshot   *)
(* and DeleteSnapshot (images/sds-local-volume-csi/driver/                 *)
(* controller_snapshots_ee.go) of one snapshot of one thin volume, and     *)
(* what CreateVolume (driver/controller.go) does differently for a volume  *)
(* that is made from the snapshot or from the volume itself.               *)
(*                                                                         *)
(* As in CSIController every API call is a step, which may fail without an *)
(* effect or have its effect and lose its answer, and external-snapshotter *)
(* calls again.  The agent that makes logical volumes, the growth of the   *)
(* source, and the clean-up of CreateVolume, which is a part of            *)
(* CSIController, are steps of the environment.  Sizes are in units of     *)
(* which an extent holds a few.                                            *)
(***************************************************************************)
EXTENDS Integers

CONSTANTS
    Extent,         \* extent size of the volume group
    SourceSizes,    \* sizes the source may be asked to have
    Requests,       \* capacities of claims made from a source, 0 for none
    MaxUid,         \* bound: LVMLogicalVolumeSnapshots made under the name
    Limit           \* KubernetesAPIRequestLimit

ASSUME SnapshotAssumption ==
    /\ Extent \in Nat \ {0}
    /\ SourceSizes \subseteq Nat \ {0}
    /\ Requests \subseteq Nat
    /\ MaxUid \in Nat
    /\ Limit \in Nat \ {0}

VARIABLES
    src,        \* the source LVMLogicalVolume: Spec.Size and ActualSize
    snap,       \* the LVMLogicalVolumeSnapshot, or NoSnapshot
    lastUid,
    content,    \* the VolumeSnapshotContent
    rep,        \* what CreateSnapshot answered: the object and SizeBytes
    spc,        \* the call of the snapshotter
    purpose,    \* which RPC runs DeleteLVMLogicalVolumeSnapshot
    scopy,      \* the object as the API server last returned it
    ssize,      \* the source's ActualSize as read by CreateSnapshot
    attempt,    \* attempts of removeLLVSFinalizerIfExist
    vol,        \* the LVMLogicalVolume made from a source, or NoVolume
    vpc, vnew,  \* the call of CreateVolume, and the object it is to create
    bound,      \* CreateVolume has answered
    byHand,     \* history: the snapshot an administrator deleted
    grown,      \* history: the source grew while the snapshot was made
    swallowed   \* history: DeleteSnapshot answered although it had failed

callVars == <<purpose, scopy, ssize, attempt>>
snapVars == <<snap, lastUid, content, rep, spc, callVars, swallowed>>
volVars == <<vol, vpc, vnew, bound>>
vars == <<src, snapVars, volVars, byHand, grown>>

CSIFinalizer == "storage.deckhouse.io/sds-local-volume-csi"
AgentFinalizer == "storage.deckhouse.io/sds-node-configurator"
Finalizers == {CSIFinalizer, AgentFinalizer}
Phases == {"", "Created", "Failed"}

Snapshot == [uid : Nat, fin : SUBSET Finalizers, deleting : BOOLEAN, phase : Phases, size : Nat]
NoSnapshot == [uid |-> 0, fin |-> {}, deleting |-> FALSE, phase |-> "", size |-> 0]
Exists == snap.uid # 0
Stored(r) == IF r.deleting /\ r.fin = {} THEN NoSnapshot ELSE r

Volume == [there : BOOLEAN, kind : {"none", "snapshot", "volume"}, type : {"Thin", "Thick"},
           size : Nat, phase : Phases, actual : Nat, data : BOOLEAN]
NoVolume == [there |-> FALSE, kind |-> "none", type |-> "Thin", size |-> 0,
             phase |-> "", actual |-> 0, data |-> FALSE]

AlignSizeToExtent(s) == ((s + Extent - 1) \div Extent) * Extent

Init ==
    /\ \E s \in SourceSizes : src = [size |-> s, actual |-> AlignSizeToExtent(s)]
    /\ snap = NoSnapshot
    /\ lastUid = 0
    /\ content = "wanted"
    /\ rep = [uid |-> 0, size |-> 0]
    /\ spc = "idle"
    /\ purpose = "create"
    /\ scopy = NoSnapshot
    /\ ssize = 0
    /\ attempt = 0
    /\ vol = NoVolume
    /\ vpc = "idle"
    /\ vnew = NoVolume
    /\ bound = FALSE
    /\ byHand = 0
    /\ grown = FALSE
    /\ swallowed = FALSE

Return ==
    /\ spc' = "idle"
    /\ purpose' = "create"
    /\ scopy' = NoSnapshot
    /\ ssize' = 0
    /\ attempt' = 0

ReturnError == Return /\ UNCHANGED <<content, rep, swallowed>>

Others == <<src, volVars, byHand, grown>>

-----------------------------------------------------------------------------
(***************************************************************************)
(* CreateSnapshot.  The source is read once, at the start.                 *)
(***************************************************************************)

\* Mutant: the size that was asked for is reported.
Reported_Spec == src.size

Reported == src.actual

CreateSnapshot ==
    /\ content = "wanted"
    /\ spc = "idle"
    /\ ssize' = Reported
    /\ spc' = "create"
    /\ UNCHANGED <<snap, lastUid, content, rep, purpose, scopy, attempt, swallowed, Others>>

Created ==
    /\ ~ Exists
    /\ lastUid < MaxUid
    /\ lastUid' = lastUid + 1
    /\ snap' = [NoSnapshot EXCEPT !.uid = lastUid + 1, !.fin = {CSIFinalizer}]

\* An object that is there already is waited for like a new one.
CreateLVMLogicalVolumeSnapshot ==
    /\ spc = "create"
    /\ \/ Created
       \/ Exists /\ UNCHANGED <<snap, lastUid>>
    /\ spc' = "wait"
    /\ UNCHANGED <<content, rep, callVars, swallowed, Others>>

CreateAnswerLost ==
    /\ spc = "create"
    /\ Created
    /\ ReturnError
    /\ UNCHANGED Others

\* Mutant: an object that is being deleted is not noticed.
WaitForLLVSStatusUpdate_DeletionMissed == Exists /\ snap.phase = "Created"

\* The object that is polled is good to use.
WaitForLLVSStatusUpdate == Exists /\ snap.phase = "Created" /\ ~ snap.deleting

SnapshotCreated ==
    /\ spc = "wait"
    /\ WaitForLLVSStatusUpdate
    /\ content' = "ready"
    /\ rep' = [uid |-> snap.uid, size |-> ssize]
    /\ Return
    /\ UNCHANGED <<snap, lastUid, swallowed, Others>>

\* It is not there, is being deleted or has failed, or a poll fails: what
\* there is of it is taken down.
CreateGivesUp ==
    /\ spc = "wait"
    /\ spc' = "find"
    /\ UNCHANGED <<snap, lastUid, content, rep, callVars, swallowed, Others>>

-----------------------------------------------------------------------------
(* DeleteSnapshot and DeleteLVMLogicalVolumeSnapshot.                      *)

DeleteSnapshot ==
    /\ content = "unwanted"
    /\ spc = "idle"
    /\ spc' = "find"
    /\ purpose' = "delete"
    /\ UNCHANGED <<snap, lastUid, content, rep, scopy, ssize, attempt, swallowed, Others>>

FindLLVS ==
    /\ spc \in {"find", "refetch"}
    /\ Exists
    /\ scopy' = snap
    /\ spc' = "strip"
    /\ UNCHANGED <<snap, lastUid, content, rep, purpose, ssize, attempt, swallowed, Others>>

\* Mutant: the finalizer is taken off a copy that is not sent.
Stripped_Kept == scopy

Stripped == [scopy EXCEPT !.fin = @ \ {CSIFinalizer}]

\* An Update is taken only if nobody wrote since the copy was read.
Update ==
    /\ CSIFinalizer \in scopy.fin
    /\ Exists
    /\ snap = scopy
    /\ snap' = Stored(Stripped)

removeLLVSFinalizerIfExist ==
    /\ spc = "strip"
    /\ Update \/ (CSIFinalizer \notin scopy.fin /\ UNCHANGED snap)
    /\ spc' = "delete"
    /\ UNCHANGED <<lastUid, content, rep, callVars, swallowed, Others>>

StripAnswerLost ==
    /\ spc = "strip"
    /\ Update
    /\ ReturnError
    /\ UNCHANGED <<lastUid, Others>>

\* Mutant: the last attempt reads the object again too.
StripConflict_OneMore ==
    /\ spc = "strip"
    /\ CSIFinalizer \in scopy.fin
    /\ Exists
    /\ attempt < Limit
    /\ attempt' = attempt + 1
    /\ spc' = "refetch"
    /\ UNCHANGED <<snap, lastUid, content, rep, purpose, scopy, ssize, swallowed, Others>>

\* A conflict, which a write to a field that is not modelled causes too.
StripConflict ==
    /\ spc = "strip"
    /\ CSIFinalizer \in scopy.fin
    /\ Exists
    /\ attempt < Limit - 1
    /\ attempt' = attempt + 1
    /\ spc' = "refetch"
    /\ UNCHANGED <<snap, lastUid, content, rep, purpose, scopy, ssize, swallowed, Others>>

Deleted == Exists /\ snap' = Stored([snap EXCEPT !.deleting = TRUE])

\* The Delete succeeds: DeleteSnapshot answers, CreateSnapshot returns the
\* error it gave up with.
DeleteLLVS ==
    /\ spc = "delete"
    /\ Deleted
    /\ content' = IF purpose = "delete" THEN "gone" ELSE content
    /\ Return
    /\ UNCHANGED <<lastUid, rep, swallowed, Others>>

DeleteAnswerLost ==
    /\ spc = "delete"
    /\ Deleted
    /\ ReturnError
    /\ UNCHANGED <<lastUid, Others>>

\* The context is done or the driver crashes; for CreateSnapshot also an API
\* call that fails without an effect.
CallFails ==
    /\ spc # "idle"
    /\ ReturnError
    /\ UNCHANGED <<snap, lastUid, Others>>

\* DeleteSnapshot logs the error of any API call, not found included, and
\* answers that the snapshot is deleted.
DeleteSnapshotAnswersAnyway ==
    /\ spc \in {"find", "strip", "refetch", "delete"}
    /\ purpose = "delete"
    /\ content' = "gone"
    /\ swallowed' = Exists
    /\ Return
    /\ UNCHANGED <<snap, lastUid, rep, Others>>

-----------------------------------------------------------------------------
(***************************************************************************)
(* CreateVolume with a content source.  A request that is refused changes  *)
(* nothing.                                                                *)
(***************************************************************************)

\* Mutant: the type of the class is not looked at.
Clonable_AnyType(type) == TRUE

\* Only thin volumes are made from a source.
Clonable(type) == type = "Thin"

SourceReady(kind) == kind = "snapshot" => Exists /\ snap.phase = "Created"
SourceSize(kind) == IF kind = "snapshot" THEN snap.size ELSE src.size

CreateVolumeFrom(kind, type, request) ==
    LET llvSize == IF request = 0 THEN SourceSize(kind) ELSE AlignSizeToExtent(request) IN
    /\ vpc = "idle"
    /\ ~ bound
    /\ vol.there => vol.kind = kind /\ vol.type = type
    /\ Clonable(type)
    /\ SourceReady(kind)
    /\ llvSize >= SourceSize(kind)
    /\ vnew' = [NoVolume EXCEPT !.there = TRUE, !.kind = kind, !.type = type, !.size = llvSize]
    /\ vpc' = "create"
    /\ UNCHANGED <<src, snapVars, vol, bound, byHand, grown>>

CreateLVMLogicalVolume ==
    /\ vpc = "create"
    /\ vol' = IF vol.there THEN vol ELSE vnew
    /\ vpc' = "wait"
    /\ UNCHANGED <<src, snapVars, vnew, bound, byHand, grown>>

VolumeCreated ==
    /\ vpc = "wait"
    /\ vol.there
    /\ vol.phase = "Created"
    /\ vol.actual >= AlignSizeToExtent(vnew.size)
    /\ bound' = TRUE
    /\ vpc' = "idle"
    /\ vnew' = NoVolume
    /\ UNCHANGED <<src, snapVars, vol, byHand, grown>>

\* The wait gives up; the clean-up works, or leaves the object.
CreateVolumeFails ==
    /\ vpc \in {"create", "wait"}
    /\ \/ vpc = "wait" /\ vol' = NoVolume
       \/ UNCHANGED vol
    /\ vpc' = "idle"
    /\ vnew' = NoVolume
    /\ UNCHANGED <<src, snapVars, bound, byHand, grown>>

-----------------------------------------------------------------------------
(* The rest of the world.                                                  *)

SnapCall == <<lastUid, content, rep, spc, callVars, swallowed>>

SourceGrows(s) ==
    /\ s > src.size
    /\ src' = [size |-> s, actual |-> AlignSizeToExtent(s)]
    /\ grown' = (grown \/ (content = "wanted" /\ (spc # "idle" \/ Exists)))
    /\ UNCHANGED <<snapVars, volVars, byHand>>

Unwanted ==
    /\ content = "ready"
    /\ content' = "unwanted"
    /\ UNCHANGED <<snap, lastUid, rep, spc, callVars, swallowed, Others>>

DeleteByHand ==
    /\ Exists
    /\ ~ snap.deleting
    /\ Deleted
    /\ byHand' = snap.uid
    /\ UNCHANGED <<src, SnapCall, volVars, grown>>

\* What module LLVGC does, as far as it matters here.
CollectorUnblocks ==
    /\ Exists
    /\ snap.deleting
    /\ snap.fin = Finalizers
    /\ content \in {"wanted", "gone"}
    /\ snap' = Stored([snap EXCEPT !.fin = @ \ {CSIFinalizer}])
    /\ UNCHANGED <<SnapCall, Others>>

AgentAdopts ==
    /\ Exists
    /\ ~ snap.deleting
    /\ AgentFinalizer \notin snap.fin
    /\ snap' = [snap EXCEPT !.fin = @ \cup {AgentFinalizer}]
    /\ UNCHANGED <<SnapCall, Others>>

\* A thin snapshot has the size its origin has at that moment.
AgentTakesSnapshot ==
    /\ Exists
    /\ ~ snap.deleting
    /\ AgentFinalizer \in snap.fin
    /\ snap.phase = ""
    /\ snap' = [snap EXCEPT !.phase = "Created", !.size = src.actual]
    /\ UNCHANGED <<SnapCall, Others>>

AgentFails ==
    /\ Exists
    /\ ~ snap.deleting
    /\ AgentFinalizer \in snap.fin
    /\ snap.phase = ""
    /\ snap' = [snap EXCEPT !.phase = "Failed"]
    /\ UNCHANGED <<SnapCall, Others>>

AgentRemovesSnapshot ==
    /\ Exists
    /\ snap.deleting
    /\ snap.fin = {AgentFinalizer}
    /\ snap' = NoSnapshot
    /\ UNCHANGED <<SnapCall, Others>>

\* A thin volume is a snapshot of its source, extended if need be, and fails
\* if the source is gone; for a thick one the source is ignored.
AgentProvisions ==
    LET max(a, b) == IF a > b THEN a ELSE b
        copied == IF vol.kind = "snapshot" THEN snap.size ELSE src.actual IN
    /\ vol.there
    /\ vol.phase = ""
    /\ vol' = IF vol.type = "Thin"
              THEN IF vol.kind = "snapshot" /\ ~ (Exists /\ snap.phase = "Created")
                   THEN [vol EXCEPT !.phase = "Failed"]
                   ELSE [vol EXCEPT !.phase = "Created", !.data = TRUE,
                                    !.actual = max(copied, AlignSizeToExtent(vol.size))]
              ELSE [vol EXCEPT !.phase = "Created", !.actual = AlignSizeToExtent(vol.size)]
    /\ UNCHANGED <<src, snapVars, vpc, vnew, bound, byHand, grown>>

-----------------------------------------------------------------------------
Snapshotter ==
    \/ CreateSnapshot \/ CreateLVMLogicalVolumeSnapshot \/ CreateAnswerLost
    \/ SnapshotCreated \/ CreateGivesUp
    \/ DeleteSnapshot \/ FindLLVS
    \/ removeLLVSFinalizerIfExist \/ StripAnswerLost \/ StripConflict
    \/ DeleteLLVS \/ DeleteAnswerLost
    \/ CallFails \/ DeleteSnapshotAnswersAnyway

Provisioner ==
    \/ \E kind \in {"snapshot", "volume"}, type \in {"Thin", "Thick"}, r \in Requests :
         CreateVolumeFrom(kind, type, r)
    \/ CreateLVMLogicalVolume \/ VolumeCreated \/ CreateVolumeFails

Agent ==
    \/ AgentAdopts \/ AgentTakesSnapshot \/ AgentFails \/ AgentRemovesSnapshot
    \/ AgentProvisions

Next ==
    \/ Snapshotter \/ Provisioner \/ Agent
    \/ \E s \in SourceSizes : SourceGrows(s)
    \/ Unwanted \/ DeleteByHand \/ CollectorUnblocks

Spec == Init /\ [][Next]_vars

(***************************************************************************)
(* Fairness.  The snapshotter calls DeleteSnapshot until it is answered    *)
(* (WF), a step that is tried again and again works some time (SF), and    *)
(* the agent removes what nothing else holds.                              *)
(***************************************************************************)
FairSpec ==
    /\ Spec
    /\ WF_vars(DeleteSnapshot)
    /\ WF_vars(Snapshotter /\ spc # "idle")
    /\ SF_vars(FindLLVS)
    /\ SF_vars(removeLLVSFinalizerIfExist)
    /\ SF_vars(DeleteLLVS)
    /\ WF_vars(AgentRemovesSnapshot)

-----------------------------------------------------------------------------
\* The calls and the objects have their types; removeLLVSFinalizerIfExist never
\* makes more than Limit attempts.
TypeOK ==
    /\ src \in [size : Nat, actual : Nat]
    /\ snap \in Snapshot
    /\ lastUid \in 0 .. MaxUid
    /\ content \in {"wanted", "ready", "unwanted", "gone"}
    /\ rep \in [uid : Nat, size : Nat]
    /\ spc \in {"idle", "create", "wait", "find", "refetch", "strip", "delete"}
    /\ purpose \in {"create", "delete"}
    /\ scopy \in Snapshot
    /\ ssize \in Nat
    /\ attempt \in 0 .. Limit - 1
    /\ vol \in Volume
    /\ vpc \in {"idle", "create", "wait"}
    /\ vnew \in Volume
    /\ bound \in BOOLEAN
    /\ byHand \in Nat
    /\ grown \in BOOLEAN
    /\ swallowed \in BOOLEAN

\* A snapshot that CreateSnapshot has reported as ready is there, has been taken
\* and is not being deleted, until DeleteSnapshot is called or an administrator
\* deletes it: no clean-up of an earlier, failed CreateSnapshot takes it down,
\* and no answer is for an object on its way out.
ReadyIsLive ==
    content = "ready" =>
        \/ snap.uid = rep.uid /\ snap.phase = "Created" /\ ~ snap.deleting
        \/ byHand = rep.uid

\* SizeBytes is the size the snapshot really has - what a claim restored from
\* it must at least ask for, and what CreateVolume compares with - through all
\* retries, unless the source grew while the snapshot was being made: the size
\* is read from the source before, not from the snapshot after.
ReportedSize ==
    content = "ready" /\ ~ grown /\ snap.uid = rep.uid => rep.size = snap.size

\* A volume made from a snapshot or from another volume that CreateVolume has
\* answered for is never empty: the type is refused for which the agent would
\* ignore the source, and a source that has gone since is a failure.
RestoredIsNotEmpty == bound => vol.data

\* A snapshot that DeleteSnapshot has answered for goes, however often a call
\* failed half way and was made again - unless the answer hid an error.
DeletedIsReclaimed == content = "gone" /\ ~ swallowed ~> ~ Exists
=============================================================================
