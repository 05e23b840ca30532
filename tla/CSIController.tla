--------------------------- MODULE CSIController ---------------------------
(***************************************************************************)
(* The controller service of the CSI driver over the life of one volume:   *)
(* CreateVolume, DeleteVolume and ControllerExpandVolume                   *)
(* (images/sds-local-volume-csi/driver/controller.go and pkg/utils), as    *)
(* external-provisioner and external-resizer call them, beside the agent   *)
(* that makes the logical volume, the garbage collector and an             *)
(* administrator.  Volumes do not interact here, so one is enough.         *)
(*                                                                         *)
(* Every API call of a handler is a step.  It may fail without an effect,  *)
(* or have its effect and lose its answer; a crash of the driver and a     *)
(* context that is done look the same, since a handler whose context is    *)
(* done gets an error from its next call.  The sidecar then calls again.   *)
(*                                                                         *)
(* Sizes are in units of which an extent holds a few.  The LVMVolumeGroups *)
(* of the storage class are identified with their nodes.                   *)
(***************************************************************************)
EXTENDS Integers, FiniteSets

CONSTANTS
    LVGs,           \* the LVMVolumeGroups of the storage class
    Extent,         \* the extent size of each on its node
    Published,      \* Status.ExtentSize of each, 0 while it is not known
    DefaultExtent,  \* lvmDefaultExtentSize
    Binding,        \* volumeBindingMode of the class
    Preferred,      \* the node the scheduler chose
    LvmType,        \* Thick or Thin
    Cleanup,        \* the class asks for a volumeCleanup
    Request,        \* the capacity CreateVolume is called with
    Requests,       \* capacities ControllerExpandVolume is called with
    MaxFree,        \* bound: free space an LVMVolumeGroup may report
    MaxUid,         \* bound: LVMLogicalVolumes created for the volume
    Limit           \* KubernetesAPIRequestLimit

ASSUME CSIAssumption ==
    /\ Extent \in [LVGs -> Nat \ {0}]
    /\ Published \in [LVGs -> Nat]
    /\ \A l \in LVGs : Published[l] \in {0, Extent[l]}
    /\ DefaultExtent \in Nat \ {0}
    /\ Binding \in {"Immediate", "WaitForFirstConsumer"}
    /\ Preferred \in LVGs
    /\ LvmType \in {"Thick", "Thin"}
    /\ Cleanup \in BOOLEAN
    /\ Request \in Nat
    /\ Requests \subseteq Nat
    /\ MaxFree \in Nat
    /\ MaxUid \in Nat
    /\ Limit \in Nat \ {0}

VARIABLES
    llv,        \* the LVMLogicalVolume, or Absent
    lastUid,
    claim,      \* where the sidecars are with the volume
    rep,        \* what the driver last answered: the aligned request, the
                \* capacity and the object it is about
    byHand,     \* history: the object an administrator deleted, or 0
    ppc,        \* the provisioner's call
    rpc,        \* the resizer's call
    plvg, psize,    \* CreateVolume: selectedLVG and llvSize
    purpose,    \* which RPC runs DeleteLVMLogicalVolume
    volumeCleanup,
    pcopy,      \* the object as the API server last returned it to the call
    attempt,    \* attempts of removeLLVFinalizerIfExist
    rsize, rcopy, rlvg

callVars == <<plvg, psize, purpose, volumeCleanup, pcopy, attempt>>
resizeVars == <<rsize, rcopy, rlvg>>
vars == <<llv, lastUid, claim, rep, byHand, ppc, rpc, callVars, resizeVars>>

CSIFinalizer == "storage.deckhouse.io/sds-local-volume-csi"
AgentFinalizer == "storage.deckhouse.io/sds-node-configurator"
Finalizers == {CSIFinalizer, AgentFinalizer}
Phases == {"", "Created", "Failed"}

Volume == [uid : Nat, lvg : LVGs, size : Nat, cleanup : BOOLEAN,
           fin : SUBSET Finalizers, deleting : BOOLEAN,
           phase : Phases, actual : Nat]
Absent == [uid |-> 0, lvg |-> Preferred, size |-> 0, cleanup |-> FALSE, fin |-> {},
           deleting |-> FALSE, phase |-> "", actual |-> 0]
Exists == llv.uid # 0
Stored(r) == IF r.deleting /\ r.fin = {} THEN Absent ELSE r

-----------------------------------------------------------------------------
(* Sizes and the choice of a volume group.                                 *)

AlignSizeToExtent(s, e) == ((s + e - 1) \div e) * e
SafeExtentSize(l) == IF Published[l] > 0 THEN Published[l] ELSE DefaultExtent
alignToLVGExtentOrStatusErr(s, l) == AlignSizeToExtent(s, SafeExtentSize(l))

\* One that reports the most free space; none does when all report 0.
GetNodeWithMaxFreeSpace(free) ==
    {l \in LVGs : free[l] > 0 /\ \A m \in LVGs : free[m] <= free[l]}

fitsFreeSpace(aligned, free) ==
    Binding # "Immediate" \/ LvmType # "Thick" \/ aligned <= free

selectable(free) ==
    IF Binding = "Immediate" THEN GetNodeWithMaxFreeSpace(free) ELSE {Preferred}

GetLLVSpec(l, s) ==
    [uid |-> lastUid + 1, lvg |-> l, size |-> s, cleanup |-> Cleanup,
     fin |-> {CSIFinalizer}, deleting |-> FALSE, phase |-> "", actual |-> 0]

-----------------------------------------------------------------------------
Init ==
    /\ llv = Absent
    /\ lastUid = 0
    /\ claim = "new"
    /\ rep = [uid |-> 0, req |-> 0, cap |-> 0]
    /\ byHand = 0
    /\ ppc = "idle"
    /\ rpc = "idle"
    /\ plvg = Preferred
    /\ psize = 0
    /\ purpose = "create"
    /\ volumeCleanup = FALSE
    /\ pcopy = Absent
    /\ attempt = 0
    /\ rsize = 0
    /\ rcopy = Absent
    /\ rlvg = Preferred

\* A call of the provisioner ends; what it held is forgotten.
Return ==
    /\ ppc' = "idle"
    /\ plvg' = Preferred
    /\ psize' = 0
    /\ purpose' = "create"
    /\ volumeCleanup' = FALSE
    /\ pcopy' = Absent
    /\ attempt' = 0

\* The call ends with an error: the sidecar will call again.
ReturnError == Return /\ UNCHANGED <<claim, rep>>

Others == <<byHand, rpc, resizeVars>>

(***************************************************************************)
(* CreateVolume.  The free space is what the volume groups' status says at *)
(* the time, which may be anything the node has gone through.  A request   *)
(* that is refused here changes nothing.                                   *)
(***************************************************************************)
CreateVolume ==
    /\ claim = "new"
    /\ ppc = "idle"
    /\ \E free \in [LVGs -> 0 .. MaxFree] : \E l \in selectable(free) :
         LET aligned == alignToLVGExtentOrStatusErr(Request, l) IN
         /\ fitsFreeSpace(aligned, free[l])
         /\ plvg' = l
         /\ psize' = aligned
    /\ ppc' = "create"
    /\ UNCHANGED <<llv, lastUid, claim, rep, purpose, volumeCleanup, pcopy, attempt, Others>>

Created ==
    /\ ~ Exists
    /\ lastUid < MaxUid
    /\ lastUid' = lastUid + 1
    /\ llv' = GetLLVSpec(plvg, psize)

\* An LVMLogicalVolume that is there already is waited for like a new one.
CreateLVMLogicalVolume ==
    /\ ppc = "create"
    /\ \/ Created
       \/ Exists /\ UNCHANGED <<llv, lastUid>>
    /\ ppc' = "wait"
    /\ UNCHANGED <<claim, rep, callVars, Others>>

CreateAnswerLost ==
    /\ ppc = "create"
    /\ Created
    /\ ReturnError
    /\ UNCHANGED Others

\* Mutant: an object that is being deleted is not noticed.
WaitFails_DeletionMissed == ~ Exists \/ llv.phase = "Failed"

\* What makes WaitForStatusUpdate give up on the object it polled.  Without a
\* status nothing does.
WaitFails ==
    \/ ~ Exists
    \/ llv.phase # "" /\ (llv.deleting \/ llv.phase = "Failed")

\* Mutant: a volume that is being resized is taken for a resized one.
WaitSucceeds_AnySize(s, l) == ~ WaitFails /\ llv.phase = "Created"

WaitSucceeds(s, l) ==
    /\ ~ WaitFails
    /\ llv.phase = "Created"
    /\ llv.actual >= alignToLVGExtentOrStatusErr(s, l)

\* The poll's own Get may fail too.  Either way the volume is taken down.
CreateGivesUp ==
    /\ ppc = "wait"
    /\ ppc' = "find"
    /\ purpose' = "create"
    /\ volumeCleanup' = Cleanup
    /\ UNCHANGED <<llv, lastUid, claim, rep, plvg, psize, pcopy, attempt, Others>>

VolumeCreated ==
    /\ ppc = "wait"
    /\ WaitSucceeds(psize, plvg)
    /\ claim' = "bound"
    /\ rep' = [uid |-> llv.uid, req |-> psize, cap |-> llv.actual]
    /\ Return
    /\ UNCHANGED <<llv, lastUid, Others>>

-----------------------------------------------------------------------------
(***************************************************************************)
(* DeleteVolume and DeleteLVMLogicalVolume.  GetLSCBeforeLLVDelete finds   *)
(* the class through the PersistentVolume; if it fails, no cleanup is      *)
(* asked for.                                                              *)
(***************************************************************************)
DeleteVolume ==
    /\ claim = "released"
    /\ ppc = "idle"
    /\ ppc' = "find"
    /\ purpose' = "delete"
    /\ volumeCleanup' \in {Cleanup, FALSE}
    /\ UNCHANGED <<llv, lastUid, claim, rep, plvg, psize, pcopy, attempt, Others>>

FindLLV ==
    /\ ppc = "find"
    /\ Exists
    /\ pcopy' = llv
    /\ ppc' = "update"
    /\ UNCHANGED <<llv, lastUid, claim, rep, plvg, psize, purpose, volumeCleanup,
                   attempt, Others>>

\* An Update sends the whole object back; the API server takes it only if
\* nobody wrote since the copy was read.
Update(copy, r) ==
    /\ Exists
    /\ llv = copy
    /\ llv' = Stored(r)

UpdateCleanup ==
    /\ ppc = "update"
    /\ Update(pcopy, [pcopy EXCEPT !.cleanup = volumeCleanup])
    /\ pcopy' = llv'
    /\ ppc' = "strip"
    /\ UNCHANGED <<lastUid, claim, rep, plvg, psize, purpose, volumeCleanup,
                   attempt, Others>>

UpdateAnswerLost ==
    /\ ppc = "update"
    /\ Update(pcopy, [pcopy EXCEPT !.cleanup = volumeCleanup])
    /\ ReturnError
    /\ UNCHANGED <<lastUid, Others>>

\* Mutant: the finalizer is taken off a copy that is not sent.
Stripped_Kept == pcopy

Stripped == [pcopy EXCEPT !.fin = @ \ {CSIFinalizer}]

\* The finalizer goes, or was not there in the first place.
removeLLVFinalizerIfExist ==
    /\ ppc = "strip"
    /\ \/ /\ CSIFinalizer \in pcopy.fin
          /\ Update(pcopy, Stripped)
          /\ pcopy' = llv'
       \/ CSIFinalizer \notin pcopy.fin /\ UNCHANGED <<llv, pcopy>>
    /\ ppc' = "delete"
    /\ UNCHANGED <<lastUid, claim, rep, plvg, psize, purpose, volumeCleanup,
                   attempt, Others>>

StripAnswerLost ==
    /\ ppc = "strip"
    /\ CSIFinalizer \in pcopy.fin
    /\ Update(pcopy, Stripped)
    /\ ReturnError
    /\ UNCHANGED <<lastUid, Others>>

\* Mutant: the last attempt reads the object again too.
StripConflict_OneMore ==
    /\ ppc = "strip"
    /\ CSIFinalizer \in pcopy.fin
    /\ Exists
    /\ attempt < Limit
    /\ attempt' = attempt + 1
    /\ ppc' = "refetch"
    /\ UNCHANGED <<llv, lastUid, claim, rep, plvg, psize, purpose, volumeCleanup,
                   pcopy, Others>>

\* A conflict, which a write to a field that is not modelled causes too, is
\* answered by reading the object again, Limit - 1 times.
StripConflict ==
    /\ ppc = "strip"
    /\ CSIFinalizer \in pcopy.fin
    /\ Exists
    /\ attempt < Limit - 1
    /\ attempt' = attempt + 1
    /\ ppc' = "refetch"
    /\ UNCHANGED <<llv, lastUid, claim, rep, plvg, psize, purpose, volumeCleanup,
                   pcopy, Others>>

Refetch ==
    /\ ppc = "refetch"
    /\ Exists
    /\ pcopy' = llv
    /\ ppc' = "strip"
    /\ UNCHANGED <<llv, lastUid, claim, rep, plvg, psize, purpose, volumeCleanup,
                   attempt, Others>>

Deleted ==
    /\ Exists
    /\ llv' = Stored([llv EXCEPT !.deleting = TRUE])

\* The delete succeeds.  DeleteVolume answers, and the sidecar removes the
\* PersistentVolume; CreateVolume returns the error it gave up with.
DeleteLLV ==
    /\ ppc = "delete"
    /\ Deleted
    /\ claim' = IF purpose = "delete" THEN "gone" ELSE claim
    /\ Return
    /\ UNCHANGED <<lastUid, rep, Others>>

DeleteAnswerLost ==
    /\ ppc = "delete"
    /\ Deleted
    /\ ReturnError
    /\ UNCHANGED <<lastUid, Others>>

\* An API call fails without an effect (not found, conflict, anything), the
\* context is done, or the driver crashes.
ProvisionerFails ==
    /\ ppc # "idle"
    /\ ReturnError
    /\ UNCHANGED <<llv, lastUid, Others>>

-----------------------------------------------------------------------------
(***************************************************************************)
(* ControllerExpandVolume.                                                 *)
(***************************************************************************)
Provisioning == <<lastUid, claim, byHand, ppc, callVars>>

ControllerExpandVolume ==
    /\ claim = "bound"
    /\ rpc = "idle"
    /\ rsize' \in Requests
    /\ rpc' = "get"
    /\ UNCHANGED <<llv, rep, rcopy, rlvg, Provisioning>>

EndResize ==
    /\ rpc' = "idle"
    /\ rsize' = 0
    /\ rcopy' = Absent
    /\ rlvg' = Preferred

\* An answer counts while the PersistentVolume is there.
Answer(l) == rep' = IF claim = "bound"
                    THEN [uid |-> llv.uid, req |-> alignToLVGExtentOrStatusErr(rsize, l),
                          cap |-> llv.actual]
                    ELSE rep

largeEnough == llv.actual >= alignToLVGExtentOrStatusErr(rsize, llv.lvg)

ExpandNotNeeded ==
    /\ rpc = "get"
    /\ Exists
    /\ llv.phase # ""
    /\ largeEnough
    /\ Answer(llv.lvg)
    /\ EndResize
    /\ UNCHANGED <<llv, Provisioning>>

\* There is room, as far as the volume group's status knows.
ExpandNeeded ==
    /\ rpc = "get"
    /\ Exists
    /\ llv.phase # ""
    /\ ~ largeEnough
    /\ \E free \in 0 .. MaxFree :
         LvmType = "Thick" =>
            free >= alignToLVGExtentOrStatusErr(rsize, llv.lvg) - llv.actual
    /\ rcopy' = llv
    /\ rlvg' = llv.lvg
    /\ rpc' = "resize"
    /\ UNCHANGED <<llv, rep, rsize, Provisioning>>

\* Mutant: the size is sent as a patch that wins over any other write.
ExpandLVMLogicalVolume_Unlocked ==
    /\ rpc = "resize"
    /\ Exists
    /\ llv' = [rcopy EXCEPT !.size = rsize]
    /\ rpc' = "wait"
    /\ UNCHANGED <<rep, rsize, rcopy, rlvg, Provisioning>>

\* The size is written as it was requested.
ExpandLVMLogicalVolume ==
    /\ rpc = "resize"
    /\ Update(rcopy, [rcopy EXCEPT !.size = rsize])
    /\ rpc' = "wait"
    /\ UNCHANGED <<rep, rsize, rcopy, rlvg, Provisioning>>

ExpandAnswerLost ==
    /\ rpc = "resize"
    /\ Update(rcopy, [rcopy EXCEPT !.size = rsize])
    /\ EndResize
    /\ UNCHANGED <<rep, Provisioning>>

VolumeExpanded ==
    /\ rpc = "wait"
    /\ WaitSucceeds(rsize, rlvg)
    /\ Answer(rlvg)
    /\ EndResize
    /\ UNCHANGED <<llv, Provisioning>>

ResizerFails ==
    /\ rpc # "idle"
    /\ EndResize
    /\ UNCHANGED <<llv, rep, Provisioning>>

-----------------------------------------------------------------------------
(* The rest of the world.                                                  *)

Calls == <<lastUid, rep, ppc, callVars, rpc, resizeVars>>

\* The claim goes, and with it, for this class, the volume.
ReleaseClaim ==
    /\ claim = "bound"
    /\ claim' = "released"
    /\ UNCHANGED <<llv, byHand, Calls>>

DeleteByHand ==
    /\ Exists
    /\ ~ llv.deleting
    /\ Deleted
    /\ byHand' = llv.uid
    /\ UNCHANGED <<claim, Calls>>

\* What module LLVGC does, as far as it matters here: it unblocks a deletion
\* when no PersistentVolume is left.
CollectorUnblocks ==
    /\ Exists
    /\ llv.deleting
    /\ llv.fin = Finalizers
    /\ claim \in {"new", "gone"}
    /\ llv' = Stored([llv EXCEPT !.fin = @ \ {CSIFinalizer}])
    /\ UNCHANGED <<claim, byHand, Calls>>

AgentAdopts ==
    /\ Exists
    /\ ~ llv.deleting
    /\ AgentFinalizer \notin llv.fin
    /\ llv' = [llv EXCEPT !.fin = @ \cup {AgentFinalizer}]
    /\ UNCHANGED <<claim, byHand, Calls>>

\* Whole extents are allocated; a volume never gets smaller.
AgentProvisions ==
    /\ Exists
    /\ ~ llv.deleting
    /\ AgentFinalizer \in llv.fin
    /\ llv.phase # "Created" \/ llv.actual < llv.size
    /\ LET needed == AlignSizeToExtent(llv.size, Extent[llv.lvg])
       IN  llv' = [llv EXCEPT !.phase = "Created",
                              !.actual = IF @ < needed THEN needed ELSE @]
    /\ UNCHANGED <<claim, byHand, Calls>>

AgentFails ==
    /\ Exists
    /\ ~ llv.deleting
    /\ AgentFinalizer \in llv.fin
    /\ llv.phase # "Created" \/ llv.actual < llv.size
    /\ llv.phase # "Failed"
    /\ llv' = [llv EXCEPT !.phase = "Failed"]
    /\ UNCHANGED <<claim, byHand, Calls>>

\* lvremove, after the cleanup the object asks for.
AgentRemoves ==
    /\ Exists
    /\ llv.deleting
    /\ llv.fin = {AgentFinalizer}
    /\ llv' = Absent
    /\ UNCHANGED <<claim, byHand, Calls>>

Provisioner ==
    \/ CreateVolume \/ CreateLVMLogicalVolume \/ CreateAnswerLost
    \/ CreateGivesUp \/ VolumeCreated
    \/ DeleteVolume \/ FindLLV \/ UpdateCleanup \/ UpdateAnswerLost
    \/ removeLLVFinalizerIfExist \/ StripAnswerLost \/ StripConflict \/ Refetch
    \/ DeleteLLV \/ DeleteAnswerLost \/ ProvisionerFails

Resizer ==
    \/ ControllerExpandVolume \/ ExpandNotNeeded \/ ExpandNeeded
    \/ ExpandLVMLogicalVolume \/ ExpandAnswerLost \/ VolumeExpanded \/ ResizerFails

Agent == AgentAdopts \/ AgentProvisions \/ AgentFails \/ AgentRemoves

Next ==
    \/ Provisioner \/ Resizer \/ Agent
    \/ ReleaseClaim \/ DeleteByHand \/ CollectorUnblocks

Spec == Init /\ [][Next]_vars

-----------------------------------------------------------------------------
\* The state of the calls and of the object has its type; in particular
\* removeLLVFinalizerIfExist never makes more than Limit attempts.
TypeOK ==
    /\ llv \in Volume
    /\ lastUid \in 0 .. MaxUid
    /\ claim \in {"new", "bound", "released", "gone"}
    /\ rep \in [uid : Nat, req : Nat, cap : Nat]
    /\ byHand \in Nat
    /\ ppc \in {"idle", "create", "wait", "find", "update", "strip", "refetch", "delete"}
    /\ rpc \in {"idle", "get", "resize", "wait"}
    /\ plvg \in LVGs
    /\ psize \in Nat
    /\ purpose \in {"create", "delete"}
    /\ volumeCleanup \in BOOLEAN
    /\ pcopy \in Volume
    /\ attempt \in 0 .. Limit - 1
    /\ rsize \in Nat
    /\ rcopy \in Volume
    /\ rlvg \in LVGs

\* DeleteVolume has not answered unless what it deleted is gone, or is being
\* deleted and is held up by nothing of this module: the PersistentVolume, once
\* removed, leaves nothing behind that only the collector could find, whichever
\* writes of the resizer, the agent or an administrator came in between.
DeletedIsReleased ==
    claim = "gone" => ~ Exists \/ (llv.deleting /\ CSIFinalizer \notin llv.fin)

\* A volume that CreateVolume has answered for is there and is not being
\* deleted, until DeleteVolume is called or an administrator deletes it by hand:
\* no clean-up of an earlier, failed CreateVolume takes it down.
BoundIsLive ==
    claim = "bound" => \/ llv.uid = rep.uid /\ ~ llv.deleting
                       \/ byHand = rep.uid

\* The capacity that CreateVolume and ControllerExpandVolume answer with covers
\* the aligned request and is really there, retries and lost answers included.
CapacityHonest ==
    claim = "bound" => /\ rep.cap >= rep.req
                       /\ llv.uid = rep.uid => llv.actual >= rep.cap

(***************************************************************************)
(* Fairness.  The sidecar calls DeleteVolume until it succeeds (WF), a     *)
(* call that is made again and again is answered some time (SF), and the   *)
(* agent removes what nothing else holds.                                  *)
(***************************************************************************)
Fairness ==
    /\ WF_vars(DeleteVolume)
    /\ SF_vars(FindLLV)
    /\ SF_vars(UpdateCleanup)
    /\ SF_vars(removeLLVFinalizerIfExist)
    /\ SF_vars(DeleteLLV)
    /\ WF_vars(Provisioner)
    /\ WF_vars(Resizer /\ rpc # "idle")
    /\ WF_vars(AgentRemoves)

FairSpec == Spec /\ Fairness

\* The space of a released volume comes back, however often DeleteVolume fails
\* half way and is called again.
ReleasedIsReclaimed == claim = "released" ~> ~ Exists

\* docs/USAGE.md: with a volumeCleanup the volume is overwritten before it is
\* deleted.
CleanedBeforeRemoval ==
    [][Exists /\ llv'.uid # llv.uid /\ llv.phase = "Created" => llv.cleanup = Cleanup]_vars
=============================================================================
