------------------------ MODULE CSIController_proofs ------------------------
(***************************************************************************)
(* Proofs about module CSIController, for every set of volume groups, all  *)
(* extent sizes, binding modes, requests and bounds: types, and that the   *)
(* answers of CreateVolume, DeleteVolume and ControllerExpandVolume        *)
(* (driver/controller.go, pkg/utils/func.go) are true, whatever calls were *)
(* lost, failed or repeated before them, and whoever wrote meanwhile.      *)
(*                                                                         *)
(* The three properties are not inductive.  What they rest on: which state *)
(* of the claim goes with which place in the provisioner's call (CallInv); *)
(* that a copy the call holds still shows the finalizer as long as the     *)
(* object has it, so that not finding it there is a reason not to remove   *)
(* it (CopyInv); and that no second object takes the name of one that was  *)
(* answered for (BoundInv).                                                *)
(***************************************************************************)
EXTENDS CSIController, TLAPS

USE DEF callVars, resizeVars, Others, Provisioning, Calls

(* CreateVolume runs for a new claim, its clean-up too, and DeleteVolume   *)
(* for a released one.                                                     *)
CallInv ==
    /\ ppc \in {"create", "wait"} => claim = "new"
    /\ ppc \in {"find", "update", "strip", "refetch", "delete"} =>
          claim = IF purpose = "create" THEN "new" ELSE "released"

(* The copy that removeLLVFinalizerIfExist looks at may be stale, but not  *)
(* in this: nobody puts the finalizer back.                                *)
CopyInv ==
    /\ ppc \in {"update", "strip"} /\ CSIFinalizer \in llv.fin => CSIFinalizer \in pcopy.fin
    /\ ppc = "delete" => CSIFinalizer \notin llv.fin

(* What is true of a volume between the answer of CreateVolume and the     *)
(* release of its claim.                                                   *)
BoundInv ==
    claim = "bound" =>
        /\ rep.uid # 0
        /\ llv.uid \in {0, rep.uid}
        /\ BoundIsLive
        /\ CapacityHonest

(* The inductive invariant of the three RPCs.                              *)
CSIInv ==
    /\ TypeOK
    /\ CallInv
    /\ CopyInv
    /\ BoundInv
    /\ DeletedIsReleased

-----------------------------------------------------------------------------
(* Types.                                                                  *)

(* AlignSizeToExtent yields a multiple that is no smaller than the size.   *)
LEMMA AlignType ==
    ASSUME NEW s \in Nat, NEW e \in Nat \ {0}
    PROVE  AlignSizeToExtent(s, e) \in Nat /\ AlignSizeToExtent(s, e) >= s
  <1>1. (s + e - 1) \div e \in Nat
    OBVIOUS
  <1>2. ((s + e - 1) \div e) * e \in Nat
    BY <1>1
  <1>3. ((s + e - 1) \div e) * e >= s
    OBVIOUS
  <1> QED
    BY <1>2, <1>3 DEF AlignSizeToExtent

(* The same for the extent of a volume group, or the default while it is   *)
(* not published: alignToLVGExtentOrStatusErr never rounds down.           *)
LEMMA AlignedType ==
    ASSUME NEW s \in Nat, NEW l \in LVGs
    PROVE  alignToLVGExtentOrStatusErr(s, l) \in Nat /\ alignToLVGExtentOrStatusErr(s, l) >= s
  <1>1. SafeExtentSize(l) \in Nat \ {0}
    BY CSIAssumption DEF SafeExtentSize
  <1> QED
    BY <1>1, AlignType DEF alignToLVGExtentOrStatusErr

(* What a Get that finds nothing stands for: no object, no finalizer.      *)
LEMMA AbsentType == Absent \in Volume /\ Absent.uid = 0 /\ Absent.fin = {}
  BY CSIAssumption DEF Absent, Volume, Phases

(* The API server stores what it is sent, or, when the last finalizer of   *)
(* an object that is being deleted goes, nothing.                          *)
LEMMA StoredType ==
    ASSUME NEW r \in Volume
    PROVE  Stored(r) \in Volume /\ (Stored(r) = r \/ (Stored(r) = Absent /\ r.deleting))
  BY AbsentType DEF Stored

(* Before the first call everything has its type.                          *)
LEMMA TypeInit == Init => TypeOK
  <1> SUFFICES ASSUME Init PROVE TypeOK
    OBVIOUS
  <1>1. rep \in [uid : Nat, req : Nat, cap : Nat] /\ lastUid \in 0 .. MaxUid /\ attempt \in 0 .. Limit - 1
    BY CSIAssumption DEF Init
  <1> QED
    BY <1>1, AbsentType, CSIAssumption DEF Init, TypeOK

(* How a step may change the LVMLogicalVolume: the call that creates makes *)
(* it; it goes because it was being deleted, or the call that deletes or   *)
(* an administrator deletes it; otherwise it stays the same object, never  *)
(* shrinks, never gets the finalizer of this driver back, and is marked    *)
(* for deletion by those two only.                                         *)
LEMMA LLVEffect ==
    ASSUME TypeOK, [Next]_vars
    PROVE  /\ llv' \in Volume
           /\ \/ llv' = llv
              \/ ppc = "create" /\ llv.uid = 0 /\ llv' = GetLLVSpec(plvg, psize)
              \/ /\ llv' = Absent /\ llv.uid # 0
                 /\ llv.deleting \/ ppc = "delete" \/ byHand' = llv.uid
              \/ /\ llv.uid # 0 /\ llv'.uid = llv.uid
                 /\ llv'.actual >= llv.actual
                 /\ CSIFinalizer \in llv'.fin => CSIFinalizer \in llv.fin
                 /\ llv.deleting => llv'.deleting
                 /\ llv'.deleting = llv.deleting \/ ppc = "delete" \/ byHand' = llv.uid
  <1> DEFINE Same(r) ==
               /\ r.uid = llv.uid
               /\ r.actual >= llv.actual
               /\ CSIFinalizer \in r.fin => CSIFinalizer \in llv.fin
               /\ llv.deleting => r.deleting
               /\ r.deleting = llv.deleting \/ ppc = "delete" \/ byHand' = llv.uid
             Allowed ==
               \/ llv' = llv
               \/ ppc = "create" /\ llv.uid = 0 /\ llv' = GetLLVSpec(plvg, psize)
               \/ /\ llv' = Absent /\ llv.uid # 0
                  /\ llv.deleting \/ ppc = "delete" \/ byHand' = llv.uid
               \/ llv.uid # 0 /\ Same(llv')
  <1> SUFFICES llv' \in Volume /\ Allowed
    OBVIOUS
  <1>0. /\ llv \in Volume /\ pcopy \in Volume /\ rcopy \in Volume /\ llv.actual \in Nat /\ llv.size \in Nat
        /\ llv.lvg \in LVGs
    BY DEF TypeOK, Volume
  <1>00. volumeCleanup \in BOOLEAN /\ rsize \in Nat
    BY DEF TypeOK
  <1>1. ASSUME NEW r \in Volume, llv.uid # 0, Same(r), llv' = Stored(r) PROVE llv' \in Volume /\ Allowed
    BY <1>1, StoredType, AbsentType
  <1>2. CASE Created /\ ppc = "create"
    <2>1. lastUid + 1 \in Nat /\ plvg \in LVGs /\ psize \in Nat
      BY CSIAssumption DEF TypeOK
    <2>2. GetLLVSpec(plvg, psize) \in Volume
      BY <2>1, CSIAssumption DEF GetLLVSpec, Volume, Finalizers, Phases
    <2> QED
      BY <1>2, <2>2 DEF Created, Exists
  <1>3. CASE ppc = "update" /\ Update(pcopy, [pcopy EXCEPT !.cleanup = volumeCleanup])
    <2> DEFINE r == [pcopy EXCEPT !.cleanup = volumeCleanup]
    <2>1. llv = pcopy /\ llv.uid # 0 /\ llv' = Stored(r)
      BY <1>3 DEF Update, Exists
    <2>2. r \in Volume /\ Same(r)
      BY <1>0, <1>00, <2>1 DEF Volume
    <2> HIDE DEF r, Same, Allowed
    <2> QED
      BY <1>1, <2>1, <2>2
  <1>4. CASE ppc = "strip" /\ Update(pcopy, Stripped)
    <2> DEFINE r == [pcopy EXCEPT !.fin = @ \ {CSIFinalizer}]
    <2>1. llv = pcopy /\ llv.uid # 0 /\ llv' = Stored(r)
      BY <1>4 DEF Update, Exists, Stripped
    <2>2. r \in Volume /\ Same(r)
      BY <1>0, <2>1 DEF Volume
    <2> HIDE DEF r, Same, Allowed
    <2> QED
      BY <1>1, <2>1, <2>2
  <1>5. CASE Deleted /\ (ppc = "delete" \/ byHand' = llv.uid)
    <2> DEFINE r == [llv EXCEPT !.deleting = TRUE]
    <2>1. llv.uid # 0 /\ llv' = Stored(r)
      BY <1>5 DEF Deleted, Exists
    <2>2. r \in Volume /\ r.uid = llv.uid /\ r.actual = llv.actual /\ r.fin = llv.fin
      BY <1>0 DEF Volume
    <2>3. r.deleting
      BY <1>0 DEF Volume
    <2> HIDE DEF r
    <2>4. Same(r)
      <3>1. r.actual >= llv.actual
        BY <1>0, <2>2
      <3> QED
        BY <1>5, <2>2, <2>3, <3>1, Zenon
    <2> HIDE DEF Same, Allowed
    <2> QED
      BY <1>1, <2>1, <2>2, <2>4
  <1>6. CASE rpc = "resize" /\ Update(rcopy, [rcopy EXCEPT !.size = rsize])
    <2> DEFINE r == [rcopy EXCEPT !.size = rsize]
    <2>1. llv = rcopy /\ llv.uid # 0 /\ llv' = Stored(r)
      BY <1>6 DEF Update, Exists
    <2>2. r \in Volume /\ Same(r)
      BY <1>0, <1>00, <2>1 DEF Volume
    <2> HIDE DEF r, Same, Allowed
    <2> QED
      BY <1>1, <2>1, <2>2
  <1>7. CASE CollectorUnblocks
    <2> DEFINE r == [llv EXCEPT !.fin = @ \ {CSIFinalizer}]
    <2>1. llv.uid # 0 /\ llv' = Stored(r)
      BY <1>7 DEF CollectorUnblocks, Exists
    <2>2. r \in Volume /\ Same(r)
      BY <1>0 DEF Volume
    <2> HIDE DEF r, Same, Allowed
    <2> QED
      BY <1>1, <2>1, <2>2
  <1>8. CASE AgentAdopts
    <2>1. CSIFinalizer # AgentFinalizer /\ AgentFinalizer \in Finalizers
      BY DEF CSIFinalizer, AgentFinalizer, Finalizers
    <2> QED
      BY <1>0, <1>8, <2>1 DEF AgentAdopts, Volume, Exists
  <1>9. CASE AgentProvisions
    <2> DEFINE needed == AlignSizeToExtent(llv.size, Extent[llv.lvg])
    <2>1. needed \in Nat
      BY <1>0, AlignType, CSIAssumption
    <2>2. /\ llv' = [llv EXCEPT !.phase = "Created", !.actual = IF @ < needed THEN needed ELSE @]
          /\ llv.uid # 0
      BY <1>9 DEF AgentProvisions, Exists
    <2> HIDE DEF needed
    <2> DEFINE a == IF llv.actual < needed THEN needed ELSE llv.actual
    <2>3. a \in Nat /\ a >= llv.actual
      BY <1>0, <2>1
    <2>4. llv' = [llv EXCEPT !.phase = "Created", !.actual = a]
      BY <1>0, <2>2 DEF Volume
    <2> HIDE DEF a
    <2>5. llv' \in Volume /\ llv'.actual = a /\ llv'.uid = llv.uid /\ llv'.fin = llv.fin
      BY <1>0, <2>3, <2>4 DEF Volume, Phases
    <2>6. llv'.deleting = llv.deleting
      BY <1>0, <2>4 DEF Volume
    <2> QED
      BY <2>2, <2>3, <2>5, <2>6
  <1>10. CASE AgentFails
    <2>1. llv' = [llv EXCEPT !.phase = "Failed"] /\ llv.uid # 0
      BY <1>10 DEF AgentFails, Exists
    <2>2. llv' \in Volume /\ llv'.actual = llv.actual /\ llv'.uid = llv.uid /\ llv'.fin = llv.fin
      BY <1>0, <2>1 DEF Volume, Phases
    <2>3. llv'.deleting = llv.deleting
      BY <1>0, <2>1 DEF Volume
    <2> QED
      BY <1>0, <2>1, <2>2, <2>3
  <1>11. CASE AgentRemoves
    BY <1>11, AbsentType DEF AgentRemoves, Exists
  <1>12. CASE llv' = llv
    BY <1>0, <1>12
  <1>13. CASE Provisioner
    <2>1. \/ Created /\ ppc = "create"
          \/ ppc = "update" /\ Update(pcopy, [pcopy EXCEPT !.cleanup = volumeCleanup])
          \/ ppc = "strip" /\ Update(pcopy, Stripped)
          \/ Deleted /\ ppc = "delete"
          \/ llv' = llv
      BY <1>13 DEF Provisioner, CreateVolume, CreateLVMLogicalVolume, CreateAnswerLost,
            CreateGivesUp, VolumeCreated, DeleteVolume, FindLLV, UpdateCleanup, UpdateAnswerLost,
            removeLLVFinalizerIfExist, StripAnswerLost, StripConflict, Refetch, DeleteLLV,
            DeleteAnswerLost, ProvisionerFails
    <2> HIDE DEF Allowed
    <2> QED
      BY <1>2, <1>3, <1>4, <1>5, <1>12, <2>1
  <1>14. CASE Resizer
    <2>1. llv' = llv \/ (rpc = "resize" /\ Update(rcopy, [rcopy EXCEPT !.size = rsize]))
      BY <1>14 DEF Resizer, ControllerExpandVolume, ExpandNotNeeded, ExpandNeeded,
            ExpandLVMLogicalVolume, ExpandAnswerLost, VolumeExpanded, ResizerFails
    <2> HIDE DEF Allowed
    <2> QED
      BY <1>6, <1>12, <2>1
  <1>15. CASE ReleaseClaim \/ UNCHANGED vars
    BY <1>12, <1>15 DEF ReleaseClaim, vars
  <1>16. CASE DeleteByHand
    BY <1>5, <1>16 DEF DeleteByHand
  <1> HIDE DEF Allowed
  <1> QED
    BY <1>7, <1>8, <1>9, <1>10, <1>11, <1>13, <1>14, <1>15, <1>16 DEF Next, Agent

(* What a call of the provisioner holds has its type, whatever it does,    *)
(* and Return leaves nothing behind; removeLLVFinalizerIfExist counts its  *)
(* attempts up to the limit.                                               *)
LEMMA CallTypeStep ==
    ASSUME TypeOK, llv' \in Volume, Provisioner
    PROVE  /\ lastUid' \in 0 .. MaxUid
           /\ claim' \in {"new", "bound", "released", "gone"}
           /\ rep' \in [uid : Nat, req : Nat, cap : Nat]
           /\ ppc' \in {"idle", "create", "wait", "find", "update", "strip", "refetch", "delete"}
           /\ plvg' \in LVGs
           /\ psize' \in Nat
           /\ purpose' \in {"create", "delete"}
           /\ volumeCleanup' \in BOOLEAN
           /\ pcopy' \in Volume
           /\ attempt' \in 0 .. Limit - 1
           /\ UNCHANGED Others
  <1>0. /\ lastUid \in 0 .. MaxUid
        /\ claim \in {"new", "bound", "released", "gone"}
        /\ rep \in [uid : Nat, req : Nat, cap : Nat]
        /\ plvg \in LVGs
        /\ psize \in Nat
        /\ purpose \in {"create", "delete"}
        /\ volumeCleanup \in BOOLEAN
        /\ pcopy \in Volume
        /\ attempt \in 0 .. Limit - 1
        /\ llv.uid \in Nat /\ llv.actual \in Nat
        /\ llv \in Volume
    BY DEF TypeOK, Volume
  <1>00. MaxUid \in Nat /\ Limit \in Nat \ {0} /\ Cleanup \in BOOLEAN /\ Preferred \in LVGs /\ Request \in Nat
    BY CSIAssumption
  <1>1. ASSUME Return
        PROVE  /\ ppc' \in {"idle", "create", "wait", "find", "update", "strip", "refetch", "delete"}
               /\ plvg' \in LVGs
               /\ psize' \in Nat
               /\ purpose' \in {"create", "delete"}
               /\ volumeCleanup' \in BOOLEAN
               /\ pcopy' \in Volume
               /\ attempt' \in 0 .. Limit - 1
    <2>1. volumeCleanup' \in BOOLEAN
      BY <1>1, Zenon DEF Return
    <2>2. attempt' \in 0 .. Limit - 1 /\ psize' \in Nat
      BY <1>00, <1>1 DEF Return
    <2> QED
      BY <1>00, <1>1, <2>1, <2>2, AbsentType, Zenon DEF Return
  <1>2. ASSUME Created PROVE lastUid' \in 0 .. MaxUid
    BY <1>0, <1>00, <1>2 DEF Created
  <1>3. CASE CreateVolume
    <2>1. PICK free \in [LVGs -> 0 .. MaxFree] : \E l \in selectable(free) :
             plvg' = l /\ psize' = alignToLVGExtentOrStatusErr(Request, l)
      BY <1>3 DEF CreateVolume
    <2>2. selectable(free) \subseteq LVGs
      BY <1>00 DEF selectable, GetNodeWithMaxFreeSpace
    <2>3. plvg' \in LVGs /\ psize' \in Nat
      BY <1>00, <2>1, <2>2, AlignedType
    <2> QED
      BY <1>0, <1>3, <2>3 DEF CreateVolume
  <1>4. CASE CreateLVMLogicalVolume
    BY <1>0, <1>2, <1>4 DEF CreateLVMLogicalVolume
  <1>5. CASE CreateAnswerLost
    BY <1>0, <1>1, <1>2, <1>5 DEF CreateAnswerLost, ReturnError
  <1>6. CASE CreateGivesUp
    BY <1>0, <1>00, <1>6 DEF CreateGivesUp
  <1>7. CASE VolumeCreated
    <2>1. rep' \in [uid : Nat, req : Nat, cap : Nat]
      BY <1>0, <1>7 DEF VolumeCreated
    <2> QED
      BY <1>0, <1>1, <1>7, <2>1 DEF VolumeCreated
  <1>8. CASE DeleteVolume
    BY <1>0, <1>00, <1>8 DEF DeleteVolume
  <1>9. CASE FindLLV \/ Refetch
    BY <1>0, <1>9 DEF FindLLV, Refetch
  <1>10. CASE UpdateCleanup
    BY <1>0, <1>10 DEF UpdateCleanup
  <1>11. CASE UpdateAnswerLost \/ StripAnswerLost \/ DeleteAnswerLost \/ ProvisionerFails
    BY <1>0, <1>1, <1>11
       DEF UpdateAnswerLost, StripAnswerLost, DeleteAnswerLost, ProvisionerFails, ReturnError
  <1>12. CASE removeLLVFinalizerIfExist
    BY <1>0, <1>12 DEF removeLLVFinalizerIfExist
  <1>13. CASE StripConflict
    BY <1>0, <1>00, <1>13 DEF StripConflict
  <1>14. CASE DeleteLLV
    BY <1>0, <1>1, <1>14 DEF DeleteLLV
  <1> QED
    BY <1>3, <1>4, <1>5, <1>6, <1>7, <1>8, <1>9, <1>10, <1>11, <1>12, <1>13, <1>14 DEF Provisioner

(* The same for ControllerExpandVolume.                                    *)
LEMMA ResizeTypeStep ==
    ASSUME TypeOK, Resizer
    PROVE  /\ rep' \in [uid : Nat, req : Nat, cap : Nat]
           /\ rpc' \in {"idle", "get", "resize", "wait"}
           /\ rsize' \in Nat
           /\ rcopy' \in Volume
           /\ rlvg' \in LVGs
           /\ UNCHANGED Provisioning
  <1>0. /\ rep \in [uid : Nat, req : Nat, cap : Nat]
        /\ rsize \in Nat
        /\ rcopy \in Volume
        /\ rlvg \in LVGs
        /\ llv.uid \in Nat /\ llv.actual \in Nat /\ llv.lvg \in LVGs
        /\ llv \in Volume
    BY DEF TypeOK, Volume
  <1>00. Preferred \in LVGs /\ Requests \subseteq Nat
    BY CSIAssumption
  <1>1. ASSUME EndResize
        PROVE  rpc' \in {"idle", "get", "resize", "wait"} /\ rsize' \in Nat /\ rcopy' \in Volume /\ rlvg' \in LVGs
    BY <1>00, <1>1, AbsentType DEF EndResize
  <1>2. ASSUME NEW l \in LVGs, Answer(l) PROVE rep' \in [uid : Nat, req : Nat, cap : Nat]
    <2>1. alignToLVGExtentOrStatusErr(rsize, l) \in Nat
      BY <1>0, AlignedType
    <2> QED
      BY <1>0, <1>2, <2>1 DEF Answer
  <1>3. CASE ControllerExpandVolume
    BY <1>0, <1>00, <1>3 DEF ControllerExpandVolume
  <1>4. CASE ExpandNotNeeded
    BY <1>0, <1>1, <1>2, <1>4 DEF ExpandNotNeeded
  <1>5. CASE ExpandNeeded
    BY <1>0, <1>5 DEF ExpandNeeded
  <1>6. CASE ExpandLVMLogicalVolume
    BY <1>0, <1>6 DEF ExpandLVMLogicalVolume
  <1>7. CASE ExpandAnswerLost \/ ResizerFails
    BY <1>0, <1>1, <1>7 DEF ExpandAnswerLost, ResizerFails
  <1>8. CASE VolumeExpanded
    BY <1>0, <1>1, <1>2, <1>8 DEF VolumeExpanded
  <1> QED
    BY <1>3, <1>4, <1>5, <1>6, <1>7, <1>8 DEF Resizer

(* Every step keeps the types.                                             *)
LEMMA TypeStep == TypeOK /\ [Next]_vars => TypeOK'
  <1> SUFFICES ASSUME TypeOK, [Next]_vars PROVE TypeOK'
    OBVIOUS
  <1>1. llv' \in Volume
    BY LLVEffect
  <1>2. CASE Provisioner
    <2>1. UNCHANGED Others
      BY <1>1, <1>2, CallTypeStep
    <2> QED
      BY <1>1, <1>2, <2>1, CallTypeStep DEF TypeOK
  <1>3. CASE Resizer
    <2>1. UNCHANGED Provisioning
      BY <1>3, ResizeTypeStep
    <2> QED
      BY <1>1, <1>3, <2>1, ResizeTypeStep DEF TypeOK
  <1>4. CASE Agent \/ CollectorUnblocks
    <2>1. UNCHANGED <<claim, byHand, Calls>>
      BY <1>4 DEF Agent, AgentAdopts, AgentProvisions, AgentFails, AgentRemoves, CollectorUnblocks
    <2> QED
      BY <1>1, <2>1 DEF TypeOK
  <1>5. CASE ReleaseClaim
    BY <1>1, <1>5 DEF ReleaseClaim, TypeOK
  <1>6. CASE DeleteByHand
    <2>1. llv.uid \in Nat
      BY DEF TypeOK, Volume
    <2> QED
      BY <1>1, <1>6, <2>1 DEF DeleteByHand, TypeOK
  <1>7. CASE UNCHANGED vars
    BY <1>7 DEF vars, TypeOK
  <1> QED
    BY <1>2, <1>3, <1>4, <1>5, <1>6, <1>7 DEF Next

(* The variables of every call and of the object have their types, and     *)
(* removeLLVFinalizerIfExist makes no more than KubernetesAPIRequestLimit  *)
(* attempts, for every limit.                                              *)
THEOREM TypeCorrect == Spec => []TypeOK
  BY TypeInit, TypeStep, PTL DEF Spec

-----------------------------------------------------------------------------
(* The answers.                                                            *)

(* Nobody puts the driver's finalizer back on an object that has lost it;  *)
(* only CreateLVMLogicalVolume sets it.                                    *)
LEMMA FinalizerGoes ==
    ASSUME TypeOK, [Next]_vars, ppc # "create", CSIFinalizer \in llv'.fin
    PROVE  CSIFinalizer \in llv.fin
  BY LLVEffect, AbsentType

(* The claim moves only when CreateVolume or DeleteVolume answers, or its  *)
(* user gives it up; outside the provisioner its call does not move.       *)
LEMMA ClaimEffect ==
    ASSUME [Next]_vars
    PROVE  /\ \/ claim' = claim
              \/ VolumeCreated
              \/ DeleteLLV /\ purpose = "delete"
              \/ ReleaseClaim
           /\ Provisioner \/ UNCHANGED <<ppc, callVars>>
  <1>1. CASE Provisioner
    BY <1>1 DEF Provisioner, CreateVolume, CreateLVMLogicalVolume, CreateAnswerLost,
          CreateGivesUp, DeleteVolume, FindLLV, UpdateCleanup, UpdateAnswerLost,
          removeLLVFinalizerIfExist, StripAnswerLost, StripConflict, Refetch, DeleteLLV,
          DeleteAnswerLost, ProvisionerFails, ReturnError
  <1>2. CASE Resizer
    BY <1>2 DEF Resizer, ControllerExpandVolume, ExpandNotNeeded, ExpandNeeded,
          ExpandLVMLogicalVolume, ExpandAnswerLost, VolumeExpanded, ResizerFails
  <1>3. CASE Agent \/ CollectorUnblocks \/ DeleteByHand \/ ReleaseClaim
    BY <1>3 DEF Agent, AgentAdopts, AgentProvisions, AgentFails, AgentRemoves, CollectorUnblocks,
          DeleteByHand, ReleaseClaim
  <1>4. CASE UNCHANGED vars
    BY <1>4 DEF vars
  <1> QED
    BY <1>1, <1>2, <1>3, <1>4 DEF Next

(* A call runs for the claim it was made for: the sidecar starts no other  *)
(* while one runs, and the claim of a CreateVolume that gave up stays new  *)
(* while its clean-up runs.                                                *)
LEMMA CallStep == TypeOK /\ CallInv /\ [Next]_vars => CallInv'
  <1> SUFFICES ASSUME TypeOK, CallInv, [Next]_vars PROVE CallInv'
    OBVIOUS
  <1>1. CASE Provisioner
    <2>1. CASE ppc' = "idle"
      BY <2>1 DEF CallInv
    <2>2. CASE CreateVolume \/ CreateLVMLogicalVolume \/ CreateGivesUp
      BY <2>2 DEF CreateVolume, CreateLVMLogicalVolume, CreateGivesUp, CallInv
    <2>3. CASE DeleteVolume
      BY <2>3 DEF DeleteVolume, CallInv
    <2>4. CASE FindLLV \/ UpdateCleanup \/ removeLLVFinalizerIfExist \/ StripConflict \/ Refetch
      BY <2>4 DEF FindLLV, UpdateCleanup, removeLLVFinalizerIfExist, StripConflict, Refetch, CallInv
    <2> QED
      BY <1>1, <2>1, <2>2, <2>3, <2>4 DEF Provisioner, CreateAnswerLost, VolumeCreated,
         UpdateAnswerLost, StripAnswerLost, DeleteLLV, DeleteAnswerLost, ProvisionerFails,
         ReturnError, Return
  <1>2. CASE UNCHANGED <<ppc, callVars>> /\ ~ Provisioner
    <2>1. claim' = claim \/ ReleaseClaim
      BY <1>2, ClaimEffect DEF Provisioner
    <2>2. CASE claim' = claim
      BY <1>2, <2>2 DEF CallInv
    <2>3. CASE ReleaseClaim
      <3>1. ppc = "idle"
        BY <2>3 DEF ReleaseClaim, CallInv, TypeOK
      <3> QED
        BY <1>2, <3>1 DEF CallInv
    <2> QED
      BY <2>1, <2>2, <2>3
  <1> QED
    BY <1>1, <1>2, ClaimEffect

(* FindLLV, the refetch and the answers of Update keep the copy as good as *)
(* the object as far as the finalizer goes; when the call comes to Delete, *)
(* it has taken the finalizer off or seen that it was gone for good.       *)
LEMMA CopyStep == TypeOK /\ CopyInv /\ [Next]_vars => CopyInv'
  <1> SUFFICES ASSUME TypeOK, CopyInv, [Next]_vars PROVE CopyInv'
    OBVIOUS
  <1>0. pcopy \in Volume
    BY DEF TypeOK
  <1>1. CASE Provisioner
    <2>1. CASE ppc' \notin {"update", "strip", "delete"}
      BY <2>1 DEF CopyInv
    <2>2. CASE FindLLV \/ Refetch
      BY <2>2 DEF FindLLV, Refetch, CopyInv
    <2>3. CASE UpdateCleanup
      BY <2>3 DEF UpdateCleanup, CopyInv
    <2>4. CASE removeLLVFinalizerIfExist
      <3>1. CSIFinalizer \notin llv'.fin
        <4>1. CASE CSIFinalizer \in pcopy.fin /\ llv' = Stored(Stripped)
          <5>1. Stripped \in Volume /\ Stripped.fin = pcopy.fin \ {CSIFinalizer}
            BY <1>0 DEF Stripped, Volume
          <5> QED
            BY <4>1, <5>1, StoredType, AbsentType
        <4>2. CASE CSIFinalizer \notin pcopy.fin /\ llv' = llv
          BY <2>4, <4>2 DEF CopyInv, removeLLVFinalizerIfExist
        <4> QED
          BY <2>4, <4>1, <4>2 DEF removeLLVFinalizerIfExist, Update
      <3> QED
        BY <2>4, <3>1 DEF removeLLVFinalizerIfExist, CopyInv
    <2> QED
      BY <1>1, <2>1, <2>2, <2>3, <2>4 DEF Provisioner, CreateVolume, CreateLVMLogicalVolume,
         CreateAnswerLost, CreateGivesUp, VolumeCreated, DeleteVolume, StripConflict,
         UpdateAnswerLost, StripAnswerLost, DeleteLLV, DeleteAnswerLost, ProvisionerFails,
         ReturnError, Return
  <1>2. CASE UNCHANGED <<ppc, callVars>>
    <2>1. ppc # "create" => (CSIFinalizer \in llv'.fin => CSIFinalizer \in llv.fin)
      BY FinalizerGoes
    <2> QED
      BY <1>2, <2>1 DEF CopyInv
  <1> QED
    BY <1>1, <1>2, ClaimEffect

(* Who answers: CreateVolume for a claim that is new, or the resizer for   *)
(* one that is bound, after it has seen the object and its size.           *)
LEMMA AnswerEffect ==
    ASSUME TypeOK, [Next]_vars
    PROVE  /\ \/ rep' = rep
              \/ VolumeCreated
              \/ /\ claim = "bound" /\ llv.uid # 0 /\ llv' = llv
                 /\ rep'.uid = llv.uid
                 /\ rep'.cap = llv.actual
                 /\ rep'.cap >= rep'.req
           /\ byHand' = byHand \/ (byHand' = llv.uid /\ llv.uid # 0)
  <1>1. CASE Provisioner
    BY <1>1 DEF Provisioner, CreateVolume, CreateLVMLogicalVolume, CreateAnswerLost,
          CreateGivesUp, VolumeCreated, DeleteVolume, FindLLV, UpdateCleanup, UpdateAnswerLost,
          removeLLVFinalizerIfExist, StripAnswerLost, StripConflict, Refetch, DeleteLLV,
          DeleteAnswerLost, ProvisionerFails, ReturnError
  <1>2. CASE Resizer
    <2>1. byHand' = byHand
      BY <1>2, ResizeTypeStep
    <2>2. ASSUME NEW l \in LVGs, Answer(l), claim = "bound", llv' = llv, llv.uid # 0,
                 llv.actual >= alignToLVGExtentOrStatusErr(rsize, l)
          PROVE  /\ rep'.uid = llv.uid
                 /\ rep'.cap = llv.actual
                 /\ rep'.cap >= rep'.req
      BY <2>2 DEF Answer
    <2>3. llv.lvg \in LVGs /\ rlvg \in LVGs
      BY DEF TypeOK, Volume
    <2>4. CASE ExpandNotNeeded
      <3>1. rep' = rep \/ claim = "bound"
        BY <2>4 DEF ExpandNotNeeded, Answer
      <3> QED
        BY <2>1, <2>2, <2>3, <2>4, <3>1 DEF ExpandNotNeeded, Exists, largeEnough
    <2>5. CASE VolumeExpanded
      <3>1. rep' = rep \/ claim = "bound"
        BY <2>5 DEF VolumeExpanded, Answer
      <3> QED
        BY <2>1, <2>2, <2>3, <2>5, <3>1 DEF VolumeExpanded, Exists, WaitSucceeds, WaitFails
    <2> QED
      BY <1>2, <2>1, <2>4, <2>5 DEF Resizer, ControllerExpandVolume, ExpandNeeded,
            ExpandLVMLogicalVolume, ExpandAnswerLost, ResizerFails
  <1>3. CASE Agent \/ CollectorUnblocks \/ ReleaseClaim
    BY <1>3 DEF Agent, AgentAdopts, AgentProvisions, AgentFails, AgentRemoves, CollectorUnblocks,
          ReleaseClaim
  <1>4. CASE DeleteByHand
    BY <1>4 DEF DeleteByHand, Exists
  <1>5. CASE UNCHANGED vars
    BY <1>5 DEF vars
  <1> QED
    BY <1>1, <1>2, <1>3, <1>4, <1>5 DEF Next

(* CreateVolume answers for an object that it has polled, which has at     *)
(* least the size it asked for and is not being deleted.                   *)
LEMMA CreatedIsLive ==
    ASSUME TypeOK, VolumeCreated
    PROVE  /\ llv' = llv /\ llv.uid # 0 /\ ~ llv.deleting
           /\ rep'.uid = llv.uid /\ rep'.cap = llv.actual /\ rep'.cap >= rep'.req
           /\ llv'.actual >= rep'.cap
  <1>1. psize \in Nat /\ plvg \in LVGs /\ llv.actual \in Nat
    BY DEF TypeOK, Volume
  <1>2. alignToLVGExtentOrStatusErr(psize, plvg) \in Nat /\ alignToLVGExtentOrStatusErr(psize, plvg) >= psize
    BY <1>1, AlignedType
  <1>3. /\ llv' = llv /\ llv.uid # 0 /\ ~ llv.deleting
        /\ llv.actual >= alignToLVGExtentOrStatusErr(psize, plvg)
        /\ rep' = [uid |-> llv.uid, req |-> psize, cap |-> llv.actual]
    BY DEF VolumeCreated, WaitSucceeds, WaitFails, Exists
  <1> QED
    BY <1>1, <1>2, <1>3

(* From the answer to the release: while the claim is bound the            *)
(* provisioner is idle, so nobody deletes the object but an administrator, *)
(* and nobody makes a second one; the resizer answers for the same object, *)
(* and the agent never makes it smaller.                                   *)
LEMMA BoundStep == TypeOK /\ CallInv /\ BoundInv /\ [Next]_vars => BoundInv'
  <1> SUFFICES ASSUME TypeOK, CallInv, BoundInv, [Next]_vars, claim' = "bound" PROVE BoundInv'
    BY DEF BoundInv
  <1> DEFINE B == /\ rep'.uid # 0
                  /\ llv'.uid \in {0, rep'.uid}
                  /\ (llv'.uid = rep'.uid /\ ~ llv'.deleting) \/ byHand' = rep'.uid
                  /\ rep'.cap >= rep'.req
                  /\ llv'.uid = rep'.uid => llv'.actual >= rep'.cap
  <1> SUFFICES B
    BY DEF BoundInv, BoundIsLive, CapacityHonest
  <1>1. CASE VolumeCreated
    BY <1>1, CreatedIsLive
  <1>2. CASE ~ VolumeCreated
    <2>1. claim = "bound"
      BY <1>2, ClaimEffect DEF DeleteLLV, ReleaseClaim
    <2>2. ppc = "idle"
      BY <2>1 DEF CallInv, TypeOK
    <2>3. /\ rep.uid # 0
          /\ llv.uid \in {0, rep.uid}
          /\ (llv.uid = rep.uid /\ ~ llv.deleting) \/ byHand = rep.uid
          /\ rep.cap >= rep.req
          /\ llv.uid = rep.uid => llv.actual >= rep.cap
      BY <2>1 DEF BoundInv, BoundIsLive, CapacityHonest
    <2>4. /\ llv.uid \in Nat /\ llv.actual \in Nat /\ rep.uid \in Nat /\ rep.cap \in Nat /\ rep.req \in Nat
          /\ llv.deleting \in BOOLEAN
      BY DEF TypeOK, Volume
    <2>5. llv'.actual \in Nat /\ llv'.deleting \in BOOLEAN
      BY LLVEffect DEF Volume
    <2>6. CASE rep' = rep
      <3>1. CASE llv' = llv
        BY <2>3, <2>4, <2>6, <3>1, AnswerEffect
      <3>2. CASE llv' = Absent /\ llv.uid # 0 /\ (llv.deleting \/ byHand' = llv.uid)
        BY <2>3, <2>4, <2>6, <3>2, AbsentType, AnswerEffect
      <3>3. CASE /\ llv.uid # 0 /\ llv'.uid = llv.uid /\ llv'.actual >= llv.actual
                 /\ llv'.deleting = llv.deleting \/ byHand' = llv.uid
        <4>1. llv'.actual >= rep'.cap
          BY <2>3, <2>4, <2>5, <2>6, <3>3
        <4>2. (llv'.uid = rep'.uid /\ ~ llv'.deleting) \/ byHand' = rep'.uid
          BY <2>3, <2>6, <3>3, AnswerEffect
        <4> QED
          BY <2>3, <2>6, <3>3, <4>1, <4>2
      <3> QED
        BY <2>2, <3>1, <3>2, <3>3, LLVEffect
    <2>7. CASE /\ llv.uid # 0 /\ llv' = llv
               /\ rep'.uid = llv.uid
               /\ rep'.cap = llv.actual
               /\ rep'.cap >= rep'.req
      BY <2>3, <2>4, <2>7, AnswerEffect
    <2> QED
      BY <1>2, <2>6, <2>7, AnswerEffect
  <1> QED
    BY <1>1, <1>2

(* After DeleteVolume has answered: the object was marked for deletion     *)
(* without the driver's finalizer, and neither is undone.                  *)
LEMMA DeletedStep ==
    TypeOK /\ CallInv /\ CopyInv /\ DeletedIsReleased /\ [Next]_vars => DeletedIsReleased'
  <1> SUFFICES ASSUME TypeOK, CallInv, CopyInv, DeletedIsReleased, [Next]_vars, claim' = "gone",
                      llv'.uid # 0
               PROVE  llv'.deleting /\ CSIFinalizer \notin llv'.fin
    BY DEF DeletedIsReleased, Exists
  <1>1. CASE DeleteLLV
    <2> DEFINE r == [llv EXCEPT !.deleting = TRUE]
    <2>1. llv' = Stored(r)
      BY <1>1 DEF DeleteLLV, Deleted
    <2>2. llv \in Volume
      BY DEF TypeOK
    <2>3. r \in Volume /\ r.fin = llv.fin
      BY <2>2 DEF Volume
    <2>4. r.deleting
      BY <2>2 DEF Volume
    <2>5. CSIFinalizer \notin llv.fin
      BY <1>1 DEF DeleteLLV, CopyInv
    <2> HIDE DEF r
    <2> QED
      BY <2>1, <2>3, <2>4, <2>5, StoredType, AbsentType
  <1>2. CASE ~ DeleteLLV
    <2>1. claim = "gone"
      BY <1>2, ClaimEffect DEF VolumeCreated, ReleaseClaim
    <2>2. ppc = "idle"
      BY <2>1 DEF CallInv, TypeOK
    <2>3. llv.uid # 0 => llv.deleting /\ CSIFinalizer \notin llv.fin
      BY <2>1 DEF DeletedIsReleased, Exists
    <2> QED
      BY <2>2, <2>3, LLVEffect, AbsentType
  <1> QED
    BY <1>1, <1>2

(* Before CreateVolume is called for the claim.                            *)
LEMMA CSIInvInit == Init => CSIInv
  BY TypeInit, AbsentType
     DEF Init, CSIInv, CallInv, CopyInv, BoundInv, DeletedIsReleased

(* Every API call of the RPCs and every write of the others keeps CSIInv.  *)
LEMMA CSIInvStep == CSIInv /\ [Next]_vars => CSIInv'
  BY TypeStep, CallStep, CopyStep, BoundStep, DeletedStep DEF CSIInv

(* CSIInv holds in every reachable state.                                  *)
THEOREM CSIInvariant == Spec => []CSIInv
  BY CSIInvInit, CSIInvStep, PTL DEF Spec

(* DeleteVolume does not answer unless the object is gone, or is being     *)
(* deleted and held up by nothing of this module.                          *)
THEOREM DeleteAnswerHolds == Spec => []DeletedIsReleased
  <1>1. CSIInv => DeletedIsReleased
    BY DEF CSIInv
  <1> QED
    BY <1>1, CSIInvariant, PTL

(* No clean-up of a CreateVolume that failed takes down the volume that a  *)
(* later one has answered for: it is there, and not being deleted, until   *)
(* its claim is released or an administrator deletes it.                   *)
THEOREM CreateAnswerHolds == Spec => []BoundIsLive
  <1>1. CSIInv => BoundIsLive
    BY DEF CSIInv, BoundInv, BoundIsLive
  <1> QED
    BY <1>1, CSIInvariant, PTL

(* The capacity that CreateVolume and ControllerExpandVolume answer with   *)
(* covers the aligned request and is there on the node.                    *)
THEOREM CapacityIsHonest == Spec => []CapacityHonest
  <1>1. CSIInv => CapacityHonest
    BY DEF CSIInv, BoundInv, CapacityHonest
  <1> QED
    BY <1>1, CSIInvariant, PTL
=============================================================================
