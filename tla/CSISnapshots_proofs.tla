------------------------ MODULE CSISnapshots_proofs ------------------------
(***************************************************************************)
(* Proofs about module CSISnapshots, for every extent size, every set of   *)
(* requests and every bound: types, and that CreateSnapshot and            *)
(* CreateVolume (driver/controller_snapshots_ee.go, driver/controller.go)  *)
(* never answer for something that is not there, not taken, not of the     *)
(* size they say, or empty.                                                *)
(*                                                                         *)
(* The three properties are not inductive.  They rest on where the one     *)
(* call of the snapshotter may be while its content has a given state      *)
(* (CallInv), on what is known of the object while it is reported as ready *)
(* (ReadyInv) and while it is made (SizeInv), and on what a volume in the  *)
(* making may look like (VolInv).                                          *)
(***************************************************************************)
EXTENDS CSISnapshots, TLAPS

USE DEF callVars, snapVars, volVars, Others, SnapCall

(* A CreateSnapshot that has not given up is for a content that is still   *)
(* wanted, and no call runs for one that is ready: the snapshotter calls   *)
(* DeleteSnapshot only once it does not want it any more.                  *)
CallInv ==
    /\ spc \in {"create", "wait"} => content = "wanted"
    /\ content = "ready" => spc = "idle"

(* While a snapshot is reported as ready no other one takes its name, and  *)
(* the one that was reported has been taken.                               *)
ReadyInv ==
    content = "ready" =>
        /\ rep.uid # 0
        /\ snap.uid \in {0, rep.uid}
        /\ snap.uid = rep.uid => snap.phase = "Created"
        /\ ReadyIsLive

(* Unless the source has grown meanwhile, the size that CreateSnapshot     *)
(* read, the one the snapshot was taken with and the one the source has    *)
(* are the same, whichever of its calls has read it.                       *)
SizeInv ==
    ~ grown =>
        /\ spc \in {"create", "wait"} => ssize = src.actual
        /\ content = "wanted" /\ Exists /\ snap.phase = "Created" => snap.size = src.actual
        /\ ReportedSize

(* A volume is made from a source only if it is thin, such a one holds the *)
(* data of the source once it is made, and CreateVolume does not run any   *)
(* more when it has answered.                                              *)
VolInv ==
    /\ vol.type = "Thin"
    /\ vnew.type = "Thin" /\ vnew.phase = ""
    /\ vol.phase = "Created" => vol.data
    /\ bound => vpc = "idle" /\ vol.there /\ vol.phase = "Created"

(* The inductive invariant.                                                *)
SnapInv ==
    /\ TypeOK
    /\ CallInv
    /\ ReadyInv
    /\ SizeInv
    /\ VolInv

-----------------------------------------------------------------------------
(* Types.                                                                  *)

(* AlignSizeToExtent yields a size, and never less than was asked for.     *)
LEMMA AlignType ==
    ASSUME NEW s \in Nat
    PROVE  AlignSizeToExtent(s) \in Nat /\ AlignSizeToExtent(s) >= s
  <1>1. Extent \in Nat \ {0}
    BY SnapshotAssumption
  <1>2. (s + Extent - 1) \div Extent \in Nat
    BY <1>1
  <1>3. ((s + Extent - 1) \div Extent) * Extent \in Nat
    BY <1>1, <1>2
  <1>4. ((s + Extent - 1) \div Extent) * Extent >= s
    BY <1>1
  <1> QED
    BY <1>3, <1>4 DEF AlignSizeToExtent

(* The API server stores what it is sent, or, when the last finalizer of   *)
(* an object that is being deleted goes, nothing.                          *)
LEMMA StoredType ==
    ASSUME NEW r \in Snapshot
    PROVE  Stored(r) \in Snapshot /\ (Stored(r) = r \/ (Stored(r) = NoSnapshot /\ r.deleting))
  BY DEF Stored, Snapshot, NoSnapshot, Phases

(* The snapshot service starts well typed.                                 *)
LEMMA TypeInit == Init => TypeOK
  <1> SUFFICES ASSUME Init PROVE TypeOK
    OBVIOUS
  <1>1. NoSnapshot \in Snapshot /\ NoVolume \in Volume
    BY DEF NoSnapshot, Snapshot, NoVolume, Volume, Phases
  <1>2. src \in [size : Nat, actual : Nat]
    BY SnapshotAssumption, AlignType DEF Init
  <1>3. rep \in [uid : Nat, size : Nat] /\ lastUid \in 0 .. MaxUid /\ attempt \in 0 .. Limit - 1
    BY SnapshotAssumption DEF Init
  <1> QED
    BY <1>1, <1>2, <1>3 DEF Init, TypeOK

(* How a step may change the LVMLogicalVolumeSnapshot: it is created by    *)
(* the call that creates, taken or failed by the agent, it goes because it *)
(* was being deleted or a call or an administrator deletes it, or its      *)
(* finalizers and its deletion mark change and nothing else.               *)
LEMMA SnapEffect ==
    ASSUME TypeOK, [Next]_vars
    PROVE  /\ snap' \in Snapshot
           /\ \/ snap' = snap
              \/ spc = "create" /\ snap.uid = 0 /\ snap'.phase = ""
              \/ snap' = NoSnapshot /\ snap.uid # 0
                   /\ (spc \in {"strip", "delete"} \/ snap.deleting \/ byHand' = snap.uid)
              \/ /\ snap.uid # 0
                 /\ snap'.uid = snap.uid /\ snap'.phase = snap.phase /\ snap'.size = snap.size
                 /\ \/ snap'.deleting = snap.deleting
                    \/ spc = "delete"
                    \/ byHand' = snap.uid
              \/ /\ snap.uid # 0 /\ snap'.uid = snap.uid /\ snap'.deleting = snap.deleting
                 /\ snap.phase = "" /\ snap'.phase = "Created" /\ snap'.size = src.actual
              \/ /\ snap.uid # 0 /\ snap'.uid = snap.uid /\ snap'.deleting = snap.deleting
                 /\ snap.phase = "" /\ snap'.phase = "Failed"
  <1>0. snap \in Snapshot /\ scopy \in Snapshot /\ NoSnapshot \in Snapshot /\ NoSnapshot.uid = 0
    BY DEF TypeOK, NoSnapshot, Snapshot, Phases
  <1>1. CASE Created /\ spc = "create"
    <2>1. lastUid + 1 \in Nat
      BY SnapshotAssumption DEF TypeOK
    <2> QED
      BY <1>1, <2>1 DEF Created, Exists, NoSnapshot, Snapshot, Finalizers, Phases
  <1>2. CASE Update /\ spc = "strip"
    <2> DEFINE r == [scopy EXCEPT !.fin = @ \ {CSIFinalizer}]
    <2>1. /\ r \in Snapshot /\ r.uid = scopy.uid /\ r.phase = scopy.phase /\ r.size = scopy.size
          /\ r.deleting = scopy.deleting
      BY <1>0 DEF Snapshot
    <2>2. snap' = Stored(r) /\ snap = scopy /\ snap.uid # 0
      BY <1>2 DEF Update, Stripped, Exists
    <2> HIDE DEF r
    <2> QED
      BY <1>2, <2>1, <2>2, StoredType
  <1>3. CASE Deleted /\ (spc = "delete" \/ byHand' = snap.uid)
    <2> DEFINE r == [snap EXCEPT !.deleting = TRUE]
    <2>1. r \in Snapshot /\ r.uid = snap.uid /\ r.phase = snap.phase /\ r.size = snap.size
      BY <1>0 DEF Snapshot
    <2>2. snap' = Stored(r) /\ snap.uid # 0
      BY <1>3 DEF Deleted, Exists
    <2> HIDE DEF r
    <2> QED
      BY <1>3, <2>1, <2>2, StoredType
  <1>4. CASE CollectorUnblocks
    <2> DEFINE r == [snap EXCEPT !.fin = @ \ {CSIFinalizer}]
    <2>1. /\ r \in Snapshot /\ r.uid = snap.uid /\ r.phase = snap.phase /\ r.size = snap.size
          /\ r.deleting = snap.deleting
      BY <1>0 DEF Snapshot
    <2>2. snap' = Stored(r) /\ snap.uid # 0
      BY <1>4 DEF CollectorUnblocks, Exists
    <2> HIDE DEF r
    <2> QED
      BY <2>1, <2>2, StoredType
  <1>5. CASE AgentAdopts
    BY <1>0, <1>5 DEF AgentAdopts, Snapshot, Finalizers, Exists
  <1>6. CASE AgentTakesSnapshot
    <2>1. src.actual \in Nat
      BY DEF TypeOK
    <2> QED
      BY <1>0, <1>6, <2>1 DEF AgentTakesSnapshot, Snapshot, Phases, Exists
  <1>7. CASE AgentFails
    BY <1>0, <1>7 DEF AgentFails, Snapshot, Phases, Exists
  <1>8. CASE AgentRemovesSnapshot
    BY <1>0, <1>8 DEF AgentRemovesSnapshot, Exists
  <1>9. CASE snap' = snap
    BY <1>0, <1>9
  <1>a. CASE Snapshotter
    <2>1. \/ Created /\ spc = "create"
          \/ Update /\ spc = "strip"
          \/ Deleted /\ spc = "delete"
          \/ snap' = snap
      BY <1>a DEF Snapshotter, CreateSnapshot, CreateLVMLogicalVolumeSnapshot, CreateAnswerLost,
            SnapshotCreated, CreateGivesUp, DeleteSnapshot, FindLLVS, removeLLVSFinalizerIfExist,
            StripAnswerLost, StripConflict, DeleteLLVS, DeleteAnswerLost, CallFails,
            DeleteSnapshotAnswersAnyway
    <2> QED
      BY <1>1, <1>2, <1>3, <1>9, <2>1
  <1>b. CASE Provisioner \/ AgentProvisions \/ (\E s \in SourceSizes : SourceGrows(s)) \/ Unwanted
             \/ UNCHANGED vars
    <2>1. snap' = snap
      BY <1>b DEF Provisioner, CreateVolumeFrom, CreateLVMLogicalVolume, VolumeCreated,
            CreateVolumeFails, AgentProvisions, SourceGrows, Unwanted, vars
    <2> QED
      BY <1>9, <2>1
  <1>c. CASE DeleteByHand
    BY <1>3, <1>c DEF DeleteByHand
  <1> QED
    BY <1>4, <1>5, <1>6, <1>7, <1>8, <1>a, <1>b, <1>c DEF Next, Agent

(* How a step may change the volume that is made from a source, and the    *)
(* call of CreateVolume for it.                                            *)
LEMMA VolEffect ==
    ASSUME TypeOK, [Next]_vars
    PROVE  /\ vol' \in Volume /\ vnew' \in Volume
           /\ vpc' \in {"idle", "create", "wait"} /\ bound' \in BOOLEAN
           /\ VolInv => VolInv'
  <1>0. /\ vol \in Volume /\ vnew \in Volume /\ NoVolume \in Volume
        /\ NoVolume.type = "Thin" /\ NoVolume.phase = ""
    BY DEF TypeOK, NoVolume, Volume, Phases
  <1>1. ASSUME NEW kind \in {"snapshot", "volume"}, NEW type \in {"Thin", "Thick"},
               NEW request \in Requests, CreateVolumeFrom(kind, type, request)
        PROVE  /\ vol' \in Volume /\ vnew' \in Volume
               /\ vpc' \in {"idle", "create", "wait"} /\ bound' \in BOOLEAN
               /\ VolInv => VolInv'
    <2> DEFINE llvSize == IF request = 0 THEN SourceSize(kind) ELSE AlignSizeToExtent(request)
               r == [NoVolume EXCEPT !.there = TRUE, !.kind = kind, !.type = type, !.size = llvSize]
    <2>1. llvSize \in Nat
      <3>1. SourceSize(kind) \in Nat
        BY DEF SourceSize, TypeOK, Snapshot
      <3>2. AlignSizeToExtent(request) \in Nat
        BY AlignType, SnapshotAssumption
      <3> QED
        BY <3>1, <3>2
    <2>2. /\ vnew' = r /\ type = "Thin" /\ ~ bound /\ vpc' = "create" /\ UNCHANGED <<vol, bound>>
      BY <1>1 DEF CreateVolumeFrom, Clonable
    <2> HIDE DEF llvSize
    <2>3. r \in Volume /\ r.type = type /\ r.phase = ""
      BY <2>1 DEF NoVolume, Volume, Phases
    <2> HIDE DEF r
    <2> QED
      BY <1>0, <2>2, <2>3 DEF TypeOK, VolInv
  <1>2. CASE CreateLVMLogicalVolume
    BY <1>0, <1>2 DEF CreateLVMLogicalVolume, TypeOK, VolInv
  <1>3. CASE VolumeCreated
    BY <1>0, <1>3 DEF VolumeCreated, TypeOK, VolInv
  <1>4. CASE CreateVolumeFails
    BY <1>0, <1>4 DEF CreateVolumeFails, TypeOK, VolInv
  <1>5. CASE AgentProvisions
    <2> DEFINE needed == AlignSizeToExtent(vol.size)
               copied == IF vol.kind = "snapshot" THEN snap.size ELSE src.actual
               larger == IF copied > needed THEN copied ELSE needed
    <2>1. needed \in Nat /\ copied \in Nat
      <3>1. vol.size \in Nat /\ snap.size \in Nat /\ src.actual \in Nat
        BY DEF TypeOK, Volume, Snapshot
      <3> QED
        BY <3>1, AlignType
    <2>2. /\ vol.phase = ""
          /\ \/ vol' = [vol EXCEPT !.phase = "Failed"]
             \/ vol' = [vol EXCEPT !.phase = "Created", !.data = TRUE, !.actual = larger]
             \/ vol.type # "Thin" /\ vol' = [vol EXCEPT !.phase = "Created", !.actual = needed]
          /\ UNCHANGED <<vpc, vnew, bound>>
      BY <1>5 DEF AgentProvisions
    <2>3. larger \in Nat
      BY <2>1
    <2> HIDE DEF needed, copied, larger
    <2>4. vol' \in Volume /\ vol'.type = vol.type /\ vol'.there = vol.there
      BY <1>0, <2>1, <2>2, <2>3 DEF Volume, Phases
    <2>5. VolInv => (vol'.phase = "Created" => vol'.data)
      BY <1>0, <2>2 DEF VolInv, Volume
    <2>6. VolInv => ~ bound
      BY <2>2 DEF VolInv
    <2> QED
      BY <1>0, <2>2, <2>4, <2>5, <2>6 DEF TypeOK, VolInv
  <1>6. CASE UNCHANGED volVars
    BY <1>0, <1>6 DEF TypeOK, VolInv
  <1>7. ASSUME Snapshotter \/ AgentAdopts \/ AgentTakesSnapshot \/ AgentFails \/ AgentRemovesSnapshot
               \/ (\E s \in SourceSizes : SourceGrows(s))
               \/ Unwanted \/ DeleteByHand \/ CollectorUnblocks \/ UNCHANGED vars
        PROVE  UNCHANGED volVars
    BY <1>7 DEF Snapshotter, CreateSnapshot, CreateLVMLogicalVolumeSnapshot, CreateAnswerLost,
          SnapshotCreated, CreateGivesUp, DeleteSnapshot, FindLLVS, removeLLVSFinalizerIfExist,
          StripAnswerLost, StripConflict, DeleteLLVS, DeleteAnswerLost, CallFails,
          DeleteSnapshotAnswersAnyway, AgentAdopts, AgentTakesSnapshot, AgentFails,
          AgentRemovesSnapshot, SourceGrows, Unwanted, DeleteByHand, CollectorUnblocks, vars
  <1> QED
    BY <1>1, <1>2, <1>3, <1>4, <1>5, <1>6, <1>7 DEF Next, Provisioner, Agent

(* Every step of the snapshotter keeps the types of its call.              *)
LEMMA CallType ==
    ASSUME TypeOK, Snapshotter
    PROVE  /\ lastUid' \in 0 .. MaxUid
           /\ content' \in {"wanted", "ready", "unwanted", "gone"}
           /\ rep' \in [uid : Nat, size : Nat]
           /\ spc' \in {"idle", "create", "wait", "find", "refetch", "strip", "delete"}
           /\ purpose' \in {"create", "delete"}
           /\ scopy' \in Snapshot
           /\ ssize' \in Nat
           /\ attempt' \in 0 .. Limit - 1
           /\ swallowed' \in BOOLEAN
           /\ UNCHANGED Others
  <1>0. NoSnapshot \in Snapshot /\ 0 \in 0 .. Limit - 1 /\ snap.uid \in Nat /\ src.actual \in Nat
    <2>1. NoSnapshot \in Snapshot
      BY DEF NoSnapshot, Snapshot, Phases
    <2>2. snap.uid \in Nat /\ src.actual \in Nat
      BY DEF TypeOK, Snapshot
    <2> QED
      BY <2>1, <2>2, SnapshotAssumption
  <1> USE SnapshotAssumption DEF TypeOK
  <1>1. CASE CreateSnapshot
    BY <1>0, <1>1 DEF CreateSnapshot, Reported
  <1>2. CASE CreateLVMLogicalVolumeSnapshot
    BY <1>2 DEF CreateLVMLogicalVolumeSnapshot, Created
  <1>3. CASE CreateAnswerLost
    BY <1>0, <1>3 DEF CreateAnswerLost, ReturnError, Return, Created
  <1>4. CASE SnapshotCreated
    <2>1. [uid |-> snap.uid, size |-> ssize] \in [uid : Nat, size : Nat]
      BY <1>0
    <2> QED
      BY <1>0, <1>4, <2>1 DEF SnapshotCreated, Return
  <1>5. CASE CreateGivesUp \/ DeleteSnapshot \/ FindLLVS
    BY <1>5 DEF CreateGivesUp, DeleteSnapshot, FindLLVS
  <1>6. CASE removeLLVSFinalizerIfExist \/ StripConflict
    BY <1>6 DEF removeLLVSFinalizerIfExist, StripConflict
  <1>7. CASE StripAnswerLost \/ DeleteAnswerLost \/ CallFails
    BY <1>0, <1>7 DEF StripAnswerLost, DeleteAnswerLost, CallFails, ReturnError, Return
  <1>8. CASE DeleteLLVS
    BY <1>0, <1>8 DEF DeleteLLVS, Return
  <1>9. CASE DeleteSnapshotAnswersAnyway
    <2>1. swallowed' \in BOOLEAN
      BY <1>9 DEF DeleteSnapshotAnswersAnyway, Exists
    <2> QED
      BY <1>0, <1>9, <2>1 DEF DeleteSnapshotAnswersAnyway, Return
  <1> QED
    BY <1>1, <1>2, <1>3, <1>4, <1>5, <1>6, <1>7, <1>8, <1>9 DEF Snapshotter

(* Every step keeps the types.                                             *)
LEMMA TypeStep == TypeOK /\ [Next]_vars => TypeOK'
  <1> SUFFICES ASSUME TypeOK, [Next]_vars PROVE TypeOK'
    OBVIOUS
  <1>0. snap' \in Snapshot
    BY SnapEffect
  <1>1. vol' \in Volume /\ vnew' \in Volume /\ vpc' \in {"idle", "create", "wait"} /\ bound' \in BOOLEAN
    BY VolEffect
  <1>2. CASE Snapshotter
    BY <1>0, <1>1, <1>2, CallType DEF TypeOK
  <1>3. ASSUME NEW s \in SourceSizes, SourceGrows(s) PROVE TypeOK'
    <2>1. src' \in [size : Nat, actual : Nat]
      BY <1>3, AlignType, SnapshotAssumption DEF SourceGrows
    <2>2. grown' \in BOOLEAN
      BY <1>3 DEF SourceGrows
    <2> QED
      BY <1>0, <1>1, <1>3, <2>1, <2>2 DEF TypeOK, SourceGrows
  <1>4. CASE Unwanted
    BY <1>0, <1>1, <1>4 DEF TypeOK, Unwanted
  <1>5. CASE DeleteByHand
    BY <1>0, <1>1, <1>5 DEF TypeOK, DeleteByHand, Snapshot
  <1>6. CASE Provisioner \/ Agent \/ CollectorUnblocks \/ UNCHANGED vars
    <2>1. UNCHANGED <<src, SnapCall, byHand, grown>>
      BY <1>6 DEF Provisioner, CreateVolumeFrom, CreateLVMLogicalVolume, VolumeCreated,
            CreateVolumeFails, Agent, AgentAdopts, AgentTakesSnapshot, AgentFails,
            AgentRemovesSnapshot, AgentProvisions, CollectorUnblocks, vars
    <2> QED
      BY <1>0, <1>1, <2>1 DEF TypeOK
  <1> QED
    BY <1>2, <1>3, <1>4, <1>5, <1>6 DEF Next

(* The calls and the objects keep their types, and                         *)
(* removeLLVSFinalizerIfExist makes at most Limit attempts.                *)
THEOREM TypeCorrect == Spec => []TypeOK
  BY TypeInit, TypeStep, PTL DEF Spec

-----------------------------------------------------------------------------
(* The inductive invariant.                                                *)

(* What the steps that are not the snapshotter's leave of its call.        *)
LEMMA NotOurs ==
    ASSUME [Next]_vars, ~ Snapshotter
    PROVE  /\ UNCHANGED <<lastUid, rep, spc, callVars, swallowed>>
           /\ \/ content' = content
              \/ content = "ready" /\ content' = "unwanted"
           /\ src' = src \/ (\E s \in SourceSizes : SourceGrows(s))
           /\ grown' = grown \/ (\E s \in SourceSizes : SourceGrows(s))
           /\ byHand' = byHand \/ DeleteByHand
  BY DEF Next, Provisioner, CreateVolumeFrom, CreateLVMLogicalVolume, VolumeCreated,
         CreateVolumeFails, Agent, AgentAdopts, AgentTakesSnapshot, AgentFails,
         AgentRemovesSnapshot, AgentProvisions, CollectorUnblocks, vars, SourceGrows,
         Unwanted, DeleteByHand

(* A call carries what it built or saw to its end: nobody else writes to   *)
(* it.                                                                     *)
LEMMA CallStep == CallInv /\ [Next]_vars => CallInv'
  <1> SUFFICES ASSUME CallInv, [Next]_vars PROVE CallInv'
    OBVIOUS
  <1>1. CASE ~ Snapshotter
    BY <1>1, NotOurs DEF CallInv
  <1>2. CASE CreateSnapshot \/ DeleteSnapshot
    BY <1>2 DEF CallInv, CreateSnapshot, DeleteSnapshot
  <1>3. CASE CreateLVMLogicalVolumeSnapshot \/ CreateGivesUp \/ FindLLVS \/ removeLLVSFinalizerIfExist
             \/ StripConflict
    BY <1>3 DEF CallInv, CreateLVMLogicalVolumeSnapshot, CreateGivesUp, FindLLVS,
                removeLLVSFinalizerIfExist, StripConflict
  <1>4. CASE CreateAnswerLost \/ SnapshotCreated \/ StripAnswerLost \/ DeleteLLVS \/ DeleteAnswerLost
             \/ CallFails \/ DeleteSnapshotAnswersAnyway
    BY <1>4 DEF CallInv, CreateAnswerLost, SnapshotCreated, StripAnswerLost, DeleteLLVS,
                DeleteAnswerLost, CallFails, DeleteSnapshotAnswersAnyway, ReturnError, Return
  <1> QED
    BY <1>1, <1>2, <1>3, <1>4 DEF Snapshotter

(* A content becomes ready in one step only, and before that step the      *)
(* object was polled and good.                                             *)
LEMMA BecomesReady ==
    ASSUME CallInv, [Next]_vars, content' = "ready"
    PROVE  \/ SnapshotCreated
           \/ content = "ready" /\ UNCHANGED rep
  <1>1. CASE ~ Snapshotter
    BY <1>1, NotOurs
  <1>2. CASE Snapshotter
    BY <1>2 DEF CallInv, Snapshotter, CreateSnapshot, CreateLVMLogicalVolumeSnapshot,
          CreateAnswerLost, CreateGivesUp, DeleteSnapshot, FindLLVS, removeLLVSFinalizerIfExist,
          StripAnswerLost, StripConflict, DeleteLLVS, DeleteAnswerLost, CallFails,
          DeleteSnapshotAnswersAnyway, ReturnError
  <1> QED
    BY <1>1, <1>2

(* The polled object is good when SnapshotCreated answers.                 *)
LEMMA ReadyWhenAnswered ==
    ASSUME SnapshotCreated
    PROVE  /\ rep'.uid = snap.uid /\ rep'.size = ssize /\ snap' = snap
           /\ snap.uid # 0 /\ snap.phase = "Created" /\ ~ snap.deleting
           /\ spc = "wait" /\ UNCHANGED <<src, byHand, grown>>
  BY DEF SnapshotCreated, WaitForLLVSStatusUpdate, Exists

(* ReadyInv through every step: while the content is ready only the agent, *)
(* the collector and an administrator can write, and only the last of them *)
(* can delete.                                                             *)
LEMMA ReadyStep == TypeOK /\ CallInv /\ ReadyInv /\ [Next]_vars => ReadyInv'
  <1> SUFFICES ASSUME TypeOK, CallInv, ReadyInv, [Next]_vars, content' = "ready" PROVE ReadyInv'
    BY DEF ReadyInv
  <1>1. CASE SnapshotCreated
    <2>1. /\ rep'.uid = snap.uid /\ snap' = snap /\ snap.uid # 0 /\ snap.phase = "Created"
          /\ ~ snap.deleting
      BY <1>1, ReadyWhenAnswered
    <2> QED
      BY <2>1 DEF ReadyInv, ReadyIsLive
  <1>2. CASE content = "ready" /\ UNCHANGED rep
    <2>0. ~ Snapshotter \/ CreateSnapshot \/ DeleteSnapshot
      BY <1>2 DEF CallInv, Snapshotter, CreateLVMLogicalVolumeSnapshot,
          CreateAnswerLost, SnapshotCreated, CreateGivesUp, FindLLVS, removeLLVSFinalizerIfExist,
          StripAnswerLost, StripConflict, DeleteLLVS, DeleteAnswerLost, CallFails,
          DeleteSnapshotAnswersAnyway
    <2>1. spc = "idle" /\ ~ Snapshotter
      BY <1>2, <2>0 DEF CallInv, CreateSnapshot, DeleteSnapshot
    <2>2. byHand' = byHand \/ (byHand' = snap.uid /\ snap.uid # 0)
      BY <2>1, NotOurs DEF DeleteByHand, Exists
    <2>3. /\ rep.uid # 0 /\ snap.uid \in {0, rep.uid}
          /\ snap.uid = rep.uid => snap.phase = "Created"
          /\ (snap.uid = rep.uid /\ snap.phase = "Created" /\ ~ snap.deleting) \/ byHand = rep.uid
      BY <1>2 DEF ReadyInv, ReadyIsLive
    <2>4. byHand = rep.uid => byHand' = rep.uid
      BY <2>2, <2>3
    <2>5. CASE snap' = snap
      BY <1>2, <2>3, <2>4, <2>5 DEF ReadyInv, ReadyIsLive
    <2>6. CASE snap' = NoSnapshot /\ snap.uid # 0 /\ (snap.deleting \/ byHand' = snap.uid)
      <3>1. snap'.uid = 0 /\ byHand' = rep.uid
        BY <2>3, <2>4, <2>6 DEF NoSnapshot
      <3> QED
        BY <1>2, <2>3, <3>1 DEF ReadyInv, ReadyIsLive
    <2>7. CASE /\ snap.uid # 0 /\ snap'.uid = snap.uid /\ snap'.phase = snap.phase
               /\ snap'.deleting = snap.deleting \/ byHand' = snap.uid
      BY <1>2, <2>3, <2>4, <2>7 DEF ReadyInv, ReadyIsLive
    <2>8. ~ (snap.uid # 0 /\ snap.phase = "")
      BY <2>3
    <2> QED
      BY <2>1, <2>5, <2>6, <2>7, <2>8, SnapEffect
  <1> QED
    BY <1>1, <1>2, BecomesReady

(* SizeInv through every step: growth during the making of a snapshot is   *)
(* what grown records, and a snapshot is taken once.                       *)
LEMMA SizeStep == TypeOK /\ CallInv /\ ReadyInv /\ SizeInv /\ [Next]_vars => SizeInv'
  <1> SUFFICES ASSUME TypeOK, CallInv, ReadyInv, SizeInv, [Next]_vars, ~ grown' PROVE SizeInv'
    BY DEF Exists, SizeInv
  <1>1. ASSUME NEW s \in SourceSizes, SourceGrows(s) PROVE SizeInv'
    <2>1. /\ ~ grown /\ (content = "wanted" => spc = "idle" /\ snap.uid = 0)
          /\ UNCHANGED <<content, rep, spc, snap>>
      BY <1>1 DEF SourceGrows, Exists
    <2> QED
      BY <2>1 DEF Exists, SizeInv, CallInv, ReportedSize
  <1>2. ASSUME ~ \E s \in SourceSizes : SourceGrows(s) PROVE SizeInv'
    <2>1. ~ grown /\ src' = src
      BY <1>2, NotOurs, CallType
    <2>2. spc' \in {"create", "wait"} => ssize' = src.actual
      <3>1. CASE ~ Snapshotter
        BY <2>1, <3>1, NotOurs DEF Exists, SizeInv
      <3>2. CASE CreateSnapshot
        BY <3>2 DEF CreateSnapshot, Reported
      <3>3. CASE CreateLVMLogicalVolumeSnapshot
        BY <2>1, <3>3 DEF CreateLVMLogicalVolumeSnapshot, SizeInv
      <3>4. CASE Snapshotter /\ ~ CreateSnapshot /\ ~ CreateLVMLogicalVolumeSnapshot
        BY <3>4 DEF Snapshotter, CreateAnswerLost, SnapshotCreated, CreateGivesUp, DeleteSnapshot,
              FindLLVS, removeLLVSFinalizerIfExist, StripAnswerLost, StripConflict, DeleteLLVS,
              DeleteAnswerLost, CallFails, DeleteSnapshotAnswersAnyway, ReturnError, Return
      <3> QED
        BY <3>1, <3>2, <3>3, <3>4
    <2>3. content' = "wanted" /\ snap'.uid # 0 /\ snap'.phase = "Created" => snap'.size = src.actual
      <3> SUFFICES ASSUME content' = "wanted", snap'.uid # 0, snap'.phase = "Created"
                   PROVE  snap'.size = src.actual
        OBVIOUS
      <3>1. content = "wanted"
        <4>1. CASE ~ Snapshotter
          BY <4>1, NotOurs
        <4>2. CASE Snapshotter
          BY <4>2 DEF Snapshotter, CreateSnapshot, CreateLVMLogicalVolumeSnapshot,
              CreateAnswerLost, SnapshotCreated, CreateGivesUp, DeleteSnapshot, FindLLVS,
              removeLLVSFinalizerIfExist, StripAnswerLost, StripConflict, DeleteLLVS,
              DeleteAnswerLost, CallFails, DeleteSnapshotAnswersAnyway, ReturnError
        <4> QED
          BY <4>1, <4>2
      <3>2. snap.uid # 0 /\ snap.phase = "Created" => snap.size = src.actual
        BY <2>1, <3>1 DEF Exists, SizeInv
      <3>3. NoSnapshot.uid = 0
        BY DEF NoSnapshot
      <3> QED
        BY <3>2, <3>3, SnapEffect
    <2>4. ReportedSize'
      <3> SUFFICES ASSUME content' = "ready", snap'.uid = rep'.uid PROVE rep'.size = snap'.size
        BY DEF ReportedSize
      <3>1. CASE SnapshotCreated
        <4>1. /\ rep'.uid = snap.uid /\ rep'.size = ssize /\ snap' = snap
              /\ snap.uid # 0 /\ snap.phase = "Created" /\ spc = "wait"
          BY <3>1, ReadyWhenAnswered
        <4> QED
          BY <2>1, <4>1 DEF Exists, SizeInv, CallInv
      <3>2. CASE content = "ready" /\ UNCHANGED rep
        <4>1. rep.uid # 0 /\ spc = "idle" /\ (snap.uid = rep.uid => snap.phase = "Created" /\ rep.size = snap.size)
          BY <2>1, <3>2 DEF ReadyInv, CallInv, SizeInv, ReportedSize
        <4>2. NoSnapshot.uid = 0
          BY DEF NoSnapshot
        <4> QED
          BY <3>2, <4>1, <4>2, SnapEffect
      <3> QED
        BY <3>1, <3>2, BecomesReady
    <2> QED
      BY <2>1, <2>2, <2>3, <2>4 DEF Exists, SizeInv
  <1> QED
    BY <1>1, <1>2

(* The invariant holds before there is a snapshot.                         *)
LEMMA SnapInvInit == Init => SnapInv
  <1> SUFFICES ASSUME Init PROVE SnapInv
    OBVIOUS
  <1>1. CallInv /\ ReadyInv /\ SizeInv
    BY DEF Init, CallInv, ReadyInv, SizeInv, ReportedSize, NoSnapshot
  <1>2. VolInv
    BY DEF Init, VolInv, NoVolume
  <1> QED
    BY <1>1, <1>2, TypeInit DEF SnapInv

(* Every step keeps it.                                                    *)
LEMMA SnapInvStep == SnapInv /\ [Next]_vars => SnapInv'
  BY TypeStep, CallStep, ReadyStep, SizeStep, VolEffect DEF SnapInv

(* The four parts hold together in every reachable state.                  *)
THEOREM SnapInvariant == Spec => []SnapInv
  BY SnapInvInit, SnapInvStep, PTL DEF Spec

(* A snapshot that CreateSnapshot has reported as ready is there, taken,   *)
(* and not being deleted, unless DeleteSnapshot was called or an           *)
(* administrator deleted it: no clean-up of an earlier CreateSnapshot that *)
(* failed gets at it, however the two overlap with retries.                *)
THEOREM ReadyStaysLive == Spec => []ReadyIsLive
  <1>1. SnapInv => ReadyIsLive
    BY DEF SnapInv, ReadyInv, ReadyIsLive
  <1> QED
    BY <1>1, SnapInvariant, PTL

(* SizeBytes of CreateSnapshot's answer is the size the snapshot was taken *)
(* with, whichever attempt read the source, unless the source grew.        *)
THEOREM ReportedSizeHolds == Spec => []ReportedSize
  <1>1. SnapInv => ReportedSize
    BY DEF SnapInv, SizeInv, ReportedSize
  <1> QED
    BY <1>1, SnapInvariant, PTL

(* A volume made from a source that CreateVolume has answered for holds    *)
(* the data of the source: Clonable refuses the type for which the agent   *)
(* would ignore it.                                                        *)
THEOREM RestoredHoldsData == Spec => []RestoredIsNotEmpty
  <1>1. SnapInv => RestoredIsNotEmpty
    BY DEF SnapInv, VolInv, RestoredIsNotEmpty
  <1> QED
    BY <1>1, SnapInvariant, PTL
=============================================================================
