------------------------ MODULE LLVGCPicture_proofs ------------------------
(***************************************************************************)
(* What a sweep reads, reports and asks for.                               *)
(*                                                                         *)
(* The live confirmation passes nothing over: at every write, whatever     *)
(* refers to the object is younger than the confirmation's list of its     *)
(* kind, whichever lists failed half way before, and however the picture   *)
(* was shared between the objects of a sweep.  Every object listed gets    *)
(* its answer.  And the collector is always due again in time for the next *)
(* object whose grace period ends.                                         *)
(***************************************************************************)
EXTENDS LLVGCSafety_proofs

USE DEF queueVars, listVars, walkVars, liveVars, writeVars, newVars, clusterVars

\* What the world may do to the references while a sweep runs: whatever is
\* not noted as new was there before.
NothingOldAppears ==
    /\ pvs' \ newPVs' \subseteq pvs \ newPVs
    /\ vscs' \ newVSCs' \subseteq vscs \ newVSCs
    /\ \A s \in Snaps \ newSnaps' : obj'[s].uid # 0 => s \notin newSnaps /\ obj[s].uid # 0

\* Then a picture that shows everything still does.
LEMMA ShowsKept ==
    ASSUME NothingOldAppears, NEW names
    PROVE  /\ ShowsPVs(names) => (\A p \in pvs' \ newPVs' : PVRefs(p) \subseteq names)
           /\ ShowsSnaps(names) =>
                (\A s \in Snaps \ newSnaps' : obj'[s].uid # 0 /\ SourceOf[s] # NoName => SourceOf[s] \in names)
           /\ ShowsVSCs(names) => (\A c \in vscs' \ newVSCs' : VSCRefs(c) \subseteq names)
  BY DEF NothingOldAppears, ShowsPVs, ShowsSnaps, ShowsVSCs

\* A reference that another writer adds during a sweep is noted as new.
LEMMA WritersAddOnlyNew ==
    ASSUME SafeInv, OtherWriters, pc # "idle"
    PROVE  NothingOldAppears
  <1>0. obj \in [Objects -> Object] /\ Snaps \subseteq Objects
    BY DEF SafeInv, TypeInv, TypeOK, ClusterTypeOK, Objects
  <1>1. ASSUME NEW o \in Objects, DriverCreate(o),
               newSnaps' = (IF o \in Snaps THEN Noted(newSnaps, o) ELSE newSnaps),
               UNCHANGED <<newPVs, newVSCs, slip>>
        PROVE  NothingOldAppears
    <2>1. newSnaps' = IF o \in Snaps THEN newSnaps \cup {o} ELSE newSnaps
      BY <1>1 DEF Noted
    <2>2. \A s \in Objects : s # o => obj'[s] = obj[s]
      BY <1>0, <1>1 DEF DriverCreate
    <2> QED
      BY <1>0, <1>1, <2>1, <2>2 DEF NothingOldAppears, DriverCreate
  <1>2. ASSUME NEW o \in Objects, UNCHANGED newVars,
               \/ RequestDeletion(o) \/ AgentAdopt(o) \/ AgentRelease(o)
               \/ DriverUnfinalize(o) \/ AgentFinalizerStripped(o)
        PROVE  NothingOldAppears
    <2>1. UNCHANGED <<pvs, vscs>> /\ obj[o].uid # 0
      BY <1>2 DEF RequestDeletion, AgentAdopt, AgentRelease, DriverUnfinalize, AgentFinalizerStripped, Exists
    <2>2. \A s \in Objects : s # o => obj'[s] = obj[s]
      BY <1>0, <1>2
      DEF RequestDeletion, AgentAdopt, AgentRelease, DriverUnfinalize, AgentFinalizerStripped, Write
    <2> QED
      BY <1>0, <1>2, <2>1, <2>2 DEF NothingOldAppears
  <1>3. ASSUME NEW p \in PVs,
               \/ CreatePV(p) /\ newPVs' = Noted(newPVs, p) /\ UNCHANGED <<newSnaps, newVSCs, slip>>
               \/ DeletePV(p) /\ UNCHANGED newVars
        PROVE  NothingOldAppears
    BY <1>3 DEF NothingOldAppears, CreatePV, DeletePV, Noted
  <1>4. ASSUME NEW c \in VSCs,
               \/ CreateVSC(c) /\ newVSCs' = Noted(newVSCs, c) /\ UNCHANGED <<newPVs, newSnaps, slip>>
               \/ DeleteVSC(c) /\ UNCHANGED newVars
        PROVE  NothingOldAppears
    BY <1>4 DEF NothingOldAppears, CreateVSC, DeleteVSC, Noted
  <1> QED
    BY <1>1, <1>2, <1>3, <1>4 DEF OtherWriters

\* The collector's own write adds no reference.
LEMMA PatchAddsNothing ==
    ASSUME SafeInv, pc = "patch", PatchApplied, UNCHANGED newVars
    PROVE  NothingOldAppears
  <1>1. /\ obj \in [Objects -> Object] /\ Snaps \subseteq Objects
    BY DEF SafeInv, TypeInv, TypeOK, ClusterTypeOK, Objects
  <1>2. /\ obj[cur] = got /\ got.uid # 0
        /\ obj' = [obj EXCEPT ![cur] = [got EXCEPT !.fin = {AgentFinalizer}]]
    BY PatchLeavesRecord
  <1>3. \A s \in Objects : s # cur => obj'[s] = obj[s]
    BY <1>1, <1>2
  <1> QED
    BY <1>1, <1>2, <1>3 DEF NothingOldAppears, PatchApplied

\* A step that changes no reference and keeps the picture.
LEMMA PictureKept ==
    ASSUME PictureSound, NothingOldAppears, UNCHANGED <<pic, part>>,
           Young' => Young,
           pc' \in {"confirm", "get", "patch"} => Young \/ pc \in {"confirm", "get", "patch"},
           pc' \in {"loadSnaps", "loadContents"} => pc' = pc,
           pc' \in {"get", "patch"} => LiveRefusal(cur)' = "none",
           pc' = "idle" => ~ Young'
    PROVE  PictureSound'
  <1>1. Young' \/ pc' \in {"confirm", "get", "patch"} =>
          ShowsPVs(pic.referenced)' /\ ShowsSnaps(pic.snapshotted)' /\ ShowsVSCs(pic.contents)'
    BY ShowsKept DEF PictureSound, ShowsPVs, ShowsSnaps, ShowsVSCs
  <1>2. pc' \in {"loadSnaps", "loadContents"} => ~ Young' /\ ShowsPVs(part.referenced)'
    BY ShowsKept DEF PictureSound, ShowsPVs
  <1>3. pc' = "loadContents" => ShowsSnaps(part.snapshotted)'
    BY ShowsKept DEF PictureSound, ShowsSnaps
  <1> QED
    BY <1>1, <1>2, <1>3 DEF PictureSound

\* The lists of load show every reference there is.
LEMMA ListsShow ==
    /\ \A q \in pvs : PVRefs(q) \subseteq referencingPersistentVolumes(pvs)
    /\ \A c \in vscs : VSCRefs(c) \subseteq snapshotContentHandles(vscs)
    /\ \A s \in Snaps : obj[s].uid # 0 /\ SourceOf[s] # NoName => SourceOf[s] \in snapshottedVolumeNames(obj)
  BY Zenon DEF referencingPersistentVolumes, snapshotContentHandles, snapshottedVolumeNames

\* At first there is no picture to trust.
LEMMA PictureInit == Init => PictureSound
  BY GCAssumption DEF Init, GCInit, PictureSound, Young, Never

\* Every step keeps a usable picture complete: load replaces it as a whole,
\* and a failed load leaves one that is too old to be reused.
LEMMA PictureStep == SafeInv /\ PictureSound /\ [Next]_vars => PictureSound'
  <1> SUFFICES ASSUME SafeInv, PictureSound, [Next]_vars PROVE PictureSound'
    OBVIOUS
  <1>0. UNCHANGED <<obj, pvs, vscs, newVars>> => NothingOldAppears
    BY DEF NothingOldAppears
  <1>y. picAge' = picAge \/ picAge' = Never => (Young' => Young)
    BY DEF Young
  <1>1. ASSUME NEW w \in {"queue", "init"}, Throttled(w) PROVE PictureSound'
    <2>1. NothingOldAppears
      BY <1>1 DEF Throttled, NothingOldAppears
    <2> QED
      BY <1>y, <2>1, <1>1, PictureKept DEF Throttled, Called, PictureSound
  <1>2. ASSUME NEW w \in {"queue", "init"}, ListFailed(w) PROVE PictureSound'
    <2>1. NothingOldAppears
      BY <1>2 DEF ListFailed, NothingOldAppears
    <2> QED
      BY <1>y, <2>1, <1>2, PictureKept DEF ListFailed, Called, PictureSound
  <1>3. ASSUME NEW w \in {"queue", "init"}, StartSweep(w) PROVE PictureSound'
    <2>1. NothingOldAppears
      BY <1>3 DEF StartSweep, NothingOldAppears
    <2> QED
      BY <1>y, <2>1, <1>3, PictureKept DEF StartSweep, Called, PictureSound
  <1>4. ASSUME NEW o \in Objects, Refuse(o) PROVE PictureSound'
    BY <1>0, <1>y, <1>4, PictureKept DEF Refuse, Picked
  <1>5. ASSUME NEW o \in Objects, InsideGrace(o) PROVE PictureSound'
    BY <1>0, <1>y, <1>5, PictureKept DEF InsideGrace, Picked
  <1>6. ASSUME NEW o \in Objects, Defer(o) PROVE PictureSound'
    BY <1>0, <1>y, <1>6, PictureKept DEF Defer, Picked
  <1>7. ASSUME NEW o \in Objects, Spend(o) PROVE PictureSound'
    BY <1>0, <1>y, <1>7, PictureKept DEF Spend, Picked
  <1>8. CASE ReusePicture
    BY <1>0, <1>y, <1>8, PictureKept DEF ReusePicture
  <1>9. CASE LoadPVs
    <2>1. /\ pc' = "loadSnaps" /\ ~ Young' /\ newPVs' = {}
          /\ part'.referenced = referencingPersistentVolumes(pvs)
      BY <1>9 DEF LoadPVs, Young
    <2>2. ShowsPVs(part.referenced)'
      BY <2>1, <1>9, ListsShow DEF ShowsPVs, LoadPVs
    <2> QED
      BY <2>1, <2>2 DEF PictureSound
  <1>10. CASE LoadSnaps
    <2>1. /\ pc = "loadSnaps" /\ pc' = "loadContents" /\ newSnaps' = {}
          /\ part'.snapshotted = snapshottedVolumeNames(obj)
          /\ part'.referenced = part.referenced
          /\ ~ Young /\ ShowsPVs(part.referenced)
      BY <1>10 DEF LoadSnaps, PictureSound
    <2>2. ~ Young'
      BY <2>1, <1>10 DEF LoadSnaps, Young
    <2>3. ShowsPVs(part.referenced)'
      BY <2>1, <1>10 DEF LoadSnaps, ShowsPVs
    <2>4. ShowsSnaps(part.snapshotted)'
      BY <2>1, <1>10, ListsShow DEF LoadSnaps, ShowsSnaps
    <2> QED
      BY <2>1, <2>2, <2>3, <2>4 DEF PictureSound
  <1>11. CASE LoadContents
    <2>1. /\ pc = "loadContents" /\ pc' = "confirm" /\ newVSCs' = {}
          /\ pic'.contents = snapshotContentHandles(vscs)
          /\ pic'.referenced = part.referenced
          /\ pic'.snapshotted = part.snapshotted
          /\ ShowsPVs(part.referenced) /\ ShowsSnaps(part.snapshotted)
      BY <1>11 DEF LoadContents, PictureSound
    <2>2. ShowsPVs(pic.referenced)'
      BY <2>1, <1>11 DEF LoadContents, ShowsPVs
    <2>3. ShowsSnaps(pic.snapshotted)'
      BY <2>1, <1>11 DEF LoadContents, ShowsSnaps
    <2>4. ShowsVSCs(pic.contents)'
      BY <2>1, <1>11, ListsShow DEF LoadContents, ShowsVSCs
    <2> QED
      BY <2>1, <2>2, <2>3, <2>4 DEF PictureSound
  <1>12. CASE LoadFailed
    <2>1. pc' = "walk" /\ UNCHANGED <<pic, picAge>> /\ NothingOldAppears
      BY <1>0, <1>12 DEF LoadFailed, Settle
    <2>2. Young' => Young
      BY <1>y, <2>1
    <2>3. Young => ShowsPVs(pic.referenced) /\ ShowsSnaps(pic.snapshotted) /\ ShowsVSCs(pic.contents)
      BY DEF PictureSound
    <2>4. Young' => ShowsPVs(pic.referenced)' /\ ShowsSnaps(pic.snapshotted)' /\ ShowsVSCs(pic.contents)'
      BY <2>1, <2>2, <2>3, ShowsKept DEF ShowsPVs, ShowsSnaps, ShowsVSCs
    <2> QED
      BY <2>1, <2>4 DEF PictureSound
  <1>13. CASE ConfirmRefuses
    BY <1>0, <1>y, <1>13, PictureKept DEF ConfirmRefuses, Settle
  <1>14. CASE GetSettles
    BY <1>0, <1>y, <1>14, PictureKept DEF GetSettles, Settle
  <1>15. CASE PermanentFailure
    BY <1>0, <1>y, <1>15, PictureKept DEF PermanentFailure, Settle
  <1>16. CASE PatchNotFound
    BY <1>0, <1>y, <1>16, PictureKept DEF PatchNotFound, Settle
  <1>17. CASE Confirmed
    BY <1>0, <1>y, <1>17, PictureKept DEF Confirmed, LiveRefusal
  <1>18. CASE GetLive
    BY <1>0, <1>y, <1>18, PictureKept DEF GetLive, LiveRefusal, PictureSound
  <1>19. CASE WriteOff
    <2>1. NothingOldAppears
      BY <1>19, PatchAddsNothing DEF WriteOff
    <2> QED
      BY <1>y, <2>1, <1>19, PictureKept DEF WriteOff, Settle
  <1>20. CASE RetriableFailure
    <2>1. NothingOldAppears
      <3>1. CASE UNCHANGED clusterVars
        BY <1>0, <3>1, <1>20 DEF RetriableFailure
      <3>2. CASE pc = "patch" /\ PatchApplied
        BY <3>2, <1>20, PatchAddsNothing DEF RetriableFailure
      <3> QED
        BY <3>1, <3>2, <1>20 DEF RetriableFailure
    <2>2. UNCHANGED <<pic, part, picAge>> /\ pc \in {"get", "patch"}
      BY <1>20 DEF RetriableFailure
    <2>3. pc' = "walk" \/ (pc' = "get" /\ cur' = cur)
      BY <1>20 DEF RetriableFailure, Retry, Settle
    <2>4. pc' = "get" => LiveRefusal(cur)' = "none"
      BY <2>2, <2>3 DEF PictureSound, LiveRefusal
    <2> QED
      BY <1>y, <2>1, <2>2, <2>3, <2>4, PictureKept
  <1>21. CASE CancelledWrite
    <2>1. NothingOldAppears
      <3>1. CASE UNCHANGED clusterVars
        BY <1>0, <3>1, <1>21 DEF CancelledWrite
      <3>2. CASE pc = "patch" /\ PatchApplied
        BY <3>2, <1>21, PatchAddsNothing DEF CancelledWrite
      <3> QED
        BY <3>1, <3>2, <1>21 DEF CancelledWrite
    <2>2. UNCHANGED <<pic, part, picAge>> /\ pc \in {"get", "patch"}
      BY <1>21 DEF CancelledWrite
    <2>3. pc' = "walk" \/ (pc' = "get" /\ cur' = cur)
      BY <1>21 DEF CancelledWrite, Settle
    <2>4. pc' = "get" => LiveRefusal(cur)' = "none"
      BY <2>2, <2>3 DEF PictureSound, LiveRefusal
    <2> QED
      BY <1>y, <2>1, <2>2, <2>3, <2>4, PictureKept
  <1>22. CASE Publish
    BY <1>22, GCAssumption DEF Publish, PictureSound, Young, Never
  <1>23. CASE Restart
    BY <1>23, GCAssumption DEF Restart, PictureSound, Young, Never
  <1>24. CASE Deadline
    BY <1>0, <1>y, <1>24, PictureKept DEF Deadline, LiveRefusal, PictureSound
  <1>25. CASE Environment
    <2>1. UNCHANGED <<pc, pic, part, picAge, cur>>
      BY <1>25 DEF Environment
    <2>2. CASE pc = "idle"
      BY <2>1, <2>2 DEF PictureSound, Young
    <2>3. CASE pc # "idle"
      <3>1. NothingOldAppears
        BY <2>3, <1>25, WritersAddOnlyNew DEF Environment
      <3> QED
        BY <1>y, <2>1, <3>1, PictureKept DEF LiveRefusal, PictureSound
    <2> QED
      BY <2>2, <2>3
  <1>26. CASE WatchLLV
    BY <1>0, <1>y, <1>26, PictureKept DEF WatchLLV, SyncKind, enqueueLVMLogicalVolumeSweep, LiveRefusal, PictureSound
  <1>27. CASE WatchLLVS
    BY <1>0, <1>y, <1>27, PictureKept DEF WatchLLVS, SyncKind, enqueueLVMLogicalVolumeSweep, LiveRefusal, PictureSound
  <1>28. CASE WatchPV
    BY <1>0, <1>y, <1>28, PictureKept DEF WatchPV, SyncPVs, enqueueLVMLogicalVolumeSweep, LiveRefusal, PictureSound
  <1>29. CASE Tick
    <2>1. NothingOldAppears /\ UNCHANGED <<pc, pic, part, cur>>
      BY <1>29 DEF Tick, Age, NothingOldAppears
    <2>2. picAge \in -1 .. MaxAge /\ MaxAge \in Nat
      BY GCAssumption DEF SafeInv, TypeInv, TypeOK
    <2>3. Young' => Young
      BY <2>2, <1>29 DEF Tick, Young, Never
    <2> QED
      BY <2>1, <2>3, PictureKept DEF LiveRefusal, PictureSound
  <1>30. CASE UNCHANGED vars
    BY <1>0, <1>y, <1>30, PictureKept DEF vars, gcVars, LiveRefusal, PictureSound
  <1> QED
    BY <1>1, <1>2, <1>3, <1>4, <1>5, <1>6, <1>7, <1>8, <1>9, <1>10, <1>11, <1>12,
       <1>13, <1>14, <1>15, <1>16, <1>17, <1>18, <1>19, <1>20, <1>21, <1>22, <1>23,
       <1>24, <1>25, <1>26, <1>27, <1>28, <1>29, <1>30
    DEF Next, Sweep

\* Nothing that referred to the object when the confirmation listed its kind
\* still refers to it when the finalizer is written off.
THEOREM NothingPassedOver == Spec => []ConfirmedUnreferenced
  <1>1. SafeInv /\ PictureSound => ConfirmedUnreferenced
    <2> SUFFICES ASSUME PictureSound, pc \in {"get", "patch"} PROVE ConfirmedUnreferenced
      BY DEF ConfirmedUnreferenced
    <2>1. LiveRefusal(cur) = "none"
      BY DEF PictureSound
    <2>2. /\ cur \in Vols => cur \notin pic.referenced /\ cur \notin pic.snapshotted
          /\ cur \in Snaps => cur \notin pic.contents
      BY <2>1, ClusterAssumption DEF LiveRefusal
    <2>3. ShowsPVs(pic.referenced) /\ ShowsSnaps(pic.snapshotted) /\ ShowsVSCs(pic.contents)
      BY DEF PictureSound
    <2>4. cur \in Vols => \A p \in pvs \ newPVs : ~ BackedBy(p, cur)
      <3> SUFFICES ASSUME cur \in Vols, NEW p \in pvs \ newPVs, BackedBy(p, cur) PROVE FALSE
        OBVIOUS
      <3>1. cur \in PVRefs(p)
        BY ClusterAssumption DEF BackedBy, PVRefs
      <3> QED
        BY <2>2, <2>3, <3>1 DEF ShowsPVs
    <2>5. cur \in Vols => \A s \in Snaps \ newSnaps : Exists(s) => SourceOf[s] # cur
      BY <2>2, <2>3, ClusterAssumption DEF ShowsSnaps, Exists
    <2>6. cur \in Snaps => \A c \in vscs \ newVSCs : ~ ContentOf(c, cur)
      <3> SUFFICES ASSUME cur \in Snaps, NEW c \in vscs \ newVSCs, ContentOf(c, cur) PROVE FALSE
        OBVIOUS
      <3>1. cur \in VSCRefs(c)
        BY ClusterAssumption DEF ContentOf, VSCRefs
      <3> QED
        BY <2>2, <2>3, <3>1 DEF ShowsVSCs
    <2> QED
      BY <2>4, <2>5, <2>6 DEF ConfirmedUnreferenced
  <1>2. Init => SafeInv /\ PictureSound
    BY SafeInit, PictureInit
  <1>3. SafeInv /\ PictureSound /\ [Next]_vars => (SafeInv /\ PictureSound)'
    BY SafeStep, PictureStep
  <1> QED
    BY <1>1, <1>2, <1>3, PTL DEF Spec

-----------------------------------------------------------------------------
(* What a sweep reports.                                                   *)

\* While a sweep runs, every object it listed is still to be looked at, is
\* being reclaimed or has its answer.
ReportInv ==
    pc # "idle" => \A o \in Objects : lobj[o].uid # 0 =>
        o \in todo \/ (pc # "walk" /\ o = cur) \/ report[o] # "none"

\* A step between the calls of a reclaim, or of the world, answers nothing.
LEMMA ReportKept ==
    ASSUME ReportInv, UNCHANGED <<lobj, todo, report, cur>>,
           pc' = pc \/ (pc \notin {"idle", "walk"} /\ pc' \notin {"idle", "walk"})
    PROVE  ReportInv'
  BY DEF ReportInv

\* A step that settles the object being reclaimed answers for it.
LEMMA ReportSettled ==
    ASSUME TypeInv, ReportInv, pc \notin {"idle", "walk"}, UNCHANGED <<lobj, todo>>,
           NEW r, r # "none", Settle(r)
    PROVE  ReportInv'
  <1>1. report \in [Objects -> Reports] /\ cur \in Objects
    BY DEF TypeInv, TypeOK, Listed
  <1>2. report'[cur] = r /\ \A o \in Objects : o # cur => report'[o] = report[o]
    BY <1>1 DEF Settle, Reported
  <1> QED
    BY <1>2 DEF ReportInv, Settle

\* An object that is picked and answered at once.
LEMMA ReportPicked ==
    ASSUME TypeInv, ReportInv, NEW o \in Objects, Picked(o), UNCHANGED <<lobj, pc>>,
           NEW r, r # "none", Reported(o, r)
    PROVE  ReportInv'
  <1>1. report \in [Objects -> Reports]
    BY DEF TypeInv, TypeOK
  <1>2. report'[o] = r /\ \A p \in Objects : p # o => report'[p] = report[p]
    BY <1>1 DEF Reported
  <1> QED
    BY <1>2 DEF ReportInv, Picked

\* Every step keeps it: out of budget, a failed list, an exhausted retry and a
\* cancelled call all leave an answer.
LEMMA ReportStep == TypeInv /\ ReportInv /\ [Next]_vars => ReportInv'
  <1> SUFFICES ASSUME TypeInv, ReportInv, [Next]_vars PROVE ReportInv'
    OBVIOUS
  <1>1. ASSUME NEW w \in {"queue", "init"}, Throttled(w) \/ ListFailed(w) PROVE ReportInv'
    BY <1>1 DEF Throttled, ListFailed, Called, ReportInv
  <1>2. ASSUME NEW w \in {"queue", "init"}, StartSweep(w) PROVE ReportInv'
    BY <1>2 DEF StartSweep, ReportInv, Absent
  <1>3. ASSUME NEW o \in Objects, Refuse(o) PROVE ReportInv'
    BY <1>3, ReportPicked DEF Refuse
  <1>4. ASSUME NEW o \in Objects, InsideGrace(o) PROVE ReportInv'
    BY <1>4, ReportPicked DEF InsideGrace
  <1>5. ASSUME NEW o \in Objects, Defer(o) PROVE ReportInv'
    BY <1>5, ReportPicked DEF Defer
  <1>6. ASSUME NEW o \in Objects, Spend(o) PROVE ReportInv'
    BY <1>6 DEF Spend, Picked, ReportInv
  <1>7. CASE ReusePicture \/ LoadPVs \/ LoadSnaps \/ LoadContents \/ Confirmed \/ GetLive
    <2>1. UNCHANGED <<lobj, todo, report, cur>> /\ pc \notin {"idle", "walk"} /\ pc' \notin {"idle", "walk"}
      BY <1>7 DEF ReusePicture, LoadPVs, LoadSnaps, LoadContents, Confirmed, GetLive
    <2> QED
      BY <2>1, ReportKept
  <1>8. CASE LoadFailed
    BY <1>8, ReportSettled DEF LoadFailed
  <1>9. CASE ConfirmRefuses
    BY <1>9, ReportSettled DEF ConfirmRefuses
  <1>10. CASE GetSettles
    BY <1>10, ReportSettled DEF GetSettles
  <1>11. CASE PermanentFailure \/ PatchNotFound
    BY <1>11, ReportSettled DEF PermanentFailure, PatchNotFound
  <1>12. CASE WriteOff
    BY <1>12, ReportSettled DEF WriteOff
  <1>13. CASE CancelledWrite
    BY <1>13, ReportSettled DEF CancelledWrite
  <1>14. CASE RetriableFailure
    <2>1. pc \notin {"idle", "walk"} /\ UNCHANGED <<lobj, todo>> /\ Retry
      BY <1>14 DEF RetriableFailure
    <2>2. CASE pc' = "get" /\ UNCHANGED <<cur, report>>
      BY <2>1, <2>2, ReportKept
    <2>3. CASE Settle("RemovalFailed")
      BY <2>1, <2>3, ReportSettled
    <2> QED
      BY <2>1, <2>2, <2>3 DEF Retry
  <1>15. CASE Publish \/ Restart
    BY <1>15 DEF Publish, Restart, ReportInv
  <1>16. CASE Deadline \/ Environment \/ WatchLLV \/ WatchLLVS \/ WatchPV \/ Tick \/ UNCHANGED vars
    <2>1. UNCHANGED <<lobj, todo, report, cur, pc>>
      BY <1>16 DEF Deadline, Environment, WatchLLV, WatchLLVS, WatchPV,
                   enqueueLVMLogicalVolumeSweep, Tick, vars, gcVars
    <2> QED
      BY <2>1, ReportKept
  <1> QED
    BY <1>1, <1>2, <1>3, <1>4, <1>5, <1>6, <1>7, <1>8, <1>9, <1>10, <1>11, <1>12,
       <1>13, <1>14, <1>15, <1>16
    DEF Next, Sweep

\* A sweep that publishes has an answer for every object it listed, the ones
\* its budget did not reach or whose reclaim failed included.
THEOREM EveryObjectAnswered == Spec => CompletePicture
  <1>1. Init => TypeInv /\ ReportInv
    BY SafeInit DEF SafeInv, ReportInv, Init, GCInit
  <1>2. TypeInv /\ ReportInv /\ [Next]_vars => (TypeInv /\ ReportInv)'
    BY TypeStep, ReportStep
  <1>3. TypeInv /\ ReportInv /\ [Next]_vars =>
          [pc = "walk" /\ pc' = "idle" /\ interrupts' = interrupts =>
             \A o \in Objects : lobj[o].uid # 0 => report'[o] # "none"]_vars
    <2> SUFFICES ASSUME TypeInv, ReportInv, [Next]_vars, pc = "walk", pc' = "idle",
                        interrupts' = interrupts
                 PROVE  \A o \in Objects : lobj[o].uid # 0 => report'[o] # "none"
      OBVIOUS
    <2>1. Publish
      <3>1. interrupts \in Int
        BY DEF TypeInv, TypeOK
      <3>2. /\ ~ Restart /\ ~ Deadline /\ ~ Environment /\ ~ Tick /\ ~ UNCHANGED vars
            /\ ~ WatchLLV /\ ~ WatchLLVS /\ ~ WatchPV
        BY <3>1 DEF Restart, Deadline, Environment, Tick, WatchLLV, WatchLLVS, WatchPV,
               enqueueLVMLogicalVolumeSweep, vars, gcVars
      <3>3. \A w \in {"queue", "init"} : ~ Throttled(w) /\ ~ ListFailed(w) /\ ~ StartSweep(w)
        BY DEF Throttled, ListFailed, StartSweep, Called
      <3>4. \A o \in Objects : ~ Refuse(o) /\ ~ InsideGrace(o) /\ ~ Defer(o) /\ ~ Spend(o)
        BY DEF Refuse, InsideGrace, Defer, Spend
      <3>5. ~ ReusePicture /\ ~ LoadPVs /\ ~ LoadSnaps /\ ~ LoadContents /\ ~ LoadFailed
        BY DEF ReusePicture, LoadPVs, LoadSnaps, LoadContents, LoadFailed
      <3>6. /\ ~ ConfirmRefuses /\ ~ Confirmed /\ ~ GetSettles /\ ~ GetLive /\ ~ WriteOff
            /\ ~ RetriableFailure /\ ~ PermanentFailure /\ ~ PatchNotFound /\ ~ CancelledWrite
        BY DEF ConfirmRefuses, Confirmed, GetSettles, GetLive, WriteOff, RetriableFailure,
               PermanentFailure, PatchNotFound, CancelledWrite
      <3> QED
        BY <3>2, <3>3, <3>4, <3>5, <3>6 DEF Next, Sweep
    <2> QED
      BY <2>1 DEF ReportInv, Publish
  <1> QED
    BY <1>1, <1>2, <1>3, PTL DEF Spec, CompletePicture

-----------------------------------------------------------------------------
(* When the collector wakes up.                                            *)

\* A deletion that shows, in the cluster or in the cache, has its date.
Dated ==
    /\ \A o \in Objects : obj[o].uid # 0 /\ obj[o].deleting => waited[obj[o].uid] # NotRequested
    /\ \A o \in Objects : cobj[o].uid # 0 /\ cobj[o].deleting => waited[cobj[o].uid] # NotRequested

\* A delay that ends with the grace period of o, late by what the sweep took.
InTime(n, o) == n > 0 /\ n <= Grace - waited[cobj[o].uid] + slip

\* While a sweep runs and nothing has happened since it began (an event would
\* have queued the item), its lists are the caches; a sweep of the queue is
\* still to see what ripens or has a requeue for it, and the start-up sweep
\* finds the timer of an earlier sweep set for it.
WakeInv ==
    pc # "idle" /\ ~ queued =>
        /\ lsnapd = snapshottedVolumeNames(cobj)
        /\ \A o \in Objects : Candidate(o) => lobj[o] = cobj[o]
        /\ caller = "queue" => \A o \in Objects : Ripening(o) =>
              o \in todo \/ (next <= Grace /\ InTime(next, o))
        /\ caller = "init" => \A o \in Objects : Ripening(o) => InTime(timer, o)

\* The date of a cached deletion stands.
DatesStand ==
    \A o \in Objects : cobj[o].uid # 0 /\ cobj[o].deleting =>
        waited'[cobj[o].uid] = waited[cobj[o].uid]

\* The inductive invariant behind WakesWhenDue.
TimeInv == SafeInv /\ Dated /\ WakeInv /\ WakesWhenDue

\* Numbers of the queue and of a ripening object.
LEMMA TimeTypes ==
    ASSUME SafeInv
    PROVE  /\ Grace \in Nat /\ MinInterval \in Nat /\ SweepInterval \in Nat \ {0}
           /\ Backlog \in Nat \ {0}
           /\ timer \in Nat /\ since \in -1 .. MinInterval /\ slip \in 0 .. Grace /\ next \in Nat
           /\ queued \in BOOLEAN /\ caller \in {"queue", "init"}
           /\ \A o \in Objects : cobj[o].uid # 0 => cobj[o].uid \in Uids
           /\ \A u \in Uids : waited[u] \in -1 .. Grace
           /\ \A o \in todo : o \in Objects /\ lobj[o].uid \in Uids
  <1>1. TypeOK /\ Listed /\ ClusterTypeOK
    BY DEF SafeInv, TypeInv, TypeOK
  <1>2. /\ Grace \in Nat /\ MinInterval \in Nat /\ SweepInterval \in Nat \ {0}
        /\ Backlog \in Nat \ {0}
    BY ClusterAssumption, GCAssumption
  <1>3. \A o \in Objects : cobj[o].uid # 0 => cobj[o].uid \in Uids
    BY <1>1, ClusterAssumption DEF ClusterTypeOK, Object, Uids
  <1>4. \A o \in todo : o \in Objects /\ lobj[o].uid \in Uids
    BY <1>1, ClusterAssumption DEF TypeOK, Listed, Object, Uids
  <1> QED
    BY <1>1, <1>2, <1>3, <1>4 DEF TypeOK, ClusterTypeOK

\* What ripens does so by the caches and the dates alone.
LEMMA RipeningKept ==
    ASSUME UNCHANGED <<cobj, cpvs>>, DatesStand, NEW o \in Objects
    PROVE  /\ Candidate(o)' <=> Candidate(o)
           /\ Ripening(o)' <=> Ripening(o)
           /\ Ripening(o) => waited'[cobj[o].uid] = waited[cobj[o].uid]
           /\ snapshottedVolumeNames(cobj)' = snapshottedVolumeNames(cobj)
  <1>1. Candidate(o)' <=> Candidate(o)
    BY DEF Candidate
  <1>2. Candidate(o) /\ cobj[o].deleting => waited'[cobj[o].uid] = waited[cobj[o].uid]
    BY DEF Candidate, DatesStand
  <1>3. snapshottedVolumeNames(cobj)' = snapshottedVolumeNames(cobj)
    BY DEF snapshottedVolumeNames
  <1> QED
    BY <1>1, <1>2, <1>3 DEF Ripening

\* A write that undoes no date, of an object whose deletion was dated before.
LEMMA WriteKeepsDates ==
    ASSUME SafeInv, Dated, NEW o \in Objects, NEW r \in Object, Write(o, r),
           r.uid = obj[o].uid, r.deleting => obj[o].deleting, UNCHANGED <<waited, cobj>>
    PROVE  Dated' /\ DatesStand
  <1>1. obj \in [Objects -> Object]
    BY DEF SafeInv, TypeInv, TypeOK, ClusterTypeOK
  <1>2. \A p \in Objects : p # o => obj'[p] = obj[p]
    BY <1>1 DEF Write
  <1>3. obj'[o] = Absent \/ obj'[o] = r
    BY <1>1 DEF Write, Stored
  <1> QED
    BY <1>2, <1>3 DEF Dated, DatesStand, Absent

\* The other writers date a deletion once.
LEMMA WritersKeepDates ==
    ASSUME SafeInv, Dated, OtherWriters
    PROVE  Dated' /\ DatesStand /\ UNCHANGED <<cobj, cpvs>>
  <1>0. /\ obj \in [Objects -> Object] /\ cobj \in [Objects -> Object]
        /\ waited \in [Uids -> -1 .. Grace] /\ Grace \in Nat /\ UidsSound
    BY ClusterAssumption DEF SafeInv, TypeInv, TypeOK, ClusterTypeOK
  <1>1. ASSUME NEW o \in Objects, DriverCreate(o) PROVE Dated' /\ DatesStand /\ UNCHANGED <<cobj, cpvs>>
    <2>1. ~ obj'[o].deleting /\ \A p \in Objects : p # o => obj'[p] = obj[p]
      BY <1>0, <1>1 DEF DriverCreate
    <2> QED
      BY <1>1, <2>1 DEF Dated, DatesStand, DriverCreate
  <1>2. ASSUME NEW o \in Objects, RequestDeletion(o) PROVE Dated' /\ DatesStand /\ UNCHANGED <<cobj, cpvs>>
    <2> DEFINE u == obj[o].uid
    <2>1. u \in Uids /\ waited[u] = NotRequested
      BY <1>0, <1>2, ClusterAssumption DEF RequestDeletion, Exists, UidsSound, Object, Uids
    <2>2. waited'[u] = 0 /\ \A v \in Uids : v # u => waited'[v] = waited[v]
      BY <1>0, <1>2, <2>1 DEF RequestDeletion
    <2>3. /\ \A p \in Objects : obj[p].uid # 0 => obj[p].uid \in Uids
          /\ \A p \in Objects : cobj[p].uid # 0 => cobj[p].uid \in Uids
      BY <1>0, ClusterAssumption DEF Object, Uids
    <2>4. DatesStand
      BY <2>1, <2>2, <2>3 DEF Dated, DatesStand
    <2>5. \A p \in Objects : p # o => obj'[p] = obj[p]
      BY <1>0, <1>2 DEF RequestDeletion, Write
    <2>6. obj'[o].uid # 0 => obj'[o].uid = u
      <3> DEFINE r == [obj[o] EXCEPT !.deleting = TRUE]
      <3>1. r.uid = u
        BY <1>0 DEF Object
      <3>2. obj'[o] = Stored(r)
        BY <1>0, <1>2 DEF RequestDeletion, Write
      <3> QED
        BY <3>1, <3>2 DEF Stored, Absent
    <2>7. \A p \in Objects : obj'[p].uid # 0 /\ obj'[p].deleting => waited'[obj'[p].uid] # NotRequested
      BY <2>2, <2>3, <2>5, <2>6 DEF Dated, NotRequested
    <2>8. UNCHANGED <<cobj, cpvs>>
      BY <1>2 DEF RequestDeletion
    <2> QED
      BY <2>4, <2>7, <2>8 DEF Dated, DatesStand
  <1>3. ASSUME NEW o \in Objects,
               AgentAdopt(o) \/ AgentRelease(o) \/ DriverUnfinalize(o) \/ AgentFinalizerStripped(o)
        PROVE  Dated' /\ DatesStand /\ UNCHANGED <<cobj, cpvs>>
    <2>1. UNCHANGED <<waited, cobj, cpvs>>
      BY <1>3 DEF AgentAdopt, AgentRelease, DriverUnfinalize, AgentFinalizerStripped
    <2>2. PICK f \in SUBSET Finalizers : Write(o, [obj[o] EXCEPT !.fin = f])
      <3>1. obj[o].fin \in SUBSET Finalizers
        BY <1>0 DEF Object
      <3>2. CASE AgentAdopt(o)
        BY <3>1, <3>2 DEF AgentAdopt, Finalizers
      <3>3. CASE AgentRelease(o)
        BY <3>3 DEF AgentRelease
      <3>4. CASE DriverUnfinalize(o)
        BY <3>1, <3>4 DEF DriverUnfinalize
      <3>5. CASE AgentFinalizerStripped(o)
        BY <3>5 DEF AgentFinalizerStripped, Finalizers
      <3> QED
        BY <1>3, <3>2, <3>3, <3>4, <3>5
    <2> DEFINE r == [obj[o] EXCEPT !.fin = f]
    <2>3. r \in Object /\ r.uid = obj[o].uid /\ r.deleting = obj[o].deleting
      BY <1>0 DEF Object
    <2> HIDE DEF r
    <2> QED
      BY <2>1, <2>2, <2>3, WriteKeepsDates DEF r
  <1>4. ASSUME UNCHANGED <<obj, waited, cobj, cpvs>> PROVE Dated' /\ DatesStand
    BY <1>4 DEF Dated, DatesStand
  <1>5. ASSUME NEW p \in PVs, CreatePV(p) \/ DeletePV(p) PROVE UNCHANGED <<obj, waited, cobj, cpvs>>
    BY <1>5 DEF CreatePV, DeletePV
  <1>6. ASSUME NEW c \in VSCs, CreateVSC(c) \/ DeleteVSC(c) PROVE UNCHANGED <<obj, waited, cobj, cpvs>>
    BY <1>6 DEF CreateVSC, DeleteVSC
  <1> QED
    BY <1>1, <1>2, <1>3, <1>4, <1>5, <1>6 DEF OtherWriters

\* So does the collector's own write.
LEMMA PatchKeepsDates ==
    ASSUME SafeInv, Dated, pc = "patch", PatchApplied
    PROVE  Dated' /\ DatesStand /\ UNCHANGED <<cobj, cpvs>>
  <1>1. obj \in [Objects -> Object] /\ UNCHANGED <<waited, cobj, cpvs>>
    BY DEF SafeInv, TypeInv, TypeOK, ClusterTypeOK, PatchApplied
  <1> DEFINE r == [got EXCEPT !.fin = {AgentFinalizer}]
  <1>2. cur \in Objects /\ obj[cur] = got /\ got \in Object /\ obj' = [obj EXCEPT ![cur] = r]
    BY PatchLeavesRecord
  <1>3. r.uid = got.uid /\ r.deleting = got.deleting
    BY <1>2 DEF Object
  <1> HIDE DEF r
  <1>4. obj'[cur] = r /\ \A p \in Objects : p # cur => obj'[p] = obj[p]
    BY <1>1, <1>2
  <1> QED
    BY <1>1, <1>2, <1>3, <1>4 DEF Dated, DatesStand

\* A step that leaves the queue and the caches alone and, in a sweep, passes
\* over nothing that ripens.
LEMMA WakeKept ==
    ASSUME TimeInv, DatesStand,
           UNCHANGED <<cobj, cpvs, caller, queued, timer, since, slip, lsnapd, lobj>>,
           (pc' = "idle") <=> (pc = "idle"),
           next' \in Nat, next > 0 => next' > 0 /\ next' <= next,
           pc # "idle" /\ ~ queued => \A o \in todo : Ripening(o) =>
               o \in todo' \/ (next' <= Grace /\ InTime(next', o))
    PROVE  (WakeInv /\ WakesWhenDue)'
  <1>0. SafeInv /\ WakeInv /\ WakesWhenDue
    BY DEF TimeInv
  <1>1. WakesWhenDue'
    BY <1>0, RipeningKept DEF WakesWhenDue
  <1>2. ASSUME pc' # "idle", ~ queued' PROVE WakeInv'
    <2>1. /\ lsnapd' = snapshottedVolumeNames(cobj')
          /\ \A o \in Objects : Candidate(o)' => lobj'[o] = cobj'[o]
      BY <1>0, <1>2, RipeningKept DEF WakeInv, snapshottedVolumeNames
    <2>2. caller = "init" => \A o \in Objects : Ripening(o)' => InTime(timer, o)'
      BY <1>0, <1>2, RipeningKept DEF WakeInv, InTime
    <2>3. ASSUME caller = "queue", NEW o \in Objects, Ripening(o)'
          PROVE  o \in todo' \/ (next' <= Grace /\ InTime(next, o)')
      <3>1. Ripening(o) /\ waited'[cobj[o].uid] = waited[cobj[o].uid]
        BY <2>3, RipeningKept
      <3>2. /\ Grace \in Nat /\ slip \in Nat /\ next \in Nat
            /\ waited[cobj[o].uid] \in Int
        BY <1>0, <3>1, TimeTypes DEF Ripening, Candidate
      <3>3. CASE o \in todo
        BY <1>2, <3>1, <3>3 DEF InTime
      <3>4. CASE next <= Grace /\ InTime(next, o)
        BY <3>1, <3>2, <3>4 DEF InTime
      <3> QED
        BY <1>0, <1>2, <2>3, <3>1, <3>3, <3>4 DEF WakeInv
    <2> QED
      BY <2>1, <2>2, <2>3 DEF WakeInv
  <1> QED
    BY <1>1, <1>2 DEF WakeInv

\* The walk passes over nothing that ripens: by its lists such an object is
\* neither refused nor due, so it is asked about again in time.
LEMMA WalkRemembers ==
    ASSUME TimeInv, NEW o \in Objects, Refuse(o) \/ InsideGrace(o) \/ Defer(o) \/ Spend(o)
    PROVE  /\ next' \in Nat
           /\ next > 0 => next' > 0 /\ next' <= next
           /\ ~ queued => \A p \in todo : Ripening(p) =>
                 p \in todo' \/ (next' <= Grace /\ InTime(next', p))
  <1>0. SafeInv /\ WakeInv /\ Dated
    BY DEF TimeInv
  <1>1. /\ Grace \in Nat /\ Backlog \in Nat \ {0} /\ next \in Nat /\ slip \in Nat
        /\ \A u \in Uids : waited[u] \in -1 .. Grace
        /\ \A p \in todo : p \in Objects /\ lobj[p].uid \in Uids
    BY <1>0, TimeTypes
  <1>2. pc = "walk" /\ o \in todo /\ todo' = todo \ {o}
    BY DEF Refuse, InsideGrace, Defer, Spend, Picked
  <1>3. waitedFor(o) \in -1 .. Grace
    BY <1>1, <1>2 DEF waitedFor
  <1>4. ASSUME ~ queued, Ripening(o)
        PROVE  /\ CachedRefusal(o) = "none" /\ waitedFor(o) < Grace /\ waitedFor(o) >= 0
               /\ waitedFor(o) = waited[cobj[o].uid]
    <2>1. lobj[o] = cobj[o] /\ lsnapd = snapshottedVolumeNames(cobj)
      BY <1>0, <1>2, <1>4 DEF WakeInv, Ripening
    <2>2. waitedFor(o) = waited[cobj[o].uid] /\ waitedFor(o) < Grace
      BY <1>4, <2>1 DEF waitedFor, Ripening
    <2>3. waitedFor(o) # NotRequested
      BY <1>0, <1>4, <2>2 DEF Dated, Ripening, Candidate
    <2>4. CachedRefusal(o) = "none"
      BY <1>4, <2>1 DEF CachedRefusal, Ripening
    <2> QED
      BY <1>1, <1>3, <2>2, <2>3, <2>4 DEF NotRequested
  <1>5. CASE InsideGrace(o)
    <2>1. waitedFor(o) < Grace /\ next' = soonest(next, Grace - waitedFor(o))
      BY <1>5 DEF InsideGrace
    <2>2. /\ next' \in Nat /\ next' > 0 /\ next' <= Grace - waitedFor(o)
          /\ next > 0 => next' <= next
      BY <1>1, <1>3, <2>1 DEF soonest
    <2>3. ~ queued /\ Ripening(o) => next' <= Grace /\ InTime(next', o)
      BY <1>1, <1>3, <1>4, <2>2 DEF InTime
    <2> QED
      BY <1>2, <2>2, <2>3
  <1>6. CASE Defer(o)
    <2>1. waitedFor(o) >= Grace /\ next' = soonest(next, Backlog)
      BY <1>6 DEF Defer
    <2>2. next' \in Nat /\ (next > 0 => next' > 0 /\ next' <= next)
      BY <1>1, <2>1 DEF soonest
    <2>3. ~ (~ queued /\ Ripening(o))
      BY <1>1, <1>3, <1>4, <2>1
    <2> QED
      BY <1>2, <2>2, <2>3
  <1>7. CASE Refuse(o) \/ Spend(o)
    <2>1. next' = next
      BY <1>7 DEF Refuse, Spend
    <2>2. ~ (~ queued /\ Ripening(o))
      BY <1>1, <1>3, <1>4, <1>7 DEF Refuse, Spend
    <2> QED
      BY <1>1, <1>2, <2>1, <2>2
  <1> QED
    BY <1>5, <1>6, <1>7

\* The queue hands the item over and the pass comes to nothing: too early, or
\* a list failed.
LEMMA EmptyPassWakes ==
    ASSUME TimeInv, NEW w \in {"queue", "init"}, Throttled(w) \/ ListFailed(w)
    PROVE  (Dated /\ WakeInv /\ WakesWhenDue)'
  <1>0. SafeInv /\ WakesWhenDue /\ Dated
    BY DEF TimeInv
  <1>1. /\ UNCHANGED <<pc, obj, waited, cobj, cpvs, since, slip>> /\ pc = "idle"
        /\ w = "init" => UNCHANGED <<queued, timer>>
    BY DEF Throttled, ListFailed, Called
  <1>2. Dated' /\ DatesStand
    BY <1>0, <1>1 DEF Dated, DatesStand
  <1>3. WakeInv'
    BY <1>1 DEF WakeInv
  <1>4. /\ Grace \in Nat /\ MinInterval \in Nat /\ timer \in Nat /\ since \in -1 .. MinInterval
        /\ slip \in Nat
    BY <1>0, TimeTypes
  <1>5. CASE w = "init"
    BY <1>0, <1>1, <1>2, <1>3, <1>5, RipeningKept DEF WakesWhenDue
  <1>6. CASE w = "queue" /\ Throttled(w)
    <2>1. since # Never /\ since < MinInterval /\ timer' = soonest(timer, MinInterval - since)
      BY <1>6 DEF Throttled, Throttle
    <2>2. timer' > 0 /\ timer' <= MinInterval - since
      BY <1>4, <2>1 DEF soonest, Never
    <2> QED
      BY <1>1, <1>2, <1>3, <2>1, <2>2 DEF WakesWhenDue
  <1>7. CASE w = "queue" /\ ListFailed(w)
    <2>1. timer' = 1
      BY <1>4, <1>7 DEF ListFailed, soonest
    <2>2. ASSUME NEW o \in Objects, Ripening(o)'
          PROVE  timer' > 0 /\ timer' <= Grace - waited'[cobj'[o].uid] + slip'
      <3>1. Ripening(o)
        BY <1>1, <1>2, <2>2, RipeningKept
      <3>2. waited[cobj[o].uid] \in Int /\ waited[cobj[o].uid] < Grace
        BY <1>0, <3>1, TimeTypes DEF Ripening, Candidate
      <3> QED
        BY <1>1, <1>4, <2>1, <3>2
    <2> QED
      BY <1>2, <1>3, <2>2 DEF WakesWhenDue
  <1> QED
    BY <1>2, <1>3, <1>5, <1>6, <1>7

\* A sweep begins with everything that ripens still to be seen; the start-up
\* sweep, which gets past the floor only when it is cleared, with the timer in
\* time for it.
LEMMA StartWakes ==
    ASSUME TimeInv, NEW w \in {"queue", "init"}, StartSweep(w)
    PROVE  (Dated /\ WakeInv /\ WakesWhenDue)'
  <1>0. SafeInv /\ WakesWhenDue /\ Dated
    BY DEF TimeInv
  <1>1. /\ UNCHANGED <<obj, waited, cobj, cpvs, since, timer>> /\ pc = "idle" /\ pc' = "walk"
        /\ caller' = w /\ next' = 0
        /\ w = "init" => UNCHANGED <<queued, slip>>
        /\ ~ Throttle
    BY DEF StartSweep, Called
  <1>2. Dated' /\ DatesStand
    BY <1>0, <1>1 DEF Dated, DatesStand
  <1>3. WakesWhenDue'
    BY <1>1 DEF WakesWhenDue
  <1>4. /\ MinInterval \in Nat /\ timer \in Nat /\ since \in -1 .. MinInterval
    BY <1>0, TimeTypes
  <1>5. /\ lsnapd' = snapshottedVolumeNames(cobj')
        /\ \A o \in Objects : Candidate(o)' => lobj'[o] = cobj'[o]
        /\ \A o \in Objects : Ripening(o)' => o \in todo'
    <2>1. /\ lsnapd' = snapshottedVolumeNames(cobj)
          /\ lobj' = [o \in Objects |-> IF Candidate(o) THEN cobj[o] ELSE Absent]
          /\ todo' = {o \in Objects : Candidate(o)}
      BY DEF StartSweep
    <2>2. \A o \in Objects : Ripening(o) => Candidate(o)
      BY DEF Ripening
    <2>3. \A o \in Objects : (Candidate(o)' <=> Candidate(o)) /\ (Ripening(o)' <=> Ripening(o))
      BY <1>1, <1>2, RipeningKept
    <2> QED
      BY <1>1, <2>1, <2>2, <2>3 DEF snapshottedVolumeNames
  <1>6. ASSUME w = "init", ~ queued', NEW o \in Objects, Ripening(o)' PROVE InTime(timer, o)'
    <2>1. Ripening(o) /\ ~ queued
      BY <1>1, <1>2, <1>6, RipeningKept
    <2>2. timer > 0 /\ ~ (since # Never /\ timer <= MinInterval - since)
      BY <1>0, <1>1, <1>4, <2>1 DEF WakesWhenDue, Throttle, Never
    <2>3. timer <= Grace - waited[cobj[o].uid] + slip
      BY <1>0, <1>1, <2>1, <2>2 DEF WakesWhenDue
    <2> QED
      BY <1>1, <1>6, <2>2, <2>3 DEF InTime
  <1>7. WakeInv'
    BY <1>1, <1>5, <1>6 DEF WakeInv
  <1> QED
    BY <1>2, <1>3, <1>7

\* A sweep of the queue ends with a delayed add in time for what ripens; one
\* at start-up leaves the timer as it is.
LEMMA PublishWakes ==
    ASSUME TimeInv, Publish
    PROVE  (Dated /\ WakeInv /\ WakesWhenDue)'
  <1>0. SafeInv /\ WakeInv /\ Dated
    BY DEF TimeInv
  <1>1. /\ UNCHANGED <<obj, waited, cobj, cpvs, queued, slip>> /\ pc = "walk" /\ pc' = "idle"
        /\ todo = {}
        /\ timer' = IF caller = "queue" THEN soonest(timer, Requeue) ELSE timer
    BY DEF Publish
  <1>2. Dated' /\ DatesStand
    BY <1>0, <1>1 DEF Dated, DatesStand
  <1>3. WakeInv'
    BY <1>1 DEF WakeInv
  <1>4. /\ Grace \in Nat /\ timer \in Nat /\ next \in Nat /\ Backlog \in Nat \ {0}
        /\ SweepInterval \in Nat \ {0} /\ slip \in Nat /\ caller \in {"queue", "init"}
    BY <1>0, TimeTypes
  <1>5. ASSUME NEW o \in Objects, Ripening(o)', ~ queued'
        PROVE  timer' > 0 /\ timer' <= Grace - waited'[cobj'[o].uid] + slip'
    <2>1. Ripening(o) /\ ~ queued
      BY <1>1, <1>2, <1>5, RipeningKept
    <2>2. waited[cobj[o].uid] \in Int
      BY <1>0, <2>1, TimeTypes DEF Ripening, Candidate
    <2>3. CASE caller = "queue"
      <3>1. next > 0 /\ next <= Grace - waited[cobj[o].uid] + slip
        BY <1>0, <1>1, <2>1, <2>3 DEF WakeInv, InTime
      <3>2. Requeue \in Nat /\ Requeue > 0 /\ Requeue <= next
        BY <1>4, <3>1 DEF Requeue, soonest
      <3>3. timer' > 0 /\ timer' <= Requeue /\ timer' \in Nat
        BY <1>1, <1>4, <2>3, <3>2 DEF soonest
      <3> QED
        BY <1>1, <1>4, <2>2, <3>1, <3>2, <3>3
    <2>4. CASE caller = "init"
      BY <1>0, <1>1, <2>1, <2>4 DEF WakeInv, InTime
    <2> QED
      BY <1>4, <2>3, <2>4
  <1> QED
    BY <1>2, <1>3, <1>5 DEF WakesWhenDue

\* Time passes for the timer and for what ripens alike; what a sweep of the
\* queue takes is counted as slip, and a timer that runs out queues the item.
LEMMA TickWakes ==
    ASSUME TimeInv, Tick
    PROVE  (Dated /\ WakeInv /\ WakesWhenDue)'
  <1>0. SafeInv /\ WakeInv /\ WakesWhenDue /\ Dated
    BY DEF TimeInv
  <1>1. /\ Grace \in Nat /\ MinInterval \in Nat
        /\ timer \in Nat /\ since \in -1 .. MinInterval /\ slip \in 0 .. Grace /\ next \in Nat
        /\ queued \in BOOLEAN /\ caller \in {"queue", "init"}
        /\ \A u \in Uids : waited[u] \in -1 .. Grace
        /\ \A o \in Objects : cobj[o].uid # 0 => cobj[o].uid \in Uids
    BY <1>0, TimeTypes
  <1>2. /\ UNCHANGED <<pc, caller, obj, cobj, cpvs, lobj, lsnapd, todo, next>>
        /\ \A u \in Uids : waited'[u] = IF waited[u] = NotRequested \/ waited[u] = Grace
                                        THEN waited[u] ELSE waited[u] + 1
    BY DEF Tick, Age
  <1>3. /\ since' = IF since = Never \/ since = MinInterval THEN since ELSE since + 1
        /\ timer' = IF timer > 0 THEN timer - 1 ELSE 0
        /\ queued' = (queued \/ timer = 1)
        /\ slip' = IF pc = "idle" \/ caller = "init" \/ slip = Grace THEN slip ELSE slip + 1
    BY DEF Tick
  <1>4. Dated'
    <2>1. \A o \in Objects : obj[o].uid # 0 => obj[o].uid \in Uids
      BY <1>0, ClusterAssumption DEF SafeInv, TypeInv, TypeOK, ClusterTypeOK, Object, Uids
    <2>2. \A u \in Uids : waited[u] # NotRequested => waited'[u] # NotRequested
      BY <1>1, <1>2 DEF NotRequested
    <2> QED
      BY <1>0, <1>1, <1>2, <2>1, <2>2 DEF Dated
  <1>5. \A o \in Objects : Candidate(o)' <=> Candidate(o)
    BY <1>2 DEF Candidate
  <1>6. ASSUME NEW o \in Objects, Ripening(o)'
        PROVE  /\ Ripening(o)
               /\ waited[cobj[o].uid] \in 0 .. Grace - 2
               /\ waited'[cobj'[o].uid] = waited[cobj[o].uid] + 1
    <2>1. /\ Candidate(o) /\ cobj[o].deleting /\ AgentFinalizer \in cobj[o].fin
          /\ o \in Vols => o \notin snapshottedVolumeNames(cobj)
          /\ waited'[cobj[o].uid] < Grace
      BY <1>2, <1>5, <1>6 DEF Ripening, snapshottedVolumeNames
    <2>2. cobj[o].uid \in Uids /\ waited[cobj[o].uid] # NotRequested
      BY <1>0, <1>1, <2>1 DEF Candidate, Dated
    <2>3. /\ waited[cobj[o].uid] \in 0 .. Grace - 2
          /\ waited'[cobj[o].uid] = waited[cobj[o].uid] + 1
      BY <1>1, <1>2, <2>1, <2>2 DEF NotRequested
    <2>4. waited[cobj[o].uid] < Grace
      BY <1>1, <2>3
    <2> QED
      BY <1>2, <2>1, <2>3, <2>4 DEF Ripening
  <1>7. WakesWhenDue'
    <2> SUFFICES ASSUME pc = "idle", NEW o \in Objects, Ripening(o)', ~ queued'
                 PROVE  /\ timer' > 0
                        /\ \/ timer' <= Grace - waited'[cobj'[o].uid] + slip'
                           \/ since' # Never /\ timer' <= MinInterval - since'
      BY <1>2 DEF WakesWhenDue
    <2> DEFINE a == waited[cobj[o].uid]
    <2>1. Ripening(o) /\ a \in 0 .. Grace - 2 /\ waited'[cobj'[o].uid] = a + 1
      BY <1>6
    <2>2. ~ queued /\ timer # 1
      BY <1>3
    <2>3. timer > 0 /\ (timer <= Grace - a + slip \/ (since # Never /\ timer <= MinInterval - since))
      BY <1>0, <2>1, <2>2 DEF WakesWhenDue
    <2> HIDE DEF a
    <2>4. timer' = timer - 1 /\ timer' > 0 /\ slip' = slip
      BY <1>1, <1>3, <2>2, <2>3
    <2>5. CASE timer <= Grace - a + slip
      BY <1>1, <2>1, <2>4, <2>5
    <2>6. CASE since # Never /\ timer <= MinInterval - since
      <3>1. since' = since + 1 /\ since' # Never
        BY <1>1, <1>3, <2>3, <2>6 DEF Never
      <3> QED
        BY <1>1, <2>4, <2>6, <3>1
    <2> QED
      BY <2>3, <2>5, <2>6
  <1>8. WakeInv'
    <2> SUFFICES ASSUME pc # "idle", ~ queued' PROVE WakeInv'
      BY <1>2 DEF WakeInv
    <2>1. ~ queued /\ timer # 1
      BY <1>3
    <2>2. /\ lsnapd' = snapshottedVolumeNames(cobj')
          /\ \A o \in Objects : Candidate(o)' => lobj'[o] = cobj'[o]
      BY <1>0, <1>2, <1>5, <2>1 DEF WakeInv, snapshottedVolumeNames
    <2>3. ASSUME NEW o \in Objects, Ripening(o)', caller = "queue"
          PROVE  o \in todo' \/ (next' <= Grace /\ InTime(next, o)')
      <3> DEFINE a == waited[cobj[o].uid]
      <3>1. Ripening(o) /\ a \in 0 .. Grace - 2 /\ waited'[cobj'[o].uid] = a + 1
        BY <1>6, <2>3
      <3>2. o \in todo \/ (next <= Grace /\ next > 0 /\ next <= Grace - a + slip)
        BY <1>0, <2>1, <2>3, <3>1 DEF WakeInv, InTime
      <3> HIDE DEF a
      <3>3. slip' = IF slip = Grace THEN slip ELSE slip + 1
        BY <1>3, <2>3
      <3> QED
        BY <1>1, <1>2, <3>1, <3>2, <3>3 DEF InTime
    <2>4. ASSUME NEW o \in Objects, Ripening(o)', caller = "init" PROVE InTime(timer, o)'
      <3> DEFINE a == waited[cobj[o].uid]
      <3>1. Ripening(o) /\ a \in 0 .. Grace - 2 /\ waited'[cobj'[o].uid] = a + 1
        BY <1>6, <2>4
      <3>2. timer > 0 /\ timer <= Grace - a + slip
        BY <1>0, <2>1, <2>4, <3>1 DEF WakeInv, InTime
      <3> HIDE DEF a
      <3>3. slip' = slip /\ timer' = timer - 1
        BY <1>1, <1>3, <2>4, <3>2
      <3> QED
        BY <1>1, <2>1, <3>1, <3>2, <3>3 DEF InTime
    <2> QED
      BY <1>2, <2>2, <2>3, <2>4 DEF WakeInv
  <1> QED
    BY <1>4, <1>7, <1>8

\* A restart queues the item if there is anything in the caches.
LEMMA RestartWakes ==
    ASSUME TimeInv, Restart
    PROVE  (Dated /\ WakeInv /\ WakesWhenDue)'
  <1>1. Dated'
    BY DEF Restart, TimeInv, Dated
  <1>2. WakeInv'
    BY DEF Restart, WakeInv
  <1>3. ASSUME NEW o \in Objects, Ripening(o)' PROVE queued'
    <2>1. cobj'[o].uid # 0
      BY <1>3 DEF Ripening, Candidate
    <2> QED
      BY <2>1 DEF Restart, CachesFilled, Exists
  <1> QED
    BY <1>1, <1>2, <1>3 DEF WakesWhenDue

\* Every step keeps the wake-up.
LEMMA TimeStep == TimeInv /\ [Next]_vars => TimeInv'
  <1> SUFFICES ASSUME TimeInv, [Next]_vars PROVE (Dated /\ WakeInv /\ WakesWhenDue)'
    BY SafeStep DEF TimeInv
  <1>0. SafeInv /\ Dated
    BY DEF TimeInv
  <1>a. UNCHANGED <<obj, waited, cobj>> => Dated' /\ DatesStand
    BY <1>0 DEF Dated, DatesStand
  <1>b. next \in Nat
    BY <1>0, TimeTypes
  <1>c. ASSUME Dated', DatesStand,
               UNCHANGED <<cobj, cpvs, caller, queued, timer, since, slip, lsnapd, lobj, next, todo>>,
               (pc' = "idle") <=> (pc = "idle")
        PROVE  (Dated /\ WakeInv /\ WakesWhenDue)'
    BY <1>b, <1>c, WakeKept
  <1>1. ASSUME NEW w \in {"queue", "init"}, Throttled(w) \/ ListFailed(w) \/ StartSweep(w)
        PROVE  (Dated /\ WakeInv /\ WakesWhenDue)'
    BY <1>1, EmptyPassWakes, StartWakes
  <1>2. ASSUME NEW o \in Objects, Refuse(o) \/ InsideGrace(o) \/ Defer(o) \/ Spend(o)
        PROVE  (Dated /\ WakeInv /\ WakesWhenDue)'
    <2>1. /\ UNCHANGED <<obj, waited, cobj, cpvs, caller, queued, timer, since, slip, lsnapd, lobj>>
          /\ pc # "idle" /\ pc' # "idle"
      BY <1>2 DEF Refuse, InsideGrace, Defer, Spend, Picked
    <2>2. Dated' /\ DatesStand
      BY <1>a, <2>1
    <2>3. /\ next' \in Nat
          /\ next > 0 => next' > 0 /\ next' <= next
          /\ ~ queued => \A p \in todo : Ripening(p) =>
                p \in todo' \/ (next' <= Grace /\ InTime(next', p))
      BY <1>2, WalkRemembers
    <2> QED
      BY <2>1, <2>2, <2>3, WakeKept
  <1>3. CASE \/ ReusePicture \/ LoadPVs \/ LoadSnaps \/ LoadContents \/ LoadFailed \/ ConfirmRefuses
             \/ Confirmed \/ GetSettles \/ GetLive \/ PermanentFailure \/ PatchNotFound \/ Deadline
             \/ UNCHANGED vars
    <2>1. /\ UNCHANGED <<obj, waited, cobj, cpvs, caller, queued, timer, since, slip, lsnapd, lobj, next, todo>>
          /\ (pc' = "idle") <=> (pc = "idle")
      BY <1>3 DEF ReusePicture, LoadPVs, LoadSnaps, LoadContents, LoadFailed, ConfirmRefuses, Confirmed,
                  GetSettles, GetLive, PermanentFailure, PatchNotFound, Deadline, Settle, vars, gcVars
    <2> QED
      BY <1>a, <1>c, <2>1
  <1>4. CASE WriteOff \/ RetriableFailure \/ CancelledWrite
    <2>1. UNCHANGED clusterVars \/ (pc = "patch" /\ PatchApplied)
      BY <1>4 DEF WriteOff, RetriableFailure, CancelledWrite
    <2>2. Dated' /\ DatesStand /\ UNCHANGED <<cobj, cpvs>>
      BY <1>0, <1>a, <2>1, PatchKeepsDates
    <2>3. /\ UNCHANGED <<caller, queued, timer, since, slip, lsnapd, lobj, next, todo>>
          /\ pc # "idle" /\ pc' # "idle"
      BY <1>4 DEF WriteOff, RetriableFailure, CancelledWrite, Retry, Settle
    <2> QED
      BY <1>c, <2>2, <2>3
  <1>5. CASE Environment
    <2>1. Dated' /\ DatesStand /\ UNCHANGED <<cobj, cpvs>>
      BY <1>0, <1>5, WritersKeepDates DEF Environment
    <2>2. UNCHANGED <<pc, caller, queued, timer, since, slip, lsnapd, lobj, next, todo>>
      <3>1. slip' = slip
        BY <1>5 DEF Environment, OtherWriters
      <3> QED
        BY <3>1, <1>5 DEF Environment
    <2> QED
      BY <1>c, <2>1, <2>2
  <1>6. CASE WatchLLV \/ WatchLLVS \/ WatchPV
    <2>1. queued' /\ UNCHANGED <<obj, waited>>
      BY <1>6 DEF WatchLLV, WatchLLVS, WatchPV, SyncKind, SyncPVs, enqueueLVMLogicalVolumeSweep
    <2>2. \A o \in Objects : cobj'[o] = obj[o] \/ cobj'[o] = cobj[o]
      BY <1>6 DEF WatchLLV, WatchLLVS, WatchPV, SyncKind, SyncPVs
    <2> QED
      BY <1>0, <2>1, <2>2 DEF Dated, WakeInv, WakesWhenDue
  <1>7. CASE Publish \/ Tick \/ Restart
    BY <1>7, PublishWakes, TickWakes, RestartWakes
  <1> QED
    BY <1>1, <1>2, <1>3, <1>4, <1>5, <1>6, <1>7 DEF Next, Sweep

\* At first nothing is being deleted.
LEMMA TimeInit == Init => TimeInv
  <1> SUFFICES ASSUME Init PROVE TimeInv
    OBVIOUS
  <1>1. cobj = obj /\ \A o \in Objects : ~ obj[o].deleting
    BY DEF Init, ClusterInit, Absent
  <1>2. pc = "idle"
    BY DEF Init, GCInit
  <1> QED
    BY <1>1, <1>2, SafeInit DEF TimeInv, Dated, WakeInv, WakesWhenDue, Ripening

\* Neither a throttled pass, a failed list, a restart nor the start-up sweep
\* loses the wake-up of an object that ripens: between sweeps the item is
\* queued, or its timer ends with the grace period, late by no more than the
\* last sweep of the queue took, or with the floor between sweeps.
THEOREM NoWakeUpLost == Spec => []WakesWhenDue
  <1>1. TimeInv => WakesWhenDue
    BY DEF TimeInv
  <1> QED
    BY <1>1, TimeInit, TimeStep, PTL DEF Spec
=============================================================================
