---------------------------- MODULE LLVGC_proofs ----------------------------
(***************************************************************************)
(* Type correctness of the collector: TypeOK is inductive together with    *)
(* Listed, which says that what a sweep works on it has listed.            *)
(***************************************************************************)
EXTENDS LLVGC, TLAPS

USE DEF queueVars, listVars, walkVars, liveVars, writeVars, newVars, clusterVars

\* What the API server stores of a written object is an object.
LEMMA ObjectWritten ==
    ASSUME NEW o \in Objects, NEW r \in Object, obj \in [Objects -> Object], Write(o, r)
    PROVE  obj' \in [Objects -> Object]
  BY ClusterAssumption DEF Write, Stored, Absent, Object, Objects, Finalizers

\* A collector that starts on a populated cluster is well typed.
LEMMA TypeInit == Init => TypeOK
  <1> SUFFICES ASSUME Init PROVE TypeOK
    OBVIOUS
  <1>1. ClusterTypeOK
    BY ClusterAssumption
    DEF Init, ClusterInit, ClusterTypeOK, Object, Absent, Finalizers, Objects, Uids, NotRequested
  <1>2. queued \in BOOLEAN
    BY Zenon DEF Init, GCInit, CachesFilled
  <1>3. report \in [Objects -> Reports] /\ lobj \in [Objects -> Object] /\ got \in Object
    BY ClusterAssumption DEF Init, GCInit, NoReport, NoList, Reports, Absent, Object, Finalizers
  <1>4. /\ timer \in 0 .. SweepInterval
        /\ since \in -1 .. MinInterval
        /\ budget \in 0 .. MaxReclaims
        /\ next \in Nat
        /\ picAge \in -1 .. MaxAge
        /\ attempts \in 0 .. Attempts - 1
        /\ interrupts \in 0 .. MaxInterrupts
        /\ slip \in 0 .. Grace
    BY ClusterAssumption, GCAssumption DEF Init, GCInit, Never
  <1>5. QED
    BY <1>1, <1>2, <1>3, <1>4 DEF Init, GCInit, TypeOK, PCs

-----------------------------------------------------------------------------
\* A name without an object is typed like one with an object.
LEMMA AbsentType == Absent \in Object
  BY ClusterAssumption DEF Absent, Object

\* Settling the current object keeps the types it touches.
LEMMA SettleType ==
    ASSUME TypeOK, NEW r \in Reports, Settle(r)
    PROVE  /\ pc' \in PCs /\ pc' = "walk"
           /\ cur' \in Objects \cup {NoName}
           /\ got' \in Object
           /\ attempts' \in 0 .. Attempts - 1
           /\ report' \in [Objects -> Reports]
  <1>1. report' \in [Objects -> Reports]
    BY DEF TypeOK, Settle, Reported
  <1>2. 0 \in 0 .. Attempts - 1
    BY GCAssumption
  <1> QED
    BY <1>1, <1>2, AbsentType DEF Settle, PCs

\* The verdicts are reports.
LEMMA VerdictTypes ==
    /\ \A o : CachedRefusal(o) \in Reports /\ LiveRefusal(o) \in Reports
    /\ \A o : GetOutcome(o) \in Reports
    /\ {"none", "terminating", "APIError", "RemovalFailed", "awaitingAgent"} \subseteq Reports
  BY DEF CachedRefusal, LiveRefusal, GetOutcome, Reports, BlockReasons

\* A patch that the API server applied leaves an object in place of got.
LEMMA PatchType ==
    ASSUME TypeOK, cur \in Objects, PatchApplied
    PROVE  ClusterTypeOK'
  <1>1. WithoutCSIFinalizer \in Object
    BY DEF TypeOK, WithoutCSIFinalizer, Object
  <1>2. obj' \in [Objects -> Object]
    BY <1>1, ObjectWritten DEF PatchApplied, TypeOK, ClusterTypeOK
  <1> QED
    BY <1>2 DEF PatchApplied, TypeOK, ClusterTypeOK

\* The driver, the agent, the operator and the owners of the referring objects
\* keep the cluster well typed.
LEMMA WritersType ==
    ASSUME TypeOK, OtherWriters
    PROVE  ClusterTypeOK' /\ newPVs' \subseteq PVs /\ newSnaps' \subseteq Snaps /\ newVSCs' \subseteq VSCs
           /\ slip' = slip
  <1> USE DEF TypeOK, ClusterTypeOK
  <1>1. ASSUME NEW o \in Objects, DriverCreate(o),
               newSnaps' = (IF o \in Snaps THEN Noted(newSnaps, o) ELSE newSnaps),
               UNCHANGED <<newPVs, newVSCs, slip>>
        PROVE  ClusterTypeOK' /\ newPVs' \subseteq PVs /\ newSnaps' \subseteq Snaps /\ newVSCs' \subseteq VSCs
               /\ slip' = slip
    BY <1>1, ClusterAssumption DEF DriverCreate, Noted, Object, Finalizers
  <1>2. ASSUME NEW o \in Objects, UNCHANGED newVars,
               \/ RequestDeletion(o) \/ AgentAdopt(o) \/ AgentRelease(o)
               \/ DriverUnfinalize(o) \/ AgentFinalizerStripped(o)
        PROVE  ClusterTypeOK' /\ newPVs' \subseteq PVs /\ newSnaps' \subseteq Snaps /\ newVSCs' \subseteq VSCs
               /\ slip' = slip
    <2>0. obj[o] \in Object
      OBVIOUS
    <2>1. CASE RequestDeletion(o)
      <3>1. [obj[o] EXCEPT !.deleting = TRUE] \in Object
        BY <2>0 DEF Object
      <3>2. obj' \in [Objects -> Object]
        BY <3>1, <2>1, ObjectWritten DEF RequestDeletion
      <3>3. waited' \in [Uids -> -1 .. Grace]
        <4>1. 0 \in -1 .. Grace
          BY ClusterAssumption
        <4> QED
          BY <2>1, <4>1 DEF RequestDeletion
      <3> QED
        BY <3>2, <3>3, <2>1, <1>2 DEF RequestDeletion
    <2>2. CASE AgentAdopt(o)
      <3>1. [obj[o] EXCEPT !.fin = @ \cup {AgentFinalizer}] \in Object
        BY <2>0 DEF Object, Finalizers
      <3>2. obj' \in [Objects -> Object]
        BY <3>1, <2>2, ObjectWritten DEF AgentAdopt
      <3> QED
        BY <3>2, <2>2, <1>2 DEF AgentAdopt
    <2>3. CASE AgentRelease(o)
      <3>1. [obj[o] EXCEPT !.fin = {}] \in Object
        BY <2>0 DEF Object
      <3>2. obj' \in [Objects -> Object]
        BY <3>1, <2>3, ObjectWritten DEF AgentRelease
      <3> QED
        BY <3>2, <2>3, <1>2 DEF AgentRelease
    <2>4. CASE DriverUnfinalize(o)
      <3>1. [obj[o] EXCEPT !.fin = @ \ {CSIFinalizer}] \in Object
        BY <2>0 DEF Object
      <3>2. obj' \in [Objects -> Object]
        BY <3>1, <2>4, ObjectWritten DEF DriverUnfinalize
      <3> QED
        BY <3>2, <2>4, <1>2 DEF DriverUnfinalize
    <2>5. CASE AgentFinalizerStripped(o)
      <3>1. [obj[o] EXCEPT !.fin = {CSIFinalizer}] \in Object
        BY <2>0 DEF Object, Finalizers
      <3>2. obj' \in [Objects -> Object]
        BY <3>1, <2>5, ObjectWritten DEF AgentFinalizerStripped
      <3> QED
        BY <3>2, <2>5, <1>2 DEF AgentFinalizerStripped
    <2> QED
      BY <1>2, <2>1, <2>2, <2>3, <2>4, <2>5
  <1>3. ASSUME NEW p \in PVs,
               \/ CreatePV(p) /\ newPVs' = Noted(newPVs, p) /\ UNCHANGED <<newSnaps, newVSCs, slip>>
               \/ DeletePV(p) /\ UNCHANGED newVars
        PROVE  ClusterTypeOK' /\ newPVs' \subseteq PVs /\ newSnaps' \subseteq Snaps /\ newVSCs' \subseteq VSCs
               /\ slip' = slip
    BY <1>3 DEF CreatePV, DeletePV, Noted
  <1>4. ASSUME NEW c \in VSCs,
               \/ CreateVSC(c) /\ newVSCs' = Noted(newVSCs, c) /\ UNCHANGED <<newPVs, newSnaps, slip>>
               \/ DeleteVSC(c) /\ UNCHANGED newVars
        PROVE  ClusterTypeOK' /\ newPVs' \subseteq PVs /\ newSnaps' \subseteq Snaps /\ newVSCs' \subseteq VSCs
               /\ slip' = slip
    BY <1>4 DEF CreateVSC, DeleteVSC, Noted
  <1> QED
    BY <1>1, <1>2, <1>3, <1>4 DEF OtherWriters

-----------------------------------------------------------------------------
\* Every step keeps the types.  That what is walked over was listed is needed
\* for the arithmetic on grace periods.
TypeInv == TypeOK /\ Listed

\* Every step, of the collector or of anybody else, keeps the types.
LEMMA TypeStep == TypeInv /\ [Next]_vars => TypeInv'
  <1> SUFFICES ASSUME TypeInv, [Next]_vars PROVE TypeInv'
    OBVIOUS
  <1> USE ClusterAssumption, GCAssumption DEF TypeInv
  <1>0. TypeOK /\ Listed
    OBVIOUS
  <1>1. ASSUME NEW w \in {"queue", "init"}, Throttled(w) PROVE TypeInv'
    <2>1. timer' \in 0 .. SweepInterval
      BY <1>0, <1>1 DEF TypeOK, Throttled, Called, Throttle, soonest, Never
    <2>2. queued' \in BOOLEAN /\ initPending' \in BOOLEAN
      BY <1>0, <1>1 DEF TypeOK, Throttled, Called
    <2> QED
      BY <1>0, <2>1, <2>2, <1>1 DEF TypeOK, Listed, ClusterTypeOK, Throttled, Called
  <1>2. ASSUME NEW w \in {"queue", "init"}, ListFailed(w) PROVE TypeInv'
    <2>1. timer' \in 0 .. SweepInterval
      BY <1>0, <1>2 DEF TypeOK, ListFailed, soonest
    <2>2. queued' \in BOOLEAN /\ initPending' \in BOOLEAN
      BY <1>0, <1>2 DEF TypeOK, ListFailed, Called
    <2> QED
      BY <1>0, <2>1, <2>2, <1>2 DEF TypeOK, Listed, ClusterTypeOK, ListFailed, Called
  <1>3. ASSUME NEW w \in {"queue", "init"}, StartSweep(w) PROVE TypeInv'
    <2>1. lobj' \in [Objects -> Object]
      BY <1>0, AbsentType, <1>3 DEF TypeOK, ClusterTypeOK, StartSweep
    <2>2. queued' \in BOOLEAN /\ initPending' \in BOOLEAN
      BY <1>0, <1>3 DEF TypeOK, StartSweep, Called
    <2>3. report' \in [Objects -> Reports]
      BY VerdictTypes, <1>3 DEF StartSweep
    <2>4. Listed'
      BY <1>3 DEF StartSweep, Listed, Candidate
    <2>5. todo' \subseteq Objects /\ pc' \in PCs /\ caller' \in {"queue", "init"}
      BY <1>3 DEF StartSweep, Called, PCs
    <2>8. slip \in 0 .. Grace
      BY DEF TypeInv, TypeOK
    <2>6. /\ budget' \in 0 .. MaxReclaims /\ next' \in Nat /\ slip' \in 0 .. Grace
      BY <1>0, <1>3, <2>8 DEF StartSweep
    <2>7. exhausted' \in BOOLEAN /\ cancelled' \in BOOLEAN
      BY <1>3 DEF StartSweep
    <2> QED
      BY <1>0, <2>1, <2>2, <2>3, <2>4, <2>5, <2>6, <2>7, <1>3 DEF TypeOK, ClusterTypeOK, StartSweep
  <1>4. ASSUME NEW o \in Objects, Refuse(o) PROVE TypeInv'
    BY <1>0, VerdictTypes, <1>4 DEF TypeOK, Listed, ClusterTypeOK, Refuse, Picked, Reported
  <1>5. ASSUME NEW o \in Objects, InsideGrace(o) PROVE TypeInv'
    <2>1. waitedFor(o) \in Int
      BY <1>0, <1>5 DEF TypeOK, ClusterTypeOK, Listed, InsideGrace, Picked, waitedFor, Object, Uids
    <2>2. next' \in Nat
      BY <1>0, <2>1, <1>5 DEF TypeOK, InsideGrace, soonest
    <2> QED
      BY <1>0, <2>2, VerdictTypes, <1>5 DEF TypeOK, Listed, ClusterTypeOK, InsideGrace, Picked, Reported
  <1>6. ASSUME NEW o \in Objects, Defer(o) PROVE TypeInv'
    <2>1. next' \in Nat
      BY <1>0, <1>6 DEF TypeOK, Defer, soonest
    <2> QED
      BY <1>0, <2>1, VerdictTypes, <1>6 DEF TypeOK, Listed, ClusterTypeOK, Defer, Picked, Reported
  <1>7. ASSUME NEW o \in Objects, Spend(o) PROVE TypeInv'
    BY <1>0, <1>7 DEF TypeOK, Listed, ClusterTypeOK, Spend, Picked, PCs
  <1>8. CASE ReusePicture
    BY <1>0, <1>8 DEF TypeOK, Listed, ClusterTypeOK, ReusePicture, PCs
  <1>9. CASE LoadPVs
    BY <1>0, <1>9 DEF TypeOK, Listed, ClusterTypeOK, LoadPVs, PCs
  <1>10. CASE LoadSnaps
    BY <1>0, <1>10 DEF TypeOK, Listed, ClusterTypeOK, LoadSnaps, PCs
  <1>11. CASE LoadContents
    BY <1>0, <1>11 DEF TypeOK, Listed, ClusterTypeOK, LoadContents, PCs
  <1>12. CASE LoadFailed
    <2>1. "APIError" \in Reports
      BY VerdictTypes
    <2>2. /\ pc' \in PCs /\ pc' = "walk" /\ cur' \in Objects \cup {NoName}
          /\ got' \in Object /\ attempts' \in 0 .. Attempts - 1
          /\ report' \in [Objects -> Reports]
      BY <1>0, <2>1, <1>12, SettleType DEF LoadFailed
    <2> QED
      BY <1>0, <2>2, <1>12 DEF TypeOK, Listed, ClusterTypeOK, LoadFailed, Settle
  <1>13. CASE ConfirmRefuses
    <2>1. LiveRefusal(cur) \in Reports
      BY VerdictTypes
    <2>2. /\ pc' \in PCs /\ pc' = "walk" /\ cur' \in Objects \cup {NoName}
          /\ got' \in Object /\ attempts' \in 0 .. Attempts - 1
          /\ report' \in [Objects -> Reports]
      BY <1>0, <2>1, <1>13, SettleType DEF ConfirmRefuses
    <2> QED
      BY <1>0, <2>2, <1>13 DEF TypeOK, Listed, ClusterTypeOK, ConfirmRefuses, Settle
  <1>14. CASE Confirmed
    BY <1>0, <1>14 DEF TypeOK, Listed, ClusterTypeOK, Confirmed, PCs
  <1>15. CASE GetSettles
    <2>1. GetOutcome(cur) \in Reports
      BY VerdictTypes
    <2>2. /\ pc' \in PCs /\ pc' = "walk" /\ cur' \in Objects \cup {NoName}
          /\ got' \in Object /\ attempts' \in 0 .. Attempts - 1
          /\ report' \in [Objects -> Reports]
      BY <1>0, <2>1, <1>15, SettleType DEF GetSettles
    <2> QED
      BY <1>0, <2>2, <1>15 DEF TypeOK, Listed, ClusterTypeOK, GetSettles, Settle
  <1>16. CASE GetLive
    BY <1>0, <1>16 DEF TypeOK, Listed, ClusterTypeOK, GetLive, PCs
  <1>17. CASE WriteOff
    <2>1. "terminating" \in Reports
      BY VerdictTypes
    <2>2. /\ pc' \in PCs /\ pc' = "walk" /\ cur' \in Objects \cup {NoName}
          /\ got' \in Object /\ attempts' \in 0 .. Attempts - 1
          /\ report' \in [Objects -> Reports]
      BY <1>0, <2>1, <1>17, SettleType DEF WriteOff
    <2>3. ClusterTypeOK'
      BY <1>0, <1>17, PatchType DEF WriteOff, Listed
    <2> QED
      BY <1>0, <2>2, <2>3, <1>17 DEF TypeOK, Listed, WriteOff, Settle
  <1>18. CASE RetriableFailure
    <2>1. "RemovalFailed" \in Reports
      BY VerdictTypes
    <2>2. /\ pc' \in PCs \ {"idle"} /\ cur' \in Objects \cup {NoName}
          /\ got' \in Object /\ attempts' \in 0 .. Attempts - 1
          /\ report' \in [Objects -> Reports]
          /\ pc' # "walk" => cur' = cur
      <3>1. CASE attempts + 1 < Attempts
        BY <1>0, <3>1, <1>18, AbsentType DEF TypeOK, RetriableFailure, Retry, PCs
      <3>2. CASE ~ (attempts + 1 < Attempts)
        BY <1>0, <2>1, <3>2, <1>18, SettleType DEF RetriableFailure, Retry
      <3> QED
        BY <3>1, <3>2
    <2>3. ClusterTypeOK'
      <3>1. CASE UNCHANGED clusterVars
        BY <1>0, <3>1 DEF TypeOK, ClusterTypeOK
      <3>2. CASE pc = "patch" /\ PatchApplied
        BY <1>0, <3>2, PatchType DEF Listed
      <3> QED
        BY <3>1, <3>2, <1>18 DEF RetriableFailure
    <2>4. pc \notin {"idle", "walk"}
      BY <1>18 DEF RetriableFailure
    <2>5. Listed'
      BY <1>0, <2>2, <2>4, <1>18 DEF Listed, RetriableFailure
    <2> QED
      BY <1>0, <2>2, <2>3, <2>5, <1>18 DEF TypeOK, RetriableFailure
  <1>19. CASE PermanentFailure
    <2>1. "RemovalFailed" \in Reports
      BY VerdictTypes
    <2>2. /\ pc' \in PCs /\ pc' = "walk" /\ cur' \in Objects \cup {NoName}
          /\ got' \in Object /\ attempts' \in 0 .. Attempts - 1
          /\ report' \in [Objects -> Reports]
      BY <1>0, <2>1, <1>19, SettleType DEF PermanentFailure
    <2> QED
      BY <1>0, <2>2, <1>19 DEF TypeOK, Listed, ClusterTypeOK, PermanentFailure, Settle
  <1>20. CASE PatchNotFound
    <2>1. "RemovalFailed" \in Reports
      BY VerdictTypes
    <2>2. /\ pc' \in PCs /\ pc' = "walk" /\ cur' \in Objects \cup {NoName}
          /\ got' \in Object /\ attempts' \in 0 .. Attempts - 1
          /\ report' \in [Objects -> Reports]
      BY <1>0, <2>1, <1>20, SettleType DEF PatchNotFound
    <2> QED
      BY <1>0, <2>2, <1>20 DEF TypeOK, Listed, ClusterTypeOK, PatchNotFound, Settle
  <1>21. CASE CancelledWrite
    <2>1. "terminating" \in Reports
      BY VerdictTypes
    <2>2. /\ pc' \in PCs /\ pc' = "walk" /\ cur' \in Objects \cup {NoName}
          /\ got' \in Object /\ attempts' \in 0 .. Attempts - 1
          /\ report' \in [Objects -> Reports]
      BY <1>0, <2>1, <1>21, SettleType DEF CancelledWrite
    <2>3. ClusterTypeOK'
      <3>1. CASE UNCHANGED clusterVars
        BY <1>0, <3>1 DEF TypeOK, ClusterTypeOK
      <3>2. CASE pc = "patch" /\ PatchApplied
        BY <1>0, <3>2, PatchType DEF Listed
      <3> QED
        BY <3>1, <3>2, <1>21 DEF CancelledWrite
    <2> QED
      BY <1>0, <2>2, <2>3, <1>21 DEF TypeOK, Listed, CancelledWrite, Settle
  <1>22. CASE Publish
    <2>1. timer' \in 0 .. SweepInterval
      <3>1. Requeue \in 0 .. SweepInterval
        BY <1>0 DEF TypeOK, Requeue, soonest
      <3> QED
        BY <1>0, <3>1, <1>22 DEF TypeOK, Publish, soonest
    <2>2. lobj' \in [Objects -> Object]
      BY AbsentType, <1>22 DEF Publish, NoList
    <2>3. /\ since' \in -1 .. MinInterval /\ budget' \in 0 .. MaxReclaims
          /\ next' \in Nat /\ picAge' \in -1 .. MaxAge
      BY <1>22 DEF Publish, Never
    <2>4. Listed'
      BY <1>22 DEF Publish, Listed
    <2> QED
      BY <1>0, <2>1, <2>2, <2>3, <2>4, <1>22 DEF TypeOK, ClusterTypeOK, Publish, PCs
  <1>23. CASE Deadline
    BY <1>0, <1>23 DEF TypeOK, Listed, ClusterTypeOK, Deadline
  <1>24. CASE Restart
    <2>1. queued' \in BOOLEAN
      BY Zenon, <1>24 DEF Restart, CachesFilled
    <2>2. lobj' \in [Objects -> Object] /\ report' \in [Objects -> Reports] /\ got' \in Object
      BY AbsentType, VerdictTypes, <1>24 DEF Restart, NoList, NoReport
    <2>3. /\ timer' \in 0 .. SweepInterval /\ since' \in -1 .. MinInterval
          /\ budget' \in 0 .. MaxReclaims /\ next' \in Nat /\ picAge' \in -1 .. MaxAge
          /\ attempts' \in 0 .. Attempts - 1 /\ interrupts' \in 0 .. MaxInterrupts
          /\ slip' \in 0 .. Grace
      BY <1>0, <1>24 DEF TypeOK, Restart, Never
    <2>4. ClusterTypeOK'
      BY <1>0, <1>24 DEF TypeOK, ClusterTypeOK, Restart
    <2>5. Listed'
      BY <1>24 DEF Restart, Listed
    <2>6. /\ pc' \in PCs /\ caller' \in {"queue", "init"} /\ initPending' \in BOOLEAN
          /\ todo' \subseteq Objects /\ cur' \in Objects \cup {NoName}
          /\ exhausted' \in BOOLEAN /\ cancelled' \in BOOLEAN
          /\ newPVs' \subseteq PVs /\ newSnaps' \subseteq Snaps /\ newVSCs' \subseteq VSCs
      BY <1>24 DEF Restart, PCs
    <2> QED
      BY <2>1, <2>2, <2>3, <2>4, <2>5, <2>6 DEF TypeOK
  <1>25. CASE Environment
    <2>1. /\ ClusterTypeOK' /\ newPVs' \subseteq PVs /\ newSnaps' \subseteq Snaps
          /\ newVSCs' \subseteq VSCs /\ slip' = slip
      BY <1>0, WritersType, <1>25 DEF Environment
    <2> QED
      BY <1>0, <2>1, <1>25 DEF TypeOK, Listed, Environment
  <1>26. CASE WatchLLV
    BY <1>0, <1>26 DEF TypeOK, Listed, ClusterTypeOK, WatchLLV, SyncKind, enqueueLVMLogicalVolumeSweep
  <1>27. CASE WatchLLVS
    BY <1>0, <1>27 DEF TypeOK, Listed, ClusterTypeOK, WatchLLVS, SyncKind, enqueueLVMLogicalVolumeSweep
  <1>28. CASE WatchPV
    BY <1>0, <1>28 DEF TypeOK, Listed, ClusterTypeOK, WatchPV, SyncPVs, enqueueLVMLogicalVolumeSweep
  <1>29. CASE Tick
    BY <1>0, <1>29 DEF TypeOK, Listed, ClusterTypeOK, Tick, Age, Uids, NotRequested, Never
  <1>30. CASE UNCHANGED vars
    BY <1>0, <1>30 DEF TypeOK, Listed, ClusterTypeOK, vars, gcVars
  <1> QED
    BY <1>1, <1>2, <1>3, <1>4, <1>5, <1>6, <1>7, <1>8, <1>9, <1>10, <1>11, <1>12,
       <1>13, <1>14, <1>15, <1>16, <1>17, <1>18, <1>19, <1>20, <1>21, <1>22, <1>23,
       <1>24, <1>25, <1>26, <1>27, <1>28, <1>29, <1>30
    DEF Next, Sweep

\* Type correctness, in particular the bounds of the budget, of the retries and
\* of every timer, for every value of the constants.
THEOREM TypeCorrect == Spec => []TypeOK
  <1>1. Init => TypeInv
    BY TypeInit DEF TypeInv, Listed, Init, GCInit
  <1>2. TypeInv /\ [Next]_vars => TypeInv'
    BY TypeStep
  <1>3. TypeInv => TypeOK
    BY DEF TypeInv
  <1> QED
    BY <1>1, <1>2, <1>3, PTL DEF Spec
=============================================================================
