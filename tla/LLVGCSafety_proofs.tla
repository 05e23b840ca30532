------------------------ MODULE LLVGCSafety_proofs ------------------------
(***************************************************************************)
(* What the collector may write, for any number of volumes, snapshots,     *)
(* PersistentVolumes, restarts and failures, and any grace period, budget  *)
(* and intervals.                                                          *)
(***************************************************************************)
EXTENDS LLVGC_proofs

USE DEF queueVars, listVars, walkVars, liveVars, writeVars, newVars, clusterVars

\* The inductive invariant behind the action properties.
SafeInv == TypeInv /\ UidsSound /\ InFlight

-----------------------------------------------------------------------------
\* A write that keeps the UID and undoes no deletion keeps UidsSound.
LEMMA WriteKeepsUids ==
    ASSUME ClusterTypeOK, UidsSound, NEW o \in Objects, NEW r \in Object, Write(o, r),
           r.uid = obj[o].uid,
           ~ r.deleting => ~ obj[o].deleting,
           UNCHANGED <<lastUid, waited>>
    PROVE  UidsSound'
  <1>1. \A p \in Objects : p # o => obj'[p] = obj[p]
    BY DEF Write, ClusterTypeOK
  <1>2. obj'[o] = Absent \/ obj'[o] = r
    BY DEF Write, ClusterTypeOK, Stored
  <1>3. \A p \in Objects : obj'[p].uid = 0 \/ obj'[p].uid = obj[p].uid
    BY <1>1, <1>2 DEF Absent
  <1>4. \A p \in Objects : obj'[p].uid # 0 /\ ~ obj'[p].deleting => ~ obj[p].deleting
    BY <1>1, <1>2 DEF Absent
  <1>5. lastUid \in Nat
    BY ClusterAssumption DEF ClusterTypeOK
  <1> QED
    BY <1>3, <1>4, <1>5 DEF UidsSound

\* The patch writes over the object the sweep listed and leaves it with the
\* agent's finalizer alone.
LEMMA PatchLeavesRecord ==
    ASSUME SafeInv, pc = "patch", PatchApplied
    PROVE  /\ cur \in Objects
           /\ obj[cur] = got
           /\ obj' = [obj EXCEPT ![cur] = [got EXCEPT !.fin = {AgentFinalizer}]]
           /\ got \in Object /\ got.uid # 0 /\ got.uid = lobj[cur].uid
  <1>1. cur \in Objects /\ got \in Object /\ got.uid = lobj[cur].uid /\ lobj[cur].uid # 0
    BY DEF SafeInv, TypeInv, TypeOK, Listed, InFlight
  <1>2. got.fin \ {CSIFinalizer} = {AgentFinalizer}
    BY DEF SafeInv, InFlight, Finalizers, CSIFinalizer, AgentFinalizer
  <1>3. WithoutCSIFinalizer = [got EXCEPT !.fin = {AgentFinalizer}]
    BY <1>1, <1>2 DEF WithoutCSIFinalizer, Object
  <1>4. [got EXCEPT !.fin = {AgentFinalizer}].fin # {}
    BY <1>1 DEF Object
  <1>5. Stored([got EXCEPT !.fin = {AgentFinalizer}]) = [got EXCEPT !.fin = {AgentFinalizer}]
    BY <1>4 DEF Stored
  <1> QED
    BY <1>1, <1>3, <1>5 DEF PatchApplied, Unmoved, Write

\* So the patch neither moves a UID nor undates a deletion.
LEMMA PatchKeepsUids ==
    ASSUME SafeInv, pc = "patch", PatchApplied
    PROVE  UidsSound' /\ waited' = waited
  <1> DEFINE r == [got EXCEPT !.fin = {AgentFinalizer}]
  <1>1. /\ cur \in Objects /\ obj[cur] = got /\ got \in Object
        /\ obj' = [obj EXCEPT ![cur] = r]
    BY PatchLeavesRecord
  <1>2. r \in Object /\ r.uid = obj[cur].uid /\ r.deleting = got.deleting
    BY <1>1 DEF Object, Finalizers
  <1>3. Stored(r) = r
    BY <1>1 DEF Stored, Object
  <1>4. Write(cur, r)
    BY <1>1, <1>3 DEF Write
  <1>5. UNCHANGED <<lastUid, waited>>
    BY DEF PatchApplied
  <1>6. ~ r.deleting => ~ obj[cur].deleting
    BY <1>1, <1>2
  <1>7. ClusterTypeOK /\ UidsSound
    BY DEF SafeInv, TypeInv, TypeOK
  <1> HIDE DEF r
  <1> QED
    BY <1>1, <1>2, <1>4, <1>5, <1>6, <1>7, WriteKeepsUids

\* No other writer takes back a grace period that has been served, or hands a
\* UID out twice.
LEMMA WritersKeepUids ==
    ASSUME SafeInv, OtherWriters
    PROVE  /\ UidsSound'
           /\ \A u \in Uids : waited[u] = Grace => waited'[u] = Grace
  <1>0. TypeOK /\ ClusterTypeOK /\ UidsSound
    BY DEF SafeInv, TypeInv, TypeOK
  <1> DEFINE Kept == \A u \in Uids : waited[u] = Grace => waited'[u] = Grace
  <1>1. ASSUME NEW o \in Objects, DriverCreate(o) PROVE UidsSound' /\ Kept
    <2>1. lastUid + 1 \in Uids /\ lastUid \in Nat
      BY <1>0, <1>1, ClusterAssumption DEF ClusterTypeOK, DriverCreate, Uids
    <2>2. /\ obj'[o].uid = lastUid + 1 /\ ~ obj'[o].deleting
          /\ \A p \in Objects : p # o => obj'[p] = obj[p]
      BY <1>0, <1>1 DEF ClusterTypeOK, DriverCreate
    <2>3. waited[lastUid + 1] = NotRequested
      BY <1>0, <2>1 DEF UidsSound
    <2>4. \A p \in Objects : obj[p].uid \in Nat
      BY <1>0, ClusterAssumption DEF ClusterTypeOK, Object
    <2>5. lastUid' = lastUid + 1 /\ waited' = waited
      BY <1>1 DEF DriverCreate
    <2>6. \A p \in Objects : obj'[p].uid <= lastUid'
      BY <1>0, <2>1, <2>2, <2>4, <2>5 DEF UidsSound
    <2>7. \A u \in Uids : u > lastUid' => waited'[u] = NotRequested
      BY <1>0, <2>1, <2>5 DEF UidsSound, Uids
    <2>8. \A p, q \in Objects : obj'[p].uid = obj'[q].uid /\ obj'[p].uid # 0 => p = q
      BY <1>0, <2>1, <2>2, <2>4 DEF UidsSound
    <2>9. \A p \in Objects : obj'[p].uid # 0 /\ ~ obj'[p].deleting => waited'[obj'[p].uid] = NotRequested
      BY <1>0, <2>2, <2>3, <2>5 DEF UidsSound
    <2> QED
      BY <2>5, <2>6, <2>7, <2>8, <2>9 DEF UidsSound
  <1>2. ASSUME NEW o \in Objects, RequestDeletion(o) PROVE UidsSound' /\ Kept
    <2> DEFINE r == [obj[o] EXCEPT !.deleting = TRUE]
    <2>1. obj[o] \in Object /\ obj[o].uid \in Uids
      BY <1>0, <1>2, ClusterAssumption DEF ClusterTypeOK, RequestDeletion, Exists, Object, Uids
    <2>2. r \in Object /\ r.uid = obj[o].uid /\ r.deleting
      BY <2>1 DEF Object
    <2>3. obj'[o] = Absent \/ obj'[o] = r
      BY <1>0, <1>2 DEF RequestDeletion, Write, Stored, ClusterTypeOK
    <2> HIDE DEF r
    <2>4. \A p \in Objects : p # o => obj'[p] = obj[p]
      BY <1>0, <1>2 DEF RequestDeletion, Write, ClusterTypeOK
    <2>5. waited' = [waited EXCEPT ![obj[o].uid] = 0] /\ lastUid' = lastUid
      BY <1>2 DEF RequestDeletion
    <2>6. waited[obj[o].uid] = NotRequested
      BY <1>0, <1>2 DEF RequestDeletion, Exists, UidsSound
    <2>7. Kept
      BY <1>0, <2>1, <2>5, <2>6, ClusterAssumption DEF ClusterTypeOK, NotRequested
    <2>8. \A p \in Objects : obj'[p].uid = 0 \/ obj'[p].uid = obj[p].uid
      BY <2>2, <2>3, <2>4 DEF Absent
    <2>9. obj[o].uid <= lastUid /\ lastUid \in Nat
      BY <1>0, ClusterAssumption DEF UidsSound, ClusterTypeOK
    <2>10. \A p \in Objects : obj'[p].uid <= lastUid'
      BY <1>0, <2>5, <2>8, <2>9 DEF UidsSound
    <2>11. \A u \in Uids : u > lastUid' => waited'[u] = NotRequested
      BY <1>0, <2>1, <2>5, <2>9 DEF UidsSound, ClusterTypeOK, Uids
    <2>12. \A p, q \in Objects : obj'[p].uid = obj'[q].uid /\ obj'[p].uid # 0 => p = q
      BY <1>0, <2>8 DEF UidsSound
    <2>13. ASSUME NEW p \in Objects, obj'[p].uid # 0, ~ obj'[p].deleting
           PROVE  waited'[obj'[p].uid] = NotRequested
      <3>1. p # o
        BY <2>2, <2>3, <2>13 DEF Absent
      <3>2. obj'[p] = obj[p] /\ obj[p].uid # obj[o].uid
        BY <1>0, <2>4, <2>13, <3>1 DEF UidsSound
      <3>3. obj[p].uid \in Uids
        BY <1>0, <2>13, <3>2, ClusterAssumption DEF ClusterTypeOK, Object, Uids
      <3> QED
        BY <1>0, <2>5, <2>13, <3>2, <3>3 DEF UidsSound, ClusterTypeOK
    <2> QED
      BY <2>7, <2>10, <2>11, <2>12, <2>13 DEF UidsSound
  <1>3. ASSUME NEW o \in Objects, AgentAdopt(o) PROVE UidsSound' /\ Kept
    <2> DEFINE r == [obj[o] EXCEPT !.fin = @ \cup {AgentFinalizer}]
    <2>1. obj[o] \in Object
      BY <1>0 DEF ClusterTypeOK
    <2>2. r \in Object /\ r.uid = obj[o].uid /\ r.deleting = obj[o].deleting
      BY <2>1 DEF Object, Finalizers
    <2>3. Write(o, r) /\ UNCHANGED <<lastUid, waited>>
      BY <1>3 DEF AgentAdopt
    <2> HIDE DEF r
    <2> QED
      BY <1>0, <2>2, <2>3, WriteKeepsUids
  <1>4. ASSUME NEW o \in Objects, AgentRelease(o) PROVE UidsSound' /\ Kept
    <2> DEFINE r == [obj[o] EXCEPT !.fin = {}]
    <2>1. obj[o] \in Object
      BY <1>0 DEF ClusterTypeOK
    <2>2. r \in Object /\ r.uid = obj[o].uid /\ r.deleting = obj[o].deleting
      BY <2>1 DEF Object
    <2>3. Write(o, r) /\ UNCHANGED <<lastUid, waited>>
      BY <1>4 DEF AgentRelease
    <2> HIDE DEF r
    <2> QED
      BY <1>0, <2>2, <2>3, WriteKeepsUids
  <1>5. ASSUME NEW o \in Objects, DriverUnfinalize(o) PROVE UidsSound' /\ Kept
    <2> DEFINE r == [obj[o] EXCEPT !.fin = @ \ {CSIFinalizer}]
    <2>1. obj[o] \in Object
      BY <1>0 DEF ClusterTypeOK
    <2>2. r \in Object /\ r.uid = obj[o].uid /\ r.deleting = obj[o].deleting
      BY <2>1 DEF Object
    <2>3. Write(o, r) /\ UNCHANGED <<lastUid, waited>>
      BY <1>5 DEF DriverUnfinalize
    <2> HIDE DEF r
    <2> QED
      BY <1>0, <2>2, <2>3, WriteKeepsUids
  <1>6. ASSUME NEW o \in Objects, AgentFinalizerStripped(o) PROVE UidsSound' /\ Kept
    <2> DEFINE r == [obj[o] EXCEPT !.fin = {CSIFinalizer}]
    <2>1. obj[o] \in Object
      BY <1>0 DEF ClusterTypeOK
    <2>2. r \in Object /\ r.uid = obj[o].uid /\ r.deleting = obj[o].deleting
      BY <2>1 DEF Object, Finalizers
    <2>3. Write(o, r) /\ UNCHANGED <<lastUid, waited>>
      BY <1>6 DEF AgentFinalizerStripped
    <2> HIDE DEF r
    <2> QED
      BY <1>0, <2>2, <2>3, WriteKeepsUids
  <1>7. ASSUME NEW p \in PVs, CreatePV(p) \/ DeletePV(p) PROVE UidsSound' /\ Kept
    BY <1>0, <1>7 DEF CreatePV, DeletePV, UidsSound
  <1>8. ASSUME NEW c \in VSCs, CreateVSC(c) \/ DeleteVSC(c) PROVE UidsSound' /\ Kept
    BY <1>0, <1>8 DEF CreateVSC, DeleteVSC, UidsSound
  <1> HIDE DEF Kept
  <1>9. UidsSound' /\ Kept
    BY <1>1, <1>2, <1>3, <1>4, <1>5, <1>6, <1>7, <1>8 DEF OtherWriters
  <1> QED
    BY <1>9 DEF Kept

-----------------------------------------------------------------------------
\* At first no sweep is running, and UIDs are as InitUid says.
LEMMA SafeInit == Init => SafeInv
  <1> SUFFICES ASSUME Init PROVE SafeInv
    OBVIOUS
  <1>1. TypeInv
    BY TypeInit DEF TypeInv, Listed, Init, GCInit
  <1>2. \A o \in Objects : obj[o].uid = InitUid[o]
    BY DEF Init, ClusterInit, Absent
  <1>3. UidsSound
    <2>1. lastUid = InitLast /\ waited = [u \in Uids |-> NotRequested]
      BY DEF Init, ClusterInit
    <2>2. \A o \in Objects : obj[o].uid \in 0 .. InitLast
      BY <1>2, ClusterAssumption DEF Objects
    <2>3. \A o \in Objects : obj[o].uid # 0 => obj[o].uid \in Uids
      BY <2>2, ClusterAssumption DEF Uids
    <2>4. \A o, p \in Objects : obj[o].uid = obj[p].uid /\ obj[o].uid # 0 => o = p
      BY <1>2, ClusterAssumption DEF Objects
    <2>5. \A o \in Objects : obj[o].uid <= lastUid
      BY <2>1, <2>2, ClusterAssumption
    <2> QED
      BY <2>1, <2>3, <2>4, <2>5 DEF UidsSound
  <1> QED
    BY <1>1, <1>3 DEF SafeInv, InFlight, Init, GCInit

\* Every step keeps UIDs unique and what is in flight the object listed.
LEMMA SafeStep == SafeInv /\ [Next]_vars => SafeInv'
  <1> SUFFICES ASSUME SafeInv, [Next]_vars PROVE UidsSound' /\ InFlight'
    BY TypeStep DEF SafeInv
  <1>0. TypeOK /\ Listed /\ UidsSound /\ InFlight /\ ClusterTypeOK
    BY DEF SafeInv, TypeInv, TypeOK
  <1>a. UNCHANGED <<obj, lastUid, waited>> => UidsSound'
    BY <1>0 DEF UidsSound
  <1>1. ASSUME NEW w \in {"queue", "init"}, Throttled(w) PROVE UidsSound' /\ InFlight'
    BY <1>0, <1>a, <1>1 DEF InFlight, Throttled, Called
  <1>2. ASSUME NEW w \in {"queue", "init"}, ListFailed(w) PROVE UidsSound' /\ InFlight'
    BY <1>0, <1>a, <1>2 DEF InFlight, ListFailed, Called
  <1>3. ASSUME NEW w \in {"queue", "init"}, StartSweep(w) PROVE UidsSound' /\ InFlight'
    BY <1>0, <1>a, <1>3 DEF InFlight, StartSweep, Called
  <1>4. ASSUME NEW o \in Objects, Refuse(o) PROVE UidsSound' /\ InFlight'
    BY <1>0, <1>a, <1>4 DEF InFlight, Refuse, Picked
  <1>5. ASSUME NEW o \in Objects, InsideGrace(o) PROVE UidsSound' /\ InFlight'
    BY <1>0, <1>a, <1>5 DEF InFlight, InsideGrace, Picked
  <1>6. ASSUME NEW o \in Objects, Defer(o) PROVE UidsSound' /\ InFlight'
    BY <1>0, <1>a, <1>6 DEF InFlight, Defer, Picked
  <1>7. ASSUME NEW o \in Objects, Spend(o) PROVE UidsSound' /\ InFlight'
    <2>1. lobj[o].uid \in Uids
      BY <1>0, <1>7, ClusterAssumption DEF TypeOK, Listed, Spend, Picked, Object, Uids
    <2>2. waited[lobj[o].uid] = Grace
      BY <1>0, <2>1, <1>7, ClusterAssumption DEF ClusterTypeOK, Spend, waitedFor
    <2> QED
      BY <1>0, <1>a, <2>2, <1>7 DEF InFlight, Spend
  <1>8. CASE ReusePicture
    BY <1>0, <1>a, <1>8 DEF InFlight, ReusePicture
  <1>9. CASE LoadPVs
    BY <1>0, <1>a, <1>9 DEF InFlight, LoadPVs
  <1>10. CASE LoadSnaps
    BY <1>0, <1>a, <1>10 DEF InFlight, LoadSnaps
  <1>11. CASE LoadContents
    BY <1>0, <1>a, <1>11 DEF InFlight, LoadContents
  <1>12. CASE Confirmed
    BY <1>0, <1>a, <1>12 DEF InFlight, Confirmed
  <1>13. CASE Deadline
    BY <1>0, <1>a, <1>13 DEF InFlight, Deadline
  <1>14. CASE LoadFailed
    BY <1>a, <1>14 DEF InFlight, LoadFailed, Settle
  <1>15. CASE ConfirmRefuses
    BY <1>a, <1>15 DEF InFlight, ConfirmRefuses, Settle
  <1>16. CASE GetSettles
    BY <1>a, <1>16 DEF InFlight, GetSettles, Settle
  <1>17. CASE PermanentFailure
    BY <1>a, <1>17 DEF InFlight, PermanentFailure, Settle
  <1>18. CASE PatchNotFound
    BY <1>a, <1>18 DEF InFlight, PatchNotFound, Settle
  <1>19. CASE GetLive
    <2>1. obj[cur].uid = lobj[cur].uid /\ obj[cur].deleting
      BY <1>0, <1>19 DEF GetLive, GetOutcome, Listed
    <2>2. obj[cur].fin = Finalizers
      BY <1>0, <1>19 DEF GetLive, GetOutcome, Listed, ClusterTypeOK, Object, Finalizers
    <2> QED
      BY <1>0, <1>a, <2>1, <2>2, <1>19 DEF InFlight, GetLive
  <1>20. CASE WriteOff
    <2>1. UidsSound'
      BY <1>20, PatchKeepsUids DEF WriteOff
    <2> QED
      BY <2>1, <1>20 DEF InFlight, WriteOff, Settle
  <1>21. CASE RetriableFailure
    <2>1. UidsSound' /\ waited' = waited
      <3>1. CASE UNCHANGED clusterVars
        BY <1>a, <3>1
      <3>2. CASE pc = "patch" /\ PatchApplied
        BY <3>2, PatchKeepsUids
      <3> QED
        BY <3>1, <3>2, <1>21 DEF RetriableFailure
    <2>2. (pc' = "get" /\ cur' = cur) \/ pc' = "walk"
      BY <1>21 DEF RetriableFailure, Retry, Settle
    <2>3. pc \notin {"idle", "walk"} /\ lobj' = lobj
      BY <1>21 DEF RetriableFailure
    <2> QED
      BY <1>0, <2>1, <2>2, <2>3 DEF InFlight
  <1>22. CASE CancelledWrite
    <2>1. UidsSound' /\ waited' = waited
      <3>1. CASE UNCHANGED clusterVars
        BY <1>a, <3>1
      <3>2. CASE pc = "patch" /\ PatchApplied
        BY <3>2, PatchKeepsUids
      <3> QED
        BY <3>1, <3>2, <1>22 DEF CancelledWrite
    <2> QED
      BY <2>1, <1>22 DEF InFlight, CancelledWrite, Settle
  <1>23. CASE Publish
    BY <1>a, <1>23 DEF InFlight, Publish
  <1>24. CASE Restart
    BY <1>a, <1>24 DEF InFlight, Restart
  <1>25. CASE Environment
    <2>1. UidsSound' /\ \A u \in Uids : waited[u] = Grace => waited'[u] = Grace
      BY <1>25, WritersKeepUids DEF Environment
    <2>2. pc \notin {"idle", "walk"} => lobj[cur].uid \in Uids
      BY <1>0, ClusterAssumption DEF TypeOK, Listed, Object, Uids
    <2> QED
      BY <1>0, <2>1, <2>2, <1>25 DEF InFlight, Environment
  <1>26. CASE WatchLLV
    BY <1>0, <1>a, <1>26 DEF InFlight, WatchLLV, SyncKind, enqueueLVMLogicalVolumeSweep
  <1>27. CASE WatchLLVS
    BY <1>0, <1>a, <1>27 DEF InFlight, WatchLLVS, SyncKind, enqueueLVMLogicalVolumeSweep
  <1>28. CASE WatchPV
    BY <1>0, <1>a, <1>28 DEF InFlight, WatchPV, SyncPVs, enqueueLVMLogicalVolumeSweep
  <1>29. CASE Tick
    <2>1. \A u \in Uids : waited[u] = NotRequested \/ waited[u] = Grace => waited'[u] = waited[u]
      BY <1>29 DEF Tick, Age
    <2>2. \A o \in Objects : obj[o].uid # 0 => obj[o].uid \in Uids
      BY <1>0, ClusterAssumption DEF ClusterTypeOK, Object, Uids
    <2>3. obj' = obj /\ lastUid' = lastUid
      BY <1>29 DEF Tick, Age
    <2>4. UidsSound'
      BY <1>0, <2>1, <2>2, <2>3 DEF UidsSound
    <2>5. pc \notin {"idle", "walk"} => lobj[cur].uid \in Uids
      BY <1>0, ClusterAssumption DEF TypeOK, Listed, Object, Uids
    <2> QED
      BY <1>0, <2>1, <2>4, <2>5, <1>29 DEF InFlight, Tick
  <1>30. CASE UNCHANGED vars
    BY <1>0, <1>a, <1>30 DEF InFlight, vars, gcVars
  <1> QED
    BY <1>1, <1>2, <1>3, <1>4, <1>5, <1>6, <1>7, <1>8, <1>9, <1>10, <1>11, <1>12,
       <1>13, <1>14, <1>15, <1>16, <1>17, <1>18, <1>19, <1>20, <1>21, <1>22, <1>23,
       <1>24, <1>25, <1>26, <1>27, <1>28, <1>29, <1>30
    DEF Next, Sweep

\* A step that writes is the applied patch of a reclaim.
LEMMA OnlyPatchWrites ==
    ASSUME SafeInv, [Next]_vars, NEW o \in Objects, CollectorWrites(o)
    PROVE  pc = "patch" /\ PatchApplied
  <1>1. pc' # pc /\ obj' # obj
    BY DEF CollectorWrites
  <1>2. ~ Environment /\ ~ Tick /\ ~ WatchLLV /\ ~ WatchLLVS /\ ~ WatchPV /\ ~ UNCHANGED vars
    BY <1>1 DEF Environment, Tick, WatchLLV, WatchLLVS, WatchPV, enqueueLVMLogicalVolumeSweep, vars, gcVars
  <1>3. ~ Restart /\ ~ Publish /\ ~ Deadline
    BY <1>1 DEF Restart, Publish, Deadline
  <1>4. \A w \in {"queue", "init"} : ~ Throttled(w) /\ ~ ListFailed(w) /\ ~ StartSweep(w)
    BY <1>1 DEF Throttled, ListFailed, StartSweep
  <1>5. \A p \in Objects : ~ Refuse(p) /\ ~ InsideGrace(p) /\ ~ Defer(p) /\ ~ Spend(p)
    BY <1>1 DEF Refuse, InsideGrace, Defer, Spend
  <1>6. ~ ReusePicture /\ ~ LoadPVs /\ ~ LoadSnaps /\ ~ LoadContents /\ ~ LoadFailed
    BY <1>1 DEF ReusePicture, LoadPVs, LoadSnaps, LoadContents, LoadFailed
  <1>7. /\ ~ ConfirmRefuses /\ ~ Confirmed /\ ~ GetSettles /\ ~ GetLive
        /\ ~ PermanentFailure /\ ~ PatchNotFound
    BY <1>1 DEF ConfirmRefuses, Confirmed, GetSettles, GetLive, PermanentFailure, PatchNotFound
  <1>8. WriteOff \/ RetriableFailure \/ CancelledWrite
    BY <1>2, <1>3, <1>4, <1>5, <1>6, <1>7 DEF Next, Sweep
  <1> QED
    BY <1>1, <1>8 DEF WriteOff, RetriableFailure, CancelledWrite

\* removeCSIFinalizer never makes a record vanish and never takes more than the
\* CSI finalizer off it.
THEOREM RecordKept == Spec => KeepsTheRecord
  <1>1. SafeInv /\ [Next]_vars =>
          [\A o \in Objects : CollectorWrites(o) =>
             /\ obj'[o] = [obj[o] EXCEPT !.fin = @ \ {CSIFinalizer}]
             /\ obj'[o].uid # 0
             /\ AgentFinalizer \in obj'[o].fin]_vars
    <2> SUFFICES ASSUME SafeInv, [Next]_vars, NEW o \in Objects, CollectorWrites(o)
                 PROVE  /\ obj'[o] = [obj[o] EXCEPT !.fin = @ \ {CSIFinalizer}]
                        /\ obj'[o].uid # 0
                        /\ AgentFinalizer \in obj'[o].fin
      OBVIOUS
    <2>1. pc = "patch" /\ PatchApplied
      BY OnlyPatchWrites
    <2>2. /\ cur \in Objects /\ obj[cur] = got /\ got \in Object /\ got.uid # 0
          /\ obj' = [obj EXCEPT ![cur] = [got EXCEPT !.fin = {AgentFinalizer}]]
      BY <2>1, PatchLeavesRecord
    <2>3. obj \in [Objects -> Object]
      BY DEF SafeInv, TypeInv, TypeOK, ClusterTypeOK
    <2>4. o = cur
      BY <2>2, <2>3 DEF CollectorWrites
    <2>5. got.fin \ {CSIFinalizer} = {AgentFinalizer}
      BY <2>1 DEF SafeInv, InFlight, Finalizers, CSIFinalizer, AgentFinalizer
    <2>6. obj'[o] = [got EXCEPT !.fin = {AgentFinalizer}]
      BY <2>2, <2>3, <2>4
    <2> QED
      BY <2>2, <2>4, <2>5, <2>6 DEF Object
  <1>2. Spec => []SafeInv
    BY SafeInit, SafeStep, PTL DEF Spec
  <1> QED
    BY <1>1, <1>2, PTL DEF Spec, KeepsTheRecord

\* The collector unblocks only deletions that were requested, a grace period
\* ago or more, of the very object it classified.
THEOREM RequestedOnly == Spec => OnlyRequestedDeletions
  <1>1. SafeInv /\ [Next]_vars =>
          [\A o \in Objects : CollectorWrites(o) =>
             /\ waited[obj[o].uid] = Grace
             /\ obj[o].uid = lobj[o].uid]_vars
    <2> SUFFICES ASSUME SafeInv, [Next]_vars, NEW o \in Objects, CollectorWrites(o)
                 PROVE  waited[obj[o].uid] = Grace /\ obj[o].uid = lobj[o].uid
      OBVIOUS
    <2>1. pc = "patch" /\ PatchApplied
      BY OnlyPatchWrites
    <2>2. /\ obj[cur] = got /\ got.uid = lobj[cur].uid /\ cur \in Objects
          /\ obj' = [obj EXCEPT ![cur] = [got EXCEPT !.fin = {AgentFinalizer}]]
      BY <2>1, PatchLeavesRecord
    <2>3. obj \in [Objects -> Object]
      BY DEF SafeInv, TypeInv, TypeOK, ClusterTypeOK
    <2>4. o = cur
      BY <2>2, <2>3 DEF CollectorWrites
    <2> QED
      BY <2>1, <2>2, <2>4 DEF SafeInv, InFlight
  <1>2. Spec => []SafeInv
    BY SafeInit, SafeStep, PTL DEF Spec
  <1> QED
    BY <1>1, <1>2, PTL DEF Spec, OnlyRequestedDeletions
=============================================================================
