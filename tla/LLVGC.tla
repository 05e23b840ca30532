------------------------------- MODULE LLVGC -------------------------------
(***************************************************************************)
(* The garbage collector of LVMLogicalVolumes and                          *)
(* LVMLogicalVolumeSnapshots                                               *)
(* (images/controller/pkg/controller/lvm_logical_volume_gc.go), running    *)
(* against the Cluster.                                                    *)
(*                                                                         *)
(* A sweep lists three caches in one step (the kinds lag independently, so *)
(* separate lists reach nothing more), walks the snapshots and then the    *)
(* volumes in any order, and for an object it means to unblock re-reads    *)
(* the API server: three lists, then a Get and a Patch under an optimistic *)
(* lock.  Each of those calls is a step of its own, may fail, and          *)
(* interleaves with every other writer.                                    *)
(*                                                                         *)
(* Durations are ticks and are kept as saturating ages or countdowns, so   *)
(* behaviours are unbounded in time.                                       *)
(***************************************************************************)
EXTENDS Cluster

CONSTANTS
    RetainAcked,    \* volumes annotated retain-acknowledged
    MaxReclaims,    \* maxReclaimsPerSweep
    MaxAge,         \* liveConfirmationMaxAge, in ticks
    MinInterval,    \* min(minSweepInterval, LLVSweepInterval), in ticks
    SweepInterval,  \* LLVSweepInterval, in ticks
    Backlog,        \* reclaimBacklogRequeue, in ticks
    Attempts,       \* retry.DefaultBackoff.Steps
    Meddlers,       \* which optional writers act: "driver", "operator"
    MaxInterrupts   \* bound: timeouts of a sweep and restarts of the controller

ASSUME GCAssumption ==
    /\ RetainAcked \subseteq Vols
    /\ MaxReclaims \in Nat
    /\ MaxAge \in Nat
    /\ SweepInterval \in Nat \ {0}
    /\ MinInterval \in 0 .. SweepInterval
    /\ Backlog \in 1 .. SweepInterval
    /\ Attempts \in Nat \ {0}
    /\ Meddlers \subseteq {"driver", "operator"}
    /\ MaxInterrupts \in Nat

VARIABLES
    pc,             \* what the sweep in progress does next
    caller,         \* who asked for it: the work queue or the start-up runnable
    initPending,    \* the start-up sweep has not run yet
    queued,         \* the single work item is in the queue
    timer,          \* ticks until a delayed add of the item, 0 if there is none
    since,          \* ticks since lastSweep, or Never
    lobj, lsnapd,   \* what the sweep listed: its candidates, snapshotted volumes
    todo,           \* listed objects still to be looked at
    cur,            \* the object being reclaimed
    budget, exhausted,  \* reclaimBudget
    next,           \* soonest requeue asked for so far, 0 if none
    pic, picAge,    \* liveConfirmation and the age of its readAt, or Never
    part,           \* the lists of a load in progress
    got,            \* the live object read before the write
    attempts,       \* attempts of removeCSIFinalizer so far
    cancelled,      \* the context of the sweep is done
    report,         \* per object: its state, or the reason it is blocked
    interrupts,
    newPVs, newSnaps, newVSCs,  \* history: created since the picture's lists
    slip            \* history: ticks the queue's last sweep took, saturating at Grace

queueVars == <<caller, initPending, queued, timer, since>>
listVars == <<lobj, lsnapd>>
walkVars == <<todo, budget, exhausted, next>>
liveVars == <<pic, picAge, part>>
writeVars == <<got, attempts>>
newVars == <<newPVs, newSnaps, newVSCs, slip>>
gcVars == <<pc, queueVars, listVars, walkVars, cur, liveVars, writeVars,
            cancelled, report, interrupts, newVars>>
vars == <<clusterVars, gcVars>>

Never == -1
BlockReasons == {"SnapshotsPresent", "AgentFinalizerAbsent", "APIError",
    "PersistentVolumeExists", "VolumeSnapshotContentExists",
    "SuccessorInPlace", "RemovalFailed"}
Reports == BlockReasons \cup {"none", "awaitingAgent", "active", "retained", "terminating"}
PCs == {"idle", "walk", "load", "loadSnaps", "loadContents", "confirm", "get", "patch"}

NoPicture == [referenced |-> {}, snapshotted |-> {}, contents |-> {}]
NoPart == [referenced |-> {}, snapshotted |-> {}]
NoList == [o \in Objects |-> Absent]
NoReport == [o \in Objects |-> "none"]

soonest(a, b) == IF a = 0 THEN b ELSE IF b = 0 THEN a ELSE IF a < b THEN a ELSE b
retainAcknowledged(o) == o \in RetainAcked

\* Mutant: the collector looks at volumes only.
Candidate_VolumesOnly(o) ==
    /\ o \in Vols
    /\ cobj[o].uid # 0
    /\ CSIFinalizer \in cobj[o].fin
    /\ o \notin referencingPersistentVolumes(cpvs)

\* The objects a sweep goes on to reclaim or to report as orphans.
Candidate(o) ==
    /\ cobj[o].uid # 0
    /\ CSIFinalizer \in cobj[o].fin
    /\ o \in Snaps => cobj[o].deleting
    /\ o \in Vols => o \notin referencingPersistentVolumes(cpvs)

AwaitingAgent(o) ==
    /\ cobj[o].deleting
    /\ CSIFinalizer \notin cobj[o].fin
    /\ AgentFinalizer \in cobj[o].fin

-----------------------------------------------------------------------------
\* Filling the caches of a starting controller queues the item, if there is
\* anything to fill them with.
CachesFilled == (\E o \in Objects : Exists(o)) \/ pvs # {}

GCInit ==
    /\ pc = "idle"
    /\ caller = "queue"
    /\ initPending = TRUE
    /\ queued = CachesFilled
    /\ timer = 0
    /\ since = Never
    /\ lobj = NoList
    /\ lsnapd = {}
    /\ todo = {}
    /\ cur = NoName
    /\ budget = 0
    /\ exhausted = FALSE
    /\ next = 0
    /\ pic = NoPicture
    /\ picAge = Never
    /\ part = NoPart
    /\ got = Absent
    /\ attempts = 0
    /\ cancelled = FALSE
    /\ report = NoReport
    /\ interrupts = 0
    /\ newPVs = {}
    /\ newSnaps = {}
    /\ newVSCs = {}
    /\ slip = 0

Init == ClusterInit /\ GCInit

-----------------------------------------------------------------------------
(* Being called.                                                           *)

\* The queue hands the item over (an event during the sweep adds it again),
\* or the start-up runnable asks; either waits for the sweeping mutex.
Called(w) ==
    /\ pc = "idle"
    /\ caller' = w
    /\ \/ w = "queue" /\ queued /\ queued' = FALSE /\ UNCHANGED initPending
       \/ w = "init" /\ initPending /\ initPending' = FALSE /\ UNCHANGED queued

Throttle == since # Never /\ since < MinInterval

\* Mutant: the throttled pass asks for no requeue.
Throttled_Dropped(w) ==
    /\ Called(w)
    /\ Throttle
    /\ UNCHANGED <<clusterVars, pc, timer, since, listVars, walkVars, cur, liveVars,
                   writeVars, cancelled, report, interrupts, newVars>>

\* Too soon after the previous sweep: come back when the floor is cleared.
Throttled(w) ==
    /\ Called(w)
    /\ Throttle
    /\ timer' = IF w = "queue" THEN soonest(timer, MinInterval - since) ELSE timer
    /\ UNCHANGED <<clusterVars, pc, since, listVars, walkVars, cur, liveVars,
                   writeVars, cancelled, report, interrupts, newVars>>

\* A cached list fails: the sweep returns an error, lastSweep is not stamped
\* and the queue retries the item.
ListFailed(w) ==
    /\ Called(w)
    /\ ~ Throttle
    /\ timer' = IF w = "queue" THEN soonest(timer, 1) ELSE timer
    /\ UNCHANGED <<clusterVars, pc, since, listVars, walkVars, cur, liveVars,
                   writeVars, cancelled, report, interrupts, newVars>>

StartSweep(w) ==
    /\ Called(w)
    /\ ~ Throttle
    /\ pc' = "walk"
    /\ todo' = {o \in Objects : Candidate(o)}
    /\ lobj' = [o \in Objects |-> IF Candidate(o) THEN cobj[o] ELSE Absent]
    /\ lsnapd' = snapshottedVolumeNames(cobj)
    /\ budget' = MaxReclaims
    /\ exhausted' = FALSE
    /\ next' = 0
    /\ report' = [o \in Objects |-> IF AwaitingAgent(o) THEN "awaitingAgent" ELSE "none"]
    /\ cancelled' = FALSE
    /\ slip' = IF w = "queue" THEN 0 ELSE slip
    /\ UNCHANGED <<clusterVars, timer, since, cur, liveVars, writeVars, interrupts,
                   newPVs, newSnaps, newVSCs>>

-----------------------------------------------------------------------------
(* The walk: everything decided from the lists.                            *)

Reported(o, r) == report' = [report EXCEPT ![o] = r]

\* The outcome for the current object; the walk goes on.
Settle(r) ==
    /\ pc' = "walk"
    /\ cur' = NoName
    /\ got' = Absent
    /\ attempts' = 0
    /\ Reported(cur, r)

\* Refusals of reclaim and reclaimSnapshot that cost no budget.
CachedRefusal(o) ==
    IF o \in Vols /\ ~ lobj[o].deleting
    THEN IF retainAcknowledged(o) THEN "retained" ELSE "active"
    ELSE IF o \in Vols /\ o \in lsnapd THEN "SnapshotsPresent"
    ELSE IF AgentFinalizer \notin lobj[o].fin THEN "AgentFinalizerAbsent"
    ELSE "none"

waitedFor(o) == waited[lobj[o].uid]

\* Snapshots are walked before volumes.
Picked(o) ==
    /\ pc = "walk"
    /\ o \in todo
    /\ o \in Vols => todo \cap Snaps = {}
    /\ todo' = todo \ {o}

Refuse(o) ==
    /\ Picked(o)
    /\ CachedRefusal(o) # "none"
    /\ Reported(o, CachedRefusal(o))
    /\ UNCHANGED <<clusterVars, pc, queueVars, listVars, budget, exhausted, next, cur,
                   liveVars, writeVars, cancelled, interrupts, newVars>>

InsideGrace(o) ==
    /\ Picked(o)
    /\ CachedRefusal(o) = "none"
    /\ waitedFor(o) < Grace
    /\ next' = soonest(next, Grace - waitedFor(o))
    /\ Reported(o, "terminating")
    /\ UNCHANGED <<clusterVars, pc, queueVars, listVars, budget, exhausted, cur,
                   liveVars, writeVars, cancelled, interrupts, newVars>>

\* Mutant: a sweep without budget breaks out of its loop instead of reporting.
Defer_Break(o) ==
    /\ pc = "walk"
    /\ o \in todo
    /\ o \in Vols => todo \cap Snaps = {}
    /\ CachedRefusal(o) = "none"
    /\ waitedFor(o) >= Grace
    /\ budget = 0
    /\ todo' = {}
    /\ exhausted' = TRUE
    /\ next' = soonest(next, Backlog)
    /\ UNCHANGED <<clusterVars, pc, queueVars, listVars, budget, cur,
                   liveVars, writeVars, cancelled, report, interrupts, newVars>>

Defer(o) ==
    /\ Picked(o)
    /\ CachedRefusal(o) = "none"
    /\ waitedFor(o) >= Grace
    /\ budget = 0
    /\ exhausted' = TRUE
    /\ next' = soonest(next, Backlog)
    /\ Reported(o, "terminating")
    /\ UNCHANGED <<clusterVars, pc, queueVars, listVars, budget, cur,
                   liveVars, writeVars, cancelled, interrupts, newVars>>

Spend(o) ==
    /\ Picked(o)
    /\ CachedRefusal(o) = "none"
    /\ waitedFor(o) >= Grace
    /\ budget > 0
    /\ budget' = budget - 1
    /\ cur' = o
    /\ pc' = "load"
    /\ UNCHANGED <<clusterVars, queueVars, listVars, exhausted, next,
                   liveVars, writeVars, cancelled, report, interrupts, newVars>>

-----------------------------------------------------------------------------
(* liveConfirmation.load                                                   *)

Young == picAge # Never /\ picAge < MaxAge

ReusePicture ==
    /\ pc = "load"
    /\ Young
    /\ pc' = "confirm"
    /\ UNCHANGED <<clusterVars, queueVars, listVars, walkVars, cur, liveVars,
                   writeVars, cancelled, report, interrupts, newVars>>

LoadPVs ==
    /\ pc = "load"
    /\ ~ Young
    /\ ~ cancelled
    /\ part' = [referenced |-> referencingPersistentVolumes(pvs), snapshotted |-> {}]
    /\ newPVs' = {}
    /\ pc' = "loadSnaps"
    /\ UNCHANGED <<clusterVars, queueVars, listVars, walkVars, cur, pic, picAge,
                   writeVars, cancelled, report, interrupts, newSnaps, newVSCs, slip>>

LoadSnaps ==
    /\ pc = "loadSnaps"
    /\ ~ cancelled
    /\ part' = [referenced |-> part.referenced, snapshotted |-> snapshottedVolumeNames(obj)]
    /\ newSnaps' = {}
    /\ pc' = "loadContents"
    /\ UNCHANGED <<clusterVars, queueVars, listVars, walkVars, cur, pic, picAge,
                   writeVars, cancelled, report, interrupts, newPVs, newVSCs, slip>>

\* The last list: the picture is replaced as a whole and stamped.
LoadContents ==
    /\ pc = "loadContents"
    /\ ~ cancelled
    /\ pic' = [referenced |-> part.referenced,
               snapshotted |-> part.snapshotted,
               contents |-> snapshotContentHandles(vscs)]
    /\ picAge' = 0
    /\ part' = NoPart
    /\ newVSCs' = {}
    /\ pc' = "confirm"
    /\ UNCHANGED <<clusterVars, queueVars, listVars, walkVars, cur,
                   writeVars, cancelled, report, interrupts, newPVs, newSnaps, slip>>

\* Mutant: a refresh that failed half way counts as a picture just read.
LoadFailed_Stamped ==
    /\ \/ pc = "load" /\ ~ Young
       \/ pc \in {"loadSnaps", "loadContents"}
    /\ Settle("APIError")
    /\ part' = NoPart
    /\ picAge' = 0
    /\ UNCHANGED <<clusterVars, queueVars, listVars, walkVars, pic,
                   cancelled, interrupts, newVars>>

\* One of the three lists fails: the old picture, if any, stays.
LoadFailed ==
    /\ \/ pc = "load" /\ ~ Young
       \/ pc \in {"loadSnaps", "loadContents"}
    /\ Settle("APIError")
    /\ part' = NoPart
    /\ UNCHANGED <<clusterVars, queueVars, listVars, walkVars, pic, picAge,
                   cancelled, interrupts, newVars>>

\* Mutant: only the cached snapshots are looked at.
LiveRefusal_NoSnapshots(o) ==
    IF o \in Vols /\ o \in pic.referenced THEN "PersistentVolumeExists"
    ELSE IF o \in Snaps /\ o \in pic.contents THEN "VolumeSnapshotContentExists"
    ELSE "none"

\* The refusals decided from the live picture.
LiveRefusal(o) ==
    IF o \in Vols /\ o \in pic.referenced THEN "PersistentVolumeExists"
    ELSE IF o \in Vols /\ o \in pic.snapshotted THEN "SnapshotsPresent"
    ELSE IF o \in Snaps /\ o \in pic.contents THEN "VolumeSnapshotContentExists"
    ELSE "none"

ConfirmRefuses ==
    /\ pc = "confirm"
    /\ LiveRefusal(cur) # "none"
    /\ Settle(LiveRefusal(cur))
    /\ UNCHANGED <<clusterVars, queueVars, listVars, walkVars, liveVars,
                   cancelled, interrupts, newVars>>

Confirmed ==
    /\ pc = "confirm"
    /\ LiveRefusal(cur) = "none"
    /\ pc' = "get"
    /\ UNCHANGED <<clusterVars, queueVars, listVars, walkVars, cur, liveVars,
                   writeVars, cancelled, report, interrupts, newVars>>

-----------------------------------------------------------------------------
(* removeCSIFinalizer                                                      *)

\* Mutant: the agent's finalizer is checked on the cached object only.
GetOutcome_NoAgentCheck(o) ==
    IF obj[o].uid = 0 THEN "terminating"
    ELSE IF obj[o].uid # lobj[o].uid THEN "SuccessorInPlace"
    ELSE IF ~ obj[o].deleting THEN "RemovalFailed"
    ELSE IF CSIFinalizer \notin obj[o].fin THEN "terminating"
    ELSE "none"

\* Mutant: a same-named successor is taken for the object itself.
GetOutcome_NoUIDCheck(o) ==
    IF obj[o].uid = 0 THEN "terminating"
    ELSE IF ~ obj[o].deleting THEN "RemovalFailed"
    ELSE IF CSIFinalizer \notin obj[o].fin THEN "terminating"
    ELSE IF AgentFinalizer \notin obj[o].fin THEN "AgentFinalizerAbsent"
    ELSE "none"

\* What a successful Get of the live object leads to; "none" is the write.
GetOutcome(o) ==
    IF obj[o].uid = 0 THEN "terminating"
    ELSE IF obj[o].uid # lobj[o].uid THEN "SuccessorInPlace"
    ELSE IF ~ obj[o].deleting THEN "RemovalFailed"
    ELSE IF CSIFinalizer \notin obj[o].fin THEN "terminating"
    ELSE IF AgentFinalizer \notin obj[o].fin THEN "AgentFinalizerAbsent"
    ELSE "none"

GetSettles ==
    /\ pc = "get"
    /\ ~ cancelled
    /\ GetOutcome(cur) # "none"
    /\ Settle(GetOutcome(cur))
    /\ UNCHANGED <<clusterVars, queueVars, listVars, walkVars, liveVars,
                   cancelled, interrupts, newVars>>

GetLive ==
    /\ pc = "get"
    /\ ~ cancelled
    /\ GetOutcome(cur) = "none"
    /\ got' = obj[cur]
    /\ pc' = "patch"
    /\ UNCHANGED <<clusterVars, queueVars, listVars, walkVars, cur, liveVars,
                   attempts, cancelled, report, interrupts, newVars>>

\* The optimistic lock holds: nobody wrote to the object since the Get.
Unmoved == obj[cur] = got
WithoutCSIFinalizer == [got EXCEPT !.fin = @ \ {CSIFinalizer}]

PatchApplied ==
    /\ Unmoved
    /\ Write(cur, WithoutCSIFinalizer)
    /\ UNCHANGED <<lastUid, waited, pvs, vscs, cobj, cpvs>>

WriteOff ==
    /\ pc = "patch"
    /\ ~ cancelled
    /\ PatchApplied
    /\ Settle("terminating")
    /\ UNCHANGED <<queueVars, listVars, walkVars, liveVars, cancelled, interrupts, newVars>>

\* Mutant: one attempt too many.
Retry_OneMore ==
    IF attempts + 1 <= Attempts
    THEN /\ attempts' = attempts + 1
         /\ pc' = "get"
         /\ got' = Absent
         /\ UNCHANGED <<cur, report>>
    ELSE Settle("RemovalFailed")

\* A retriable failure (a conflict, a timeout, a shed request): the Get and the
\* Patch are tried again until the backoff runs out of steps.
Retry ==
    IF attempts + 1 < Attempts
    THEN /\ attempts' = attempts + 1
         /\ pc' = "get"
         /\ got' = Absent
         /\ UNCHANGED <<cur, report>>
    ELSE Settle("RemovalFailed")

\* A conflict needs no modelled change: the agent writes the status too.  A
\* timeout of the Patch may hide a write that did happen.
RetriableFailure ==
    /\ \/ pc = "get" /\ UNCHANGED clusterVars
       \/ pc = "patch" /\ Exists(cur) /\ UNCHANGED clusterVars
       \/ pc = "patch" /\ PatchApplied
    /\ ~ cancelled
    /\ Retry
    /\ UNCHANGED <<queueVars, listVars, walkVars, liveVars, cancelled, interrupts, newVars>>

\* Any other failure of a call: a denied request, say.
PermanentFailure ==
    /\ pc = "get" \/ (pc = "patch" /\ Exists(cur))
    /\ ~ cancelled
    /\ Settle("RemovalFailed")
    /\ UNCHANGED <<clusterVars, queueVars, listVars, walkVars, liveVars, cancelled,
                   interrupts, newVars>>

\* The object went between the Get and the Patch: the NotFound of a Patch is
\* not retriable, so it is a failed write like any other.
PatchNotFound ==
    /\ pc = "patch"
    /\ ~ Exists(cur)
    /\ ~ cancelled
    /\ Settle("RemovalFailed")
    /\ UNCHANGED <<clusterVars, queueVars, listVars, walkVars, liveVars, cancelled,
                   interrupts, newVars>>

\* The context is done: the call fails, or its answer never arrives.
CancelledWrite ==
    /\ pc \in {"get", "patch"}
    /\ cancelled
    /\ \/ UNCHANGED clusterVars
       \/ pc = "patch" /\ PatchApplied
    /\ Settle("terminating")
    /\ UNCHANGED <<queueVars, listVars, walkVars, liveVars, cancelled, interrupts, newVars>>

-----------------------------------------------------------------------------
\* Publish, stamp lastSweep, and ask the queue to come back.
Requeue == LET d == IF exhausted THEN soonest(next, Backlog) ELSE next
           IN  IF d = 0 \/ d > SweepInterval THEN SweepInterval ELSE d

Publish ==
    /\ pc = "walk"
    /\ todo = {}
    /\ pc' = "idle"
    /\ since' = 0
    /\ timer' = IF caller = "queue" THEN soonest(timer, Requeue) ELSE timer
    /\ caller' = "queue"
    /\ lobj' = NoList
    /\ lsnapd' = {}
    /\ budget' = 0
    /\ exhausted' = FALSE
    /\ next' = 0
    /\ pic' = NoPicture
    /\ picAge' = Never
    /\ cancelled' = FALSE
    /\ newPVs' = {}
    /\ newSnaps' = {}
    /\ newVSCs' = {}
    /\ UNCHANGED <<clusterVars, initPending, queued, todo, cur, part, writeVars,
                   report, interrupts, slip>>

\* sweepTimeout passes, or the manager shuts down.
Deadline ==
    /\ pc # "idle"
    /\ ~ cancelled
    /\ cancelled' = TRUE
    /\ interrupts < MaxInterrupts
    /\ interrupts' = interrupts + 1
    /\ UNCHANGED <<clusterVars, pc, queueVars, listVars, walkVars, cur, liveVars,
                   writeVars, report, newVars>>

\* The controller is restarted: it forgets everything but the bound, its
\* caches are filled before it works, and filling them queues the item.
Restart ==
    /\ interrupts < MaxInterrupts
    /\ interrupts' = interrupts + 1
    /\ pc' = "idle"
    /\ caller' = "queue"
    /\ initPending' = TRUE
    /\ queued' = CachesFilled
    /\ timer' = 0
    /\ since' = Never
    /\ cobj' = obj
    /\ cpvs' = pvs
    /\ lobj' = NoList
    /\ lsnapd' = {}
    /\ todo' = {}
    /\ cur' = NoName
    /\ budget' = 0
    /\ exhausted' = FALSE
    /\ next' = 0
    /\ pic' = NoPicture
    /\ picAge' = Never
    /\ part' = NoPart
    /\ got' = Absent
    /\ attempts' = 0
    /\ cancelled' = FALSE
    /\ report' = NoReport
    /\ newPVs' = {}
    /\ newSnaps' = {}
    /\ newVSCs' = {}
    /\ slip' = 0
    /\ UNCHANGED <<obj, lastUid, waited, pvs, vscs>>

-----------------------------------------------------------------------------
(* The rest of the world.                                                  *)

\* Writers other than the collector.  The history of what was created since
\* the picture's lists is kept while a sweep runs.
Noted(S, x) == IF pc = "idle" THEN S ELSE S \cup {x}

OtherWriters ==
    \/ \E o \in Objects :
         /\ DriverCreate(o)
         /\ newSnaps' = IF o \in Snaps THEN Noted(newSnaps, o) ELSE newSnaps
         /\ UNCHANGED <<newPVs, newVSCs, slip>>
    \/ \E o \in Objects :
         /\ \/ RequestDeletion(o)
            \/ AgentAdopt(o)
            \/ AgentRelease(o)
            \/ "driver" \in Meddlers /\ DriverUnfinalize(o)
            \/ "operator" \in Meddlers /\ AgentFinalizerStripped(o)
         /\ UNCHANGED newVars
    \/ \E p \in PVs :
         \/ CreatePV(p) /\ newPVs' = Noted(newPVs, p) /\ UNCHANGED <<newSnaps, newVSCs, slip>>
         \/ DeletePV(p) /\ UNCHANGED newVars
    \/ \E c \in VSCs :
         \/ CreateVSC(c) /\ newVSCs' = Noted(newVSCs, c) /\ UNCHANGED <<newPVs, newSnaps, slip>>
         \/ DeleteVSC(c) /\ UNCHANGED newVars

Environment ==
    /\ OtherWriters
    /\ UNCHANGED <<pc, queueVars, listVars, walkVars, cur, liveVars, writeVars,
                   cancelled, report, interrupts>>

\* A cache catches up; every modelled difference passes the watch predicates.
enqueueLVMLogicalVolumeSweep ==
    /\ queued' = TRUE
    /\ UNCHANGED <<pc, caller, initPending, timer, since, listVars, walkVars, cur,
                   liveVars, writeVars, cancelled, report, interrupts, newVars>>

WatchLLV == SyncKind(Vols) /\ enqueueLVMLogicalVolumeSweep
WatchLLVS == SyncKind(Snaps) /\ enqueueLVMLogicalVolumeSweep
WatchPV == SyncPVs /\ enqueueLVMLogicalVolumeSweep

Tick ==
    /\ Age
    /\ picAge' = IF picAge = Never \/ picAge = MaxAge THEN picAge ELSE picAge + 1
    /\ since' = IF since = Never \/ since = MinInterval THEN since ELSE since + 1
    /\ timer' = IF timer > 0 THEN timer - 1 ELSE 0
    /\ queued' = (queued \/ timer = 1)
    /\ slip' = IF pc = "idle" \/ caller = "init" \/ slip = Grace THEN slip ELSE slip + 1
    /\ UNCHANGED <<pc, caller, initPending, listVars, walkVars, cur, pic, part,
                   writeVars, cancelled, report, interrupts, newPVs, newSnaps, newVSCs>>

Sweep ==
    \/ \E w \in {"queue", "init"} : Throttled(w) \/ ListFailed(w) \/ StartSweep(w)
    \/ \E o \in Objects : Refuse(o) \/ InsideGrace(o) \/ Defer(o) \/ Spend(o)
    \/ ReusePicture \/ LoadPVs \/ LoadSnaps \/ LoadContents \/ LoadFailed
    \/ ConfirmRefuses \/ Confirmed
    \/ GetSettles \/ GetLive \/ WriteOff
    \/ RetriableFailure \/ PermanentFailure \/ PatchNotFound \/ CancelledWrite
    \/ Publish \/ Deadline

Next == Sweep \/ Environment \/ WatchLLV \/ WatchLLVS \/ WatchPV \/ Tick \/ Restart

Spec == Init /\ [][Next]_vars

(***************************************************************************)
(* Fairness.  Timers run, informers catch up, the queue dispatches and the *)
(* sweep goes on (WF).  An API call made again and again is answered some  *)
(* time (SF): the code retries for ever but cannot make the server well.   *)
(* The agent removes what nothing else holds.                              *)
(***************************************************************************)
Fairness ==
    /\ WF_vars(Tick)
    /\ WF_vars(WatchLLV)
    /\ WF_vars(WatchLLVS)
    /\ WF_vars(WatchPV)
    /\ WF_vars(Sweep)
    /\ SF_vars(\E w \in {"queue", "init"} : StartSweep(w))
    /\ SF_vars(LoadPVs)
    /\ SF_vars(LoadSnaps)
    /\ SF_vars(LoadContents)
    /\ SF_vars(GetLive)
    /\ SF_vars(WriteOff)
    /\ \A o \in Objects : WF_vars(AgentRelease(o) /\ Environment)

FairSpec == Spec /\ Fairness

-----------------------------------------------------------------------------
\* The state of the sweep has its type: no sweep spends more than MaxReclaims,
\* no removal makes more than Attempts attempts, no delayed add of the work item
\* lies further away than SweepInterval.
TypeOK ==
    /\ ClusterTypeOK
    /\ pc \in PCs
    /\ caller \in {"queue", "init"}
    /\ initPending \in BOOLEAN
    /\ queued \in BOOLEAN
    /\ timer \in 0 .. SweepInterval
    /\ since \in -1 .. MinInterval
    /\ lobj \in [Objects -> Object]
    /\ todo \subseteq Objects
    /\ cur \in Objects \cup {NoName}
    /\ budget \in 0 .. MaxReclaims
    /\ exhausted \in BOOLEAN
    /\ next \in Nat
    /\ picAge \in -1 .. MaxAge
    /\ got \in Object
    /\ attempts \in 0 .. Attempts - 1
    /\ cancelled \in BOOLEAN
    /\ report \in [Objects -> Reports]
    /\ interrupts \in 0 .. MaxInterrupts
    /\ newPVs \subseteq PVs
    /\ newSnaps \subseteq Snaps
    /\ newVSCs \subseteq VSCs
    /\ slip \in 0 .. Grace

\* What a sweep walks over, and what it is reclaiming, it has listed.
Listed ==
    /\ \A o \in todo : lobj[o].uid # 0
    /\ pc \notin {"idle", "walk"} => cur \in Objects /\ lobj[cur].uid # 0

\* A UID names one object, and its deletion is dated once it is requested.
UidsSound ==
    /\ \A o \in Objects : obj[o].uid <= lastUid
    /\ \A u \in Uids : u > lastUid => waited[u] = NotRequested
    /\ \A o, p \in Objects : obj[o].uid = obj[p].uid /\ obj[o].uid # 0 => o = p
    /\ \A o \in Objects : obj[o].uid # 0 /\ ~ obj[o].deleting => waited[obj[o].uid] = NotRequested

\* What is being reclaimed has served its grace period, and what is about to
\* be written is the object the sweep listed, held by both finalizers.
InFlight ==
    /\ pc \notin {"idle", "walk"} => waited[lobj[cur].uid] = Grace
    /\ pc = "patch" => /\ got.uid = lobj[cur].uid
                       /\ got.deleting
                       /\ got.fin = Finalizers

\* A picture, or the part of one read so far, shows every reference that is
\* not newer than its list.
ShowsPVs(names) == \A p \in pvs \ newPVs : PVRefs(p) \subseteq names
ShowsSnaps(names) ==
    \A s \in Snaps \ newSnaps : obj[s].uid # 0 /\ SourceOf[s] # NoName => SourceOf[s] \in names
ShowsVSCs(names) == \A c \in vscs \ newVSCs : VSCRefs(c) \subseteq names

\* A picture that may be used shows everything; one that has aged may not, and
\* it is not used even if reading its replacement fails half way.
PictureSound ==
    /\ Young \/ pc \in {"confirm", "get", "patch"} =>
         /\ ShowsPVs(pic.referenced)
         /\ ShowsSnaps(pic.snapshotted)
         /\ ShowsVSCs(pic.contents)
    /\ pc \in {"loadSnaps", "loadContents"} => ~ Young /\ ShowsPVs(part.referenced)
    /\ pc = "loadContents" => ShowsSnaps(part.snapshotted)
    /\ pc \in {"get", "patch"} => LiveRefusal(cur) = "none"
    /\ pc = "idle" => ~ Young

\* A step of the collector that writes to object o: the other writers leave pc
\* alone.
CollectorWrites(o) == pc' # pc /\ obj'[o] # obj[o]

\* removeCSIFinalizer never makes a record vanish: what it writes leaves the
\* object in place, with the agent's finalizer, and takes nothing but the CSI
\* finalizer off it, however the live object moved since it was listed.
KeepsTheRecord ==
    [][\A o \in Objects : CollectorWrites(o) =>
          /\ obj'[o] = [obj[o] EXCEPT !.fin = @ \ {CSIFinalizer}]
          /\ obj'[o].uid # 0
          /\ AgentFinalizer \in obj'[o].fin]_vars

\* reclaim and reclaimSnapshot unblock only a deletion somebody asked for at
\* least a grace period ago, of the very object the sweep classified and not
\* of a successor under its name.
OnlyRequestedDeletions ==
    [][\A o \in Objects : CollectorWrites(o) =>
          /\ waited[obj[o].uid] = Grace
          /\ obj[o].uid = lobj[o].uid]_vars

\* A PersistentVolume that the volume v stands behind, whatever its finalizers
\* or its phase: one of that name, or one of this driver with that handle.
BackedBy(p, v) == p.name = v \/ (p.own /\ p.handle = v)

\* A VolumeSnapshotContent of this driver for the snapshot s, pre-provisioned
\* (the handle is in its spec) or not (it is in its status).
ContentOf(c, s) == c.own /\ s \in {c.status, c.spec}

\* While a write is under way, everything that refers to the object came into
\* being after the confirmation's list of its kind: no PersistentVolume (by
\* name or by handle), snapshot or VolumeSnapshotContent that the confirmation
\* could have seen is passed over.
ConfirmedUnreferenced ==
    pc \in {"get", "patch"} =>
        /\ cur \in Vols =>
             /\ \A p \in pvs \ newPVs : ~ BackedBy(p, cur)
             /\ \A s \in Snaps \ newSnaps : Exists(s) => SourceOf[s] # cur
        /\ cur \in Snaps => \A c \in vscs \ newVSCs : ~ ContentOf(c, cur)

\* A sweep that publishes has an answer for every volume and snapshot it owns
\* and found unreferenced, the ones its budget did not reach included.
CompletePicture ==
    [][pc = "walk" /\ pc' = "idle" /\ interrupts' = interrupts =>
          \A o \in Objects : lobj[o].uid # 0 => report'[o] # "none"]_vars

\* An object the cache shows as reclaimable but for its grace period.
Ripening(o) ==
    /\ Candidate(o)
    /\ cobj[o].deleting
    /\ AgentFinalizer \in cobj[o].fin
    /\ o \in Vols => o \notin snapshottedVolumeNames(cobj)
    /\ waited[cobj[o].uid] < Grace

\* Between sweeps the next one is due when the grace period of the next
\* reclaimable object ends, late by no more than the last sweep for the queue
\* took, or as soon as the floor between sweeps allows: neither a throttled
\* pass, a failed list, a restart nor the start-up sweep, whose requeue is
\* dropped, loses the wake-up.
WakesWhenDue ==
    pc = "idle" =>
        \A o \in Objects : Ripening(o) =>
            \/ queued
            \/ /\ timer > 0
               /\ \/ timer <= Grace - waited[cobj[o].uid] + slip
                  \/ since # Never /\ timer <= MinInterval - since

\* A deletion only the CSI finalizer holds up, and nothing refers to.
Stuck(o) ==
    /\ obj[o].deleting
    /\ obj[o].fin = Finalizers
    /\ o \in Snaps => o \notin snapshotContentHandles(vscs)
    /\ o \in Vols => o \notin referencingPersistentVolumes(pvs)

\* Snapshots go before their source, so the source waits for them.
ChainStuck(o) ==
    /\ Stuck(o)
    /\ o \in Vols => \A s \in Snaps : SourceOf[s] = o /\ Exists(s) =>
                        \/ Stuck(s)
                        \/ obj[s].deleting /\ obj[s].fin = {AgentFinalizer}

\* Every deletion that only this module's finalizer holds up is unblocked in
\* the end, a source volume after its snapshots, unless something comes to
\* refer to it.
ReclaimedEventually == \A o \in Objects : []<>~ ChainStuck(o)
=============================================================================
