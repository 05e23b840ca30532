# Formal model of sds-local-volume

TLA+ modules for the control plane of `sds-local-volume`, the Deckhouse module
that provisions local LVM volumes: what each component does to the objects of the
Kubernetes API, step by step, next to the other writers of those objects. TLC
checks small instances; TLAPS proves the safety properties of every modelled
component for every value of the constants.  The node side (mounts) is modelled
next to an abstract specification of what it promises, and proved to implement it.

Paths below are relative to `src/`.

## 1. The system

| Component | State it keeps | Operations | Talks to |
|---|---|---|---|
| **LVMLogicalVolume garbage collector** (`images/controller/pkg/controller/lvm_logical_volume_gc.go`) | `lastSweep`, the sweeping mutex, one work item with a delayed add, per sweep: the cached lists, the reclaim budget, the live confirmation and its age | event handlers of three kinds, start-up sweep, `sweep`, `reclaim`, `reclaimSnapshot`, `liveConfirmation.load`, `removeCSIFinalizer` | informer caches, API server (List, Get, Patch) |
| **CSI controller service** (`images/sds-local-volume-csi/driver/controller.go`, `pkg/utils/func.go`) | none between calls; the LVMLogicalVolume is the state | `CreateVolume`, `DeleteVolume`, `ControllerExpandVolume` and their polls, conflict retries and clean-ups | API server; called by external-provisioner and external-resizer, which retry |
| **CSI snapshot service** (`driver/controller_snapshots_ee.go`) | none between calls | `CreateSnapshot`, `DeleteSnapshot` | API server |
| **CSI node service** (`driver/node.go`, `pkg/utils/node_store_manager.go`, `internal/inflight.go`) | the in-flight set, the node's mounts and file systems | stage, unstage, publish, unpublish, expand, stats | kubelet (which repeats and undoes calls), mount, mkfs, resize |
| **LocalStorageClass controller** (`local_storage_class_watcher.go`, `local_storage_class_watcher_func.go`) | work queue, gauges; the class's status and both objects' finalizers | passes create, update, delete, "gone"; recreation of the StorageClass; status | informer caches, API server |
| **CSI node label controller** (`local_csi_node_watcher.go`) | nothing between passes; labels on nodes, LVMVolumeGroups and LocalStorageClasses | label, release, mark for manual eviction, clear the marks | informer caches, API server |
| **Admission webhooks** (`images/webhooks/handlers`) | none | validate LocalStorageClass and StorageClass, mutate the pod scheduler | API server |
| **Module hooks** (`hooks/go`) | none | remove finalizers when the module goes; certificates | API server |
| **Metrics, wiring, configuration** | counters, servers, flags | - | - |

The components never call each other. They meet in the objects they write:

* the CSI driver creates an `LVMLogicalVolume` with its own finalizer; the agent
  of `sds-node-configurator` (another repository) adds its finalizer, makes the
  logical volume, and runs `lvremove` only once its finalizer is the last;
* the garbage collector takes the CSI finalizer off objects whose deletion was
  requested behind the driver's back, and only then;
* the LocalStorageClass controller turns a class into the StorageClass that
  `CreateVolume` gets its parameters from;
* `DeleteVolume` looks the class up again to learn the clean-up method;
* `CreateVolume` from a snapshot needs what `CreateSnapshot` made, and the collector
  releases snapshots that were deleted behind the driver's back;
* the node label decides where the CSI node pod, and with it the node service, runs;
* the webhook sees every create and update of a LocalStorageClass, those of the
  controllers included.

### What is hard

* Every decision is made from a cache or from an object read some calls earlier;
  others write in between. There is no transaction over two objects.
* Names are reused: a retried `CreateVolume` uses the same volume ID, so the
  object under a name need not be the one that was listed.
* Every call may fail, or take effect and lose its answer. Handlers of several
  calls (delete: Get, Update, Update, Delete; recreate: Update, Delete, Create)
  stop in the middle and are entered again from the top.
* Removing the *last* finalizer destroys the only record of a logical volume that
  still takes up space.
* Passes are triggered by events. A throttled, failed or no-op pass that does not
  ask to come back may be the last one.
* Informers lag, and the StorageClass cache has no watch that would trigger a
  pass when it catches up.
* The node handlers ignore their context: after a timeout the old call runs on beside
  the one that repeats or undoes it, and only the in-flight set keeps them apart.

### What makes each component correct

* Collector: it unblocks only what somebody asked to delete, only the very object
  it classified, only when nothing it could have seen refers to it, and never
  destroys the record; it reports all it found; it wakes when something is due;
  what only its finalizer holds up is released in the end.
* CSI controller: an answered `DeleteVolume` leaves nothing that this module still
  holds; a bound volume is not taken down by a clean-up; reported capacity is
  real; a released volume's space comes back.
* LocalStorageClass controller: the StorageClass ends up as the class asks and
  goes with it; the verdict is about the spec it names; deletion completes;
  exported readiness settles.
* Snapshot service: a snapshot reported as ready is there and has the size reported; an
  answered `DeleteSnapshot` frees it; a restored volume holds data.
* Node service: a file system is made once and never mounted twice on a path; what was
  answered is mounted, read-only if asked; every pod that stays gets its volume and
  what no pod wants is unmounted.
* Node labels: a node that is selected or in use keeps its label, the marks for
  eviction are not forgotten, and all labels settle.

The hazards, each at its line, are in `PROJECT.json`.

## 2. Modules

| Module | Models | Extends |
|---|---|---|
| `Cluster` | volumes, snapshots, PersistentVolumes, VolumeSnapshotContents as API server and informers hold them; driver, agent, operator as writers | - |
| `LLVGC` | the garbage collector | `Cluster` |
| `LLVGC_proofs`, `LLVGCSafety_proofs`, `LLVGCPicture_proofs` | theorems about `LLVGC` | `LLVGC`, TLAPS |
| `CSIController` | create, delete and expand over one volume | - |
| `CSISnapshots` | snapshots and volumes made from them | - |
| `LSCController` | one LocalStorageClass and its StorageClass, with the admission rules | - |
| `NodeVolume` | what the node service promises of one volume's mounts (abstract) | - |
| `NodeService` | the node handlers over one volume, implementing `NodeVolume` | - |
| `CSINodeWatcher` | the node label controller | - |
| `CSIController_proofs`, `CSISnapshots_proofs`, `LSCController_proofs`, `NodeService_proofs`, `CSINodeWatcher_proofs` | theorems about the module they are named after | that module, TLAPS |
| `MCLLVGC`, `MCCSIController`, `MCCSISnapshots`, `MCLSCController`, `MCNodeService`, `MCCSINodeWatcher` | constants for TLC | the above |

### `Cluster` and `LLVGC`

`obj` maps each volume and snapshot to its UID, deletion mark and finalizers; an
object that is being deleted and has no finalizer left disappears (`Stored`).
`cobj` and `cpvs` are the caches. A watch brings one kind up to date in one step:
intermediate versions only make the collector look at more states that are also
reachable by syncing earlier. `waited` is the time since a deletion was requested,
per UID, saturating at `Grace`; all durations are ticks kept as saturating ages or
countdowns, so behaviours are unbounded in time while the state stays finite.

A sweep (`Called`, `Throttled`, `ListFailed`, `StartSweep`) reads its cached lists
in one step, walks snapshots before volumes (`Refuse`, `InsideGrace`, `Defer`,
`Spend`), and for what it means to reclaim loads the live picture (`LoadPVs`,
`LoadSnaps`, `LoadContents`, `LoadFailed`, `ReusePicture`), confirms
(`ConfirmRefuses`, `Confirmed`) and runs `removeCSIFinalizer` (`GetSettles`,
`GetLive`, `WriteOff`, `RetriableFailure`, `PermanentFailure`, `PatchNotFound`,
`CancelledWrite`). `Publish` ends it; `Deadline` is `sweepTimeout`, `Restart` a new
process. The optimistic lock is equality of the object with the copy that was
read; the agent's status writes, which the model has no field for, are covered by
a conflict that may happen without cause. `newPVs`, `newSnaps`, `newVSCs` and
`slip` are history: what was created since the picture's list of its kind, and how
long the last sweep for the queue took (the start-up sweep sets no timer).

`Meddlers` switches optional writers: `"driver"` (a `DeleteVolume` in progress
takes the finalizer off), `"operator"` (somebody strips the agent's finalizer).

### `CSIController`

One volume, since volumes meet only in free space, which a call sees as an
arbitrary number (`free`). `claim` is what the sidecars do: new, bound, released,
gone. Each API call of a handler is an action with three outcomes: it works, it
fails without an effect (`ProvisionerFails`, `ResizerFails`: also a done context
and a crash of the driver), it takes effect and its answer is lost. Requests land
before their call returns. LVMVolumeGroups are identified with their nodes, as the
class requires (one group per node). Extents, alignment and the default extent
size of a group that has not published its own are kept, in small units.

### `LSCController`

One LocalStorageClass and the StorageClass of its name: passes over a name are
serialised and names do not interact. `clsc` and `csc` are the caches. Pending
watch events are delivered at once; they enqueue if one of them would
(`lscNews`). A write carries the cached version, so it conflicts exactly if
the cache is behind. `Lag` says how far:

* `"none"`: no pass starts on an outdated StorageClass cache;
* `"short"`: watches deliver within the 10 s of a `RequeueAfter` (`InTime`);
* `"long"`: no bound.

`Upgraded` are finalizers an older release left, `"holder"` another controller's
finalizer on the class, `"foreign"` a user who makes a StorageClass of that name.

`LSCValidate` is the admission webhook. It guards every write of the class but those of
its status (`Admitted`), also the controller's: a write it refuses is one of the
failures (`EnsureFails`, `UnfinalizeFails`), which the controller repeats.

Left out: annotations, parameters that the CRD makes immutable, reasons and
messages, the phase, failing reads of a started cache, and a Thin entry without
a pool, which the webhook refuses.

### `CSISnapshots`

One snapshot of one thin volume, and one volume made from either. `spc` is the call of
external-snapshotter, `vpc` that of external-provisioner; as in `CSIController` each API
call works, fails, or works and loses its answer. `WaitForLLVSStatusUpdate` gives up at
any time; the clean-up and `DeleteSnapshot` share `DeleteLVMLogicalVolumeSnapshot`
(`purpose` says which). The source grows on its own (`SourceGrows`), an administrator
deletes the object and the collector unblocks it. `data` says whether the new
volume holds what its source held: the agent ignores the source of a Thick volume
and cannot copy one that is gone. `swallowed` and `grown` are history.

### `NodeVolume` and `NodeService`

One volume on one node: volumes do not share an in-flight entry, a device or a path.
`mounts` is a stack per path, since a second mount hides the first; `fs.made` counts
runs of mkfs. Each handler goroutine (`call`) goes through the steps of its code:
register, check, probe, mkfs, mount, resize; check, bind, remount; unmount. A step
may fail; `GiveUp` is the kubelet's timeout, after which the handler runs on;
`DriverRestart` empties the registry and ends the handlers, `Reboot` the mounts. The
kubelet is external: `known` is its actual state of the world with the *uncertain*
mark, by which it also undoes what it has not heard of.

`Late` admits a handler that has been received and not yet registered when its caller
gives up; see the observations. `block` is fixed at the start.

`NodeVolume` has no calls, registry or kubelet: format once, stage, publish while staged,
unstage when nothing is published. `Promise` maps the mount table to it.

### `CSINodeWatcher`

Two nodes or more, each with its LVMVolumeGroups (`Home`). Settings select nodes by a
label (`selector`, `zone`), and both change. A pass lists nodes, labels those that match
(`label`), then walks the others: lists groups and classes, releases the node if
nothing of it is used or marked, otherwise marks node, groups and classes; and clears
the marks of the nodes that match. Lists come from caches, taken to be up to date
when a pass starts and lagging by any amount during it (`Sync`). The assumption fits the
periodic passes, which are 10 s apart; an event of the Secret, or the retry of a pass that
failed, may start one right after another, and `MarkedIsManaged` and `UsedKeepsLabel` are
not claimed for it if the caches are then behind (section 5). An Update of a copy that has changed conflicts. `PassFails` is a failing List
or Update, or a restart; the next pass starts over. `matched` and `busy` are history: what was so
all through the pass, which is all that lists read one after the other can see.

`LSCValidate` is the admission webhook again: users and the controller (`UpdateClass`)
can write a class only while every group it names is there. A class with no names stands for
one that selects its groups by their labels. What is refused is tried again in the
next pass and refused again, while the group stays away.

Left out: parsing of the Secret, and the metrics of a pass.

## 3. Runs

Each run asks one question. `expect: violation` runs show what the code does where
a comment or document says otherwise.

| Run | Checks | Bounds and why they are enough |
|---|---|---|
| `gc_volume` | `TypeOK`, `ConfirmedUnreferenced`, `KeepsTheRecord`, `OnlyRequestedDeletions` | One volume, two UIDs (a successor under the name), a PersistentVolume that refers by handle only, two attempts, one timeout or restart, both meddlers. Objects do not interact except through snapshots (next run). |
| `gc_chain` | `ConfirmedUnreferenced` | A volume and two snapshots of it, one with a VolumeSnapshotContent, two of the three at a time (`MaxUid = 2`); a budget of two and `MaxAge = 1`, so that the picture of the first reclaim of a sweep is used again for the second, or grows too old for it, or fails to load half way; `Grace = 0`; the stripping operator acts in `gc_volume`. |
| `gc_timing` | `WakesWhenDue` | `Grace = 3`, floor 1, interval 4: throttle, grace and periodic pass all overlap, and the start-up sweep fits in after a slow sweep of the queue while something ripens; two interchangeable volumes (symmetry) whose grace periods end at different times, or one and its successor; one timeout or restart. |
| `gc_live` | `CompletePicture`, `ReclaimedEventually` | A volume and two snapshots of it, all deleted behind the driver's back, and a budget of one: every sweep that finds both snapshots leaves one, and the volume, for a later pass; `Grace = 0`, since grace periods are the matter of `gc_timing`; fairness. |
| `csi_volume` | `TypeOK`, `DeletedIsReleased`, `BoundIsLive`, `CapacityHonest`, `ReleasedIsReclaimed` | Two groups with extents 2 and 3, one unpublished (default 4); request 3, expansion to 5; two UIDs; two conflict attempts. Aligned and real sizes differ in both directions. |
| `csi_cleanup` | `CleanedBeforeRemoval`, violated | The same with one UID. |
| `lsc_lag` | `TypeOK`, `VerdictMatchesSpec`, `GenerationObserved`, `DeletionCompletes`, `GaugeSettles` | `Lag = "short"`, two specs that resolve alike, two generations, two attempts, another holder, an object left by an older release with both finalizers. |
| `lsc_sync` | `KeptInSync`, `NothingLeftBehind` | `Lag = "none"`, a Thin class with two selectors or with the name of a group, groups that swap, go or become ambiguous, label filters, a malformed Secret, a foreign StorageClass, one change, one restart. |
| `lsc_flap` | `KeptInSync`, violated | `Lag = "short"`, two changes of a label. |
| `csi_snapshots` | `TypeOK`, `ReadyIsLive`, `ReportedSize`, `RestoredIsNotEmpty`, `DeletedIsReclaimed` | Source sizes 3 and 6 with extents of 2, so aligned and requested sizes differ; claims of nothing, less and in between; two UIDs (a successor after a clean-up); two attempts at the finalizer. |
| `node_mounts` | `TypeOK`, `NoStackedMounts`, `AsAnswered`, `SizeHonest`, `NeverReformatted`, `KeepsPromise`, `UnmountedEventually`, `PublishedEventually` | Two targets, one read-only, with block and file-system volumes; two handlers, so every call meets another of the volume; two faults (a failure or timeout and a restart, say); one growth of the device; stacks of four. |
| `node_labels` | `TypeOK`, `MarkedIsManaged`, `UsedKeepsLabel`, `LabelsSettle` | Two nodes with a group each, one class naming any of them; two changes of users (one in each half of a pass, or one on each of two objects) and one fault; all nodes labelled at first, or none. Groups that a class names go and come, so its Updates are refused for a time or for good; `LabelsSettle` claims nothing of the mark of a class whose Updates are refused for good, and everything else. |

The CSI and LSC runs and `node_mounts` say `CHECK_DEADLOCK FALSE`: the bounds on UIDs, generations and
changes let the system come to rest, and so does a node whose pods have all gone. The
collector's timer and the passes over the labels never end, so those runs check for deadlock.

### What the violation runs show

* `csi_cleanup`: an error of the class lookup is ignored, and the delete overwrites
  `Spec.VolumeCleanup` with nothing.
* `lsc_flap`: the pass compares with a cached StorageClass older than its own last
  write and sees no difference. Nothing triggers another pass until something else
  changes, or the informers are resynchronised (every ten hours or so, as no
  `SyncPeriod` is set), which the model leaves out.

### Fairness

* Collector: weak fairness of the timer, the watches, the queue and the running sweep
  (controller-runtime's loops); strong fairness of the successful outcome of each
  call that is retried for ever, for the code can only wait for the API server
  to recover; weak fairness of the agent's `lvremove`. Nothing is assumed of
  users.
* CSI: external-provisioner calls `DeleteVolume` until it succeeds (weak), each call
  that is made again and again succeeds some time (strong), a call that has started
  ends (weak), and the agent removes (weak).
* LSC: worker, watches and requeue timer (weak), successful outcome of each call
  (strong). Nothing is assumed of users and restarts.
* Snapshots: external-snapshotter calls `DeleteSnapshot` until it is answered (weak), each
  call that is made again and again succeeds some time (strong), the agent removes (weak).
* Node service: a handler that has started goes on (weak, per goroutine), and the kubelet's
  reconciler comes round to every path with a call to make (strong, per path: a call may
  be possible only now and then, while the registry is free). Faults are bounded.
* Node labels: the pass goes on and is followed by another (weak: `RequeueAfter`, and the
  work queue's retry). Faults and changes are bounded, so updates work in the end.

## 4. Proofs

Every safety property of a passing run, invariant or action property, is a theorem
for every value of the constants, and so is the refinement of `NodeVolume`. The
constants are arbitrary up to the assumption of each module (`ClusterAssumption`,
`GCAssumption`, `CSIAssumption` and so on): any sets, sizes, durations and bounds.
What an assumption asks for beyond types comes from the code or from the CRDs: a
LocalStorageClass entry has a name or a selector and not both
(`crds/localstorageclass.yaml:84`); a class that an older release left counts as one
of the lives of its name; there is a node.

Each proof has the same shape: a lemma per kind of step, an inductive invariant
named `...Inv`, and theorems that follow from it.

### The collector (`LLVGC_proofs`, `LLVGCSafety_proofs`, `LLVGCPicture_proofs`)

* `TypeCorrect`: `Spec => []TypeOK`. The type alone is not inductive, because
  `cur` and the listed record have to be objects when a write uses them; `Listed`
  adds that what is walked or reclaimed was listed (`TypeInv`).
* `RecordKept`: `Spec => KeepsTheRecord`, and
  `RequestedOnly`: `Spec => OnlyRequestedDeletions`. The invariant is
  `SafeInv == TypeInv /\ UidsSound /\ InFlight`. `UidsSound`: UIDs are handed out
  once and dated only after a deletion was requested; without it the grace period of
  a listed object says nothing about the live one of the same UID. `InFlight`: what
  is being reclaimed has served its grace period, and at the Patch the copy has the
  listed UID, the deletion mark and both finalizers. `OnlyPatchWrites` shows that no
  other step of the collector writes.
* `NothingPassedOver`: `Spec => []ConfirmedUnreferenced`. The invariant adds
  `PictureSound`: a picture young enough to be used shows every reference that is not
  newer than its list, and a partial one is never young. The lemma `ShowsKept`
  carries this over steps after which nothing old has appeared;
  `WritersAddOnlyNew` and `PatchAddsNothing` show that no step makes it so.
* `EveryObjectAnswered`: `Spec => CompletePicture`. While a sweep runs, each object it
  listed is still to be looked at, is being reclaimed, or has its answer (`ReportInv`).
* `NoWakeUpLost`: `Spec => []WakesWhenDue`. The invariant has to say what a sweep
  remembers (`WakeInv`): while no event has queued the item, the lists are the caches,
  and what ripens is still to be seen or the requeue collected so far is in time for it;
  during the start-up sweep, whose requeue is dropped, the timer itself is. It is, because
  that sweep gets past the floor only when no timer depends on the floor. `Dated` says that
  a deletion that shows has its date, and so that a date is set once. The attempt to
  prove this showed that the allowed lateness has to be counted from the sweep that set
  the timer: with the duration of the *last* sweep, the start-up sweep included, the
  property fails for a longer grace period than the run then had.

### The node service (`NodeService_proofs`)

* `NodeInv`, of the service alone: the registry excludes (`Exclusive`), so what a handler
  has checked is still so when it acts on it (`StillSo`); the staging path is
  mounted only once a file system is made; sizes fit. From it `MountsDoNotStack`
  (`NoStackedMounts`), `SizeIsHonest` (`SizeHonest`) and `MadeOnce` (`NeverReformatted`),
  with `Late` or without.
* `KubeletInv`, of the service with its caller: a call that may change mounts is waited for
  or registered, and no two concern one path (`Heard`); its path is uncertain meanwhile
  (`Uncertain`), and the kubelet's order of staging and publishing holds until it
  ends (`Ordered`); a path taken for unpublished is bare, targets are mounted only over
  a staged volume, and all mounts show the volume. From it `AnswersHold` (`AsAnswered`)
  and `ImplementsPromise` (`KeepsPromise`: initial states and every step map to
  `NodeVolume`), both under `~ Late`. The hypothesis is needed: `Heard` breaks the moment
  a caller may leave a handler that has not registered, and section 5 says what then
  happens.

### The CSI controller and snapshot services

* `CSIController_proofs`: `CSIInv` adds to the types `CallInv` (CreateVolume and its
  clean-up run for a new claim, DeleteVolume for a released one), `CopyInv` (the copy a
  call holds may be stale, but nobody puts the finalizer back: if the live object has
  the CSI finalizer so has the copy, and before the Delete it is off) and `BoundInv` (a
  bound volume is the reported one or gone, live unless deleted by hand, with at least
  the reported capacity). From it
  `DeleteAnswerHolds`, `CreateAnswerHolds` and `CapacityIsHonest`.
* `CSISnapshots_proofs`: `SnapInv` likewise, with parts for the snapshot reported
  (`ReadyInv`), its size (`SizeInv`, with `AlignType` for the rounding) and the volume made
  from it (`VolInv`). From it `ReadyStaysLive`, `ReportedSizeHolds` and
  `RestoredHoldsData`.

### The label and class controllers

* `CSINodeWatcher_proofs`: `WatchInv` relates the lists of a pass, read one after
  another, to the cluster: what the history variables `matched` and `busy` contain is in
  each list still to be used (`MatchInv`, `BusyInv`), a listed label or mark is there
  until its node's turn (`LabelInv`, `CandInv`). From it `MarkedStaysManaged` and
  `UsedStaysLabelled`.
* `LSCController_proofs`: `StatusInv` says that the cache is up to date when no event is
  due (`FreshInv`) and that what cache and pass hold are past states of the class:
  not newer, and of the same spec if of the same generation (`GenInv`). From it
  `VerdictIsAboutClass`: `Spec /\ [][Noticed]_vars => VerdictMatchesSpec`, where `Noticed`
  lets a class be created only when neither cache nor pass holds another of its name,
  and `VerdictIsAboutSpec`, without that constraint, for a name that is used once.
  Without either the property is false: see section 5.

### Only model-checked

The liveness properties, which need fairness and `ENABLED`: `ReclaimedEventually`,
`ReleasedIsReclaimed`, `GenerationObserved`, `DeletionCompletes`, `GaugeSettles`,
`KeptInSync`, `NothingLeftBehind`, `DeletedIsReclaimed`, `UnmountedEventually`,
`PublishedEventually`, `LabelsSettle`. The prover has no rules for them.

## 5. Observations without a run of their own

Met while modelling; either the repository does not promise otherwise or the
question would need a run of its own.

* The age of the live picture is taken after the third list, so its first list may be
  older than `liveConfirmationMaxAge` suggests, and the age is checked before the
  Get and the Patch. `ConfirmedUnreferenced` therefore speaks of what is newer than
  each list.
* A sweep cut off by `sweepTimeout` still stamps `lastSweep`.
* `ControllerExpandVolume` writes the size as requested, not aligned
  (`controller.go:549`); the agent aligns.
* If `CreateVolume`'s clean-up stops after the finalizer Update, a later `CreateVolume`
  binds a volume without the CSI finalizer, which the collector then does not own.
* `DeleteVolume` of a volume that is gone fails with the Get's `NotFound`.
* With `Lag = "long"`, a `Failed` status whose write succeeded but whose answer was lost
  may be missing from the cache at the retry; the retry then sees `Ready` and does
  nothing, and `GaugeSettles` fails.
* A delete pass on a StorageClass cache that does not show the class just created
  leaves the StorageClass behind; so does a class whose foreign finalizer goes before
  the controller ever added its own.
* Between Delete and Create of a recreation a foreign StorageClass may take the
  name, and a later pass deletes by name; annotations, the default-class mark
  among them, are lost if the Create fails.
* A class that is deleted and created again under its name while a pass is on its
  predecessor starts at generation 1 again. The pass publishes by name, and if the
  generations agree its verdict about the old spec counts as one about the new (with two
  lives in `lsc_lag`, `VerdictMatchesSpec` fails); the event of the creation brings another
  pass, which corrects it.
* A class that names its groups stays Ready when a group vanishes: no event.
* A malformed configuration Secret blocks deletions too.
* The webhook refuses every Update of a class that names a missing group
  (`lscValidator.go:132-143`), the controller's too: the class cannot be relieved of its
  finalizer and stays Terminating until the group is back, and one that has no finalizer yet
  gets no status. `DeletionCompletes` and `GenerationObserved` say so (`Writable`).
* The status of a class held by another finalizer may stay `Ready=True` while it
  is Terminating: the write of the `Deleting` condition is not retried
  (`local_storage_class_watcher_func.go:218`; `docs/USAGE.md:522` says `Ready=False`).
* A snapshot that passes the collector's cached checks spends the budget before the live
  check refuses it, in every pass; with as many of them as the budget, no volume is
  reached (`lvm_logical_volume_gc.go:476` says the snapshot half cannot crowd out the volumes).
* `NotFound` of the collector's Patch is not retriable and counts as a failed removal.
* A retried `CreateVolume` with Immediate binding selects a node again, and keeps the
  object that is there, whichever node that is on (`controller.go:273`).
* The Delete of `DeleteLVMLogicalVolume` carries no UID precondition.
* `DeleteSnapshot` logs the errors of its clean-up and answers with success
  (`controller_snapshots_ee.go:145`); `DeletedIsReclaimed` leaves those answers out.
* `CreateSnapshot` reports the source's size as read before the snapshot was taken;
  `ReportedSize` leaves a source out that grew in between.
* If the second step of a read-only bind mount fails, the target is mounted read-write.
  The repeated call refuses it, every time, until the pod goes (`PublishedEventually`).
* `NodePublishVolumeBlock` does not look whether the target is mounted; a repeated call
  stacks a mount, and each unpublish takes one off. The kubelet repeats it.
* With `Late = TRUE`, a handler that was received before its caller gave up and
  registers only after the calls that undid it mounts a volume nobody wants, and mounts
  the staging directory of the host if the volume was unstaged. The window is
  between the arrival of the request and `Insert`; no run assumes it.
* A class that names a group of a node that is not selected any more and one that is gone
  holds the node back, but the webhook refuses the Update that would put the candidate label
  on it (`local_csi_node_watcher.go:251`), in every pass; `docs/USAGE.md:268` says that such
  classes display the label. The group and the node are marked. `LabelsSettle` with its
  first `Writable` dropped fails in just this way in the bounds of `node_labels`.
* While a group that a marked class names is missing, the mark cannot be taken off either
  (`local_csi_node_watcher.go:369`): the class stays a candidate for eviction although
  nothing holds its nodes any more, until the group is back or the class is edited.
* A pass of the node label controller that an event of the Secret starts right after another
  may read caches that do not show yet what that one wrote. If it misses the mark of a
  group whose class has just been deleted, it takes the label from the node.
* The node label controller knows only the groups a class names; those it selects by a label
  do not keep a node (`docs/USAGE.md:266-268`). And the marks of classes are cleared in the turn of
  a node that matches, so they stay if none does.
* `needLegacyXFSSupport` is commented as kernels up to 5.4 (`node.go:507`) and tests for a minor
  version up to 15 (`node.go:530`).

## 6. Not modelled, and the plan

Left to do, in this order:

1. **An abstract specification of a reclaim** (requested, confirmed, released) that
   `LLVGC` implements, and the proof that it does.
2. The collector and the CSI service over the same snapshot, which now meet as
   `CollectorUnblocks` in `CSISnapshots`.

Not modelled, for good:

* the finalizer hook (`hooks/go/030`): one pass over lists when the module is removed, with
  nothing left running that could interleave with it; the certificate hook configures
  a library;
* the pod scheduler mutator: a function of one request, of which no modelled component
  reads the outcome;
* `GetCapacity`, `NodeGetVolumeStats`, capability and identity answers: they change nothing;
* metrics and wiring (nothing reads them back; I/O without state), configuration, logging,
  API types and editions (parsing, declarative or generated code).

## 7. Running it

    tlc -config MCLLVGC_volume.cfg MCLLVGC
    tlapm NodeService_proofs.tla

Every run ends within four minutes with two workers, most within two; each proof module
is checked within a few minutes.
