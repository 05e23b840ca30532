---------------------------- MODULE NodeService ----------------------------
(***************************************************************************)
(* The node service of the CSI driver for one volume on one node           *)
(* (images/sds-local-volume-csi/driver/node.go,                            *)
(* pkg/utils/node_store_manager.go and internal/inflight.go): staging,     *)
(* publishing, expanding and undoing that, over the mount table of the     *)
(* node and the filesystem on the device.  The in-flight registry has one  *)
(* entry per volume and volumes do not meet otherwise, so one is enough.   *)
(*                                                                         *)
(* The handlers ignore their context: when the kubelet gives up on a call  *)
(* the handler runs on, beside the call that repeats it.  Between two      *)
(* steps of a handler anything may happen; the driver may be restarted,    *)
(* which ends its handlers and empties the registry, and the node may be   *)
(* rebooted, which empties the mount table.  A step may fail.              *)
(*                                                                         *)
(* The kubelet is external: it calls until it has a success, marks as      *)
(* uncertain what it has called and not heard of, and undoes that too.     *)
(*                                                                         *)
(* Left out: validation of requests, mount and mkfs options other than ro, *)
(* directories (mount points are what matters of them), and statistics.    *)
(***************************************************************************)
EXTENDS Integers, Sequences, FiniteSets

CONSTANTS
    Targets,        \* the target paths of the pods
    ReadOnly,       \* those that ask for a read-only volume
    Calls,          \* handler goroutines
    Late,           \* a caller may give up before the handler has registered
    MaxSize,        \* bound: the size the device may grow to
    MaxStack,       \* bound: mounts over each other on one path
    MaxFaults       \* bound: failures, timeouts and restarts

Staging == "staging"
Paths == Targets \cup {Staging}

ASSUME NodeAssumption ==
    /\ Staging \notin Targets
    /\ ReadOnly \subseteq Targets
    /\ Late \in BOOLEAN
    /\ MaxSize \in Nat \ {0}
    /\ MaxStack \in Nat \ {0}
    /\ MaxFaults \in Nat

VARIABLES
    block,      \* the volume is a raw block volume
    dev,        \* the size of the device
    fs,         \* its filesystem: how many times it was made, its size
    mounts,     \* the mounts of each path, the visible one first
    inFlight,   \* the registry has an entry for the volume
    call,       \* what each goroutine is doing
    waiting,    \* the calls the kubelet waits for
    pod,        \* the pod of each target: still to come, there, or gone
    known,      \* what the kubelet knows of each path
    told,       \* the size the kubelet takes the filesystem to have
    faults

nodeVars == <<block, dev, fs, mounts>>
kubeletVars == <<pod, known, told>>
vars == <<nodeVars, inFlight, call, waiting, kubeletVars, faults>>

Ops == {"stage", "unstage", "publish", "unpublish", "expand"}
Steps == {"begin", "check", "probe", "mkfs", "mount", "resize", "bind", "remount", "umount"}
Idle == [op |-> "none", path |-> Staging, at |-> "begin", size |-> 0]
Mount == [on : {"volume", "host"}, ro : BOOLEAN]

IsMountPoint(p) == mounts[p] # <<>>
Visible(p) == Head(mounts[p])
At(c, op, at) == call[c].op = op /\ call[c].at = at
wanted == {t \in Targets : pod[t] = "there"}
Goto(c, at) == call' = [call EXCEPT ![c].at = at]

Init ==
    /\ block \in BOOLEAN
    /\ dev = 1
    /\ fs = [made |-> 0, size |-> 0]
    /\ mounts = [p \in Paths |-> <<>>]
    /\ inFlight = FALSE
    /\ call = [c \in Calls |-> Idle]
    /\ waiting = {}
    /\ pod = [t \in Targets |-> "coming"]
    /\ known = [p \in Paths |-> "none"]
    /\ told = 0
    /\ faults = 0

-----------------------------------------------------------------------------
(* The end of a handler.  Only a handler that has registered takes the     *)
(* entry out: the defer comes after the early return.                      *)

Registered(c) == call[c].op # "expand" /\ call[c].at # "begin"

\* Mutant: a call that was turned away takes the entry of the other out.
Delete_Always(c) == inFlight' = FALSE

\* Mutant: the entry of a call that nobody waits for any more stays.
Delete_Heard(c) == inFlight' = (inFlight /\ ~ (Registered(c) /\ c \in waiting))

Delete(c) == inFlight' = (inFlight /\ ~ Registered(c))

\* Mutant: no answer is sent.
Answer_Unsent(c) ==
    /\ call' = [call EXCEPT ![c] = Idle]
    /\ UNCHANGED waiting
    /\ Delete(c)

Answer(c) ==
    /\ call' = [call EXCEPT ![c] = Idle]
    /\ waiting' = waiting \ {c}
    /\ Delete(c)

\* What the kubelet makes of a success.
Success(c) ==
    /\ Answer(c)
    /\ IF c \in waiting
       THEN /\ known' = CASE call[c].op \in {"stage", "publish"} ->
                               [known EXCEPT ![call[c].path] = "done"]
                          [] call[c].op \in {"unstage", "unpublish"} ->
                               [known EXCEPT ![call[c].path] = "none"]
                          [] OTHER -> known
            /\ told' = IF call[c].op \in {"stage", "expand"} /\ ~ block /\ call[c].size > told
                       THEN call[c].size ELSE told
       ELSE UNCHANGED <<known, told>>
    /\ UNCHANGED <<pod, faults>>

Error(c) == Answer(c) /\ UNCHANGED <<nodeVars, kubeletVars, faults>>

-----------------------------------------------------------------------------
(* The in-flight registry.                                                 *)

Guarded(c) == call[c].op # "expand" /\ ~ (block /\ call[c].op = "stage")

\* Mutant: the registry is consulted and not written.
Insert_NotKept(c) ==
    /\ call[c].at = "begin"
    /\ Guarded(c)
    /\ ~ inFlight
    /\ UNCHANGED inFlight

Insert(c) ==
    /\ call[c].at = "begin"
    /\ Guarded(c)
    /\ ~ inFlight
    /\ inFlight' = TRUE

Enter(c) ==
    /\ call[c].op # "none"
    /\ Insert(c)
    /\ Goto(c, "check")
    /\ UNCHANGED <<nodeVars, waiting, kubeletVars, faults>>

\* codes.Aborted: another call for the volume is running.
Aborted(c) ==
    /\ call[c].op # "none"
    /\ call[c].at = "begin"
    /\ Guarded(c)
    /\ inFlight
    /\ Error(c)

-----------------------------------------------------------------------------
(* NodeStageVolume and NodeStageVolumeFS.                                  *)

StageBlockSkipped(c) ==
    /\ block
    /\ At(c, "stage", "begin")
    /\ Success(c)
    /\ UNCHANGED nodeVars

\* Mutant: what is mounted already is not looked at.
StageFinds_Nothing == "probe"

\* A path that the volume is mounted at already is taken as it is.
StageFinds == IF IsMountPoint(Staging) THEN "resize" ELSE "probe"

StageCheck(c) ==
    /\ At(c, "stage", "check")
    /\ IsMountPoint(Staging) => Visible(Staging).on = "volume"
    /\ Goto(c, StageFinds)
    /\ UNCHANGED <<nodeVars, inFlight, waiting, kubeletVars, faults>>

\* FormatAndMount looks for a filesystem, makes one if there is none, mounts.
Probe(c) ==
    /\ At(c, "stage", "probe")
    /\ Goto(c, IF fs.made = 0 THEN "mkfs" ELSE "mount")
    /\ UNCHANGED <<nodeVars, inFlight, waiting, kubeletVars, faults>>

Mkfs(c) ==
    /\ At(c, "stage", "mkfs")
    /\ fs' = [made |-> fs.made + 1, size |-> dev]
    /\ Goto(c, "mount")
    /\ UNCHANGED <<block, dev, mounts, inFlight, waiting, kubeletVars, faults>>

MountDevice(c) ==
    /\ At(c, "stage", "mount")
    /\ Len(mounts[Staging]) < MaxStack
    /\ mounts' = [mounts EXCEPT ![Staging] = <<[on |-> "volume", ro |-> FALSE]>> \o @]
    /\ Goto(c, "resize")
    /\ UNCHANGED <<block, dev, fs, inFlight, waiting, kubeletVars, faults>>

\* Mutant: a volume that was mounted already is not resized.
Resized_NotHere == fs

Resized == [fs EXCEPT !.size = dev]

\* NeedResize, and ResizeFS if there is a need; the tool reads the size itself.
StageResize(c) ==
    /\ At(c, "stage", "resize")
    /\ IsMountPoint(Staging)
    /\ fs' = Resized
    /\ Success(c)
    /\ UNCHANGED <<block, dev, mounts>>

-----------------------------------------------------------------------------
(* NodePublishVolume, NodePublishVolumeFS and NodePublishVolumeBlock.      *)

\* Mutant: whatever is mounted at the target will do.
checkMount_DeviceOnly(t) == Visible(t).on = "volume"

checkMount(t) ==
    /\ Visible(t).on = "volume"
    /\ t \in ReadOnly => Visible(t).ro

PublishCheck(c) ==
    /\ At(c, "publish", "check")
    /\ block \/ ~ IsMountPoint(call[c].path)
    /\ Goto(c, "bind")
    /\ UNCHANGED <<nodeVars, inFlight, waiting, kubeletVars, faults>>

PublishedAlready(c) ==
    /\ At(c, "publish", "check")
    /\ ~ block
    /\ IsMountPoint(call[c].path)
    /\ checkMount(call[c].path)
    /\ Success(c)
    /\ UNCHANGED nodeVars

\* A bind mount shows what the staging path shows: the volume, or the bare
\* directory if nothing is mounted there.
Source == IF block \/ IsMountPoint(Staging) THEN "volume" ELSE "host"

\* mount-utils makes a bind mount in two steps: bind, then remount with the
\* options.
Bind(c) ==
    /\ At(c, "publish", "bind")
    /\ Len(mounts[call[c].path]) < MaxStack
    /\ mounts' = [mounts EXCEPT ![call[c].path] = <<[on |-> Source, ro |-> FALSE]>> \o @]
    /\ Goto(c, "remount")
    /\ UNCHANGED <<block, dev, fs, inFlight, waiting, kubeletVars, faults>>

Remount(c) ==
    /\ At(c, "publish", "remount")
    /\ IsMountPoint(call[c].path)
    /\ mounts' = [mounts EXCEPT ![call[c].path][1].ro = call[c].path \in ReadOnly]
    /\ Success(c)
    /\ UNCHANGED <<block, dev, fs>>

-----------------------------------------------------------------------------
(* NodeUnpublishVolume, NodeUnstageVolume and CleanupMountPoint.           *)

Undoes(c, at) == call[c].op \in {"unstage", "unpublish"} /\ call[c].at = at

\* Nothing is mounted: the directory is removed.
NotMounted(c) ==
    /\ Undoes(c, "check")
    /\ ~ IsMountPoint(call[c].path)
    /\ Success(c)
    /\ UNCHANGED nodeVars

UnmountDue(c) ==
    /\ Undoes(c, "check")
    /\ IsMountPoint(call[c].path)
    /\ Visible(call[c].path).on = "volume"
    /\ Goto(c, "umount")
    /\ UNCHANGED <<nodeVars, inFlight, waiting, kubeletVars, faults>>

\* Mutant: one unmount is taken to be enough.
Uncovered_Never(p) == FALSE

\* Another mount was under the one that is gone.
Uncovered(p) == Len(mounts[p]) > 1

\* If it was unmounted meanwhile, "not mounted" is as good as a success.
Unmount(c) ==
    LET p == call[c].path IN
    /\ Undoes(c, "umount")
    /\ mounts' = [mounts EXCEPT ![p] = IF @ = <<>> THEN @ ELSE Tail(@)]
    /\ IF Uncovered(p) THEN Answer(c) /\ UNCHANGED <<kubeletVars, faults>> ELSE Success(c)
    /\ UNCHANGED <<block, dev, fs>>

-----------------------------------------------------------------------------
(* NodeExpandVolume is not entered in the registry.                        *)

ExpandFinds(c) ==
    /\ At(c, "expand", "begin")
    /\ IsMountPoint(call[c].path)
    /\ Visible(call[c].path).on = "volume"
    /\ Goto(c, "resize")
    /\ UNCHANGED <<nodeVars, inFlight, waiting, kubeletVars, faults>>

ExpandResize(c) ==
    /\ At(c, "expand", "resize")
    /\ fs' = [fs EXCEPT !.size = dev]
    /\ Success(c)
    /\ UNCHANGED <<block, dev, mounts>>

-----------------------------------------------------------------------------
(***************************************************************************)
(* What a handler finds that it does not accept: another device at the     *)
(* staging path, a target mounted otherwise than asked, nothing to expand, *)
(* and, when unmounting, a bare directory bound to the target: that has    *)
(* the device of its parent, is not recognised as a mount point, and       *)
(* removing it fails.                                                      *)
(***************************************************************************)
Unacceptable(c) ==
    LET p == call[c].path
        other == IsMountPoint(p) /\ Visible(p).on # "volume" IN
    CASE At(c, "stage", "check") -> other
      [] At(c, "publish", "check") -> ~ block /\ IsMountPoint(p) /\ ~ checkMount(p)
      [] Undoes(c, "check") -> other
      [] At(c, "expand", "begin") -> other \/ ~ IsMountPoint(p)
      [] OTHER -> FALSE

Refused(c) == Unacceptable(c) /\ Error(c)

-----------------------------------------------------------------------------
(* What goes wrong.                                                        *)

Fault == faults < MaxFaults /\ faults' = faults + 1

\* A stat, a mount, a umount, an mkfs or a resize fails without an effect.
StepFails(c) ==
    /\ call[c].op # "none"
    /\ Fault
    /\ Answer(c)
    /\ UNCHANGED <<nodeVars, kubeletVars>>

\* The kubelet's deadline passes; the handler does not notice.
GiveUp(c) ==
    /\ c \in waiting
    /\ Fault
    /\ Late \/ ~ Guarded(c) \/ Registered(c)
    /\ waiting' = waiting \ {c}
    /\ UNCHANGED <<nodeVars, inFlight, call, kubeletVars>>

HandlersEnd ==
    /\ inFlight' = FALSE
    /\ call' = [c \in Calls |-> Idle]
    /\ waiting' = {}

DriverRestart ==
    /\ \E c \in Calls : call[c] # Idle
    /\ Fault
    /\ HandlersEnd
    /\ UNCHANGED <<nodeVars, kubeletVars>>

Reboot ==
    /\ Fault
    /\ HandlersEnd
    /\ mounts' = [p \in Paths |-> <<>>]
    /\ known' = [p \in Paths |-> "none"]
    /\ UNCHANGED <<block, dev, fs, pod, told>>

-----------------------------------------------------------------------------
(* The kubelet and the controller service.                                 *)

\* A target path names its pod, which never comes back.
PodComesOrGoes(t) ==
    /\ pod[t] # "gone"
    /\ pod' = [pod EXCEPT ![t] = IF @ = "coming" THEN "there" ELSE "gone"]
    /\ UNCHANGED <<nodeVars, inFlight, call, waiting, known, told, faults>>

\* ControllerExpandVolume has had the logical volume extended.
DeviceGrows ==
    /\ dev < MaxSize
    /\ dev' = dev + 1
    /\ UNCHANGED <<block, fs, mounts, inFlight, call, waiting, kubeletVars, faults>>

\* Which calls are in order.
Due(op, p) ==
    CASE op = "stage" -> p = Staging /\ wanted # {} /\ known[p] # "done"
      [] op = "publish" -> p \in wanted /\ known[Staging] = "done" /\ known[p] # "done"
      [] op = "unpublish" -> p \in Targets \ wanted /\ known[p] # "none"
      [] op = "unstage" -> /\ p = Staging
                           /\ wanted = {}
                           /\ known[p] # "none"
                           /\ \A t \in Targets : known[t] = "none"
      [] op = "expand" -> /\ ~ block
                          /\ p \in wanted
                          /\ known[p] = "done"
                          /\ told < dev

\* One call at a time, but unpublishing the targets of several pods at once.
CallDriver(c, op, p) ==
    /\ call[c] = Idle
    /\ Due(op, p)
    /\ \A d \in waiting : op = "unpublish" /\ call[d].op = "unpublish" /\ call[d].path # p
    /\ call' = [call EXCEPT ![c] = [op |-> op, path |-> p, at |-> "begin", size |-> dev]]
    /\ waiting' = waiting \cup {c}
    /\ known' = IF op = "expand" THEN known ELSE [known EXCEPT ![p] = "uncertain"]
    /\ UNCHANGED <<nodeVars, inFlight, pod, told, faults>>

-----------------------------------------------------------------------------
\* A step of a handler that does not fail for a reason of its own.
Progress(c) ==
    \/ Enter(c)
    \/ Aborted(c)
    \/ StageBlockSkipped(c)
    \/ StageCheck(c)
    \/ Probe(c)
    \/ Mkfs(c)
    \/ MountDevice(c)
    \/ StageResize(c)
    \/ PublishCheck(c)
    \/ PublishedAlready(c)
    \/ Bind(c)
    \/ Remount(c)
    \/ NotMounted(c)
    \/ UnmountDue(c)
    \/ Unmount(c)
    \/ ExpandFinds(c)
    \/ Refused(c)
    \/ ExpandResize(c)

Next ==
    \/ \E c \in Calls : Progress(c)
    \/ \E c \in Calls : StepFails(c)
    \/ \E c \in Calls : GiveUp(c)
    \/ DriverRestart
    \/ Reboot
    \/ \E t \in Targets : PodComesOrGoes(t)
    \/ DeviceGrows
    \/ \E c \in Calls, op \in Ops, p \in Paths : CallDriver(c, op, p)

Spec == Init /\ [][Next]_vars

(***************************************************************************)
(* A goroutine runs to its end, and the kubelet's reconciler, which backs  *)
(* off from calls that fail, comes round to every pod with a call to make. *)
(***************************************************************************)
FairSpec ==
    /\ Spec
    /\ \A c \in Calls : WF_vars(Progress(c))
    /\ \A p \in Paths : SF_vars(\E c \in Calls, op \in Ops : CallDriver(c, op, p))

-----------------------------------------------------------------------------
(* Type: one conjunct per variable.                                        *)
TypeOK ==
    /\ block \in BOOLEAN
    /\ dev \in 1 .. MaxSize
    /\ fs \in [made : Nat, size : 0 .. MaxSize]
    /\ mounts \in [Paths -> Seq(Mount)]
    /\ inFlight \in BOOLEAN
    /\ call \in [Calls -> [op : Ops \cup {"none"}, path : Paths, at : Steps, size : 0 .. MaxSize]]
    /\ waiting \subseteq {c \in Calls : call[c].op # "none"}
    /\ pod \in [Targets -> {"coming", "there", "gone"}]
    /\ known \in [Paths -> {"none", "uncertain", "done"}]
    /\ told \in 0 .. MaxSize
    /\ faults \in 0 .. MaxFaults

(***************************************************************************)
(* A call that mounts looks first and mounts later (NodeStageVolumeFS,     *)
(* NodePublishVolumeFS).  However calls for the volume overlap, are        *)
(* repeated after a timeout or cut short by a restart, a filesystem volume *)
(* is never mounted twice on one path: one unmount would then leave it.    *)
(***************************************************************************)
NoStackedMounts == ~ block => \A p \in Paths : Len(mounts[p]) <= 1

(***************************************************************************)
(* Of a path the kubelet has been told it is staged or published, and has  *)
(* not touched since, the volume is mounted there - not the bare staging   *)
(* directory, and not removed by a late call - and read-only if the pod    *)
(* asked for that, although a bind mount becomes read-only only in a       *)
(* second step that may fail (checkMount).                                 *)
(***************************************************************************)
AsAnswered ==
    \A p \in Paths : known[p] = "done" /\ ~ (block /\ p = Staging) =>
        /\ IsMountPoint(p)
        /\ Visible(p).on = "volume"
        /\ p \in ReadOnly => Visible(p).ro

(***************************************************************************)
(* A success of NodeStageVolume or NodeExpandVolume means that the         *)
(* filesystem has grown to the size the device had when it was called,     *)
(* also when the device grew while the volume was not in use, or between   *)
(* an attempt and its repetition.                                          *)
(***************************************************************************)
SizeHonest == told <= fs.size

(***************************************************************************)
(* A filesystem is made once: mkfs never runs on a device that has one,    *)
(* whatever calls of NodeStageVolume are under way between the probe and   *)
(* the mkfs of another.                                                    *)
(***************************************************************************)
NeverReformatted == [][fs.made > 0 => fs'.made = fs.made]_vars

(***************************************************************************)
(* Once the pods stop coming and going, the volume ends up unmounted from  *)
(* every target that no pod wants, and from the staging path if none does: *)
(* after timeouts, calls turned away by the registry, restarts, and mounts *)
(* stacked by repeated calls to publish a block volume.                    *)
(***************************************************************************)
UnmountedEventually ==
    \A pods \in SUBSET Targets : <>[](wanted = pods) =>
        <>[](\A p \in Paths \ pods : IsMountPoint(p) => p = Staging /\ pods # {})

(***************************************************************************)
(* And every pod that stays gets its volume, with a filesystem as large as *)
(* the device - unless the volume is to be read-only and a failed remount  *)
(* left it mounted read-write: every further call to publish is refused.   *)
(***************************************************************************)
PublishedEventually ==
    \A pods \in SUBSET Targets : <>[](wanted = pods) =>
        <>[](\A t \in pods :
               \/ known[t] = "done" /\ (block \/ fs.size = dev)
               \/ t \in ReadOnly /\ IsMountPoint(t) /\ ~ Visible(t).ro)

(***************************************************************************)
(* The handlers, with all that overlaps and fails, implement the promise   *)
(* of NodeVolume: made once, staged before published, unstaged last.       *)
(***************************************************************************)
Promise == INSTANCE NodeVolume WITH
    raw <- block,
    formatted <- fs.made > 0,
    staged <- IsMountPoint(Staging),
    published <- {t \in Targets : IsMountPoint(t)}
KeepsPromise == Promise!Spec
=============================================================================
