--------------------------- MODULE LSCController ---------------------------
(***************************************************************************)
(* The LocalStorageClass controller                                        *)
(* (images/controller/pkg/controller/local_storage_class_watcher.go and    *)
(* local_storage_class_watcher_func.go) for one LocalStorageClass and the  *)
(* StorageClass of the same name.  The work queue serialises the passes    *)
(* over one name, and names do not interact, so one is enough.             *)
(*                                                                         *)
(* A pass reads everything from informer caches and then makes its API     *)
(* calls one by one; each call is a step, and may fail, or take effect and *)
(* lose its answer.  A write carries the resourceVersion of the cached     *)
(* object it was built from: it conflicts unless the cache is up to date.  *)
(* The reads at the start of a pass are one step, since delivering an      *)
(* event to a cache between two of them is delivering it after both.       *)
(*                                                                         *)
(* Left out: the parameters that the CRD makes immutable, the annotations, *)
(* reasons and messages, the phase (it is Created exactly when the last    *)
(* pass that set it was a success), and failing reads of a started cache.  *)
(***************************************************************************)
EXTENDS Naturals, Sequences, FiniteSets

CONSTANTS
    LVGs,           \* names of LVMVolumeGroups
    LVGStates,      \* what may be known of them: a set of functions on LVGs
    Specs,          \* LocalStorageClass specs in use
    Pools,          \* names of thin pools
    Methods,        \* volumeCleanup methods
    Labels,         \* label keys a LocalStorageClass may carry
    LabelSets,      \* the sets of them in use
    Configs,        \* contents of the controller-config Secret
    None,           \* no name, no selector, no thin pool
    Attempts,       \* retry.DefaultBackoff.Steps
    Lag,            \* how far the watches may be behind: see InTime
    Upgraded,       \* finalizers an older release may have left
    Meddlers,       \* which of "holder", "foreign" are about
    MaxGen,         \* bound: generations of one LocalStorageClass
    MaxLives,       \* bound: LocalStorageClasses created under the name
    MaxChanges,     \* bound: changes of the LVMVolumeGroups and of the Secret
    MaxRestarts     \* bound: restarts of the controller

Current == "storage.deckhouse.io/local-storage-class-controller"
Old == "localstorageclass.storage.deckhouse.io"
Other == "somebody-else"
localStorageClassFinalizers == {Current, Old}

ASSUME LSCAssumption ==
    /\ Attempts \in Nat \ {0}
    /\ Lag \in {"none", "short", "long"}
    /\ Specs # {}
    /\ None \notin LVGs \cup Pools \cup Methods
    /\ \A known \in LVGStates : \A l \in LVGs :
          known[l].there \in BOOLEAN /\ known[l].pools \subseteq Pools
    /\ \A s \in Specs :
          /\ s.type \in {"Thin", "Thick"}
          /\ s.cleanup \in Methods \cup {None}
          /\ \A i \in DOMAIN s.entries :
                /\ s.entries[i].name \in LVGs \cup {None}
                /\ s.entries[i].thin \in Pools \cup {None}
    /\ \A s \in Specs : \A i \in DOMAIN s.entries :
          /\ (s.type = "Thin") = (s.entries[i].thin # None)
          /\ s.entries[i].name = None <=> s.entries[i].selector # None
    /\ LabelSets \subseteq SUBSET Labels /\ {} \in LabelSets
    /\ \A c \in Configs : c.ok \in BOOLEAN /\ c.ignored \subseteq Labels
    /\ Upgraded \subseteq SUBSET localStorageClassFinalizers
    /\ Meddlers \subseteq {"holder", "foreign"}
    /\ MaxGen \in Nat /\ MaxLives \in Nat /\ MaxChanges \in Nat /\ MaxRestarts \in Nat
    /\ Upgraded # {} => MaxLives > 0

VARIABLES
    lsc,        \* the LocalStorageClass in the API server
    sc,         \* the StorageClass of its name
    clsc, csc,  \* the same in the informer caches
    lscNews,    \* what the LocalStorageClass watch has yet to deliver: nothing,
                \* events the handler drops, or one that it enqueues
    scNews,     \* the StorageClass cache is behind
    lvgs,       \* the LVMVolumeGroups, as cached
    config,     \* the Secret, as cached
    queued,     \* the work queue holds a request
    retry,      \* a RequeueAfter is running
    pc,         \* the API call the pass makes next
    pass,       \* what the pass carries along
    tries,      \* conflicts of the current RetryOnConflict
    gauge,      \* the exported readiness
    lives, changes, restarts

api == <<lsc, sc, lscNews, scNews>>
inputs == <<lvgs, config, lives, changes, restarts>>
vars == <<api, clsc, csc, inputs, queued, retry, pc, pass, tries, gauge>>

anySpec == CHOOSE s \in Specs : TRUE
NoLSC == [there |-> FALSE, gen |-> 0, spec |-> anySpec, labels |-> {}, deleting |-> FALSE,
          fin |-> {}, ready |-> "none", obs |-> 0]
NoContent == [lvgs |-> {}, cleanup |-> None, labels |-> {}]
NoSC == [there |-> FALSE, own |-> FALSE, content |-> NoContent, fin |-> {},
         deleting |-> FALSE]
NoPass == [job |-> "none", gen |-> 0, spec |-> anySpec, held |-> FALSE, was |-> FALSE,
           want |-> NoContent, ready |-> "none", requeue |-> FALSE]

-----------------------------------------------------------------------------
(* What a LocalStorageClass asks for.  An entry of lvmVolumeGroups has a   *)
(* name or a selector, and for Thin a pool; a selector asks for one label. *)

Matched(e, known) ==
    IF e.selector = None THEN {e.name}
    ELSE {l \in LVGs : known[l].there /\ e.selector \in known[l].labels}

lscUsesLabelSelector(spec) == \E i \in DOMAIN spec.entries : spec.entries[i].selector # None

\* A name that an earlier entry has given or matched is an error, a selector that
\* matches one again is so only if the thin pools differ.
Unresolvable(spec, known) ==
    \E j \in DOMAIN spec.entries : \E i \in 1 .. j - 1 :
        LET e == spec.entries[i]
            f == spec.entries[j]
        IN  /\ Matched(e, known) \cap Matched(f, known) # {}
            /\ f.selector = None \/ e.thin # f.thin

resolveEffectiveLVGs(spec, known) ==
    UNION {{[name |-> l, thin |-> spec.entries[i].thin] : l \in Matched(spec.entries[i], known)}
           : i \in DOMAIN spec.entries}

\* filterLabelsForStorageClass; the managed-by label is always added.
configureStorageClass(o, known, conf) ==
    [lvgs |-> resolveEffectiveLVGs(o.spec, known),
     cleanup |-> o.spec.cleanup,
     labels |-> o.labels \ conf.ignored]

names(groups) == {g.name : g \in groups}

sameGroups(type, current, effective) ==
    /\ Cardinality(current) = Cardinality(effective)
    /\ names(current) \subseteq names(effective)
    /\ type = "Thin" => current = effective

hasSCDiff(type, have, want) ==
    \/ have.cleanup # want.cleanup
    \/ have.labels # want.labels
    \/ ~ sameGroups(type, have.lvgs, want.lvgs)

findUnmanagedDuplicatedSC(c) == c.there /\ ~ c.own

findLVMVolumeGroupsOnTheSameNode(known, groups) ==
    \E l, m \in names(groups) \cap {x \in LVGs : known[x].there} :
        l # m /\ known[l].nodes \cap known[m].nodes # {}

findNonexistentLVGs(known, groups) == {g \in groups : ~ known[g.name].there}

findNonexistentThinPools(known, groups) ==
    {g \in groups : g.thin = None \/ g.thin \notin known[g.name].pools}

validateLocalStorageClass(c, spec, known) ==
    LET groups == resolveEffectiveLVGs(spec, known)
    IN  /\ ~ findUnmanagedDuplicatedSC(c)
        /\ spec.entries # << >>
        /\ \A i \in DOMAIN spec.entries :
              LET e == spec.entries[i]
              IN  /\ (e.name = None) # (e.selector = None)
                  /\ Matched(e, known) # {}
                  /\ (spec.type = "Thin") = (e.thin # None)
        /\ \A i, j \in DOMAIN spec.entries :
              (spec.entries[i].name = None) = (spec.entries[j].name = None)
        /\ ~ findLVMVolumeGroupsOnTheSameNode(known, groups)
        /\ findNonexistentLVGs(known, groups) = {}
        /\ spec.type = "Thin" => findNonexistentThinPools(known, groups) = {}

\* The admission webhook, which sees every create and update of a LocalStorageClass
\* except those of its status: the controller's own writes too.  It knows nothing of
\* what a selector matches, and asks that every group named exists.
LSCValidate(spec, known) ==
    /\ spec.entries # << >>
    /\ \A i, j \in DOMAIN spec.entries :
          (spec.entries[i].name = None) = (spec.entries[j].name = None)
    /\ \A i \in DOMAIN spec.entries :
          LET e == spec.entries[i]
          IN  /\ (e.name = None) # (e.selector = None)
              /\ (spec.type = "Thin") = (e.thin # None)
              /\ e.name # None =>
                    /\ known[e.name].there
                    /\ \A j \in 1 .. i - 1 : spec.entries[j].name # e.name

-----------------------------------------------------------------------------
(* The API server and the watches.                                         *)

Stored(o, none) == IF o.deleting /\ o.fin = {} THEN none ELSE o

\* Mutant: the handler has no DeleteFunc.
Enqueues_NotWhenGone(old, new) ==
    /\ new.there
    /\ \/ old.there # new.there
       \/ old.spec # new.spec
       \/ old.labels # new.labels
       \/ new.deleting

\* localStorageClassEventHandler: an update that changes neither spec nor labels
\* is dropped unless the object is being deleted.
Enqueues(old, new) ==
    \/ old.there # new.there
    \/ old.spec # new.spec
    \/ old.labels # new.labels
    \/ new.deleting

PutLSC(new) ==
    /\ lsc' = new
    /\ lscNews' = IF Enqueues(lsc, new) \/ lscNews = "loud" THEN "loud" ELSE "quiet"

\* A write of anything but the status passes the webhook.
Admitted(new) ==
    /\ LSCValidate(new.spec, lvgs)
    /\ PutLSC(Stored(new, NoLSC))

PutSC(new) ==
    /\ sc' = new
    /\ scNews' = TRUE

\* A write that is built from the cached object passes the version check.
LSCUnmoved == lscNews = "none"
SCUnmoved == ~ scNews

ControllerIdle == UNCHANGED <<queued, retry, pc, pass, tries, gauge>>
Elsewhere == UNCHANGED <<clsc, csc, lvgs, config, restarts>> /\ ControllerIdle

\* All that is due is delivered at once: one of the events may enqueue although
\* the newest object would not.
SyncLSC ==
    /\ lscNews # "none"
    /\ clsc' = lsc
    /\ lscNews' = "none"
    /\ queued' = (queued \/ lscNews = "loud")
    /\ UNCHANGED <<lsc, sc, scNews, csc, inputs, retry, pc, pass, tries, gauge>>

\* StorageClasses are cached but not watched by the controller.
SyncSC ==
    /\ scNews
    /\ csc' = sc
    /\ scNews' = FALSE
    /\ UNCHANGED <<lsc, sc, lscNews, clsc, inputs>>
    /\ ControllerIdle

\* Mutant: the predicate passes no relabelling.
LVGEventEnqueues_NotRelabelled(old, new) ==
    /\ clsc.there
    /\ lscUsesLabelSelector(clsc.spec)
    /\ \E l \in LVGs : old[l].there # new[l].there

\* Creation, deletion and relabelling of an LVMVolumeGroup enqueue the classes
\* that use a selector; a change of its status does not.
LVGEventEnqueues(old, new) ==
    /\ clsc.there
    /\ lscUsesLabelSelector(clsc.spec)
    /\ \E l \in LVGs : old[l].there # new[l].there \/ old[l].labels # new[l].labels

LVGsChange ==
    \E new \in LVGStates :
        /\ changes < MaxChanges
        /\ new # lvgs
        /\ lvgs' = new
        /\ changes' = changes + 1
        /\ queued' = (queued \/ LVGEventEnqueues(lvgs, new))
        /\ UNCHANGED <<api, clsc, csc, config, lives, restarts, retry, pc, pass, tries, gauge>>

SecretChanges ==
    \E new \in Configs :
        /\ changes < MaxChanges
        /\ new # config
        /\ config' = new
        /\ changes' = changes + 1
        /\ queued' = (queued \/ clsc.there)
        /\ UNCHANGED <<api, clsc, csc, lvgs, lives, restarts, retry, pc, pass, tries, gauge>>

CreateLSC ==
    \E s \in Specs, held \in BOOLEAN :
        /\ ~ lsc.there
        /\ lives < MaxLives
        /\ held => "holder" \in Meddlers
        /\ Admitted([NoLSC EXCEPT !.there = TRUE, !.gen = 1, !.spec = s,
                                  !.fin = IF held THEN {Other} ELSE {}])
        /\ lives' = lives + 1
        /\ UNCHANGED <<sc, scNews, changes>>
        /\ Elsewhere

EditSpec ==
    \E s \in Specs :
        /\ lsc.there
        /\ lsc.gen < MaxGen
        /\ s # lsc.spec /\ s.type = lsc.spec.type
        /\ Admitted([lsc EXCEPT !.spec = s, !.gen = @ + 1])
        /\ UNCHANGED <<sc, scNews, lives, changes>>
        /\ Elsewhere

EditLabels ==
    \E ls \in LabelSets :
        /\ lsc.there
        /\ changes < MaxChanges
        /\ ls # lsc.labels
        /\ Admitted([lsc EXCEPT !.labels = ls])
        /\ changes' = changes + 1
        /\ UNCHANGED <<sc, scNews, lives>>
        /\ Elsewhere

\* Setting the deletion timestamp bumps the generation.
DeleteLSC ==
    /\ lsc.there
    /\ ~ lsc.deleting
    /\ PutLSC(Stored([lsc EXCEPT !.deleting = TRUE, !.gen = @ + 1], NoLSC))
    /\ UNCHANGED <<sc, scNews, lives, changes>>
    /\ Elsewhere

HolderLetsGo ==
    /\ Other \in lsc.fin
    /\ Admitted([lsc EXCEPT !.fin = @ \ {Other}])
    /\ UNCHANGED <<sc, scNews, lives, changes>>
    /\ Elsewhere

\* Of a StorageClass of this provisioner a user may change the annotations: the
\* webhook rejects the rest.
AnnotateSC ==
    /\ changes < MaxChanges
    /\ sc.there /\ sc.own
    /\ PutSC(sc)
    /\ changes' = changes + 1
    /\ UNCHANGED <<lsc, lscNews, lives>>
    /\ Elsewhere

CreateForeignSC ==
    /\ "foreign" \in Meddlers
    /\ changes < MaxChanges
    /\ ~ sc.there
    /\ PutSC([NoSC EXCEPT !.there = TRUE])
    /\ changes' = changes + 1
    /\ UNCHANGED <<lsc, lscNews, lives>>
    /\ Elsewhere

DeleteForeignSC ==
    /\ sc.there /\ ~ sc.own
    /\ PutSC(NoSC)
    /\ UNCHANGED <<lsc, lscNews, lives, changes>>
    /\ Elsewhere

-----------------------------------------------------------------------------
\* The controller starts in an empty cluster, or beside what an older release,
\* which wrote no conditions, has left.
Init ==
    /\ lvgs \in LVGStates
    /\ config \in Configs
    /\ \/ lsc = NoLSC /\ sc = NoSC
       \/ \E f \in Upgraded, s \in Specs :
             /\ lsc = [NoLSC EXCEPT !.there = TRUE, !.gen = 1, !.spec = s, !.fin = f]
             /\ ~ Unresolvable(s, lvgs)
             /\ sc = [there |-> TRUE, own |-> TRUE, fin |-> f, deleting |-> FALSE,
                      content |-> configureStorageClass(lsc, lvgs, config)]
    /\ clsc = lsc
    /\ csc = sc
    /\ lscNews = "none"
    /\ scNews = FALSE
    /\ queued = lsc.there
    /\ retry = FALSE
    /\ pc = "idle"
    /\ pass = NoPass
    /\ tries = 0
    /\ gauge = "none"
    /\ lives = IF lsc.there THEN 1 ELSE 0
    /\ changes = 0
    /\ restarts = 0

-----------------------------------------------------------------------------
(* The pass.                                                               *)

\* The readiness that the pass knows of goes to the metrics when it ends.
End(requeue, ready) ==
    /\ pc' = "idle"
    /\ pass' = NoPass
    /\ tries' = 0
    /\ retry' = (retry \/ requeue)
    /\ gauge' = IF ready THEN "up" ELSE "down"

\* The pass goes on to its next call.
Go(where, carried) ==
    /\ pc' = where
    /\ pass' = carried
    /\ tries' = 0
    /\ UNCHANGED <<retry, gauge>>

\* updateLocalStorageClassPhase: the finalizer, then the status.
Verdict(p, ready, requeue) ==
    Go(IF p.held THEN "publish" ELSE "ensure",
       [p EXCEPT !.ready = ready, !.requeue = requeue])

Fail(p) == Verdict(p, "failed", TRUE)

\* The request is taken off the queue and the caches are read.
Dequeue ==
    /\ pc = "idle"
    /\ queued
    /\ Lag = "none" => SCUnmoved
    /\ queued' = FALSE
    /\ UNCHANGED <<api, clsc, csc, inputs>>

want == configureStorageClass(clsc, lvgs, config)

Read(job) ==
    [job |-> job, gen |-> clsc.gen, spec |-> clsc.spec,
     held |-> clsc.deleting \/ Current \in clsc.fin,
     was |-> clsc.ready = "true",
     want |-> want, ready |-> "none", requeue |-> FALSE]

PassGone ==
    /\ Dequeue
    /\ ~ clsc.there
    /\ gauge' = "none"
    /\ UNCHANGED <<retry, pc, pass, tries>>

PassWithoutConfig ==
    /\ Dequeue
    /\ clsc.there
    /\ ~ config.ok
    /\ retry' = TRUE
    /\ UNCHANGED <<pc, pass, tries, gauge>>

PassDelete ==
    /\ Dequeue
    /\ clsc.there /\ config.ok
    /\ clsc.deleting
    /\ Go(IF csc.there /\ csc.own THEN "scUnfinalize" ELSE "unfinalize", Read("delete"))

Ordinary == clsc.there /\ config.ok /\ ~ clsc.deleting
Resolved == Ordinary /\ ~ Unresolvable(clsc.spec, lvgs)

PassUnresolved ==
    /\ Dequeue
    /\ Ordinary
    /\ Unresolvable(clsc.spec, lvgs)
    /\ Fail(Read("verdict"))

\* ensureFinalizer comes first, and the validation stops the rest.
PassCreate ==
    /\ Dequeue
    /\ Resolved
    /\ ~ csc.there
    /\ LET ready == IF validateLocalStorageClass(csc, clsc.spec, lvgs) THEN "true" ELSE "failed"
           p == [Read("create") EXCEPT !.ready = ready]
       IN  IF ~ p.held THEN Go("adopt", p)
           ELSE IF ready = "true" THEN Go("scCreate", p) ELSE Fail(p)

\* shouldReconcileByUpdateFunc returns an error.  (It has another, for a Thin
\* entry without a pool, which the admission webhook does not let in.)
PassForeign ==
    /\ Dequeue
    /\ Resolved
    /\ csc.there /\ ~ csc.own
    /\ Fail(Read("verdict"))

\* Mutant: the generation of the last verdict is not looked at.
Unsettled_NotStale(o) == o.ready # "true"

\* conditions.IsStale, or not True.
Unsettled(o) == o.obs # o.gen \/ o.ready # "true"

PassUpdate ==
    /\ Dequeue
    /\ Resolved
    /\ csc.there /\ csc.own
    /\ LET diff == hasSCDiff(clsc.spec.type, csc.content, want)
       IN  /\ diff \/ Unsettled(clsc)
           /\ IF ~ validateLocalStorageClass(csc, clsc.spec, lvgs) THEN Fail(Read("verdict"))
              ELSE IF diff THEN Go("scUnfinalize", Read("recreate"))
              ELSE Verdict(Read("verdict"), "true", FALSE)

PassNothing ==
    /\ Dequeue
    /\ Resolved
    /\ csc.there /\ csc.own
    /\ ~ hasSCDiff(clsc.spec.type, csc.content, want)
    /\ ~ Unsettled(clsc)
    /\ End(FALSE, TRUE)

-----------------------------------------------------------------------------
(* The calls of a pass.  RetryOnConflict reads the cache again, so a       *)
(* conflict can only go away when the watch delivers in the meantime.      *)

Quiet == UNCHANGED <<clsc, csc, inputs, queued>>

\* Mutant: one attempt more than the backoff has steps.
Conflict_OneMore(Error) ==
    \/ /\ tries < Attempts
       /\ tries' = tries + 1
       /\ UNCHANGED <<pc, pass, retry, gauge>>
    \/ /\ tries = Attempts
       /\ Error

\* An attempt meets a conflict: it is made again, or the error is returned.
Conflict(Error) ==
    \/ /\ tries + 1 < Attempts
       /\ tries' = tries + 1
       /\ UNCHANGED <<pc, pass, retry, gauge>>
    \/ /\ tries + 1 = Attempts
       /\ Error

\* ensureFinalizer fails: there is no status of it.
EnsureError == End(TRUE, pass.was)

EnsureDone(p) ==
    IF pc = "ensure" THEN Go("publish", p)
    ELSE IF pass.ready = "true" THEN Go("scCreate", p)
    ELSE Fail(p)

Ensuring == pc \in {"adopt", "ensure"}
ToEnsure == Ensuring /\ clsc.there /\ ~ clsc.deleting /\ Current \notin clsc.fin
WithFinalizer == Admitted([clsc EXCEPT !.fin = @ \cup {Current}])

EnsureNotNeeded ==
    /\ Ensuring
    /\ clsc.there
    /\ clsc.deleting \/ Current \in clsc.fin
    /\ EnsureDone(pass)
    /\ UNCHANGED api
    /\ Quiet

ensureFinalizer ==
    /\ ToEnsure
    /\ LSCUnmoved
    /\ WithFinalizer
    /\ EnsureDone([pass EXCEPT !.held = TRUE])
    /\ UNCHANGED <<sc, scNews>>
    /\ Quiet

EnsureConflict ==
    /\ ToEnsure
    /\ ~ LSCUnmoved
    /\ lsc.there
    /\ Conflict(EnsureError)
    /\ UNCHANGED api
    /\ Quiet

\* Any other error, the object being gone for one; or the answer is lost.
EnsureFails ==
    /\ Ensuring
    /\ \/ UNCHANGED api
       \/ ToEnsure /\ LSCUnmoved /\ WithFinalizer /\ UNCHANGED <<sc, scNews>>
    /\ EnsureError
    /\ Quiet

\* Mutant: the generation of the object read again.
Published_Fresh == [clsc EXCEPT !.ready = pass.ready, !.obs = clsc.gen]

\* conditions.UpdateStatus: the generation is that of the pass, not that of the
\* object read again.
Published == [clsc EXCEPT !.ready = pass.ready, !.obs = pass.gen]
ToPublish == pc = "publish" /\ clsc.there /\ Published # clsc

\* A failure to say that a class is being deleted is only logged.
PublishError == End(pass.ready # "deleting", pass.was)
PublishDone == End(pass.requeue, pass.ready = "true")

PublishNotNeeded ==
    /\ pc = "publish"
    /\ clsc.there
    /\ Published = clsc
    /\ PublishDone
    /\ UNCHANGED api
    /\ Quiet

publishLocalStorageClassStatus ==
    /\ ToPublish
    /\ LSCUnmoved
    /\ PutLSC(Published)
    /\ PublishDone
    /\ UNCHANGED <<sc, scNews>>
    /\ Quiet

PublishConflict ==
    /\ ToPublish
    /\ ~ LSCUnmoved
    /\ lsc.there
    /\ Conflict(PublishError)
    /\ UNCHANGED api
    /\ Quiet

PublishFails ==
    /\ pc = "publish"
    /\ \/ UNCHANGED api
       \/ ToPublish /\ LSCUnmoved /\ PutLSC(Published) /\ UNCHANGED <<sc, scNews>>
    /\ PublishError
    /\ Quiet

\* Mutant: the old spelling stays.
Kept_CurrentOnly(fin) == fin \ {Current}

Kept(fin) == fin \ localStorageClassFinalizers

\* removeControllerFinalizers on the StorageClass, in deleteStorageClass.
SCUnfinalizable == csc.there /\ Kept(csc.fin) # csc.fin
SCUnfinalized == PutSC(Stored([csc EXCEPT !.fin = Kept(@)], NoSC))

SCUnfinalizeNotNeeded ==
    /\ pc = "scUnfinalize"
    /\ ~ SCUnfinalizable
    /\ Go("scDelete", pass)
    /\ UNCHANGED api
    /\ Quiet

SCUnfinalize ==
    /\ pc = "scUnfinalize"
    /\ SCUnfinalizable
    /\ SCUnmoved
    /\ SCUnfinalized
    /\ Go("scDelete", pass)
    /\ UNCHANGED <<lsc, lscNews>>
    /\ Quiet

SCConflict ==
    /\ pc = "scUnfinalize"
    /\ SCUnfinalizable
    /\ ~ SCUnmoved
    /\ sc.there
    /\ Conflict(Fail(pass))
    /\ UNCHANGED api
    /\ Quiet

SCUnfinalizeFails ==
    /\ pc = "scUnfinalize"
    /\ \/ UNCHANGED api
       \/ SCUnfinalizable /\ SCUnmoved /\ SCUnfinalized /\ UNCHANGED <<lsc, lscNews>>
    /\ Fail(pass)
    /\ Quiet

\* cl.Delete by name, whatever has the name by then.
SCDeleted == sc.there /\ PutSC(Stored([sc EXCEPT !.deleting = TRUE], NoSC))

deleteStorageClass ==
    /\ pc = "scDelete"
    /\ SCDeleted
    /\ Go(IF pass.job = "delete" THEN "unfinalize" ELSE "scCreate", pass)
    /\ UNCHANGED <<lsc, lscNews>>
    /\ Quiet

\* Mutant: the error is logged and the pass goes on.
SCDeleteFails_Ignored ==
    /\ pc = "scDelete"
    /\ SCDeleted \/ UNCHANGED <<sc, scNews>>
    /\ Go(IF pass.job = "delete" THEN "unfinalize" ELSE "scCreate", pass)
    /\ UNCHANGED <<lsc, lscNews>>
    /\ Quiet

SCDeleteFails ==
    /\ pc = "scDelete"
    /\ SCDeleted \/ UNCHANGED <<sc, scNews>>
    /\ Fail(pass)
    /\ UNCHANGED <<lsc, lscNews>>
    /\ Quiet

SCCreated ==
    /\ ~ sc.there
    /\ PutSC([there |-> TRUE, own |-> TRUE, content |-> pass.want, fin |-> {Current},
              deleting |-> FALSE])

\* The last call of a create or a recreate; the finalizer is part of the object.
createStorageClass ==
    /\ pc = "scCreate"
    /\ SCCreated
    /\ Verdict(pass, "true", FALSE)
    /\ UNCHANGED <<lsc, lscNews>>
    /\ Quiet

SCCreateFails ==
    /\ pc = "scCreate"
    /\ SCCreated \/ UNCHANGED <<sc, scNews>>
    /\ Fail(pass)
    /\ UNCHANGED <<lsc, lscNews>>
    /\ Quiet

\* removeControllerFinalizers on the LocalStorageClass, and then
\* setLocalStorageClassDeleting.
Unfinalizable == clsc.there /\ Kept(clsc.fin) # clsc.fin
Unfinalized == Admitted([clsc EXCEPT !.fin = Kept(@)])
SayDeleting == Go("publish", [pass EXCEPT !.ready = "deleting"])

UnfinalizeNotNeeded ==
    /\ pc = "unfinalize"
    /\ ~ Unfinalizable
    /\ SayDeleting
    /\ UNCHANGED api
    /\ Quiet

removeControllerFinalizers ==
    /\ pc = "unfinalize"
    /\ Unfinalizable
    /\ LSCUnmoved
    /\ Unfinalized
    /\ SayDeleting
    /\ UNCHANGED <<sc, scNews>>
    /\ Quiet

UnfinalizeConflict ==
    /\ pc = "unfinalize"
    /\ Unfinalizable
    /\ ~ LSCUnmoved
    /\ lsc.there
    /\ Conflict(Fail(pass))
    /\ UNCHANGED api
    /\ Quiet

UnfinalizeFails ==
    /\ pc = "unfinalize"
    /\ \/ UNCHANGED api
       \/ Unfinalizable /\ LSCUnmoved /\ Unfinalized /\ UNCHANGED <<sc, scNews>>
    /\ Fail(pass)
    /\ Quiet

\* With a short lag the watches have delivered within a requeue interval (10 s);
\* with none the StorageClass cache has caught up before the next pass starts.
InTime == Lag = "long" \/ (LSCUnmoved /\ SCUnmoved)

RetryDue ==
    /\ retry
    /\ InTime
    /\ retry' = FALSE
    /\ queued' = TRUE
    /\ UNCHANGED <<api, clsc, csc, inputs, pc, pass, tries, gauge>>

\* The pod restarts or another one becomes leader: the caches are filled anew,
\* which makes an event for the object, and all else is forgotten.
Restart ==
    /\ restarts < MaxRestarts
    /\ restarts' = restarts + 1
    /\ clsc' = lsc
    /\ csc' = sc
    /\ lscNews' = "none"
    /\ scNews' = FALSE
    /\ queued' = lsc.there
    /\ retry' = FALSE
    /\ pc' = "idle"
    /\ pass' = NoPass
    /\ tries' = 0
    /\ gauge' = "none"
    /\ UNCHANGED <<lsc, sc, lvgs, config, lives, changes>>

StartPass ==
    \/ PassGone \/ PassWithoutConfig \/ PassDelete \/ PassUnresolved
    \/ PassCreate \/ PassForeign \/ PassUpdate \/ PassNothing

Calls ==
    \/ EnsureNotNeeded \/ ensureFinalizer \/ EnsureConflict \/ EnsureFails
    \/ PublishNotNeeded \/ publishLocalStorageClassStatus \/ PublishConflict \/ PublishFails
    \/ SCUnfinalizeNotNeeded \/ SCUnfinalize \/ SCConflict \/ SCUnfinalizeFails
    \/ deleteStorageClass \/ SCDeleteFails
    \/ createStorageClass \/ SCCreateFails
    \/ UnfinalizeNotNeeded \/ removeControllerFinalizers
    \/ UnfinalizeConflict \/ UnfinalizeFails

Users ==
    \/ CreateLSC \/ EditSpec \/ EditLabels \/ DeleteLSC \/ HolderLetsGo
    \/ AnnotateSC \/ CreateForeignSC \/ DeleteForeignSC \/ LVGsChange \/ SecretChanges

Next ==
    \/ StartPass \/ Calls \/ SyncLSC \/ SyncSC \/ RetryDue
    \/ Users \/ Restart

Spec == Init /\ [][Next]_vars

(***************************************************************************)
(* Fairness.  The worker, the watches and the timer go on; a call that is  *)
(* made again and again gets through some time.  Nothing is assumed of the *)
(* users, and a restart need not happen.                                   *)
(***************************************************************************)
Fairness ==
    /\ WF_vars(StartPass)
    /\ WF_vars(Calls)
    /\ WF_vars(SyncLSC)
    /\ WF_vars(SyncSC)
    /\ WF_vars(RetryDue)
    /\ SF_vars(EnsureNotNeeded \/ ensureFinalizer)
    /\ SF_vars(PublishNotNeeded \/ publishLocalStorageClassStatus)
    /\ SF_vars(SCUnfinalizeNotNeeded \/ SCUnfinalize)
    /\ SF_vars(deleteStorageClass)
    /\ SF_vars(createStorageClass)
    /\ SF_vars(UnfinalizeNotNeeded \/ removeControllerFinalizers)

FairSpec == Spec /\ Fairness

-----------------------------------------------------------------------------
Group == [name : LVGs, thin : Pools \cup {None}]
Content == [lvgs : SUBSET Group, cleanup : Methods \cup {None}, labels : SUBSET Labels]
Verdicts == {"none", "true", "failed", "deleting"}
Class == [there : BOOLEAN, gen : Nat, spec : Specs, labels : SUBSET Labels,
          deleting : BOOLEAN, fin : SUBSET {Current, Old, Other},
          ready : Verdicts, obs : Nat]
Managed == [there : BOOLEAN, own : BOOLEAN, content : Content,
            fin : SUBSET localStorageClassFinalizers, deleting : BOOLEAN]
Carried == [job : {"none", "create", "recreate", "delete", "verdict"}, gen : Nat,
            spec : Specs, held : BOOLEAN, was : BOOLEAN, want : Content,
            ready : Verdicts, requeue : BOOLEAN]

\* The objects, their cached copies and the state of a pass have their types; in
\* particular RetryOnConflict makes no more than Attempts attempts.
TypeOK ==
    /\ lsc \in Class /\ clsc \in Class
    /\ sc \in Managed /\ csc \in Managed
    /\ lscNews \in {"none", "quiet", "loud"} /\ scNews \in BOOLEAN
    /\ lvgs \in LVGStates /\ config \in Configs
    /\ queued \in BOOLEAN /\ retry \in BOOLEAN
    /\ pc \in {"idle", "adopt", "ensure", "publish", "scUnfinalize", "scDelete",
               "scCreate", "unfinalize"}
    /\ pass \in Carried
    /\ tries \in 0 .. Attempts - 1
    /\ gauge \in {"none", "up", "down"}
    /\ lives \in 0 .. MaxLives /\ changes \in 0 .. MaxChanges
    /\ restarts \in 0 .. MaxRestarts

\* A verdict that says it is about the spec in force was reached over that spec:
\* publishLocalStorageClassStatus reads the object again, and neither an edit that
\* arrives in between nor a deletion passes for seen.
VerdictMatchesSpec ==
    [][lsc'.there /\ lsc'.obs = lsc'.gen /\ lsc'.obs # lsc.obs => pass.spec = lsc'.spec]_vars

\* The webhook takes the controller's own writes: no group that is named is missing.
Writable == LSCValidate(lsc.spec, lvgs)

\* status.observedGeneration catches up with every edit, also with one that
\* leaves the StorageClass as it is (shouldReconcileByUpdateFunc).
GenerationObserved ==
    <>[](lsc.there /\ ~ lsc.deleting /\ config.ok /\ Writable => lsc.obs = lsc.gen)

\* A class that is being deleted goes away once nobody else holds it, whichever
\* finalizers older releases have left and however often the removal conflicts -
\* except while the webhook refuses the removal for want of a named group.
DeletionCompletes ==
    lsc.deleting /\ Other \notin lsc.fin ~> ~ lsc.deleting \/ ~ config.ok \/ ~ Writable

\* The exported readiness ends up as what the class says, and is withdrawn when
\* the class is gone (localStorageClassEventHandler).
GaugeSettles ==
    <>[](config.ok /\ pc = "idle" =>
            gauge = IF ~ lsc.there THEN "none" ELSE IF lsc.ready = "true" THEN "up" ELSE "down")

Wanted ==
    /\ lsc.there /\ ~ lsc.deleting
    /\ config.ok
    /\ ~ Unresolvable(lsc.spec, lvgs)
    /\ validateLocalStorageClass(sc, lsc.spec, lvgs)

\* docs/USAGE.md: when the set of matched LVMVolumeGroups changes, the controller
\* updates the managed StorageClass; the same goes for an edit of the class and for
\* the ignored labels, and for a pass that fails between Delete and Create.
KeptInSync ==
    <>[](Wanted => /\ sc.there
                   /\ sc.content = configureStorageClass(lsc, lvgs, config))

\* A class that is gone leaves no StorageClass of this provisioner behind.
NothingLeftBehind ==
    <>[](~ lsc.there => ~ (sc.there /\ sc.own))
=============================================================================
