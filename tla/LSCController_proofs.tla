------------------------ MODULE LSCController_proofs ------------------------
(***************************************************************************)
(* Proofs about module LSCController, for every set of groups, specs,      *)
(* settings and bounds: types, and that a status which claims to be about  *)
(* the spec in force was reached over that spec (updateLocalStorageClass-  *)
(* Phase and publishLocalStorageClassStatus in                             *)
(* local_storage_class_watcher_func.go).                                   *)
(*                                                                         *)
(* The pass carries the generation it has read; the status is written to   *)
(* an object that is read again.  That the two are about the same spec     *)
(* when the generations agree needs three facts: an object passes the      *)
(* version check only if the cache has caught up (FreshInv); what the      *)
(* cache shows is a past state of the object, and what the pass carries a  *)
(* past state of the cache (GenInv); and it is the same object, because    *)
(* generations start anew with another of the same name.  The theorem      *)
(* about the status therefore assumes that a name is used again only after *)
(* the controller has noticed that its last bearer is gone (Noticed),      *)
(* which holds by itself if names are used once (LifeInv).                 *)
(***************************************************************************)
EXTENDS LSCController, TLAPS

USE DEF api, inputs

(* The cache of an object that no event is due for is up to date.          *)
FreshInv == lscNews = "none" => clsc = lsc

(* Before the class is created there is nothing to be seen of it.          *)
LifeInv == lives = 0 => ~ lsc.there /\ ~ clsc.there /\ pc = "idle"

(* A generation and a spec seen before: not newer than the object, and of  *)
(* the same spec if no older.                                              *)
Past(gen, spec, o) == gen <= o.gen /\ (gen = o.gen => spec = o.spec)

(* What the cache and the pass hold is past, seen from the class, and what *)
(* the pass holds is past seen from the cache.                             *)
GenInv ==
    /\ lsc.there /\ clsc.there => Past(clsc.gen, clsc.spec, lsc)
    /\ lsc.there /\ pc # "idle" => Past(pass.gen, pass.spec, lsc)
    /\ clsc.there /\ pc # "idle" => Past(pass.gen, pass.spec, clsc)

-----------------------------------------------------------------------------
(* Types.                                                                  *)

(* The objects before they are there.                                      *)
LEMMA EmptyTypes ==
    /\ anySpec \in Specs
    /\ NoContent \in Content
    /\ NoLSC \in Class /\ ~ NoLSC.there
    /\ NoSC \in Managed
    /\ NoPass \in Carried
  <1>1. anySpec \in Specs
    BY LSCAssumption DEF anySpec
  <1>2. NoContent \in Content
    BY DEF NoContent, Content
  <1>3. NoLSC \in Class /\ ~ NoLSC.there
    BY <1>1 DEF NoLSC, Class, Verdicts
  <1>4. NoSC \in Managed
    BY <1>2 DEF NoSC, Managed
  <1>5. NoPass \in Carried
    BY <1>1, <1>2 DEF NoPass, Carried, Verdicts
  <1> QED
    BY <1>1, <1>2, <1>3, <1>4, <1>5

(* configureStorageClass: the groups that resolveEffectiveLVGs finds are   *)
(* known names with a pool or none.                                        *)
LEMMA ContentType ==
    ASSUME NEW o \in Class, NEW known \in LVGStates, NEW conf \in Configs
    PROVE  configureStorageClass(o, known, conf) \in Content
  <1>1. o.spec \in Specs /\ o.labels \subseteq Labels
    BY DEF Class
  <1>2. ASSUME NEW i \in DOMAIN o.spec.entries, NEW l \in Matched(o.spec.entries[i], known)
        PROVE  [name |-> l, thin |-> o.spec.entries[i].thin] \in Group
    <2>1. /\ o.spec.entries[i].name \in LVGs \cup {None}
          /\ o.spec.entries[i].thin \in Pools \cup {None}
          /\ o.spec.entries[i].name = None <=> o.spec.entries[i].selector # None
      BY <1>1, LSCAssumption
    <2>2. l \in LVGs
      BY <2>1 DEF Matched
    <2> QED
      BY <2>1, <2>2 DEF Group
  <1>3. resolveEffectiveLVGs(o.spec, known) \subseteq Group
    BY <1>2 DEF resolveEffectiveLVGs
  <1>4. o.spec.cleanup \in Methods \cup {None}
    BY <1>1, LSCAssumption
  <1> QED
    BY <1>1, <1>3, <1>4 DEF configureStorageClass, Content

(* What the API server stores of an object that lost its last finalizer.   *)
LEMMA StoredCases ==
    ASSUME NEW o, NEW none
    PROVE  Stored(o, none) \in {o, none}
  BY DEF Stored

(* The writes to a class, field by field.                                  *)
LEMMA FinFields ==
    ASSUME NEW o \in Class, NEW f \in SUBSET {Current, Old, Other}
    PROVE  LET r == [o EXCEPT !.fin = f] IN
           r \in Class /\ r.gen = o.gen /\ r.spec = o.spec /\ r.obs = o.obs /\ r.there = o.there
  BY DEF Class

(* A status with a verdict about a generation.                             *)
LEMMA StatusFields ==
    ASSUME NEW o \in Class, NEW v \in Verdicts, NEW g \in Nat
    PROVE  LET r == [o EXCEPT !.ready = v, !.obs = g] IN
           r \in Class /\ r.gen = o.gen /\ r.spec = o.spec /\ r.obs = g /\ r.there = o.there
  BY DEF Class

(* New labels.                                                             *)
LEMMA LabelFields ==
    ASSUME NEW o \in Class, NEW ls \in SUBSET Labels
    PROVE  LET r == [o EXCEPT !.labels = ls] IN
           r \in Class /\ r.gen = o.gen /\ r.spec = o.spec /\ r.obs = o.obs /\ r.there = o.there
  BY DEF Class

(* A new spec raises the generation.                                       *)
LEMMA SpecFields ==
    ASSUME NEW o \in Class, NEW s \in Specs
    PROVE  LET r == [o EXCEPT !.spec = s, !.gen = @ + 1] IN
           r \in Class /\ r.gen = o.gen + 1 /\ r.obs = o.obs /\ r.there = o.there
  <1> DEFINE g == o.gen + 1
  <1>1. g \in Nat
    BY DEF Class
  <1> HIDE DEF g
  <1>2. LET r == [o EXCEPT !.spec = s, !.gen = g] IN
        r \in Class /\ r.gen = g /\ r.obs = o.obs /\ r.there = o.there
    BY <1>1 DEF Class
  <1> QED
    BY <1>2 DEF g

(* So does a request to delete the class.                                  *)
LEMMA DeletingFields ==
    ASSUME NEW o \in Class
    PROVE  LET r == [o EXCEPT !.deleting = TRUE, !.gen = @ + 1] IN
           r \in Class /\ r.gen = o.gen + 1 /\ r.obs = o.obs /\ r.there = o.there
  <1> DEFINE g == o.gen + 1
  <1>1. g \in Nat
    BY DEF Class
  <1> HIDE DEF g
  <1>2. LET r == [o EXCEPT !.deleting = TRUE, !.gen = g] IN
        r \in Class /\ r.gen = g /\ r.obs = o.obs /\ r.there = o.there
    BY <1>1 DEF Class
  <1> QED
    BY <1>2 DEF g

(* A new class starts at generation 1, with nothing observed.              *)
LEMMA CreatedFields ==
    ASSUME NEW s \in Specs, NEW f \in SUBSET {Current, Old, Other}
    PROVE  LET r == [NoLSC EXCEPT !.there = TRUE, !.gen = 1, !.spec = s, !.fin = f] IN
           r \in Class /\ r.there /\ r.gen = 1 /\ r.obs = 0 /\ r.spec = s
  BY EmptyTypes DEF Class, NoLSC, Verdicts

(* How a step may change the class.                                        *)
Same(o) == o.there = lsc.there /\ o.gen = lsc.gen /\ o.spec = lsc.spec

(* The class is left alone, goes, comes, gets a new generation, or keeps   *)
(* its generation and spec; what was observed of it changes only when a    *)
(* pass publishes.                                                         *)
Changes ==
    \/ lsc' = lsc
    \/ ~ lsc'.there
    \/ ~ lsc.there /\ lsc'.obs = 0 /\ lsc'.gen = 1 /\ lives' = lives + 1 /\ lives < MaxLives
    \/ lsc'.there = lsc.there /\ lsc'.gen = lsc.gen + 1 /\ lsc'.obs = lsc.obs
    \/ Same(lsc') /\ lsc'.obs = lsc.obs
    \/ Same(lsc') /\ pc = "publish" /\ lsc'.obs = pass.gen

(* Users create, edit, label and delete it; the controller changes its     *)
(* finalizers, and its status in the last call of a pass.                  *)
LEMMA ClassStep ==
    ASSUME TypeOK, FreshInv, [Next]_vars
    PROVE  lsc' \in Class /\ Changes
  <1>0. lsc \in Class /\ clsc \in Class /\ pass \in Carried /\ lsc.gen \in Nat
    BY DEF TypeOK, Class
  <1>00. pass.gen \in Nat /\ pass.ready \in Verdicts
    BY <1>0 DEF Carried
  <1>1. ASSUME NEW r \in Class, lsc' = Stored(r, NoLSC),
               \/ ~ lsc.there /\ r.obs = 0 /\ r.gen = 1 /\ lives' = lives + 1 /\ lives < MaxLives
               \/ r.there = lsc.there /\ r.gen = lsc.gen + 1 /\ r.obs = lsc.obs
               \/ Same(r) /\ r.obs = lsc.obs
        PROVE  lsc' \in Class /\ Changes
    BY <1>1, StoredCases, EmptyTypes DEF Changes
  <1>2. CASE UNCHANGED lsc
    BY <1>0, <1>2 DEF Changes
  <1>3. CASE CreateLSC
    <2>1. PICK s \in Specs, held \in BOOLEAN :
             /\ ~ lsc.there /\ lives < MaxLives /\ lives' = lives + 1
             /\ lsc' = Stored([NoLSC EXCEPT !.there = TRUE, !.gen = 1, !.spec = s,
                                            !.fin = IF held THEN {Other} ELSE {}], NoLSC)
      BY <1>3 DEF CreateLSC, Admitted, PutLSC
    <2> DEFINE f == IF held THEN {Other} ELSE {}
               r == [NoLSC EXCEPT !.there = TRUE, !.gen = 1, !.spec = s, !.fin = f]
    <2>2. f \in SUBSET {Current, Old, Other}
      OBVIOUS
    <2> HIDE DEF f
    <2>3. r \in Class /\ r.gen = 1 /\ r.obs = 0
      BY <2>2, CreatedFields
    <2>4. lsc' = Stored(r, NoLSC)
      BY <2>1 DEF f
    <2> HIDE DEF r
    <2> QED
      BY <1>1, <2>1, <2>3, <2>4
  <1>4. CASE EditSpec
    <2>1. PICK s \in Specs : lsc' = Stored([lsc EXCEPT !.spec = s, !.gen = @ + 1], NoLSC)
      BY <1>4 DEF EditSpec, Admitted, PutLSC
    <2> DEFINE r == [lsc EXCEPT !.spec = s, !.gen = @ + 1]
    <2>2. r \in Class /\ r.gen = lsc.gen + 1 /\ r.obs = lsc.obs /\ r.there = lsc.there
      BY <1>0, SpecFields
    <2>3. lsc' = Stored(r, NoLSC)
      BY <2>1
    <2> HIDE DEF r
    <2> QED
      BY <1>1, <2>2, <2>3
  <1>5. CASE EditLabels
    <2>1. PICK ls \in LabelSets : lsc' = Stored([lsc EXCEPT !.labels = ls], NoLSC)
      BY <1>5 DEF EditLabels, Admitted, PutLSC
    <2> DEFINE r == [lsc EXCEPT !.labels = ls]
    <2>2. ls \in SUBSET Labels
      BY LSCAssumption
    <2>3. r \in Class /\ r.gen = lsc.gen /\ r.spec = lsc.spec /\ r.obs = lsc.obs /\ r.there = lsc.there
      BY <1>0, <2>2, LabelFields
    <2>4. lsc' = Stored(r, NoLSC)
      BY <2>1
    <2> HIDE DEF r
    <2> QED
      BY <1>1, <2>3, <2>4 DEF Same
  <1>6. CASE DeleteLSC
    <2>1. lsc' = Stored([lsc EXCEPT !.deleting = TRUE, !.gen = @ + 1], NoLSC)
      BY <1>6 DEF DeleteLSC, PutLSC
    <2> DEFINE r == [lsc EXCEPT !.deleting = TRUE, !.gen = @ + 1]
    <2>2. r \in Class /\ r.gen = lsc.gen + 1 /\ r.obs = lsc.obs /\ r.there = lsc.there
      BY <1>0, DeletingFields
    <2>3. lsc' = Stored(r, NoLSC)
      BY <2>1
    <2> HIDE DEF r
    <2> QED
      BY <1>1, <2>2, <2>3
  <1>7. ASSUME NEW o \in Class, NEW f \in SUBSET {Current, Old, Other}, o = lsc,
               lsc' = Stored([o EXCEPT !.fin = f], NoLSC)
        PROVE  lsc' \in Class /\ Changes
    <2> DEFINE r == [o EXCEPT !.fin = f]
    <2>1. r \in Class /\ r.gen = o.gen /\ r.spec = o.spec /\ r.obs = o.obs /\ r.there = o.there
      BY FinFields
    <2>2. lsc' = Stored(r, NoLSC)
      BY <1>7
    <2> HIDE DEF r
    <2> QED
      BY <1>1, <1>7, <2>1, <2>2 DEF Same
  <1>8. CASE HolderLetsGo
    <2>1. lsc' = Stored([lsc EXCEPT !.fin = @ \ {Other}], NoLSC)
      BY <1>8 DEF HolderLetsGo, Admitted, PutLSC
    <2> DEFINE f == lsc.fin \ {Other}
    <2>2. f \in SUBSET {Current, Old, Other}
      BY <1>0 DEF Class
    <2>3. lsc' = Stored([lsc EXCEPT !.fin = f], NoLSC)
      BY <2>1
    <2> HIDE DEF f
    <2> QED
      BY <1>0, <1>7, <2>2, <2>3
  <1>9. CASE LSCUnmoved /\ WithFinalizer
    <2>1. clsc = lsc
      BY <1>9 DEF LSCUnmoved, FreshInv
    <2> DEFINE f == clsc.fin \cup {Current}
    <2>2. f \in SUBSET {Current, Old, Other}
      BY <1>0 DEF Class
    <2>3. lsc' = Stored([clsc EXCEPT !.fin = f], NoLSC)
      BY <1>9 DEF WithFinalizer, Admitted, PutLSC
    <2> HIDE DEF f
    <2> QED
      BY <1>0, <1>7, <2>1, <2>2, <2>3
  <1>10. CASE LSCUnmoved /\ Unfinalized
    <2>1. clsc = lsc
      BY <1>10 DEF LSCUnmoved, FreshInv
    <2> DEFINE f == Kept(clsc.fin)
    <2>2. f \in SUBSET {Current, Old, Other}
      BY <1>0 DEF Class, Kept
    <2>3. lsc' = Stored([clsc EXCEPT !.fin = f], NoLSC)
      BY <1>10 DEF Unfinalized, Admitted, PutLSC
    <2> HIDE DEF f
    <2> QED
      BY <1>0, <1>7, <2>1, <2>2, <2>3
  <1>11. CASE pc = "publish" /\ LSCUnmoved /\ PutLSC(Published)
    <2>1. clsc = lsc
      BY <1>11 DEF LSCUnmoved, FreshInv
    <2> DEFINE r == [clsc EXCEPT !.ready = pass.ready, !.obs = pass.gen]
    <2>2. lsc' = r
      BY <1>11 DEF PutLSC, Published
    <2>3. r \in Class /\ r.gen = clsc.gen /\ r.spec = clsc.spec /\ r.obs = pass.gen /\ r.there = clsc.there
      BY <1>0, <1>00, StatusFields
    <2> HIDE DEF r
    <2> QED
      BY <1>11, <2>1, <2>2, <2>3 DEF Changes, Same
  <1>12. CASE StartPass
    BY <1>2, <1>12 DEF StartPass, PassGone, PassWithoutConfig, PassDelete, PassUnresolved, PassCreate,
       PassForeign, PassUpdate, PassNothing, Dequeue
  <1>13. CASE Calls
    BY <1>2, <1>9, <1>10, <1>11, <1>13 DEF Calls, EnsureNotNeeded, ensureFinalizer, EnsureConflict,
       EnsureFails, ToEnsure, PublishNotNeeded, publishLocalStorageClassStatus, PublishConflict,
       PublishFails, ToPublish, SCUnfinalizeNotNeeded, SCUnfinalize, SCConflict, SCUnfinalizeFails,
       deleteStorageClass, SCDeleteFails, createStorageClass, SCCreateFails, UnfinalizeNotNeeded,
       removeControllerFinalizers, UnfinalizeConflict, UnfinalizeFails
  <1>14. CASE SyncLSC \/ SyncSC \/ RetryDue \/ Restart \/ UNCHANGED vars
    BY <1>2, <1>14 DEF SyncLSC, SyncSC, RetryDue, Restart, vars
  <1>15. CASE Users
    BY <1>2, <1>3, <1>4, <1>5, <1>6, <1>8, <1>15 DEF Users, AnnotateSC, CreateForeignSC,
       DeleteForeignSC, LVGsChange, SecretChanges
  <1> QED
    BY <1>12, <1>13, <1>14, <1>15 DEF Next

(* The StorageClass: whoever writes it, it stays one.                      *)
LEMMA ManagedStep ==
    ASSUME TypeOK, [Next]_vars
    PROVE  sc' \in Managed
  <1>0. sc \in Managed /\ csc \in Managed /\ pass \in Carried
    BY DEF TypeOK
  <1>1. ASSUME NEW r \in Managed, PutSC(Stored(r, NoSC)) PROVE sc' \in Managed
    BY <1>1, StoredCases, EmptyTypes DEF PutSC
  <1>2. CASE UNCHANGED sc
    BY <1>0, <1>2
  <1>3. CASE SCUnfinalized
    <2> DEFINE f == Kept(csc.fin)
               r == [csc EXCEPT !.fin = f]
    <2>1. f \in SUBSET localStorageClassFinalizers
      BY <1>0 DEF Managed, Kept
    <2> HIDE DEF f
    <2>2. r \in Managed
      BY <1>0, <2>1 DEF Managed
    <2>3. PutSC(Stored(r, NoSC))
      BY <1>3 DEF SCUnfinalized, f
    <2> HIDE DEF r
    <2> QED
      BY <1>1, <2>2, <2>3
  <1>4. CASE SCDeleted
    <2> DEFINE r == [sc EXCEPT !.deleting = TRUE]
    <2>1. r \in Managed
      BY <1>0 DEF Managed
    <2>2. PutSC(Stored(r, NoSC))
      BY <1>4 DEF SCDeleted
    <2> HIDE DEF r
    <2> QED
      BY <1>1, <2>1, <2>2
  <1>5. CASE SCCreated
    <2>1. pass.want \in Content
      BY <1>0 DEF Carried
    <2> QED
      BY <1>5, <2>1 DEF SCCreated, PutSC, Managed, localStorageClassFinalizers
  <1>6. CASE CreateForeignSC
    <2> DEFINE r == [NoSC EXCEPT !.there = TRUE]
    <2>1. r \in Managed
      BY EmptyTypes DEF Managed
    <2>2. sc' = r
      BY <1>6 DEF CreateForeignSC, PutSC
    <2> QED
      BY <2>1, <2>2
  <1>7. CASE AnnotateSC \/ DeleteForeignSC
    BY <1>0, <1>7, EmptyTypes DEF AnnotateSC, DeleteForeignSC, PutSC
  <1>8. CASE StartPass
    BY <1>2, <1>8 DEF StartPass, PassGone, PassWithoutConfig, PassDelete, PassUnresolved, PassCreate,
       PassForeign, PassUpdate, PassNothing, Dequeue
  <1>9. CASE Calls
    BY <1>2, <1>3, <1>4, <1>5, <1>9 DEF Calls, EnsureNotNeeded, ensureFinalizer, EnsureConflict,
       EnsureFails, PublishNotNeeded, publishLocalStorageClassStatus, PublishConflict,
       PublishFails, SCUnfinalizeNotNeeded, SCUnfinalize, SCConflict, SCUnfinalizeFails,
       deleteStorageClass, SCDeleteFails, createStorageClass, SCCreateFails, UnfinalizeNotNeeded,
       removeControllerFinalizers, UnfinalizeConflict, UnfinalizeFails
  <1>10. CASE SyncLSC \/ SyncSC \/ RetryDue \/ Restart \/ UNCHANGED vars
    BY <1>2, <1>10 DEF SyncLSC, SyncSC, RetryDue, Restart, vars
  <1>11. CASE Users
    BY <1>2, <1>6, <1>7, <1>11 DEF Users, CreateLSC, EditSpec, EditLabels, DeleteLSC, HolderLetsGo,
       LVGsChange, SecretChanges
  <1> QED
    BY <1>8, <1>9, <1>10, <1>11 DEF Next

(* What the two informers hold, and that the cache of the class is current *)
(* when no event is due.                                                   *)
LEMMA CacheStep ==
    ASSUME TypeOK, FreshInv, [Next]_vars
    PROVE  /\ clsc' \in Class /\ csc' \in Managed
           /\ lscNews' \in {"none", "quiet", "loud"} /\ scNews' \in BOOLEAN
           /\ FreshInv'
           /\ clsc' = clsc \/ (clsc' = lsc /\ lsc' = lsc /\ (pc' = "idle" \/ UNCHANGED <<pc, pass>>))
  <1> DEFINE Goal ==
         /\ clsc' \in Class /\ csc' \in Managed
         /\ lscNews' \in {"none", "quiet", "loud"} /\ scNews' \in BOOLEAN
         /\ FreshInv'
         /\ clsc' = clsc \/ (clsc' = lsc /\ lsc' = lsc /\ (pc' = "idle" \/ UNCHANGED <<pc, pass>>))
  <1> SUFFICES Goal
    OBVIOUS
  <1>0. /\ lsc \in Class /\ clsc \in Class /\ sc \in Managed /\ csc \in Managed
        /\ lscNews \in {"none", "quiet", "loud"} /\ scNews \in BOOLEAN
    BY DEF TypeOK
  <1>1. CASE SyncLSC
    BY <1>0, <1>1 DEF SyncLSC, FreshInv
  <1>2. CASE SyncSC
    BY <1>0, <1>2 DEF SyncSC, FreshInv
  <1>3. CASE Restart
    BY <1>0, <1>3 DEF Restart, FreshInv
  <1>4. ASSUME UNCHANGED <<clsc, csc>>,
               UNCHANGED <<lsc, lscNews>> \/ lscNews' \in {"quiet", "loud"},
               UNCHANGED scNews \/ scNews' = TRUE
        PROVE  Goal
    BY <1>0, <1>4 DEF FreshInv
  <1>5. CASE StartPass \/ RetryDue \/ UNCHANGED vars
    BY <1>4, <1>5 DEF StartPass, PassGone, PassWithoutConfig, PassDelete, PassUnresolved, PassCreate,
       PassForeign, PassUpdate, PassNothing, Dequeue, RetryDue, vars
  <1>6. CASE Calls
    <2>1. UNCHANGED <<clsc, csc>>
      BY <1>6 DEF Calls, EnsureNotNeeded, ensureFinalizer, EnsureConflict,
       EnsureFails, PublishNotNeeded, publishLocalStorageClassStatus, PublishConflict,
       PublishFails, SCUnfinalizeNotNeeded, SCUnfinalize, SCConflict, SCUnfinalizeFails,
       deleteStorageClass, SCDeleteFails, createStorageClass, SCCreateFails, UnfinalizeNotNeeded,
       removeControllerFinalizers, UnfinalizeConflict, UnfinalizeFails, Quiet
    <2>2. UNCHANGED <<lsc, lscNews>> \/ lscNews' \in {"quiet", "loud"}
      BY <1>6 DEF Calls, EnsureNotNeeded, ensureFinalizer, EnsureConflict,
       EnsureFails, PublishNotNeeded, publishLocalStorageClassStatus, PublishConflict,
       PublishFails, SCUnfinalizeNotNeeded, SCUnfinalize, SCConflict, SCUnfinalizeFails,
       deleteStorageClass, SCDeleteFails, createStorageClass, SCCreateFails, UnfinalizeNotNeeded,
       removeControllerFinalizers, UnfinalizeConflict, UnfinalizeFails,
       WithFinalizer, Unfinalized, Admitted, PutLSC
    <2>3. UNCHANGED scNews \/ scNews' = TRUE
      BY <1>6 DEF Calls, EnsureNotNeeded, ensureFinalizer, EnsureConflict,
       EnsureFails, PublishNotNeeded, publishLocalStorageClassStatus, PublishConflict,
       PublishFails, SCUnfinalizeNotNeeded, SCUnfinalize, SCConflict, SCUnfinalizeFails,
       deleteStorageClass, SCDeleteFails, createStorageClass, SCCreateFails, UnfinalizeNotNeeded,
       removeControllerFinalizers, UnfinalizeConflict, UnfinalizeFails,
       SCUnfinalized, SCDeleted, SCCreated, PutSC
    <2> HIDE DEF Goal
    <2> QED
      BY <1>4, <2>1, <2>2, <2>3
  <1>7. CASE Users
    <2>1. UNCHANGED <<clsc, csc>>
      BY <1>7 DEF Users, CreateLSC, EditSpec, EditLabels, DeleteLSC, HolderLetsGo, AnnotateSC,
         CreateForeignSC, DeleteForeignSC, LVGsChange, SecretChanges, Elsewhere
    <2>2. UNCHANGED <<lsc, lscNews>> \/ lscNews' \in {"quiet", "loud"}
      BY <1>7 DEF Users, CreateLSC, EditSpec, EditLabels, DeleteLSC, HolderLetsGo, AnnotateSC,
         CreateForeignSC, DeleteForeignSC, LVGsChange, SecretChanges, Admitted, PutLSC
    <2>3. UNCHANGED scNews \/ scNews' = TRUE
      BY <1>7 DEF Users, CreateLSC, EditSpec, EditLabels, DeleteLSC, HolderLetsGo, AnnotateSC,
         CreateForeignSC, DeleteForeignSC, LVGsChange, SecretChanges, PutSC
    <2> HIDE DEF Goal
    <2> QED
      BY <1>4, <2>1, <2>2, <2>3
  <1> HIDE DEF Goal
  <1> QED
    BY <1>1, <1>2, <1>3, <1>5, <1>6, <1>7 DEF Next

(* Places of a pass, and where what it carries comes from: from its last   *)
(* call, or from the cache when it begins.                                 *)
PCs == {"idle", "adopt", "ensure", "publish", "scUnfinalize", "scDelete", "scCreate", "unfinalize"}

(* Where what a pass carries comes from: its last call, or the cache when  *)
(* it begins.                                                              *)
From(p) ==
    \/ pc # "idle" /\ p.gen = pass.gen /\ p.spec = pass.spec
    \/ pc = "idle" /\ clsc.there /\ p.gen = clsc.gen /\ p.spec = clsc.spec /\ UNCHANGED <<lsc, clsc>>

(* What one step makes of the pass.                                        *)
PassGoes ==
    /\ pc' \in PCs
    /\ pass' \in Carried
    /\ tries' \in 0 .. Attempts - 1
    /\ retry' \in BOOLEAN
    /\ gauge' \in {"none", "up", "down"}
    /\ pc' = "idle" \/ From(pass')

(* The ways a handler goes on: to the next call, to the status with a      *)
(* verdict, to another attempt after a conflict, or to its end.            *)
LEMMA GoType ==
    ASSUME TypeOK, NEW w \in PCs, NEW p \in Carried, From(p), Go(w, p)
    PROVE  PassGoes
  <1>1. retry \in BOOLEAN /\ gauge \in {"none", "up", "down"} /\ 0 \in 0 .. Attempts - 1
    BY LSCAssumption DEF TypeOK
  <1> QED
    BY <1>1 DEF Go, PassGoes, From

(* A verdict goes into the status, after the finalizer if the class lacks  *)
(* it.                                                                     *)
LEMMA VerdictType ==
    ASSUME TypeOK, NEW p \in Carried, From(p), NEW v \in Verdicts, NEW q \in BOOLEAN, Verdict(p, v, q)
    PROVE  PassGoes
  <1> DEFINE r == [p EXCEPT !.ready = v, !.requeue = q]
             w == IF p.held THEN "publish" ELSE "ensure"
  <1>1. r \in Carried /\ r.gen = p.gen /\ r.spec = p.spec
    BY DEF Carried
  <1>2. w \in PCs
    BY DEF PCs
  <1>3. Go(w, r)
    BY DEF Verdict
  <1> HIDE DEF r, w
  <1>4. From(r)
    BY <1>1 DEF From
  <1> QED
    BY <1>1, <1>2, <1>3, <1>4, GoType

(* The end of a pass.                                                      *)
LEMMA EndType ==
    ASSUME TypeOK, NEW q \in BOOLEAN, NEW ready, End(q, ready)
    PROVE  PassGoes
  <1>1. 0 \in 0 .. Attempts - 1
    BY LSCAssumption
  <1>2. retry' \in BOOLEAN
    BY DEF End, TypeOK
  <1>3. gauge' \in {"none", "up", "down"} /\ pc' = "idle" /\ pass' = NoPass /\ tries' = 0
    BY DEF End
  <1> QED
    BY <1>1, <1>2, <1>3, EmptyTypes DEF PassGoes, PCs

(* Another attempt after a conflict.                                       *)
LEMMA ConflictType ==
    ASSUME TypeOK, pc # "idle", tries + 1 < Attempts, tries' = tries + 1,
           UNCHANGED <<pc, pass, retry, gauge>>
    PROVE  PassGoes
  <1>1. tries' \in 0 .. Attempts - 1
    BY LSCAssumption DEF TypeOK
  <1> QED
    BY <1>1 DEF TypeOK, PassGoes, PCs, From

(* What a pass reads at its start.                                         *)
LEMMA ReadType ==
    ASSUME TypeOK, Dequeue, clsc.there,
           NEW job \in {"create", "recreate", "delete", "verdict"}
    PROVE  Read(job) \in Carried /\ From(Read(job))
  <1>1. clsc \in Class /\ lvgs \in LVGStates /\ config \in Configs
    BY DEF TypeOK
  <1>2. want \in Content
    BY <1>1, ContentType DEF want
  <1>3. clsc.gen \in Nat /\ clsc.spec \in Specs
    BY <1>1 DEF Class
  <1> DEFINE h == clsc.deleting \/ Current \in clsc.fin
             w == clsc.ready = "true"
  <1>4. h \in BOOLEAN /\ w \in BOOLEAN
    BY <1>1 DEF Class
  <1> HIDE DEF h, w
  <1>5. [job |-> job, gen |-> clsc.gen, spec |-> clsc.spec, held |-> h, was |-> w,
         want |-> want, ready |-> "none", requeue |-> FALSE] \in Carried
    BY <1>2, <1>3, <1>4 DEF Carried, Verdicts
  <1>6. Read(job) \in Carried
    BY <1>5 DEF Read, h, w
  <1>7. Read(job).gen = clsc.gen /\ Read(job).spec = clsc.spec
    BY DEF Read
  <1>8. pc = "idle" /\ UNCHANGED <<lsc, clsc>>
    BY DEF Dequeue
  <1> QED
    BY <1>6, <1>7, <1>8 DEF From

(* The start of a pass.                                                    *)
LEMMA StartType ==
    ASSUME TypeOK, StartPass
    PROVE  PassGoes
  <1> USE DEF PCs
  <1>1. CASE PassGone \/ PassWithoutConfig
    BY <1>1 DEF PassGone, PassWithoutConfig, Dequeue, PassGoes, TypeOK
  <1>2. CASE PassDelete
    <2> DEFINE w == IF csc.there /\ csc.own THEN "scUnfinalize" ELSE "unfinalize"
    <2>1. w \in PCs /\ Go(w, Read("delete")) /\ Dequeue /\ clsc.there
      BY <1>2 DEF PassDelete
    <2> HIDE DEF w
    <2> QED
      BY <2>1, ReadType, GoType
  <1>3. CASE PassUnresolved \/ PassForeign
    <2>1. Dequeue /\ clsc.there /\ Verdict(Read("verdict"), "failed", TRUE)
      BY <1>3 DEF PassUnresolved, PassForeign, Fail, Ordinary, Resolved
    <2> QED
      BY <2>1, ReadType, VerdictType DEF Verdicts
  <1>4. CASE PassCreate
    <2> DEFINE v == IF validateLocalStorageClass(csc, clsc.spec, lvgs) THEN "true" ELSE "failed"
               p == [Read("create") EXCEPT !.ready = v]
    <2>1. Dequeue /\ clsc.there
      BY <1>4 DEF PassCreate, Resolved, Ordinary
    <2>2. v \in Verdicts
      BY DEF Verdicts
    <2>3. Go("adopt", p) \/ Go("scCreate", p) \/ Fail(p)
      BY <1>4 DEF PassCreate
    <2> HIDE DEF v
    <2>4. Read("create") \in Carried /\ From(Read("create"))
      BY <2>1, ReadType
    <2>5. p \in Carried /\ p.gen = Read("create").gen /\ p.spec = Read("create").spec
      BY <2>2, <2>4 DEF Carried
    <2> HIDE DEF p
    <2>6. From(p)
      BY <2>4, <2>5 DEF From
    <2> QED
      BY <2>3, <2>5, <2>6, GoType, VerdictType DEF Fail, Verdicts
  <1>5. CASE PassUpdate
    <2>1. Dequeue /\ clsc.there
      BY <1>5 DEF PassUpdate, Resolved, Ordinary
    <2>2. \/ Verdict(Read("verdict"), "failed", TRUE)
          \/ Go("scUnfinalize", Read("recreate"))
          \/ Verdict(Read("verdict"), "true", FALSE)
      BY <1>5 DEF PassUpdate, Fail
    <2> QED
      BY <2>1, <2>2, ReadType, GoType, VerdictType DEF Verdicts
  <1>6. CASE PassNothing
    BY <1>6, EndType DEF PassNothing
  <1> QED
    BY <1>1, <1>2, <1>3, <1>4, <1>5, <1>6 DEF StartPass

(* The calls of a pass.                                                    *)
LEMMA CallType ==
    ASSUME TypeOK, Calls
    PROVE  PassGoes
  <1>0. pass \in Carried /\ (pc # "idle" => From(pass))
    BY DEF TypeOK, From
  <1>1. ASSUME pc # "idle", NEW w \in PCs, Go(w, pass) PROVE PassGoes
    BY <1>0, <1>1, GoType
  <1>2. ASSUME pc # "idle", Fail(pass) PROVE PassGoes
    BY <1>0, <1>2, VerdictType DEF Fail, Verdicts
  <1>3. EnsureError => PassGoes
    BY EndType DEF EnsureError
  <1>4. PublishError => PassGoes
    <2>1. (pass.ready # "deleting") \in BOOLEAN
      OBVIOUS
    <2> QED
      BY <2>1, EndType DEF PublishError
  <1>5. PublishDone => PassGoes
    <2>1. pass.requeue \in BOOLEAN
      BY <1>0 DEF Carried
    <2> QED
      BY <2>1, EndType DEF PublishDone
  <1>6. ASSUME Ensuring, NEW p \in Carried, From(p), EnsureDone(p) PROVE PassGoes
    <2>1. Go("publish", p) \/ Go("scCreate", p) \/ Verdict(p, "failed", TRUE)
      BY <1>6 DEF EnsureDone, Fail
    <2> QED
      BY <1>6, <2>1, GoType, VerdictType DEF PCs, Verdicts
  <1>7. CASE EnsureNotNeeded
    BY <1>0, <1>6, <1>7 DEF EnsureNotNeeded, Ensuring
  <1>8. CASE ensureFinalizer
    <2> DEFINE p == [pass EXCEPT !.held = TRUE]
    <2>1. p \in Carried /\ p.gen = pass.gen /\ p.spec = pass.spec
      BY <1>0 DEF Carried
    <2>2. Ensuring /\ EnsureDone(p)
      BY <1>8 DEF ensureFinalizer, ToEnsure
    <2> HIDE DEF p
    <2>3. From(p)
      BY <2>1, <2>2 DEF From, Ensuring
    <2> QED
      BY <1>6, <2>1, <2>2, <2>3
  <1>9. CASE EnsureConflict \/ EnsureFails
    BY <1>3, <1>9, ConflictType DEF EnsureConflict, EnsureFails, ToEnsure, Ensuring, Conflict
  <1>10. CASE PublishNotNeeded \/ publishLocalStorageClassStatus
    BY <1>5, <1>10 DEF PublishNotNeeded, publishLocalStorageClassStatus
  <1>11. CASE PublishConflict \/ PublishFails
    BY <1>4, <1>11, ConflictType DEF PublishConflict, PublishFails, ToPublish, Conflict
  <1>12. CASE SCUnfinalizeNotNeeded \/ SCUnfinalize
    BY <1>1, <1>12 DEF SCUnfinalizeNotNeeded, SCUnfinalize, PCs
  <1>13. CASE SCConflict \/ UnfinalizeConflict
    BY <1>2, <1>13, ConflictType DEF SCConflict, UnfinalizeConflict, Conflict
  <1>14. CASE SCUnfinalizeFails \/ SCDeleteFails \/ SCCreateFails \/ UnfinalizeFails
    BY <1>2, <1>14 DEF SCUnfinalizeFails, SCDeleteFails, SCCreateFails, UnfinalizeFails
  <1>15. CASE deleteStorageClass
    <2> DEFINE w == IF pass.job = "delete" THEN "unfinalize" ELSE "scCreate"
    <2>1. w \in PCs /\ pc # "idle" /\ Go(w, pass)
      BY <1>15 DEF deleteStorageClass, PCs
    <2> HIDE DEF w
    <2> QED
      BY <1>1, <2>1
  <1>16. CASE createStorageClass
    BY <1>0, <1>16, VerdictType DEF createStorageClass, Verdicts
  <1>17. CASE UnfinalizeNotNeeded \/ removeControllerFinalizers
    <2> DEFINE p == [pass EXCEPT !.ready = "deleting"]
    <2>1. p \in Carried /\ p.gen = pass.gen /\ p.spec = pass.spec
      BY <1>0 DEF Carried, Verdicts
    <2>2. pc # "idle" /\ Go("publish", p)
      BY <1>17 DEF UnfinalizeNotNeeded, removeControllerFinalizers, SayDeleting
    <2> HIDE DEF p
    <2>3. From(p)
      BY <2>1, <2>2 DEF From
    <2> QED
      BY <2>1, <2>2, <2>3, GoType DEF PCs
  <1> QED
    BY <1>7, <1>8, <1>9, <1>10, <1>11, <1>12, <1>13, <1>14, <1>15, <1>16, <1>17 DEF Calls

(* The first pass starts in an empty cluster, or after an upgrade.         *)
LEMMA TypeInit == Init => TypeOK /\ FreshInv
  <1> SUFFICES ASSUME Init PROVE TypeOK /\ FreshInv
    OBVIOUS
  <1>0. lvgs \in LVGStates /\ config \in Configs
    BY DEF Init
  <1>1. /\ lsc \in Class /\ sc \in Managed /\ lsc.there \in BOOLEAN
        /\ lsc.there => MaxLives > 0
    <2>1. CASE lsc = NoLSC /\ sc = NoSC
      BY <2>1, EmptyTypes DEF Class
    <2>2. CASE lsc # NoLSC \/ sc # NoSC
      <3>1. PICK f \in Upgraded, s \in Specs :
               /\ lsc = [NoLSC EXCEPT !.there = TRUE, !.gen = 1, !.spec = s, !.fin = f]
               /\ sc = [there |-> TRUE, own |-> TRUE, fin |-> f, deleting |-> FALSE,
                        content |-> configureStorageClass(lsc, lvgs, config)]
        BY <2>2 DEF Init
      <3>2. f \in SUBSET localStorageClassFinalizers
        BY LSCAssumption
      <3>3. f \in SUBSET {Current, Old, Other}
        BY <3>2 DEF localStorageClassFinalizers
      <3>4. lsc \in Class
        BY <3>1, <3>3, CreatedFields
      <3>5. configureStorageClass(lsc, lvgs, config) \in Content
        BY <1>0, <3>4, ContentType
      <3>6. sc \in Managed
        BY <3>1, <3>2, <3>5 DEF Managed
      <3> QED
        BY <3>4, <3>6, LSCAssumption DEF Class
    <2> QED
      BY <2>1, <2>2
  <1>2. lives \in 0 .. MaxLives /\ changes \in 0 .. MaxChanges /\ restarts \in 0 .. MaxRestarts
    <2>1. MaxLives \in Nat /\ MaxChanges \in Nat /\ MaxRestarts \in Nat
      BY LSCAssumption
    <2>2. lives = (IF lsc.there THEN 1 ELSE 0) /\ changes = 0 /\ restarts = 0
      BY DEF Init
    <2> QED
      BY <1>1, <2>1, <2>2
  <1>3. tries \in 0 .. Attempts - 1
    <2>1. Attempts \in Nat \ {0}
      BY LSCAssumption
    <2>2. tries = 0
      BY DEF Init
    <2> QED
      BY <2>1, <2>2
  <1>4. queued \in BOOLEAN /\ retry \in BOOLEAN /\ scNews \in BOOLEAN
    BY <1>1 DEF Init
  <1> QED
    BY <1>0, <1>1, <1>2, <1>3, <1>4, EmptyTypes DEF Init, TypeOK, FreshInv

(* What lies outside the class, the StorageClass and the pass.             *)
LEMMA WorldStep ==
    ASSUME TypeOK, [Next]_vars
    PROVE  /\ PassGoes
           /\ queued' \in BOOLEAN
           /\ lvgs' \in LVGStates /\ config' \in Configs
           /\ lives' \in 0 .. MaxLives /\ (lives' = 0 => lives = 0)
           /\ changes' \in 0 .. MaxChanges /\ restarts' \in 0 .. MaxRestarts
  <1>0. /\ queued \in BOOLEAN
        /\ lvgs \in LVGStates /\ config \in Configs
        /\ lives \in 0 .. MaxLives /\ changes \in 0 .. MaxChanges /\ restarts \in 0 .. MaxRestarts
        /\ lsc.there \in BOOLEAN
    BY DEF TypeOK, Class
  <1>00. MaxLives \in Nat /\ MaxChanges \in Nat /\ MaxRestarts \in Nat
    BY LSCAssumption
  <1>1. UNCHANGED <<pc, pass, tries, gauge>> /\ retry' \in BOOLEAN => PassGoes
    BY DEF PassGoes, TypeOK, From, PCs
  <1>2. retry \in BOOLEAN
    BY DEF TypeOK
  <1>3. CASE StartPass
    <2>1. queued' = FALSE /\ UNCHANGED inputs
      BY <1>3 DEF StartPass, PassGone, PassWithoutConfig, PassDelete, PassUnresolved, PassCreate,
         PassForeign, PassUpdate, PassNothing, Dequeue
    <2> QED
      BY <1>0, <1>3, <2>1, StartType
  <1>4. CASE Calls
    <2>1. UNCHANGED <<inputs, queued>>
      BY <1>4 DEF Calls, EnsureNotNeeded, ensureFinalizer, EnsureConflict,
       EnsureFails, PublishNotNeeded, publishLocalStorageClassStatus, PublishConflict,
       PublishFails, SCUnfinalizeNotNeeded, SCUnfinalize, SCConflict, SCUnfinalizeFails,
       deleteStorageClass, SCDeleteFails, createStorageClass, SCCreateFails, UnfinalizeNotNeeded,
       removeControllerFinalizers, UnfinalizeConflict, UnfinalizeFails, Quiet
    <2> QED
      BY <1>0, <1>4, <2>1, CallType
  <1>5. CASE SyncLSC
    <2>1. queued' \in BOOLEAN
      BY <1>5 DEF SyncLSC
    <2> QED
      BY <1>0, <1>1, <1>2, <1>5, <2>1 DEF SyncLSC
  <1>6. CASE SyncSC \/ UNCHANGED vars
    BY <1>0, <1>1, <1>2, <1>6 DEF SyncSC, ControllerIdle, vars
  <1>7. CASE RetryDue
    BY <1>0, <1>1, <1>7 DEF RetryDue
  <1>8. CASE Restart
    <2>1. restarts' \in 0 .. MaxRestarts
      BY <1>0, <1>00, <1>8 DEF Restart
    <2>2. PassGoes
      <3>1. Attempts \in Nat \ {0}
        BY LSCAssumption
      <3>2. 0 \in 0 .. Attempts - 1
        BY <3>1
      <3> QED
        BY <1>8, <3>2, EmptyTypes DEF Restart, PassGoes, PCs
    <2> QED
      BY <1>0, <1>8, <2>1, <2>2 DEF Restart
  <1>9. CASE LVGsChange
    <2>1. queued' \in BOOLEAN
      BY <1>9 DEF LVGsChange
    <2>2. changes' \in 0 .. MaxChanges
      BY <1>0, <1>00, <1>9 DEF LVGsChange
    <2> QED
      BY <1>0, <1>1, <1>2, <1>9, <2>1, <2>2 DEF LVGsChange
  <1>10. CASE SecretChanges
    <2>1. queued' \in BOOLEAN
      BY <1>10 DEF SecretChanges
    <2>2. changes' \in 0 .. MaxChanges
      BY <1>0, <1>00, <1>10 DEF SecretChanges
    <2> QED
      BY <1>0, <1>1, <1>2, <1>10, <2>1, <2>2 DEF SecretChanges
  <1>11. CASE CreateLSC \/ EditSpec \/ EditLabels \/ DeleteLSC \/ HolderLetsGo \/ AnnotateSC
                \/ CreateForeignSC \/ DeleteForeignSC
    <2>1. Elsewhere
      BY <1>11 DEF CreateLSC, EditSpec, EditLabels, DeleteLSC, HolderLetsGo, AnnotateSC,
         CreateForeignSC, DeleteForeignSC
    <2>2. lives' = lives \/ (lives < MaxLives /\ lives' = lives + 1)
      BY <1>11 DEF CreateLSC, EditSpec, EditLabels, DeleteLSC, HolderLetsGo, AnnotateSC,
         CreateForeignSC, DeleteForeignSC
    <2>3. changes' = changes \/ (changes < MaxChanges /\ changes' = changes + 1)
      BY <1>11 DEF CreateLSC, EditSpec, EditLabels, DeleteLSC, HolderLetsGo, AnnotateSC,
         CreateForeignSC, DeleteForeignSC
    <2>4. lives' \in 0 .. MaxLives /\ (lives' = 0 => lives = 0)
      BY <1>0, <1>00, <2>2
    <2>5. changes' \in 0 .. MaxChanges
      BY <1>0, <1>00, <2>3
    <2> QED
      BY <1>0, <1>1, <1>2, <2>1, <2>4, <2>5 DEF Elsewhere, ControllerIdle
  <1> QED
    BY <1>3, <1>4, <1>5, <1>6, <1>7, <1>8, <1>9, <1>10, <1>11 DEF Next, Users

(* Every step keeps the types and the freshness of the cache.              *)
LEMMA TypeStep == TypeOK /\ FreshInv /\ [Next]_vars => TypeOK' /\ FreshInv'
  <1> SUFFICES ASSUME TypeOK, FreshInv, [Next]_vars PROVE TypeOK' /\ FreshInv'
    OBVIOUS
  <1>1. lsc' \in Class /\ sc' \in Managed
    BY ClassStep, ManagedStep
  <1>2. PassGoes
    BY WorldStep
  <1> QED
    BY <1>1, <1>2, CacheStep, WorldStep DEF TypeOK, PassGoes, PCs

(* The objects, the caches and what a pass carries have their types, and   *)
(* RetryOnConflict makes no more attempts than the backoff has steps, for  *)
(* every number of steps.                                                  *)
THEOREM TypeCorrect == Spec => []TypeOK
  <1>1. TypeOK /\ FreshInv /\ [Next]_vars => TypeOK' /\ FreshInv'
    BY TypeStep
  <1> QED
    BY <1>1, TypeInit, PTL DEF Spec

-----------------------------------------------------------------------------
(* The status.                                                             *)

(* The inductive invariant.                                                *)
StatusInv ==
    /\ TypeOK
    /\ FreshInv
    /\ GenInv

(* An action constraint: the class is created when nothing of an earlier   *)
(* one of its name is left in the cache or in a pass.                      *)
Noticed == ~ lsc.there /\ lsc'.there => ~ clsc.there /\ pc = "idle"

(* While the name has one life, nothing is seen before it begins.          *)
LEMMA LifeStep ==
    ASSUME TypeOK, FreshInv, LifeInv, [Next]_vars
    PROVE  LifeInv'
  <1> SUFFICES ASSUME lives' = 0 PROVE ~ lsc'.there /\ ~ clsc'.there /\ pc' = "idle"
    BY DEF LifeInv
  <1>1. lives = 0 /\ PassGoes
    BY WorldStep
  <1>2. ~ lsc.there /\ ~ clsc.there /\ pc = "idle"
    BY <1>1 DEF LifeInv
  <1>3. ~ lsc'.there
    BY <1>1, <1>2, ClassStep DEF Changes, Same
  <1>4. ~ clsc'.there
    BY <1>2, CacheStep
  <1>5. pc' = "idle"
    BY <1>1, <1>2 DEF PassGoes, From
  <1> QED
    BY <1>3, <1>4, <1>5

(* Generations of one object only grow, and with the spec they stay.       *)
LEMMA PastStep ==
    ASSUME NEW gen \in Nat, NEW spec, TypeOK, FreshInv, [Next]_vars,
           lsc'.there, Noticed, clsc.there \/ pc # "idle",
           lsc.there => Past(gen, spec, lsc)
    PROVE  lsc.there /\ Past(gen, spec, lsc')
  <1>1. lsc.gen \in Nat /\ lsc'.gen \in Nat
    BY ClassStep DEF TypeOK, Class
  <1>3. Changes
    BY ClassStep
  <1>4. lsc.there
    BY DEF Noticed
  <1>5. CASE lsc' = lsc
    BY <1>5
  <1>6. CASE lsc'.there = lsc.there /\ lsc'.gen = lsc.gen + 1
    <2>1. lsc.there
      BY <1>6, Zenon
    <2>2. gen <= lsc.gen
      BY <2>1 DEF Past
    <2>3. gen <= lsc.gen + 1 /\ gen # lsc.gen + 1
      BY <1>1, <2>2
    <2> QED
      BY <1>6, <2>1, <2>3 DEF Past
  <1>7. CASE Same(lsc')
    <2>1. lsc.there
      BY <1>7, Zenon DEF Same
    <2> QED
      BY <1>7, <2>1 DEF Past, Same
  <1> QED
    BY <1>3, <1>4, <1>5, <1>6, <1>7 DEF Changes

(* The invariant about generations is kept as long as a successor under    *)
(* the same name, which starts at generation 1 again, does not meet what   *)
(* is left of its predecessor.                                             *)
LEMMA GenStep ==
    ASSUME StatusInv, [Next]_vars, Noticed
    PROVE  GenInv'
  <1>0. TypeOK /\ FreshInv /\ GenInv
    BY DEF StatusInv
  <1>1. clsc.gen \in Nat /\ lsc.gen \in Nat /\ pass.gen \in Nat
    BY <1>0 DEF TypeOK, Class, Carried
  <1>2. clsc' = clsc \/ (clsc' = lsc /\ lsc' = lsc /\ (pc' = "idle" \/ UNCHANGED <<pc, pass>>))
    BY <1>0, CacheStep
  <1>3. pc' = "idle" \/ From(pass')
    BY <1>0, WorldStep DEF PassGoes
  <1>4. ASSUME lsc'.there, clsc'.there PROVE Past(clsc'.gen, clsc'.spec, lsc')
    <2>1. CASE clsc' = clsc
      <3>1. clsc.there
        BY <1>4, <2>1
      <3>2. lsc.there => Past(clsc.gen, clsc.spec, lsc)
        BY <1>0, <1>4, <2>1 DEF GenInv
      <3> QED
        BY <1>0, <1>1, <1>4, <2>1, <3>1, <3>2, PastStep
    <2>2. CASE clsc' = lsc /\ lsc' = lsc
      BY <1>1, <2>2 DEF Past
    <2> QED
      BY <1>2, <2>1, <2>2
  <1>5. ASSUME lsc'.there, pc' # "idle" PROVE Past(pass'.gen, pass'.spec, lsc')
    <2>1. CASE pc # "idle" /\ pass'.gen = pass.gen /\ pass'.spec = pass.spec
      <3>1. pc # "idle"
        BY <2>1
      <3>2. lsc.there => Past(pass.gen, pass.spec, lsc)
        BY <1>0, <2>1 DEF GenInv
      <3> QED
        BY <1>0, <1>1, <1>5, <2>1, <3>1, <3>2, PastStep
    <2>2. CASE clsc.there /\ pass'.gen = clsc.gen /\ pass'.spec = clsc.spec /\ UNCHANGED <<lsc, clsc>>
      BY <1>0, <1>5, <2>2 DEF GenInv, Past
    <2> QED
      BY <1>3, <1>5, <2>1, <2>2 DEF From
  <1>6. ASSUME clsc'.there, pc' # "idle" PROVE Past(pass'.gen, pass'.spec, clsc')
    <2>1. CASE clsc' = clsc
      <3>1. CASE pc # "idle" /\ pass'.gen = pass.gen /\ pass'.spec = pass.spec
        BY <1>0, <1>6, <2>1, <3>1 DEF GenInv, Past
      <3>2. CASE pass'.gen = clsc.gen /\ pass'.spec = clsc.spec
        BY <1>1, <2>1, <3>2 DEF Past
      <3> QED
        BY <1>3, <1>6, <3>1, <3>2 DEF From
    <2>2. CASE clsc' = lsc /\ lsc' = lsc /\ UNCHANGED <<pc, pass>>
      BY <1>0, <1>6, <2>2 DEF GenInv, Past
    <2> QED
      BY <1>2, <1>6, <2>1, <2>2
  <1> QED
    BY <1>4, <1>5, <1>6 DEF GenInv, Past

(* The invariants hold before the class is created, or of a class that an  *)
(* older release has left.                                                 *)
LEMMA StatusInvInit == Init => StatusInv /\ LifeInv
  <1> SUFFICES ASSUME Init PROVE StatusInv /\ LifeInv
    OBVIOUS
  <1>1. TypeOK /\ FreshInv
    BY TypeInit
  <1>2. clsc = lsc /\ pc = "idle" /\ (lives = 0 => ~ lsc.there) /\ lsc.gen \in Nat
    <2>1. lsc.gen \in Nat
      BY <1>1 DEF TypeOK, Class
    <2>2. clsc = lsc /\ pc = "idle" /\ lives = IF lsc.there THEN 1 ELSE 0
      BY DEF Init
    <2> QED
      BY <2>1, <2>2
  <1> QED
    BY <1>1, <1>2 DEF StatusInv, LifeInv, GenInv, Past

(* A step that publishes writes to the class whose spec the pass carries,  *)
(* if their generations agree.                                             *)
LEMMA VerdictStep ==
    ASSUME StatusInv, [Next]_vars, lsc'.there, lsc'.obs = lsc'.gen, lsc'.obs # lsc.obs
    PROVE  pass.spec = lsc'.spec
  <1>1. Changes
    BY ClassStep DEF StatusInv
  <1>2. ~ (lsc'.obs = 0 /\ lsc'.gen = 1)
    OBVIOUS
  <1>3. Same(lsc') /\ pc = "publish" /\ lsc'.obs = pass.gen
    BY <1>1, <1>2, Zenon DEF Changes
  <1>4. lsc.there
    BY <1>3, Zenon DEF Same
  <1>5. Past(pass.gen, pass.spec, lsc)
    BY <1>3, <1>4 DEF StatusInv, GenInv
  <1> QED
    BY <1>3, <1>5 DEF Past, Same

(* What the cache and the pass hold is a past state of the class, however  *)
(* often its name is used, if each use is noticed to have ended.           *)
THEOREM StatusInvariant == Spec /\ [][Noticed]_vars => []StatusInv
  <1>1. StatusInv /\ [Next]_vars /\ [Noticed]_vars => StatusInv'
    <2> SUFFICES ASSUME StatusInv, [Next]_vars, [Noticed]_vars PROVE StatusInv'
      OBVIOUS
    <2>1. Noticed
      BY DEF Noticed, vars
    <2> QED
      BY <2>1, TypeStep, GenStep DEF StatusInv
  <1> QED
    BY <1>1, StatusInvInit, PTL DEF Spec

(* publishLocalStorageClassStatus reads the object again: neither an edit  *)
(* that comes in between nor a deletion passes for seen, however often the *)
(* name is used, if each use is noticed to have ended: another object of   *)
(* the same name starts its generations anew.                              *)
THEOREM VerdictIsAboutClass == Spec /\ [][Noticed]_vars => VerdictMatchesSpec
  <1>1. StatusInv /\ [Next]_vars =>
          [lsc'.there /\ lsc'.obs = lsc'.gen /\ lsc'.obs # lsc.obs => pass.spec = lsc'.spec]_vars
    BY VerdictStep
  <1> QED
    BY <1>1, StatusInvariant, PTL DEF Spec, VerdictMatchesSpec

(* The same without a constraint, for a name that is used once: what is    *)
(* not there yet cannot have been seen.                                    *)
THEOREM VerdictIsAboutSpec == MaxLives <= 1 => (Spec => VerdictMatchesSpec)
  <1> SUFFICES ASSUME MaxLives <= 1 PROVE Spec => VerdictMatchesSpec
    OBVIOUS
  <1> DEFINE I == TypeOK /\ FreshInv /\ LifeInv
  <1>1. Init => I
    BY StatusInvInit DEF StatusInv
  <1>2. I /\ [Next]_vars => I'
    BY TypeStep, LifeStep
  <1>3. I /\ [Next]_vars => [Noticed]_vars
    <2> SUFFICES ASSUME I, [Next]_vars, ~ lsc.there, lsc'.there PROVE ~ clsc.there /\ pc = "idle"
      BY DEF Noticed
    <2>1. Changes
      BY ClassStep
    <2>2. lives < MaxLives
      BY <2>1, Zenon DEF Changes, Same
    <2>3. lives = 0
      BY <2>2, LSCAssumption DEF TypeOK
    <2> QED
      BY <2>3 DEF LifeInv
  <1>4. Spec => [][Noticed]_vars
    BY <1>1, <1>2, <1>3, PTL DEF Spec
  <1> QED
    BY <1>4, VerdictIsAboutClass, PTL
=============================================================================
