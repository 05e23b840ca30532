--------------------------- MODULE CSINodeWatcher ---------------------------
(***************************************************************************)
(* The controller that puts the label of the CSI driver on the nodes which *)
(* the module's settings select, and takes it off the others once nothing  *)
(* on them is in use                                                       *)
(* (images/controller/pkg/controller/local_csi_node_watcher.go).  Until    *)
(* then it marks the node, and the LVMVolumeGroups and LocalStorageClasses *)
(* that hold it back, for eviction by hand.                                *)
(*                                                                         *)
(* One pass runs at a time; the next comes after RequeueSecretInterval, on *)
(* an event of the Secret, or as the retry of one that failed.  Every List *)
(* and every Update is a step, and users change nodes, settings, groups    *)
(* and classes between any two.  Lists are answered from the informer      *)
(* caches, which are assumed to have caught up when a pass begins (true of *)
(* a pass that follows another after the interval, not of one that an      *)
(* event or a retry starts at once); each may then be behind by anything   *)
(* that happens during the pass.  An Update sends back the copy that was   *)
(* listed: it conflicts if the object has changed since.  It may also fail *)
(* for other reasons, or be applied and lose its answer.                   *)
(*                                                                         *)
(* A LocalStorageClass uses the groups it names; groups it takes in by a   *)
(* label selector are unknown to this controller.  Every write of a class, *)
(* this controller's Updates included, passes the admission webhook        *)
(* (images/webhooks/handlers/lscValidator.go), which refuses it for as     *)
(* long as a group that the class names is missing.                        *)
(***************************************************************************)
EXTENDS Naturals, FiniteSets

CONSTANTS
    Nodes,
    LVGs,           \* names of LVMVolumeGroups
    Home,           \* the node of each: Status.Nodes
    LSCs,           \* names of LocalStorageClasses
    MaxChanges,     \* bound: what users change
    MaxFaults       \* bound: failing Lists and Updates

ASSUME WatcherAssumption ==
    /\ Nodes # {}
    /\ Home \in [LVGs -> Nodes]
    /\ MaxChanges \in Nat
    /\ MaxFaults \in Nat

VARIABLES
    selector,   \* the value of the node label that the settings ask for
    node,       \* its value of that label, and the two labels of this module
    lvg,        \* whether the group is there, and its candidate label
    lsc,        \* whether the class is there, the groups it names, its label
    cached,     \* the informer caches, while a pass runs
    pc,         \* where the pass is
    sel,        \* the selector it has read
    todo,       \* nodes the pass has not come to
    cur,        \* the node it is at
    nodeList, lvgList, lscList,     \* what it has listed
    work,       \* LVMVolumeGroups still to be updated for the node
    lscWork,    \* LocalStorageClasses still to be updated for the node
    changes, faults,
    matched,    \* history: nodes that matched all through the pass
    busy        \* history: groups that were in use all through the pass

objects == <<node, lvg, lsc>>
cluster == <<objects, selector, cached>>
lists == <<nodeList, lvgList, lscList>>
position == <<sel, todo, cur>>
bounds == <<changes, faults>>
history == <<matched, busy>>
vars == <<cluster, pc, position, lists, work, lscWork, bounds, history>>

Zones == {"in", "out"}
Node == [zone : Zones, csi : BOOLEAN, evict : BOOLEAN]
Group == [there : BOOLEAN, cand : BOOLEAN]
Class == [there : BOOLEAN, names : SUBSET LVGs, cand : BOOLEAN]
AnyNode == CHOOSE n \in Nodes : TRUE
NoNodes == [n \in Nodes |-> [zone |-> "out", csi |-> FALSE, evict |-> FALSE]]
NoGroups == [l \in LVGs |-> [there |-> FALSE, cand |-> FALSE]]
NoClasses == [c \in LSCs |-> [there |-> FALSE, names |-> {}, cand |-> FALSE]]

NothingCached == [node |-> NoNodes, lvg |-> NoGroups, lsc |-> NoClasses]

Matches(n) == node[n].zone = selector

\* The webhook accepts a class with these names: it lists the groups live.
LSCValidate(names) == \A l \in names : lvg[l].there

\* A LocalStorageClass names the group.
InUse == {l \in LVGs : lvg[l].there /\ \E c \in LSCs : lsc[c].there /\ l \in lsc[c].names}

\* The module is new, or the settings selected every node so far.
Init ==
    /\ selector = "in"
    /\ \E labelled \in BOOLEAN :
         node \in [Nodes -> [zone : Zones, csi : {labelled}, evict : {FALSE}]]
    /\ lvg = [l \in LVGs |-> [there |-> TRUE, cand |-> FALSE]]
    /\ lsc \in [LSCs -> [there : {TRUE}, names : SUBSET LVGs, cand : {FALSE}]]
    /\ cached = NothingCached
    /\ pc = "idle"
    /\ sel = selector
    /\ todo = {}
    /\ cur = AnyNode
    /\ nodeList = NoNodes
    /\ lvgList = NoGroups
    /\ lscList = NoClasses
    /\ work = {}
    /\ lscWork = {}
    /\ changes = 0
    /\ faults = 0
    /\ matched = {}
    /\ busy = {}

-----------------------------------------------------------------------------
(* The pass.                                                               *)

\* The history variables start with a pass and follow its every step.
HistoryFollows ==
    LET since(set, now) == IF pc' = "idle" THEN {}
                           ELSE IF pc = "idle" THEN now ELSE set \cap now IN
    /\ matched' = since(matched, {n \in Nodes : Matches(n)'})
    /\ busy' = since(busy, InUse')

Follows == UNCHANGED <<selector, cached, changes>> /\ HistoryFollows
Caches(c) == cached' = c /\ UNCHANGED <<selector, changes>> /\ HistoryFollows

Fault == faults < MaxFaults /\ faults' = faults + 1

\* An update of object k of a kind, from the copy that was listed.
Sent(object, list, k, r) == object[k] = list[k] /\ object' = [object EXCEPT ![k] = r]
Conflicts(object, list, k) == object[k] # list[k] /\ UNCHANGED object

\* An Update of a class: sent and admitted, in conflict or refused, or failing.
UpdateClass(c, r) ==
    \/ Sent(lsc, lscList, c, r) /\ LSCValidate(r.names) /\ UNCHANGED faults
    \/ Conflicts(lsc, lscList, c) /\ UNCHANGED faults
    \/ ~ LSCValidate(r.names) /\ UNCHANGED <<lsc, faults>>
    \/ Fault /\ UNCHANGED lsc

\* getSecret and getNodeSelectorFromConfig.
StartPass ==
    /\ pc = "idle"
    /\ pc' = "select"
    /\ sel' = selector
    /\ UNCHANGED <<objects, todo, cur, lists, work, lscWork, faults>>
    /\ Caches([node |-> node, lvg |-> lvg, lsc |-> lsc])

getKubernetesNodesBySelector ==
    /\ pc = "select"
    /\ pc' = "label"
    /\ nodeList' = cached.node
    /\ todo' = {n \in Nodes : cached.node[n].zone = sel}
    /\ UNCHANGED <<objects, sel, cur, lvgList, lscList, work, lscWork, faults>>
    /\ Follows

\* labelNodesWithLocalCSIIfNeeded: whether it worked or not, it goes on.
LabelNode(n) ==
    /\ pc = "label"
    /\ n \in todo
    /\ todo' = todo \ {n}
    /\ IF nodeList[n].csi THEN UNCHANGED <<node, faults>>
       ELSE \/ Sent(node, nodeList, n, [nodeList[n] EXCEPT !.csi = TRUE]) /\ UNCHANGED faults
            \/ Conflicts(node, nodeList, n) /\ UNCHANGED faults
            \/ Fault /\ UNCHANGED node
    /\ UNCHANGED <<lvg, lsc, pc, sel, cur, lists, work, lscWork>>
    /\ Follows

ListAllNodes ==
    /\ pc = "label"
    /\ todo = {}
    /\ pc' = "walk"
    /\ nodeList' = cached.node
    /\ todo' = Nodes
    /\ UNCHANGED <<objects, sel, cur, lvgList, lscList, work, lscWork, faults>>
    /\ Caches([cached EXCEPT !.node = NoNodes])

NodeDone ==
    /\ pc \in {"walk", "add", "clearLSC"}
    /\ work = {}
    /\ lscWork = {}

\* reconcileLocalCSILabels: one node after the other; the copies of those it
\* is done with are not used any more.
TakeNode(n) ==
    /\ NodeDone
    /\ n \in todo
    /\ todo' = todo \ {n}
    /\ cur' = n
    /\ nodeList' = [m \in Nodes |-> IF m \in todo THEN nodeList[m] ELSE NoNodes[m]]
    /\ pc' = IF nodeList[n].zone = sel
             THEN IF nodeList[n].evict THEN "unmark" ELSE "clearGroups"
             ELSE IF nodeList[n].csi THEN "groups" ELSE "walk"
    /\ lvgList' = NoGroups
    /\ lscList' = NoClasses
    /\ UNCHANGED <<objects, sel, work, lscWork, faults>>
    /\ Follows

EndPass ==
    /\ pc' = "idle"
    /\ sel' = "in"
    /\ todo' = {}
    /\ cur' = AnyNode
    /\ nodeList' = NoNodes
    /\ lvgList' = NoGroups
    /\ lscList' = NoClasses
    /\ work' = {}
    /\ lscWork' = {}
    /\ UNCHANGED objects
    /\ Caches(NothingCached)

PassEnds ==
    /\ NodeDone
    /\ todo = {}
    /\ EndPass
    /\ UNCHANGED faults

\* The Get of the Secret or a List of nodes fails and the pass ends with an
\* error, or the controller is restarted.
PassFails ==
    /\ pc # "idle"
    /\ Fault
    /\ EndPass

\* Mutant: what was to be done for the node is done for the next.
NextNode_Carried == pc' = "walk" /\ UNCHANGED <<work, lscWork>>

\* The rest of the work on the node is left to the next pass.
NextNode ==
    /\ pc' = "walk"
    /\ work' = {}
    /\ lscWork' = {}

ListFails ==
    /\ pc \in {"groups", "classes", "clearGroups", "clear"}
    /\ pc = "clear" => work = {}
    /\ Fault
    /\ NextNode
    /\ UNCHANGED <<objects, position, lists>>
    /\ Follows

\* The Update of the node itself: without it nothing else is done.
UpdateNode(from, r, to) ==
    /\ pc = from
    /\ \/ /\ Sent(node, nodeList, cur, r)
          /\ pc' = to
          /\ UNCHANGED <<work, lscWork, faults>>
       \/ Conflicts(node, nodeList, cur) /\ NextNode /\ UNCHANGED faults
       \/ Fault /\ UNCHANGED node /\ NextNode
       \/ Fault /\ Sent(node, nodeList, cur, r) /\ NextNode
    /\ UNCHANGED <<lvg, lsc, position, lists>>
    /\ Follows

-----------------------------------------------------------------------------
(* A node that does not match: getManuallyEvictedLVGsAndLSCs.              *)

ListGroups ==
    /\ pc = "groups"
    /\ pc' = "classes"
    /\ lvgList' = cached.lvg
    /\ UNCHANGED <<objects, position, nodeList, lscList, work, lscWork, faults>>
    /\ Follows

\* Mutant: only groups that are marked already are looked at.
usedLvgs_Marked == {l \in LVGs : lvgList[l].there /\ Home[l] = cur /\ lvgList[l].cand}

usedLvgs == {l \in LVGs : lvgList[l].there /\ Home[l] = cur}

unhealthyLscs(classes) == {c \in LSCs : classes[c].there /\ classes[c].names \cap usedLvgs # {}}

\* Mutant: a group that only its label still shows is forgotten.
unhealthyLvgs_NamedOnly(classes) ==
    {l \in usedLvgs : \E c \in LSCs : classes[c].there /\ l \in classes[c].names}

unhealthyLvgs(classes) ==
    {l \in usedLvgs : \/ lvgList[l].cand
                      \/ \E c \in LSCs : classes[c].there /\ l \in classes[c].names}

ListClasses ==
    /\ pc = "classes"
    /\ lscList' = cached.lsc
    /\ work' = unhealthyLvgs(cached.lsc)
    /\ lscWork' = unhealthyLscs(cached.lsc)
    /\ pc' = IF work' = {} /\ lscWork' = {} THEN "release"
             ELSE IF nodeList[cur].evict THEN "add" ELSE "mark"
    /\ UNCHANGED <<objects, position, nodeList, lvgList, faults>>
    /\ Follows

Release == UpdateNode("release", [nodeList[cur] EXCEPT !.csi = FALSE, !.evict = FALSE], "walk")

addLabelOnTheNodeIfNotExist ==
    UpdateNode("mark", [nodeList[cur] EXCEPT !.evict = TRUE], "add")

addLabelOnTheLVGIfNotExist(l) ==
    /\ pc = "add"
    /\ l \in work
    /\ work' = work \ {l}
    /\ IF lvgList[l].cand THEN UNCHANGED <<lvg, faults>>
       ELSE \/ Sent(lvg, lvgList, l, [lvgList[l] EXCEPT !.cand = TRUE]) /\ UNCHANGED faults
            \/ Conflicts(lvg, lvgList, l) /\ UNCHANGED faults
            \/ Fault /\ UNCHANGED lvg
    /\ UNCHANGED <<node, lsc, pc, position, lists, lscWork>>
    /\ Follows

addLabelOnTheLSCIfNotExist(c) ==
    /\ pc = "add"
    /\ work = {}
    /\ c \in lscWork
    /\ lscWork' = lscWork \ {c}
    /\ IF lscList[c].cand THEN UNCHANGED <<lsc, faults>>
       ELSE UpdateClass(c, [lscList[c] EXCEPT !.cand = TRUE])
    /\ UNCHANGED <<node, lvg, pc, position, lists, work>>
    /\ Follows

-----------------------------------------------------------------------------
(* A node that matches: clearManualEvictionLabelsIfNeeded.                 *)

UnmarkNode == UpdateNode("unmark", [nodeList[cur] EXCEPT !.evict = FALSE], "clearGroups")

ListGroupsToClear ==
    /\ pc = "clearGroups"
    /\ pc' = "clear"
    /\ lvgList' = cached.lvg
    /\ work' = {l \in LVGs : cached.lvg[l].there /\ Home[l] = cur /\ cached.lvg[l].cand}
    /\ UNCHANGED <<objects, position, nodeList, lscList, lscWork, faults>>
    /\ Follows

\* The label is taken out of the listed copy, whether the Update works or not,
\* and the classes are judged by that copy.
ClearGroup(l) ==
    LET cleared == [lvgList[l] EXCEPT !.cand = FALSE] IN
    /\ pc = "clear"
    /\ l \in work
    /\ work' = work \ {l}
    /\ \/ Sent(lvg, lvgList, l, cleared) /\ UNCHANGED faults
       \/ Conflicts(lvg, lvgList, l) /\ UNCHANGED faults
       \/ Fault /\ UNCHANGED lvg
    /\ lvgList' = [lvgList EXCEPT ![l] = cleared]
    /\ UNCHANGED <<node, lsc, pc, position, nodeList, lscList, lscWork>>
    /\ Follows

\* Mutant: only the groups of this node are looked at.
healthy_ThisNode(names) == \A l \in names : Home[l] = cur => ~ lvgList[l].cand

\* A group that is gone carries no label.
healthy(names) == \A l \in names : ~ (lvgList[l].there /\ lvgList[l].cand)

ListClassesToClear ==
    /\ pc = "clear"
    /\ work = {}
    /\ pc' = "clearLSC"
    /\ lscList' = cached.lsc
    /\ lscWork' = {c \in LSCs : LET r == cached.lsc[c] IN r.there /\ r.cand /\ healthy(r.names)}
    /\ UNCHANGED <<objects, position, nodeList, lvgList, work, faults>>
    /\ Follows

ClearClass(c) ==
    /\ pc = "clearLSC"
    /\ c \in lscWork
    /\ lscWork' = lscWork \ {c}
    /\ UpdateClass(c, [lscList[c] EXCEPT !.cand = FALSE])
    /\ UNCHANGED <<node, lvg, pc, position, lists, work>>
    /\ Follows

PassStep ==
    \/ StartPass
    \/ getKubernetesNodesBySelector
    \/ \E n \in Nodes : LabelNode(n) \/ TakeNode(n)
    \/ ListAllNodes
    \/ PassFails
    \/ PassEnds
    \/ ListFails
    \/ ListGroups
    \/ ListClasses
    \/ Release
    \/ addLabelOnTheNodeIfNotExist
    \/ \E l \in LVGs : addLabelOnTheLVGIfNotExist(l) \/ ClearGroup(l)
    \/ \E c \in LSCs : addLabelOnTheLSCIfNotExist(c) \/ ClearClass(c)
    \/ UnmarkNode
    \/ ListGroupsToClear
    \/ ListClassesToClear

-----------------------------------------------------------------------------
(* What users do.                                                          *)

UserChange ==
    /\ changes < MaxChanges
    /\ changes' = changes + 1
    /\ UNCHANGED <<cached, pc, position, lists, work, lscWork, faults>>
    /\ HistoryFollows

Other(zone) == CHOOSE z \in Zones : z # zone

Relabel(n) ==
    /\ node' = [node EXCEPT ![n].zone = Other(@)]
    /\ UNCHANGED <<selector, lvg, lsc>>
    /\ UserChange

\* The module's settings, in the Secret, ask for other nodes.
Reselect ==
    /\ selector' = Other(selector)
    /\ UNCHANGED objects
    /\ UserChange

GroupComesOrGoes(l) ==
    /\ lvg' = [lvg EXCEPT ![l] = [there |-> ~ @.there, cand |-> FALSE]]
    /\ UNCHANGED <<selector, node, lsc>>
    /\ UserChange

UnmarkByHand(l) ==
    /\ lvg[l].cand
    /\ lvg' = [lvg EXCEPT ![l].cand = FALSE]
    /\ UNCHANGED <<selector, node, lsc>>
    /\ UserChange

DeleteClass(c) ==
    /\ lsc[c].there
    /\ lsc' = [lsc EXCEPT ![c] = [there |-> FALSE, names |-> {}, cand |-> FALSE]]
    /\ UNCHANGED <<selector, node, lvg>>
    /\ UserChange

\* A new class, or another list of groups for the old one (none if it selects
\* them by their labels).
WriteClass(c, names) ==
    /\ ~ lsc[c].there \/ names # lsc[c].names
    /\ LSCValidate(names)
    /\ lsc' = [lsc EXCEPT ![c].there = TRUE, ![c].names = names]
    /\ UNCHANGED <<selector, node, lvg>>
    /\ UserChange

UserStep ==
    \/ \E n \in Nodes : Relabel(n)
    \/ Reselect
    \/ \E l \in LVGs : GroupComesOrGoes(l) \/ UnmarkByHand(l)
    \/ \E c \in LSCs : DeleteClass(c) \/ (\E names \in SUBSET LVGs : WriteClass(c, names))

\* A cache catches up.  Nodes are not listed any more once the walk has begun.
Sync ==
    /\ pc # "idle"
    /\ \/ pc \in {"select", "label"} /\ cached' = [cached EXCEPT !.node = node]
       \/ cached' = [cached EXCEPT !.lvg = lvg]
       \/ cached' = [cached EXCEPT !.lsc = lsc]
    /\ cached' # cached
    /\ UNCHANGED <<objects, selector, pc, position, lists, work, lscWork, bounds, history>>

Next == PassStep \/ UserStep \/ Sync

Spec == Init /\ [][Next]_vars

\* A pass goes on, and another follows it (RequeueAfter, or the retry).
FairSpec == Spec /\ WF_vars(PassStep)

-----------------------------------------------------------------------------
(* Type: one conjunct per variable.                                        *)
TypeOK ==
    /\ selector \in Zones
    /\ node \in [Nodes -> Node]
    /\ lvg \in [LVGs -> Group]
    /\ lsc \in [LSCs -> Class]
    /\ cached \in [node : [Nodes -> Node], lvg : [LVGs -> Group], lsc : [LSCs -> Class]]
    /\ pc \in {"idle", "select", "label", "walk", "groups", "classes", "release", "mark", "add",
               "unmark", "clearGroups", "clear", "clearLSC"}
    /\ sel \in Zones
    /\ todo \subseteq Nodes
    /\ cur \in Nodes
    /\ nodeList \in [Nodes -> Node]
    /\ lvgList \in [LVGs -> Group]
    /\ lscList \in [LSCs -> Class]
    /\ work \subseteq (IF pc \in {"mark", "add", "clear"} THEN usedLvgs ELSE {})
    /\ lscWork \subseteq (IF pc \in {"mark", "add", "clearLSC"} THEN LSCs ELSE {})
    /\ changes \in 0 .. MaxChanges
    /\ faults \in 0 .. MaxFaults
    /\ matched \subseteq Nodes
    /\ busy \subseteq LVGs

(***************************************************************************)
(* The label of the CSI driver is never taken off a node that matched the  *)
(* selector, or whose group a LocalStorageClass named, all through the     *)
(* pass: with the label the csi-node pod goes, and volumes of the node can *)
(* no longer be mounted.  The pass decides from three lists read at        *)
(* different times and writes later (reconcileLocalCSILabels).             *)
(***************************************************************************)
UsedKeepsLabel ==
    [][\A n \in Nodes : node[n].csi /\ ~ node'[n].csi =>
         n \notin matched /\ \A l \in busy : Home[l] # n]_vars

(***************************************************************************)
(* A group marked for eviction by hand is never forgotten: its node keeps  *)
(* the driver's label until the mark is gone, although the                 *)
(* LocalStorageClass that caused it may be deleted at any time - the case  *)
(* getManuallyEvictedLVGsAndLSCs is written for.                           *)
(***************************************************************************)
MarkedIsManaged == \A l \in LVGs : lvg[l].cand => node[Home[l]].csi

Marked(n) == \E l \in LVGs : Home[l] = n /\ lvg[l].there /\ (lvg[l].cand \/ l \in InUse)

(***************************************************************************)
(* Once users leave things alone and Updates work, the labels settle and   *)
(* tell the truth: the nodes that match have the driver's label, no mark,  *)
(* and no marked group; one that does not match and still has the label is *)
(* marked together with the groups and classes that hold it back; all      *)
(* others are free; and a marked class has a marked group, as far as there *)
(* is a matching node in whose turn it is looked at.  Classes that name a  *)
(* missing group are left out: the webhook refuses their Updates, and what *)
(* mark they have stays.                                                   *)
(***************************************************************************)
Writable(c) == LSCValidate(lsc[c].names)

Settled ==
    /\ \A n \in Nodes : Matches(n) =>
         /\ node[n].csi
         /\ ~ node[n].evict
         /\ \A l \in LVGs : Home[l] = n => ~ lvg[l].cand
    /\ \A n \in Nodes : ~ Matches(n) /\ node[n].csi =>
         /\ node[n].evict
         /\ Marked(n)
         /\ \A l \in InUse : Home[l] = n =>
              /\ lvg[l].cand
              /\ \A c \in LSCs : lsc[c].there /\ l \in lsc[c].names /\ Writable(c) => lsc[c].cand
    /\ \A n \in Nodes : ~ node[n].csi => ~ node[n].evict
    /\ \A c \in LSCs : lsc[c].cand /\ Writable(c) /\ (\E n \in Nodes : Matches(n)) =>
         \E l \in lsc[c].names : lvg[l].cand
LabelsSettle == <>[]Settled
=============================================================================
