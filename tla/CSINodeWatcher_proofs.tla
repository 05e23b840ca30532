----------------------- MODULE CSINodeWatcher_proofs -----------------------
(***************************************************************************)
(* Proofs about module CSINodeWatcher, for every set of nodes, groups and  *)
(* classes, every placement of the groups and all bounds: types, that a    *)
(* group marked for eviction by hand keeps its node managed, and that the  *)
(* driver's label is never taken off a node that was selected or in use    *)
(* all through the pass (local_csi_node_watcher.go).                       *)
(*                                                                         *)
(* Neither is inductive: reconcileLocalCSILabels writes what it decided    *)
(* from lists that may be stale.  The argument is about what a list read   *)
(* in this pass can be wrong about.  Labels of a node, and marks of its    *)
(* groups, are changed by this controller in that node's turn only, and    *)
(* every node has one turn (TurnInv); so until the turn, a listed label of *)
(* the driver is still there (LabelInv) and a mark that is there was       *)
(* listed (CandInv).  A node or a group that was selected or in use all    *)
(* through the pass was so when the list was made (MatchInv, BusyInv).     *)
(***************************************************************************)
EXTENDS CSINodeWatcher, TLAPS

USE DEF objects, cluster, lists, position, bounds, history

(* A LocalStorageClass among these names the group.                        *)
Named(classes, l) == \E c \in LSCs : classes[c].there /\ l \in classes[c].names

(* The places of a pass at a node that does not match and has the label of *)
(* the driver.                                                             *)
Leaving == {"groups", "classes", "release", "mark", "add"}

(* All places after the second List of nodes.                              *)
Walking == Leaving \cup {"walk", "unmark", "clearGroups", "clear", "clearLSC"}

(* All places of a pass.                                                   *)
PCs == Walking \cup {"idle", "select", "label"}

(* What the informer caches hold.                                          *)
Cache == [node : [Nodes -> Node], lvg : [LVGs -> Group], lsc : [LSCs -> Class]]

(* A node whose turn it is has no other turn in the pass.                  *)
TurnInv == pc \in Walking /\ pc # "walk" => cur \notin todo

(* The history variables say what they are meant to say of the present.    *)
HistoryInv ==
    pc # "idle" =>
        /\ \A n \in matched : node[n].zone = selector
        /\ \A l \in busy : lvg[l].there /\ Named(lsc, l)

(* A node that matched all through the pass matches in its lists.          *)
MatchInv ==
    /\ pc # "idle" => \A n \in matched : selector = sel
    /\ pc \in {"select", "label"} => \A n \in matched : cached.node[n].zone = sel
    /\ pc \in Walking => \A n \in matched \cap todo : nodeList[n].zone = sel
    /\ pc \in Leaving => cur \notin matched

(* A label of the driver that was listed is there until the node's turn.   *)
LabelInv ==
    /\ pc \in {"select", "label"} => \A n \in Nodes : cached.node[n].csi => node[n].csi
    /\ pc \in Walking => \A n \in todo : nodeList[n].csi => node[n].csi
    /\ pc \in Leaving => node[cur].csi

(* A group of a node whose turn in the pass has not come.                  *)
Ahead(l) ==
    \/ pc \in {"select", "label"}
    \/ pc \in Walking /\ Home[l] \in todo
    \/ pc = "groups" /\ Home[l] = cur

(* A mark on a group of a node whose turn has not come is in the cache,    *)
(* and in the turn it gets into the list.                                  *)
CandInv ==
    /\ \A l \in LVGs : lvg[l].cand => lvg[l].there
    /\ \A l \in LVGs : cached.lvg[l].cand => cached.lvg[l].there
    /\ \A l \in LVGs : Ahead(l) /\ lvg[l].cand => cached.lvg[l].cand
    /\ \A l \in LVGs : pc = "classes" /\ Home[l] = cur /\ lvg[l].cand =>
                          lvgList[l].cand /\ lvgList[l].there
    /\ \A l \in LVGs : pc = "release" /\ Home[l] = cur => ~ lvg[l].cand

(* A group in use all through the pass is in the lists, and with its class *)
(* in those of the classes, whenever they were made.                       *)
BusyInv ==
    /\ \A l \in busy : pc # "idle" => cached.lvg[l].there /\ Named(cached.lsc, l)
    /\ \A l \in busy : pc = "classes" => lvgList[l].there
    /\ \A l \in busy : pc = "release" => Home[l] # cur

(* The inductive invariant of the controller.                              *)
WatchInv ==
    /\ TypeOK
    /\ TurnInv
    /\ HistoryInv
    /\ MatchInv
    /\ LabelInv
    /\ CandInv
    /\ BusyInv
    /\ MarkedIsManaged

-----------------------------------------------------------------------------
(* Types.                                                                  *)

(* What the pass holds between two passes.                                 *)
LEMMA EmptyTypes ==
    /\ AnyNode \in Nodes
    /\ NoNodes \in [Nodes -> Node]
    /\ NoGroups \in [LVGs -> Group]
    /\ NoClasses \in [LSCs -> Class]
    /\ NothingCached \in Cache
  <1>1. AnyNode \in Nodes
    BY WatcherAssumption DEF AnyNode
  <1>2. NoNodes \in [Nodes -> Node]
    BY DEF NoNodes, Node, Zones
  <1>3. NoGroups \in [LVGs -> Group]
    BY DEF NoGroups, Group
  <1>4. NoClasses \in [LSCs -> Class]
    BY DEF NoClasses, Class
  <1> QED
    BY <1>1, <1>2, <1>3, <1>4 DEF NothingCached, Cache

(* The initial state: the module is new, or has selected every node.       *)
LEMMA TypeInit == Init => TypeOK
  <1> SUFFICES ASSUME Init PROVE TypeOK
    OBVIOUS
  <1>1. node \in [Nodes -> Node]
    <2>1. PICK b \in BOOLEAN : node \in [Nodes -> [zone : Zones, csi : {b}, evict : {FALSE}]]
      BY DEF Init
    <2>2. [zone : Zones, csi : {b}, evict : {FALSE}] \subseteq Node
      BY DEF Node
    <2> QED
      BY <2>1, <2>2
  <1>2. lvg \in [LVGs -> Group]
    BY DEF Init, Group
  <1>3. lsc \in [LSCs -> Class]
    <2>1. [there : {TRUE}, names : SUBSET LVGs, cand : {FALSE}] \subseteq Class
      BY DEF Class
    <2> QED
      BY <2>1 DEF Init
  <1>4. changes \in 0 .. MaxChanges /\ faults \in 0 .. MaxFaults
    BY WatcherAssumption DEF Init
  <1> QED
    BY <1>1, <1>2, <1>3, <1>4, EmptyTypes DEF Init, TypeOK, Zones, Cache

(* Conjuncts of the type invariant that the steps below start from.        *)
LEMMA Types ==
    ASSUME TypeOK
    PROVE  /\ node \in [Nodes -> Node] /\ nodeList \in [Nodes -> Node]
           /\ lvg \in [LVGs -> Group] /\ lvgList \in [LVGs -> Group]
           /\ lsc \in [LSCs -> Class] /\ lscList \in [LSCs -> Class]
           /\ cached \in Cache
           /\ cached.node \in [Nodes -> Node] /\ cached.lvg \in [LVGs -> Group]
           /\ cached.lsc \in [LSCs -> Class]
           /\ cur \in Nodes /\ todo \subseteq Nodes
           /\ selector \in Zones /\ sel \in Zones
           /\ pc \in PCs
           /\ work \subseteq usedLvgs
           /\ matched \subseteq Nodes /\ busy \subseteq LVGs
  <1>1. cached \in Cache
    BY DEF TypeOK, Cache
  <1>2. cached.node \in [Nodes -> Node] /\ cached.lvg \in [LVGs -> Group] /\ cached.lsc \in [LSCs -> Class]
    BY <1>1 DEF Cache
  <1>3. pc \in PCs
    BY DEF TypeOK, PCs, Walking, Leaving
  <1> QED
    BY <1>1, <1>2, <1>3 DEF TypeOK

(* Fields of an updated object, for the Updates that send a listed copy    *)
(* with some labels changed.                                               *)
LEMMA NodeFields ==
    ASSUME NEW r \in Node, NEW b \in BOOLEAN
    PROVE  /\ [r EXCEPT !.csi = TRUE] \in Node /\ [r EXCEPT !.csi = TRUE].csi
           /\ [r EXCEPT !.evict = b] \in Node /\ [r EXCEPT !.evict = b].csi = r.csi
           /\ [r EXCEPT !.csi = FALSE, !.evict = FALSE] \in Node
  BY DEF Node

(* The same for the candidate label of a group.                            *)
LEMMA GroupFields ==
    ASSUME NEW r \in Group, NEW b \in BOOLEAN
    PROVE  /\ [r EXCEPT !.cand = b] \in Group
           /\ [r EXCEPT !.cand = b].there = r.there
           /\ [r EXCEPT !.cand = b].cand = b
  BY DEF Group

(* And of a LocalStorageClass.                                             *)
LEMMA ClassFields ==
    ASSUME NEW r \in Class, NEW b \in BOOLEAN
    PROVE  [r EXCEPT !.cand = b] \in Class
  BY DEF Class

(* How a step may change the nodes: a label of the driver goes when the    *)
(* node is released, and never otherwise.                                  *)
LEMMA NodeStep ==
    ASSUME TypeOK, [Next]_vars
    PROVE  /\ node' \in [Nodes -> Node]
           /\ \A n \in Nodes : node[n].csi =>
                 node'[n].csi \/ (n = cur /\ pc = "release" /\ pc' = "walk" /\ lvg' = lvg)
  <1> DEFINE Effect == 
        /\ node' \in [Nodes -> Node]
        /\ \A n \in Nodes : node[n].csi =>
              node'[n].csi \/ (n = cur /\ pc = "release" /\ pc' = "walk" /\ lvg' = lvg)
  <1> SUFFICES Effect
    OBVIOUS
  <1>0. node \in [Nodes -> Node] /\ nodeList \in [Nodes -> Node] /\ cur \in Nodes
    BY Types
  <1>1. ASSUME UNCHANGED node PROVE Effect
    BY <1>0, <1>1
  <1>2. ASSUME NEW n \in Nodes, NEW r \in Node, Sent(node, nodeList, n, r),
               nodeList[n].csi => r.csi
        PROVE  Effect
    BY <1>0, <1>2 DEF Sent
  <1>3. CASE \E n \in Nodes : LabelNode(n)
    <2>1. PICK n \in Nodes : LabelNode(n)
      BY <1>3
    <2>2. nodeList[n] \in Node
      BY <1>0
    <2> HIDE DEF Effect
    <2> QED
      BY <1>1, <1>2, <2>1, <2>2, NodeFields DEF LabelNode, Conflicts
  <1>4. nodeList[cur] \in Node
    BY <1>0
  <1>5. CASE addLabelOnTheNodeIfNotExist \/ UnmarkNode
    <2> HIDE DEF Effect
    <2> QED
      BY <1>0, <1>1, <1>2, <1>4, <1>5, NodeFields
         DEF addLabelOnTheNodeIfNotExist, UnmarkNode, UpdateNode, Conflicts
  <1>6. CASE Release
    <2> DEFINE r == [nodeList[cur] EXCEPT !.csi = FALSE, !.evict = FALSE]
    <2>1. r \in Node
      BY <1>4, NodeFields
    <2>2. \/ UNCHANGED node 
          \/ /\ node' = [node EXCEPT ![cur] = r] 
             /\ pc = "release" /\ pc' = "walk" /\ lvg' = lvg
      BY <1>6 DEF Release, UpdateNode, Sent, Conflicts, NextNode
    <2> HIDE DEF r
    <2> QED
      BY <1>0, <2>1, <2>2
  <1>7. CASE \E n \in Nodes : Relabel(n)
    <2>1. PICK n \in Nodes : node' = [node EXCEPT ![n].zone = Other(@)]
      BY <1>7 DEF Relabel
    <2>2. \A z \in Zones : Other(z) \in Zones
      BY DEF Other, Zones
    <2> DEFINE r == [node[n] EXCEPT !.zone = Other(@)]
    <2>3. r \in Node /\ r.csi = node[n].csi
      BY <1>0, <2>2 DEF Node
    <2>4. node' = [node EXCEPT ![n] = r]
      BY <2>1
    <2> HIDE DEF r
    <2> QED
      BY <1>0, <2>3, <2>4
  <1>8. CASE UNCHANGED node
    BY <1>1, <1>8
  <1> HIDE DEF Effect
  <1> QED
    BY <1>3, <1>5, <1>6, <1>7, <1>8 DEF Next, PassStep, UserStep, vars, StartPass,
       getKubernetesNodesBySelector, TakeNode, ListAllNodes, PassFails, PassEnds, EndPass, ListFails,
       ListGroups, ListClasses, addLabelOnTheLVGIfNotExist, ClearGroup, addLabelOnTheLSCIfNotExist,
       ClearClass, ListGroupsToClear, ListClassesToClear, Reselect, GroupComesOrGoes, UnmarkByHand,
       DeleteClass, WriteClass, Sync

(* How a step may change the groups: this controller marks a group in the  *)
(* turn of its node, and only one that was listed.                         *)
LEMMA GroupStep ==
    ASSUME TypeOK, [Next]_vars
    PROVE  /\ lvg' \in [LVGs -> Group]
           /\ \A l \in LVGs : lvg'[l].cand =>
                 \/ lvg[l].cand /\ lvg'[l].there = lvg[l].there
                 \/ pc = "add" /\ pc' = "add" /\ Home[l] = cur /\ lvg'[l].there /\ UNCHANGED <<node, cur, todo>>
  <1> DEFINE Effect ==
        /\ lvg' \in [LVGs -> Group]
        /\ \A l \in LVGs : lvg'[l].cand =>
              \/ lvg[l].cand /\ lvg'[l].there = lvg[l].there
              \/ pc = "add" /\ pc' = "add" /\ Home[l] = cur /\ lvg'[l].there /\ UNCHANGED <<node, cur, todo>>
  <1> SUFFICES Effect
    OBVIOUS
  <1>0. lvg \in [LVGs -> Group] /\ lvgList \in [LVGs -> Group] /\ cur \in Nodes /\ work \subseteq usedLvgs
    BY Types
  <1>1. ASSUME UNCHANGED lvg PROVE Effect
    BY <1>0, <1>1
  <1>2. ASSUME NEW l \in LVGs, NEW r \in Group, ~ r.cand, lvg' = [lvg EXCEPT ![l] = r] PROVE Effect
    BY <1>0, <1>2
  <1>3. CASE \E l \in LVGs : addLabelOnTheLVGIfNotExist(l)
    <2>1. PICK l \in LVGs : addLabelOnTheLVGIfNotExist(l)
      BY <1>3
    <2> DEFINE r == [lvgList[l] EXCEPT !.cand = TRUE]
    <2>2. r \in Group /\ r.there = lvgList[l].there
      BY <1>0, GroupFields
    <2>3. lvgList[l].there /\ Home[l] = cur
      BY <1>0, <2>1 DEF addLabelOnTheLVGIfNotExist, usedLvgs
    <2>4. pc = "add" /\ pc' = "add" /\ UNCHANGED <<node, cur, todo>>
      BY <2>1 DEF addLabelOnTheLVGIfNotExist
    <2>5. UNCHANGED lvg \/ lvg' = [lvg EXCEPT ![l] = r]
      BY <2>1 DEF addLabelOnTheLVGIfNotExist, Sent, Conflicts
    <2>6. CASE lvg' = [lvg EXCEPT ![l] = r]
      <3> HIDE DEF r
      <3> QED
        BY <1>0, <2>2, <2>3, <2>4, <2>6
    <2> HIDE DEF Effect
    <2> QED
      BY <1>1, <2>5, <2>6
  <1>4. CASE \E l \in LVGs : ClearGroup(l)
    <2>1. PICK l \in LVGs : ClearGroup(l)
      BY <1>4
    <2>2. lvgList[l] \in Group
      BY <1>0
    <2>3. [lvgList[l] EXCEPT !.cand = FALSE] \in Group /\ ~ [lvgList[l] EXCEPT !.cand = FALSE].cand
      BY <2>2 DEF Group
    <2> HIDE DEF Effect
    <2> QED
      BY <1>1, <1>2, <2>1, <2>3 DEF ClearGroup, Sent, Conflicts
  <1>5. CASE \E l \in LVGs : GroupComesOrGoes(l)
    <2>1. PICK l \in LVGs : lvg' = [lvg EXCEPT ![l] = [there |-> ~ @.there, cand |-> FALSE]]
      BY <1>5 DEF GroupComesOrGoes
    <2> DEFINE r == [there |-> ~ lvg[l].there, cand |-> FALSE]
    <2>2. r \in Group /\ ~ r.cand
      BY DEF Group
    <2>3. lvg' = [lvg EXCEPT ![l] = r]
      BY <2>1
    <2> HIDE DEF r, Effect
    <2> QED
      BY <1>2, <2>2, <2>3
  <1>6. CASE \E l \in LVGs : UnmarkByHand(l)
    <2>1. PICK l \in LVGs : lvg' = [lvg EXCEPT ![l].cand = FALSE]
      BY <1>6 DEF UnmarkByHand
    <2> DEFINE r == [lvg[l] EXCEPT !.cand = FALSE]
    <2>2. lvg[l] \in Group
      BY <1>0
    <2>3. r \in Group /\ ~ r.cand
      BY <2>2 DEF Group
    <2>4. lvg' = [lvg EXCEPT ![l] = r]
      BY <2>1
    <2> HIDE DEF r, Effect
    <2> QED
      BY <1>2, <2>3, <2>4
  <1>7. CASE UNCHANGED lvg
    BY <1>1, <1>7
  <1> HIDE DEF Effect
  <1> QED
    BY <1>3, <1>4, <1>5, <1>6, <1>7 DEF Next, PassStep, UserStep, vars, StartPass, LabelNode,
       getKubernetesNodesBySelector, TakeNode, ListAllNodes, PassFails, PassEnds, EndPass, ListFails,
       ListGroups, ListClasses, addLabelOnTheLSCIfNotExist, Release, addLabelOnTheNodeIfNotExist,
       UnmarkNode, UpdateNode,
       ClearClass, ListGroupsToClear, ListClassesToClear, Reselect, Relabel,
       DeleteClass, WriteClass, Sync

(* Whoever writes a class, it stays one.                                   *)
LEMMA ClassStep ==
    ASSUME TypeOK, [Next]_vars
    PROVE  lsc' \in [LSCs -> Class]
  <1>0. lsc \in [LSCs -> Class] /\ lscList \in [LSCs -> Class]
    BY Types
  <1>1. ASSUME NEW c \in LSCs, NEW r \in Class, lsc' = [lsc EXCEPT ![c] = r] PROVE lsc' \in [LSCs -> Class]
    BY <1>0, <1>1
  <1>2. CASE \E c \in LSCs : addLabelOnTheLSCIfNotExist(c) \/ ClearClass(c)
    <2>1. PICK c \in LSCs : addLabelOnTheLSCIfNotExist(c) \/ ClearClass(c)
      BY <1>2
    <2>2. lscList[c] \in Class
      BY <1>0
    <2>3. [lscList[c] EXCEPT !.cand = TRUE] \in Class /\ [lscList[c] EXCEPT !.cand = FALSE] \in Class
      BY <2>2, ClassFields
    <2> QED
      BY <1>0, <1>1, <2>1, <2>3 DEF addLabelOnTheLSCIfNotExist, ClearClass, UpdateClass, Sent, Conflicts
  <1>3. CASE \E c \in LSCs : DeleteClass(c)
    <2>1. [there |-> FALSE, names |-> {}, cand |-> FALSE] \in Class
      BY DEF Class
    <2> QED
      BY <1>1, <1>3, <2>1 DEF DeleteClass
  <1>4. CASE \E c \in LSCs : \E names \in SUBSET LVGs : WriteClass(c, names)
    <2>1. PICK c \in LSCs, names \in SUBSET LVGs :
             lsc' = [lsc EXCEPT ![c].there = TRUE, ![c].names = names]
      BY <1>4 DEF WriteClass
    <2> DEFINE r == [lsc[c] EXCEPT !.there = TRUE, !.names = names]
    <2>2. lsc[c] \in Class
      BY <1>0
    <2>3. r \in Class
      BY <2>2 DEF Class
    <2>4. lsc' = [lsc EXCEPT ![c] = r]
      BY <1>0, <2>1
    <2> HIDE DEF r
    <2> QED
      BY <1>1, <2>3, <2>4
  <1>5. CASE UNCHANGED lsc
    BY <1>0, <1>5
  <1> QED
    BY <1>2, <1>3, <1>4, <1>5 DEF Next, PassStep, UserStep, vars, StartPass, LabelNode,
       getKubernetesNodesBySelector, TakeNode, ListAllNodes, PassFails, PassEnds, EndPass, ListFails,
       ListGroups, ListClasses, addLabelOnTheLVGIfNotExist, ClearGroup, Release, addLabelOnTheNodeIfNotExist,
       UnmarkNode, UpdateNode, ListGroupsToClear, ListClassesToClear, Reselect, Relabel,
       GroupComesOrGoes, UnmarkByHand, Sync

(* How a step may change a cache: each kind stays as it is or catches up   *)
(* while a pass runs; the nodes' is not read any more once the walk has    *)
(* begun.                                                                  *)
LEMMA CacheStep ==
    ASSUME TypeOK, [Next]_vars
    PROVE  /\ cached' \in Cache
           /\ pc' # "idle" /\ pc # "idle" =>
                 /\ cached'.node \in {cached.node, node} \/ pc' \in Walking
                 /\ cached'.lvg = cached.lvg \/ (cached'.lvg = lvg /\ lvg' = lvg)
                 /\ cached'.lsc = cached.lsc \/ (cached'.lsc = lsc /\ lsc' = lsc)
           /\ pc' # "idle" /\ pc = "idle" =>
                 /\ pc' = "select"
                 /\ cached'.node = node /\ cached'.lvg = lvg /\ cached'.lsc = lsc
                 /\ UNCHANGED objects
           /\ pc' = "idle" /\ pc # "idle" => cached' = NothingCached
           /\ pc' = "idle" /\ pc = "idle" => cached' = cached
  <1>0. /\ node \in [Nodes -> Node] /\ lvg \in [LVGs -> Group] /\ lsc \in [LSCs -> Class]
        /\ cached \in Cache /\ pc \in PCs
    BY Types
  <1>1. CASE StartPass
    <2>1. /\ pc = "idle" /\ pc' = "select" /\ UNCHANGED objects
          /\ cached' = [node |-> node, lvg |-> lvg, lsc |-> lsc]
      BY <1>1 DEF StartPass, Caches
    <2> QED
      BY <1>0, <2>1 DEF Cache
  <1>2. CASE ListAllNodes
    <2>1. pc = "label" /\ pc' = "walk" /\ cached' = [cached EXCEPT !.node = NoNodes]
      BY <1>2 DEF ListAllNodes, Caches
    <2> QED
      BY <1>0, <2>1, EmptyTypes DEF Cache, Walking
  <1>3. CASE PassFails \/ PassEnds
    <2>1. pc # "idle" /\ pc' = "idle" /\ cached' = NothingCached
      BY <1>3 DEF PassFails, PassEnds, EndPass, Caches, NodeDone
    <2> QED
      BY <2>1, EmptyTypes
  <1>4. CASE Sync
    <2>1. /\ pc # "idle" /\ pc' = pc /\ lvg' = lvg /\ lsc' = lsc
          /\ \/ cached' = [cached EXCEPT !.node = node]
             \/ cached' = [cached EXCEPT !.lvg = lvg]
             \/ cached' = [cached EXCEPT !.lsc = lsc]
      BY <1>4 DEF Sync
    <2> QED
      BY <1>0, <2>1 DEF Cache
  <1>5. CASE UNCHANGED cached /\ (pc = "idle" <=> pc' = "idle")
    BY <1>0, <1>5
  <1>6. CASE UserStep \/ UNCHANGED vars
    <2>1. UNCHANGED cached /\ pc' = pc
      BY <1>6 DEF UserStep, vars, Reselect, Relabel, DeleteClass, WriteClass, GroupComesOrGoes,
         UnmarkByHand, UserChange
    <2> QED
      BY <1>5, <2>1
  <1>7. CASE \E n \in Nodes : TakeNode(n)
    <2>1. UNCHANGED cached /\ pc' # "idle" /\ pc # "idle"
      BY <1>7 DEF TakeNode, NodeDone, Follows
    <2> QED
      BY <1>5, <2>1
  <1>8. CASE \/ \E n \in Nodes : LabelNode(n)
             \/ \E l \in LVGs : addLabelOnTheLVGIfNotExist(l) \/ ClearGroup(l)
             \/ \E c \in LSCs : addLabelOnTheLSCIfNotExist(c) \/ ClearClass(c)
    <2>1. UNCHANGED cached /\ pc' # "idle" /\ pc # "idle"
      BY <1>8 DEF LabelNode, addLabelOnTheLVGIfNotExist, ClearGroup, addLabelOnTheLSCIfNotExist,
         ClearClass, Follows
    <2> QED
      BY <1>5, <2>1
  <1>9. CASE Release \/ addLabelOnTheNodeIfNotExist \/ UnmarkNode
    <2>1. UNCHANGED cached /\ pc' # "idle" /\ pc # "idle"
      BY <1>9 DEF Release, addLabelOnTheNodeIfNotExist, UnmarkNode, UpdateNode, NextNode, Follows
    <2> QED
      BY <1>5, <2>1
  <1>10. CASE \/ getKubernetesNodesBySelector \/ ListFails \/ ListGroups \/ ListClasses
              \/ ListGroupsToClear \/ ListClassesToClear
    <2>1. UNCHANGED cached /\ pc' # "idle" /\ pc # "idle"
      BY <1>10 DEF getKubernetesNodesBySelector, ListFails, ListGroups, ListClasses,
         ListGroupsToClear, ListClassesToClear, NextNode, Follows
    <2> QED
      BY <1>5, <2>1
  <1> QED
    BY <1>1, <1>2, <1>3, <1>4, <1>6, <1>7, <1>8, <1>9, <1>10 DEF Next, PassStep

(* What the history variables record: they start with the pass, and lose   *)
(* what stops being so.                                                    *)
LEMMA HistoryMeaning ==
    ASSUME HistoryFollows
    PROVE  /\ pc' # "idle" =>
                /\ \A n \in matched' : n \in Nodes /\ node'[n].zone = selector' /\ (pc # "idle" => n \in matched)
                /\ \A l \in busy' : /\ l \in LVGs /\ lvg'[l].there /\ Named(lsc', l)
                                    /\ pc # "idle" => l \in busy
           /\ pc' = "idle" => matched' = {} /\ busy' = {}
  <1> DEFINE M == {n \in Nodes : Matches(n)'}
             B == InUse'
  <1>1. \A n \in M : n \in Nodes /\ node'[n].zone = selector'
    BY DEF Matches
  <1>2. \A l \in B : l \in LVGs /\ lvg'[l].there /\ Named(lsc', l)
    BY DEF InUse, Named
  <1>3. CASE pc' = "idle"
    <2>1. matched' = {} /\ busy' = {}
      BY <1>3 DEF HistoryFollows
    <2> QED
      BY <1>3, <2>1
  <1>4. CASE pc' # "idle" /\ pc = "idle"
    <2>1. matched' = M /\ busy' = B
      BY <1>4 DEF HistoryFollows
    <2> QED
      BY <1>1, <1>2, <1>4, <2>1
  <1>5. CASE pc' # "idle" /\ pc # "idle"
    <2>1. matched' = matched \cap M /\ busy' = busy \cap B
      BY <1>5 DEF HistoryFollows
    <2> HIDE DEF M, B
    <2> QED
      BY <1>1, <1>2, <1>5, <2>1
  <1> QED
    BY <1>3, <1>4, <1>5

(* Every step of the pass and of a user is recorded; a cache that catches  *)
(* up changes nothing there is to record.                                  *)
LEMMA Recorded ==
    ASSUME [Next]_vars
    PROVE  HistoryFollows \/ UNCHANGED <<objects, selector, pc, history>>
  <1>1. CASE Sync \/ UNCHANGED vars
    BY <1>1 DEF Sync, vars
  <1>2. CASE UserStep
    BY <1>2 DEF UserStep, Reselect, Relabel, DeleteClass, WriteClass, GroupComesOrGoes,
         UnmarkByHand, UserChange
  <1>3. CASE PassStep
    BY <1>3 DEF PassStep, StartPass, LabelNode, getKubernetesNodesBySelector, TakeNode, ListAllNodes,
       PassFails, PassEnds, EndPass, ListFails,
       ListGroups, ListClasses, addLabelOnTheLVGIfNotExist, ClearGroup, Release, addLabelOnTheNodeIfNotExist,
       UnmarkNode, UpdateNode, ListGroupsToClear, ListClassesToClear, 
       addLabelOnTheLSCIfNotExist, ClearClass, Follows, Caches
  <1> QED
    BY <1>1, <1>2, <1>3 DEF Next

(* The history variables stay true.                                        *)
LEMMA HistoryStep ==
    ASSUME TypeOK, HistoryInv, [Next]_vars
    PROVE  /\ HistoryInv'
           /\ pc' # "idle" /\ pc # "idle" => matched' \subseteq matched /\ busy' \subseteq busy
  <1>1. CASE HistoryFollows
    BY <1>1, HistoryMeaning DEF HistoryInv
  <1>2. CASE UNCHANGED <<objects, selector, pc, history>>
    <2>1. \A l \in busy : Named(lsc, l) => Named(lsc', l)
      BY <1>2
    <2> QED
      BY <1>2, <2>1 DEF HistoryInv
  <1> QED
    BY <1>1, <1>2, Recorded

(* The pass's own variables, step by step.                                 *)
PassTypeOK ==
    /\ pc \in PCs
    /\ sel \in Zones
    /\ todo \subseteq Nodes
    /\ cur \in Nodes
    /\ nodeList \in [Nodes -> Node]
    /\ lvgList \in [LVGs -> Group]
    /\ lscList \in [LSCs -> Class]
    /\ work \subseteq (IF pc \in {"mark", "add", "clear"} THEN usedLvgs ELSE {})
    /\ lscWork \subseteq (IF pc \in {"mark", "add", "clearLSC"} THEN LSCs ELSE {})
    /\ faults \in 0 .. MaxFaults

(* Each List and each Update of a pass keeps them, and leaves settings     *)
(* alone.                                                                  *)
LEMMA PassTypeStep ==
    ASSUME TypeOK, PassStep
    PROVE  PassTypeOK' /\ UNCHANGED <<selector, changes>>
  <1> USE DEF PCs, Walking, Leaving
  <1>0. /\ pc \in PCs
        /\ sel \in Zones /\ selector \in Zones
        /\ todo \subseteq Nodes
        /\ cur \in Nodes
        /\ nodeList \in [Nodes -> Node]
        /\ lvgList \in [LVGs -> Group]
        /\ lscList \in [LSCs -> Class]
        /\ work \subseteq (IF pc \in {"mark", "add", "clear"} THEN usedLvgs ELSE {})
        /\ lscWork \subseteq (IF pc \in {"mark", "add", "clearLSC"} THEN LSCs ELSE {})
        /\ faults \in 0 .. MaxFaults
    BY DEF TypeOK
  <1>00. cached.node \in [Nodes -> Node] /\ cached.lvg \in [LVGs -> Group] /\ cached.lsc \in [LSCs -> Class]
    BY Types
  <1>f. Fault => faults' \in 0 .. MaxFaults
    BY <1>0, WatcherAssumption DEF Fault
  <1>u. UNCHANGED <<lvgList, cur>> => usedLvgs' = usedLvgs
    BY DEF usedLvgs
  <1>1. CASE StartPass
    BY <1>0, <1>1 DEF StartPass, Caches, PassTypeOK
  <1>2. CASE getKubernetesNodesBySelector
    BY <1>0, <1>00, <1>2 DEF getKubernetesNodesBySelector, Follows, PassTypeOK
  <1>3. CASE \E n \in Nodes : LabelNode(n)
    <2>1. faults' \in 0 .. MaxFaults
      BY <1>0, <1>f, <1>3 DEF LabelNode
    <2> QED
      BY <1>0, <1>3, <2>1 DEF LabelNode, Follows, PassTypeOK
  <1>4. CASE \E n \in Nodes : TakeNode(n)
    <2>1. PICK n \in Nodes : TakeNode(n)
      BY <1>4
    <2>2. nodeList' \in [Nodes -> Node]
      BY <1>0, <2>1, EmptyTypes DEF TakeNode
    <2>3. pc' \in {"unmark", "clearGroups", "groups", "walk"}
      BY <2>1 DEF TakeNode
    <2>4. work' = {} /\ lscWork' = {}
      BY <2>1 DEF TakeNode, NodeDone
    <2> QED
      BY <1>0, <2>1, <2>2, <2>3, <2>4, EmptyTypes DEF TakeNode, Follows, PassTypeOK
  <1>5. CASE ListAllNodes
    BY <1>0, <1>00, <1>5 DEF ListAllNodes, Caches, PassTypeOK
  <1>6. CASE PassFails \/ PassEnds
    <2>1. faults' \in 0 .. MaxFaults
      BY <1>0, <1>f, <1>6 DEF PassFails, PassEnds
    <2> QED
      BY <1>6, <2>1, EmptyTypes DEF PassFails, PassEnds, EndPass, Caches, PassTypeOK, Zones
  <1>7. CASE ListFails
    BY <1>0, <1>f, <1>7 DEF ListFails, NextNode, Follows, PassTypeOK
  <1>8. CASE ListGroups
    BY <1>0, <1>00, <1>8 DEF ListGroups, Follows, PassTypeOK
  <1>9. CASE ListClasses
    <2>1. pc' \in {"release", "add", "mark"} /\ UNCHANGED <<lvgList, cur>>
      BY <1>9 DEF ListClasses
    <2>2. work' \subseteq usedLvgs /\ lscWork' \subseteq LSCs
      BY <1>9 DEF ListClasses, unhealthyLvgs, unhealthyLscs
    <2>3. pc' = "release" => work' = {} /\ lscWork' = {}
      BY <1>9 DEF ListClasses
    <2> QED
      BY <1>0, <1>00, <1>9, <1>u, <2>1, <2>2, <2>3 DEF ListClasses, Follows, PassTypeOK
  <1>10. CASE Release \/ addLabelOnTheNodeIfNotExist \/ UnmarkNode
    <2>1. faults' \in 0 .. MaxFaults
      BY <1>0, <1>f, <1>10 DEF Release, addLabelOnTheNodeIfNotExist, UnmarkNode, UpdateNode
    <2>2. /\ UNCHANGED <<position, lists>>
          /\ \/ pc' = "walk" /\ work' = {} /\ lscWork' = {}
             \/ pc = "mark" /\ pc' = "add" /\ UNCHANGED <<work, lscWork>>
             \/ pc = "release" /\ pc' = "walk" /\ UNCHANGED <<work, lscWork>>
             \/ pc = "unmark" /\ pc' = "clearGroups" /\ UNCHANGED <<work, lscWork>>
      BY <1>10 DEF Release, addLabelOnTheNodeIfNotExist, UnmarkNode, UpdateNode, NextNode
    <2>3. UNCHANGED <<selector, changes>>
      BY <1>10 DEF Release, addLabelOnTheNodeIfNotExist, UnmarkNode, UpdateNode, Follows
    <2> QED
      BY <1>0, <1>u, <2>1, <2>2, <2>3 DEF PassTypeOK
  <1>11. CASE \E l \in LVGs : addLabelOnTheLVGIfNotExist(l)
    <2>1. faults' \in 0 .. MaxFaults
      BY <1>0, <1>f, <1>11 DEF addLabelOnTheLVGIfNotExist
    <2> QED
      BY <1>0, <1>u, <1>11, <2>1 DEF addLabelOnTheLVGIfNotExist, Follows, PassTypeOK
  <1>12. CASE \E l \in LVGs : ClearGroup(l)
    <2>1. PICK l \in LVGs : ClearGroup(l)
      BY <1>12
    <2>2. faults' \in 0 .. MaxFaults
      BY <1>0, <1>f, <2>1 DEF ClearGroup
    <2> DEFINE r == [lvgList[l] EXCEPT !.cand = FALSE]
    <2>3. r \in Group /\ r.there = lvgList[l].there
      BY <1>0, GroupFields
    <2>4. lvgList' = [lvgList EXCEPT ![l] = r]
      BY <2>1 DEF ClearGroup
    <2> HIDE DEF r
    <2>5. lvgList' \in [LVGs -> Group] /\ \A m \in LVGs : lvgList'[m].there = lvgList[m].there
      BY <1>0, <2>3, <2>4
    <2>6. usedLvgs' = usedLvgs
      BY <2>1, <2>5 DEF usedLvgs, ClearGroup
    <2> QED
      BY <1>0, <2>1, <2>2, <2>5, <2>6 DEF ClearGroup, Follows, PassTypeOK
  <1>13. CASE \E c \in LSCs : addLabelOnTheLSCIfNotExist(c)
    <2>1. faults' \in 0 .. MaxFaults
      BY <1>0, <1>f, <1>13 DEF addLabelOnTheLSCIfNotExist, UpdateClass
    <2> QED
      BY <1>0, <1>u, <1>13, <2>1 DEF addLabelOnTheLSCIfNotExist, Follows, PassTypeOK
  <1>14. CASE \E c \in LSCs : ClearClass(c)
    <2>1. faults' \in 0 .. MaxFaults
      BY <1>0, <1>f, <1>14 DEF ClearClass, UpdateClass
    <2> QED
      BY <1>0, <1>u, <1>14, <2>1 DEF ClearClass, Follows, PassTypeOK
  <1>15. CASE ListGroupsToClear
    <2>1. work' \subseteq usedLvgs'
      BY <1>15 DEF ListGroupsToClear, usedLvgs
    <2> QED
      BY <1>0, <1>00, <1>15, <2>1 DEF ListGroupsToClear, Follows, PassTypeOK
  <1>16. CASE ListClassesToClear
    BY <1>0, <1>00, <1>16 DEF ListClassesToClear, Follows, PassTypeOK
  <1> QED
    BY <1>1, <1>2, <1>3, <1>4, <1>5, <1>6, <1>7, <1>8, <1>9, <1>10, <1>11, <1>12, <1>13, <1>14,
       <1>15, <1>16 DEF PassStep

(* Every step keeps the types.                                             *)
LEMMA TypeStep == TypeOK /\ [Next]_vars => TypeOK'
  <1> SUFFICES ASSUME TypeOK, [Next]_vars PROVE TypeOK'
    OBVIOUS
  <1>1. node' \in [Nodes -> Node] /\ lvg' \in [LVGs -> Group] /\ lsc' \in [LSCs -> Class]
    BY NodeStep, GroupStep, ClassStep
  <1>2. cached' \in [node : [Nodes -> Node], lvg : [LVGs -> Group], lsc : [LSCs -> Class]]
    BY CacheStep DEF Cache
  <1>3. matched' \subseteq Nodes /\ busy' \subseteq LVGs
    <2>1. CASE HistoryFollows
      BY <2>1, HistoryMeaning
    <2>2. CASE UNCHANGED history
      BY <2>2, Types
    <2> QED
      BY <2>1, <2>2, Recorded
  <1>4. PassTypeOK
    BY DEF TypeOK, PassTypeOK, PCs, Walking, Leaving
  <1>5. CASE PassStep
    <2>1. PassTypeOK' /\ UNCHANGED <<selector, changes>>
      BY <1>5, PassTypeStep
    <2> QED
      BY <1>1, <1>2, <1>3, <2>1 DEF TypeOK, PassTypeOK, PCs, Walking, Leaving
  <1>6. CASE UserStep
    <2>1. UNCHANGED <<pc, position, lists, work, lscWork, faults>>
      BY <1>6 DEF UserStep, Reselect, Relabel, DeleteClass, WriteClass, GroupComesOrGoes,
         UnmarkByHand, UserChange
    <2>2. changes' \in 0 .. MaxChanges
      <3>1. changes < MaxChanges /\ changes' = changes + 1
        BY <1>6 DEF UserStep, Reselect, Relabel, DeleteClass, WriteClass, GroupComesOrGoes,
           UnmarkByHand, UserChange
      <3>2. changes \in 0 .. MaxChanges
        BY DEF TypeOK
      <3> QED
        BY <3>1, <3>2, WatcherAssumption
    <2>3. selector' \in Zones
      <3>1. \A z \in Zones : Other(z) \in Zones
        BY DEF Other, Zones
      <3>2. selector \in Zones
        BY DEF TypeOK
      <3> QED
        BY <1>6, <3>1, <3>2 DEF UserStep, Reselect, Relabel, DeleteClass, WriteClass, GroupComesOrGoes,
           UnmarkByHand
    <2>4. PassTypeOK'
      BY <1>4, <2>1 DEF PassTypeOK, usedLvgs
    <2> QED
      BY <1>1, <1>2, <1>3, <2>2, <2>3, <2>4 DEF TypeOK, PassTypeOK, PCs, Walking, Leaving
  <1>7. CASE Sync \/ UNCHANGED vars
    <2>1. UNCHANGED <<selector, pc, position, lists, work, lscWork, bounds>>
      BY <1>7 DEF Sync, vars
    <2>2. usedLvgs' = usedLvgs
      BY <2>1 DEF usedLvgs
    <2> QED
      BY <1>1, <1>2, <1>3, <2>1, <2>2 DEF TypeOK
  <1> QED
    BY <1>5, <1>6, <1>7 DEF Next

(* Every variable has its type; what is still to be done for a node is     *)
(* about groups that were listed for it, and nothing of it is left when    *)
(* the pass goes on to the next node.                                      *)
THEOREM TypeCorrect == Spec => []TypeOK
  BY TypeInit, TypeStep, PTL DEF Spec

-----------------------------------------------------------------------------
(* The order of a pass.                                                    *)

(* How a step may move a pass: nobody else does; the walk takes each node  *)
(* out of what is left to do, and the calls for a node follow each other.  *)
Moves ==
    \/ UNCHANGED <<pc, sel, todo, cur, nodeList>>
    \/ pc' = "idle"
    \/ StartPass
    \/ pc \in {"select", "label"} /\ pc' = "label" /\ sel' = sel
    \/ ListAllNodes
    \/ \E n \in Nodes : TakeNode(n)
    \/ /\ pc \in Walking /\ pc' \in Walking
       /\ UNCHANGED <<sel, todo, cur, nodeList>>
       /\ \/ pc' = "walk"
          \/ /\ pc # "walk"
             /\ pc' \in Leaving => pc \in Leaving
             /\ pc' = "groups" => pc = "groups"

(* Every step is one of these; the groups are listed before the classes,   *)
(* and a node is released only after both.                                 *)
LEMMA PlaceStep ==
    ASSUME TypeOK, [Next]_vars
    PROVE  /\ Moves
           /\ pc' = "classes" => ListGroups \/ (pc = "classes" /\ UNCHANGED <<cur, lvgList>>)
           /\ pc' = "release" => ListClasses \/ (pc = "release" /\ UNCHANGED cur)
  <1> USE DEF Walking, Leaving
  <1> DEFINE Goal ==
         /\ Moves
         /\ pc' = "classes" => ListGroups \/ (pc = "classes" /\ UNCHANGED <<cur, lvgList>>)
         /\ pc' = "release" => ListClasses \/ (pc = "release" /\ UNCHANGED cur)
  <1> SUFFICES Goal
    OBVIOUS
  <1>0. pc \in PCs
    BY Types
  <1>1. CASE UserStep \/ Sync \/ UNCHANGED vars
    <2>1. UNCHANGED <<pc, position, lists>>
      BY <1>1 DEF UserStep, Reselect, Relabel, DeleteClass, WriteClass, GroupComesOrGoes,
         UnmarkByHand, UserChange, Sync, vars
    <2> QED
      BY <2>1 DEF Moves
  <1>2. CASE StartPass \/ PassFails \/ PassEnds \/ ListAllNodes
    BY <1>2 DEF StartPass, PassFails, PassEnds, EndPass, ListAllNodes, Moves
  <1>3. CASE getKubernetesNodesBySelector \/ (\E n \in Nodes : LabelNode(n))
    BY <1>3 DEF getKubernetesNodesBySelector, LabelNode, Moves
  <1>4. CASE \E n \in Nodes : TakeNode(n)
    <2>1. pc' \notin {"classes", "release"}
      BY <1>4 DEF TakeNode
    <2> QED
      BY <1>4, <2>1 DEF Moves
  <1>5. CASE ListFails \/ ListGroups \/ ListGroupsToClear \/ ListClassesToClear
    BY <1>5 DEF ListFails, NextNode, ListGroups, ListGroupsToClear, ListClassesToClear, Moves
  <1>6. CASE ListClasses
    <2>1. pc = "classes" /\ pc' \in {"release", "add", "mark"} /\ UNCHANGED <<sel, todo, cur, nodeList>>
      BY <1>6 DEF ListClasses
    <2> QED
      BY <1>6, <2>1 DEF Moves
  <1>7. CASE Release \/ addLabelOnTheNodeIfNotExist \/ UnmarkNode
    <2>1. /\ UNCHANGED <<position, lists>>
          /\ \/ pc \in {"release", "mark", "unmark"} /\ pc' = "walk"
             \/ pc = "mark" /\ pc' = "add"
             \/ pc = "unmark" /\ pc' = "clearGroups"
      BY <1>7 DEF Release, addLabelOnTheNodeIfNotExist, UnmarkNode, UpdateNode, NextNode
    <2> QED
      BY <2>1 DEF Moves
  <1>8. CASE \/ \E l \in LVGs : addLabelOnTheLVGIfNotExist(l) \/ ClearGroup(l)
             \/ \E c \in LSCs : addLabelOnTheLSCIfNotExist(c) \/ ClearClass(c)
    <2>1. pc \in {"add", "clear", "clearLSC"} /\ UNCHANGED <<pc, position, nodeList>>
      BY <1>8 DEF addLabelOnTheLVGIfNotExist, ClearGroup, addLabelOnTheLSCIfNotExist, ClearClass
    <2> QED
      BY <2>1 DEF Moves
  <1> HIDE DEF Goal
  <1> QED
    BY <1>1, <1>2, <1>3, <1>4, <1>5, <1>6, <1>7, <1>8 DEF Next, PassStep

(* What TakeNode does, without its cases: a node gets into the part that   *)
(* may take its label only if it was listed as not matching and labelled.  *)
LEMMA TakeNodeMeaning ==
    ASSUME TypeOK, NEW n \in Nodes, TakeNode(n)
    PROVE  /\ n \in todo /\ cur' = n /\ todo' = todo \ {n} /\ sel' = sel
           /\ pc \in Walking
           /\ pc' \in {"unmark", "clearGroups", "groups", "walk"}
           /\ \A m \in todo : nodeList'[m] = nodeList[m]
           /\ pc' = "groups" => nodeList[n].zone # sel /\ nodeList[n].csi
           /\ UNCHANGED objects
  <1>1. pc \in Walking
    BY DEF TakeNode, NodeDone, Walking, Leaving
  <1>2. \A m \in todo : nodeList'[m] = nodeList[m]
    BY Types DEF TakeNode
  <1> QED
    BY <1>1, <1>2 DEF TakeNode

(* Each node has one turn in a pass.                                       *)
LEMMA TurnStep ==
    ASSUME TypeOK, TurnInv, [Next]_vars
    PROVE  TurnInv'
  <1>1. Moves
    BY PlaceStep
  <1>2. CASE \E n \in Nodes : TakeNode(n)
    BY <1>2, TakeNodeMeaning DEF TurnInv
  <1>3. CASE ~ \E n \in Nodes : TakeNode(n)
    BY <1>1, <1>3 DEF Moves, TurnInv, StartPass, ListAllNodes, Walking, Leaving
  <1> QED
    BY <1>2, <1>3

(* Lists of nodes do not lie about a node that matched all the time.       *)
LEMMA MatchStep ==
    ASSUME TypeOK, HistoryInv, MatchInv, [Next]_vars
    PROVE  MatchInv'
  <1> USE DEF Walking, Leaving
  <1>0. Moves
    BY PlaceStep
  <1>1. /\ pc' # "idle" => \A n \in matched' : node'[n].zone = selector'
        /\ pc' # "idle" /\ pc # "idle" => matched' \subseteq matched
        /\ matched \subseteq Nodes
    BY HistoryStep, Types DEF HistoryInv
  <1>2. selector' = selector \/ (selector' # selector /\ node' = node)
    <2>1. PassStep => selector' = selector
      BY PassTypeStep
    <2>2. Reselect => node' = node
      BY DEF Reselect
    <2> QED
      BY <2>1, <2>2 DEF Next, UserStep, Relabel, DeleteClass, WriteClass, GroupComesOrGoes,
         UnmarkByHand, Sync, vars
  <1>3. CASE pc' = "idle"
    BY <1>3 DEF MatchInv
  <1>4. CASE StartPass
    <2>1. /\ pc = "idle" /\ pc' = "select" /\ sel' = selector /\ selector' = selector /\ node' = node
          /\ cached'.node = node
      BY <1>4, CacheStep DEF StartPass, Caches
    <2> QED
      BY <1>1, <2>1 DEF MatchInv
  <1>5. ASSUME pc # "idle", pc' # "idle", sel' = sel
        PROVE  /\ \A n \in matched' : selector' = sel'
               /\ \A n \in matched' : node[n].zone = sel
    BY <1>1, <1>2, <1>5 DEF HistoryInv, MatchInv
  <1>6. CASE ListAllNodes
    <2>1. /\ pc = "label" /\ pc' = "walk" /\ sel' = sel /\ nodeList' = cached.node
      BY <1>6 DEF ListAllNodes
    <2> QED
      BY <1>1, <1>5, <2>1 DEF MatchInv
  <1>7. CASE \E n \in Nodes : TakeNode(n)
    <2>1. PICK n \in Nodes : TakeNode(n)
      BY <1>7
    <2>2. pc # "idle" /\ pc' # "idle" /\ pc' \notin {"select", "label"} /\ sel' = sel
      BY <2>1, TakeNodeMeaning
    <2>3. \A m \in matched' \cap todo' : nodeList'[m].zone = sel'
      BY <1>1, <2>1, <2>2, TakeNodeMeaning DEF MatchInv
    <2>4. pc' \in Leaving => cur' \notin matched'
      BY <1>1, <2>1, <2>2, TakeNodeMeaning DEF MatchInv
    <2> QED
      BY <1>5, <2>2, <2>3, <2>4 DEF MatchInv
  <1>8. CASE pc \in {"select", "label"} /\ pc' \in {"select", "label"} /\ sel' = sel
    <2>1. cached'.node \in {cached.node, node}
      BY <1>8, CacheStep
    <2> QED
      BY <1>1, <1>5, <1>8, <2>1 DEF MatchInv
  <1>9. CASE /\ pc \in Walking /\ pc' \in Walking
             /\ UNCHANGED <<sel, todo, cur, nodeList>>
             /\ pc' \in Leaving => pc \in Leaving
    BY <1>1, <1>5, <1>9 DEF MatchInv
  <1> QED
    BY <1>0, <1>3, <1>4, <1>6, <1>7, <1>8, <1>9, Types DEF Moves, PCs

(* A listed label of the driver is there until the turn of its node, and   *)
(* in the turn until the node is released.                                 *)
LEMMA LabelStep ==
    ASSUME TypeOK, TurnInv, LabelInv, [Next]_vars
    PROVE  LabelInv'
  <1> USE DEF Walking, Leaving
  <1>0. Moves /\ pc \in PCs
    BY PlaceStep, Types
  <1>1. /\ \A n \in Nodes : node[n].csi =>
              node'[n].csi \/ (n = cur /\ pc = "release" /\ pc' = "walk")
        /\ todo \subseteq Nodes /\ cur \in Nodes
    BY NodeStep, Types
  <1>2. CASE pc' = "idle"
    BY <1>2 DEF LabelInv
  <1>3. CASE StartPass
    <2>1. /\ pc = "idle" /\ pc' = "select" /\ node' = node /\ cached'.node = node
      BY <1>3, CacheStep DEF StartPass
    <2> QED
      BY <2>1 DEF LabelInv
  <1>4. CASE ListAllNodes
    <2>1. pc = "label" /\ pc' = "walk" /\ nodeList' = cached.node /\ todo' = Nodes
      BY <1>4 DEF ListAllNodes
    <2> QED
      BY <1>1, <2>1 DEF LabelInv
  <1>5. CASE \E n \in Nodes : TakeNode(n)
    <2>1. PICK n \in Nodes : TakeNode(n)
      BY <1>5
    <2>2. node' = node /\ pc' \notin {"select", "label"}
      BY <2>1, TakeNodeMeaning
    <2>3. \A m \in todo' : nodeList'[m].csi => node'[m].csi
      BY <2>1, <2>2, TakeNodeMeaning DEF LabelInv
    <2>4. pc' \in Leaving => node'[cur'].csi
      BY <2>1, <2>2, TakeNodeMeaning DEF LabelInv
    <2> QED
      BY <2>2, <2>3, <2>4 DEF LabelInv
  <1>6. CASE pc \in {"select", "label"} /\ pc' \in {"select", "label"}
    <2>1. cached'.node \in {cached.node, node}
      BY <1>6, CacheStep
    <2> QED
      BY <1>1, <1>6, <2>1 DEF LabelInv
  <1>7. CASE /\ pc \in Walking /\ pc' \in Walking
             /\ UNCHANGED <<todo, cur, nodeList>>
             /\ pc' \in Leaving => pc \in Leaving
    <2>1. \A n \in todo' : nodeList'[n].csi => node'[n].csi
      BY <1>1, <1>7 DEF LabelInv, TurnInv
    <2>2. pc' \in Leaving => node'[cur'].csi
      BY <1>1, <1>7 DEF LabelInv
    <2> QED
      BY <1>7, <2>1, <2>2 DEF LabelInv
  <1> QED
    BY <1>0, <1>2, <1>3, <1>4, <1>5, <1>6, <1>7 DEF Moves, PCs

(* A mark on a group stays known to the pass until the turn of its node is *)
(* decided; when the node is to be released, there is none.                *)
LEMMA CandStep ==
    ASSUME TypeOK, TurnInv, CandInv, [Next]_vars
    PROVE  CandInv'
  <1> USE DEF Walking, Leaving
  <1>0. Moves /\ pc \in PCs
    BY PlaceStep, Types
  <1>1. \A l \in LVGs : lvg'[l].cand =>
           \/ lvg[l].cand /\ lvg'[l].there = lvg[l].there
           \/ pc = "add" /\ pc' = "add" /\ Home[l] = cur /\ lvg'[l].there /\ UNCHANGED <<node, cur, todo>>
    BY GroupStep
  <1>2. /\ pc' # "idle" /\ pc # "idle" => cached'.lvg = cached.lvg \/ (cached'.lvg = lvg /\ lvg' = lvg)
        /\ pc' # "idle" /\ pc = "idle" => pc' = "select" /\ cached'.lvg = lvg /\ lvg' = lvg
        /\ pc' = "idle" /\ pc # "idle" => cached' = NothingCached
        /\ pc' = "idle" /\ pc = "idle" => cached' = cached
    BY CacheStep
  <1>3. \A l \in LVGs : lvg'[l].cand => lvg'[l].there
    BY <1>1 DEF CandInv
  <1>4. \A l \in LVGs : cached'.lvg[l].cand => cached'.lvg[l].there
    <2>1. \A l \in LVGs : ~ NothingCached.lvg[l].cand
      BY DEF NothingCached, NoGroups
    <2> QED
      BY <1>2, <2>1 DEF CandInv
  <1>5. ASSUME NEW l \in LVGs, Ahead(l)', pc # "idle" PROVE Ahead(l)
    <2>1. CASE \E n \in Nodes : TakeNode(n)
      <3>1. PICK n \in Nodes : TakeNode(n)
        BY <2>1
      <3> QED
        BY <1>5, <3>1, TakeNodeMeaning DEF Ahead
    <2>2. CASE ListAllNodes
      BY <2>2 DEF Ahead, ListAllNodes
    <2>3. CASE StartPass \/ pc' = "idle"
      BY <1>5, <2>3 DEF Ahead, StartPass
    <2> QED
      BY <1>0, <1>5, <2>1, <2>2, <2>3 DEF Moves, Ahead
  <1>6. ASSUME NEW l \in LVGs, Ahead(l)', lvg'[l].cand PROVE cached'.lvg[l].cand
    <2>1. pc' # "idle"
      BY <1>6 DEF Ahead
    <2>2. lvg[l].cand
      <3>1. ~ (pc = "add" /\ pc' = "add" /\ Home[l] = cur /\ UNCHANGED <<cur, todo>>)
        BY <1>6 DEF Ahead, TurnInv
      <3> QED
        BY <1>1, <1>6, <3>1
    <2> QED
      BY <1>2, <1>5, <1>6, <2>1, <2>2 DEF CandInv
  <1>7. ASSUME NEW l \in LVGs, pc' = "classes", Home[l] = cur', lvg'[l].cand
        PROVE  lvgList'[l].cand /\ lvgList'[l].there
    <2>1. lvg[l].cand
      BY <1>1, <1>7
    <2>2. CASE ListGroups
      <3>1. pc = "groups" /\ cur' = cur /\ lvgList' = cached.lvg
        BY <2>2 DEF ListGroups
      <3> QED
        BY <1>7, <2>1, <3>1 DEF CandInv, Ahead
    <2>3. CASE pc = "classes" /\ UNCHANGED <<cur, lvgList>>
      BY <1>7, <2>1, <2>3 DEF CandInv
    <2> QED
      BY <1>7, <2>2, <2>3, PlaceStep
  <1>8. ASSUME NEW l \in LVGs, pc' = "release", Home[l] = cur', lvg'[l].cand PROVE FALSE
    <2>1. lvg[l].cand
      BY <1>1, <1>8
    <2>2. CASE ListClasses
      <3>1. pc = "classes" /\ cur' = cur /\ unhealthyLvgs(cached.lsc) = {}
        BY <1>8, <2>2 DEF ListClasses
      <3>2. lvgList[l].cand /\ lvgList[l].there
        BY <1>8, <2>1, <3>1 DEF CandInv
      <3> QED
        BY <1>8, <3>1, <3>2 DEF unhealthyLvgs, usedLvgs
    <2>3. CASE pc = "release" /\ UNCHANGED cur
      BY <1>8, <2>1, <2>3 DEF CandInv
    <2> QED
      BY <1>8, <2>2, <2>3, PlaceStep
  <1> QED
    BY <1>3, <1>4, <1>6, <1>7, <1>8 DEF CandInv

(* A group in use all the time gets into the lists, and the node is not    *)
(* released in spite of it.                                                *)
LEMMA BusyStep ==
    ASSUME TypeOK, HistoryInv, BusyInv, [Next]_vars
    PROVE  BusyInv'
  <1>0. /\ HistoryInv'
        /\ pc' # "idle" /\ pc # "idle" => busy' \subseteq busy
    BY HistoryStep
  <1>00. busy \subseteq LVGs
    BY Types
  <1>1. ASSUME NEW l \in busy', pc' # "idle" PROVE cached'.lvg[l].there /\ Named(cached'.lsc, l)
    <2>1. CASE pc = "idle"
      <3>1. cached'.lvg = lvg' /\ cached'.lsc = lsc'
        BY <1>1, <2>1, CacheStep
      <3>2. lvg'[l].there /\ Named(lsc', l)
        BY <1>0, <1>1 DEF HistoryInv
      <3> QED
        BY <3>1, <3>2
    <2>2. CASE pc # "idle"
      <3>1. /\ l \in busy
            /\ lvg[l].there /\ Named(lsc, l)
            /\ cached.lvg[l].there /\ Named(cached.lsc, l)
        BY <1>0, <1>1, <2>2 DEF HistoryInv, BusyInv
      <3>2. cached'.lvg \in {cached.lvg, lvg} /\ cached'.lsc \in {cached.lsc, lsc}
        BY <1>1, <2>2, CacheStep
      <3> QED
        BY <3>1, <3>2
    <2> QED
      BY <2>1, <2>2
  <1>2. ASSUME NEW l \in busy', pc' = "classes" PROVE lvgList'[l].there
    <2>1. CASE ListGroups
      <3>1. pc = "groups" /\ lvgList' = cached.lvg
        BY <2>1 DEF ListGroups
      <3> QED
        BY <1>0, <1>2, <3>1 DEF BusyInv
    <2>2. CASE pc = "classes" /\ UNCHANGED <<cur, lvgList>>
      BY <1>0, <1>2, <2>2 DEF BusyInv
    <2> QED
      BY <1>2, <2>1, <2>2, PlaceStep
  <1>3. ASSUME NEW l \in busy', pc' = "release" PROVE Home[l] # cur'
    <2>1. CASE ListClasses
      <3>1. pc = "classes" /\ cur' = cur /\ unhealthyLvgs(cached.lsc) = {}
        BY <1>3, <2>1 DEF ListClasses
      <3>2. l \in LVGs /\ lvgList[l].there /\ Named(cached.lsc, l)
        BY <1>0, <1>00, <1>3, <3>1 DEF BusyInv
      <3> QED
        BY <3>1, <3>2 DEF unhealthyLvgs, usedLvgs, Named
    <2>2. CASE pc = "release" /\ UNCHANGED cur
      BY <1>0, <1>3, <2>2 DEF BusyInv
    <2> QED
      BY <1>3, <2>1, <2>2, PlaceStep
  <1>4. \A l \in busy' : pc' # "idle" => cached'.lvg[l].there /\ Named(cached'.lsc, l)
    BY <1>1
  <1> QED
    BY <1>2, <1>3, <1>4 DEF BusyInv

(* A marked group keeps its node managed.                                  *)
LEMMA MarkedStep ==
    ASSUME TypeOK, LabelInv, CandInv, MarkedIsManaged, [Next]_vars
    PROVE  MarkedIsManaged'
  <1> SUFFICES ASSUME NEW l \in LVGs, lvg'[l].cand PROVE node'[Home[l]].csi
    BY DEF MarkedIsManaged
  <1>0. Home[l] \in Nodes
    BY WatcherAssumption
  <1>1. CASE lvg[l].cand
    <2>1. node[Home[l]].csi
      BY <1>1 DEF MarkedIsManaged
    <2>2. ~ (Home[l] = cur /\ pc = "release")
      BY <1>1 DEF CandInv
    <2> QED
      BY <1>0, <2>1, <2>2, NodeStep
  <1>2. CASE pc = "add" /\ Home[l] = cur /\ UNCHANGED node
    BY <1>2 DEF LabelInv, Leaving
  <1> QED
    BY <1>1, <1>2, GroupStep

(* Before the first pass nothing is listed and nothing is marked.          *)
LEMMA WatchInvInit == Init => WatchInv
  <1> SUFFICES ASSUME Init PROVE WatchInv
    OBVIOUS
  <1> USE DEF Walking, Leaving
  <1>1. pc = "idle" /\ matched = {} /\ busy = {} /\ \A l \in LVGs : ~ lvg[l].cand
    BY DEF Init
  <1>2. \A l \in LVGs : ~ cached.lvg[l].cand
    BY DEF Init, NothingCached, NoGroups
  <1> QED
    BY <1>1, <1>2, TypeInit
       DEF WatchInv, TurnInv, HistoryInv, MatchInv, LabelInv, CandInv, Ahead, BusyInv, MarkedIsManaged

(* Every List, Update, user's change and cache event keeps WatchInv.       *)
LEMMA WatchInvStep == WatchInv /\ [Next]_vars => WatchInv'
  <1> SUFFICES ASSUME WatchInv, [Next]_vars PROVE WatchInv'
    OBVIOUS
  <1>1. TypeOK /\ TurnInv /\ HistoryInv /\ MatchInv /\ LabelInv /\ CandInv /\ BusyInv /\ MarkedIsManaged
    BY DEF WatchInv
  <1> QED
    BY <1>1, TypeStep, TurnStep, HistoryStep, MatchStep, LabelStep, CandStep, BusyStep, MarkedStep
       DEF WatchInv

(* WatchInv holds in every reachable state.                                *)
THEOREM WatchInvariant == Spec => []WatchInv
  BY WatchInvInit, WatchInvStep, PTL DEF Spec

(* A group that is marked for eviction by hand is never forgotten: its     *)
(* node keeps the driver's label until the mark is gone, although          *)
(* getManuallyEvictedLVGsAndLSCs works on lists that may be behind.        *)
THEOREM MarkedStaysManaged == Spec => []MarkedIsManaged
  <1>1. WatchInv => MarkedIsManaged
    BY DEF WatchInv
  <1> QED
    BY <1>1, WatchInvariant, PTL

(* reconcileLocalCSILabels takes the driver's label off no node that       *)
(* matched the selector, or had a group some class named, all through the  *)
(* pass.                                                                   *)
THEOREM UsedStaysLabelled == Spec => UsedKeepsLabel
  <1> DEFINE A == \A n \in Nodes : node[n].csi /\ ~ node'[n].csi =>
                     n \notin matched /\ \A l \in busy : Home[l] # n
  <1>1. WatchInv /\ [Next]_vars => [A]_vars
    <2> SUFFICES ASSUME WatchInv, [Next]_vars, NEW n \in Nodes, node[n].csi, ~ node'[n].csi
                 PROVE  n \notin matched /\ \A l \in busy : Home[l] # n
      OBVIOUS
    <2>1. n = cur /\ pc = "release"
      BY NodeStep DEF WatchInv
    <2> QED
      BY <2>1 DEF WatchInv, MatchInv, BusyInv, Leaving
  <1> QED
    BY <1>1, WatchInvariant, PTL DEF Spec, UsedKeepsLabel
=============================================================================
