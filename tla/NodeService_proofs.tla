------------------------- MODULE NodeService_proofs -------------------------
(***************************************************************************)
(* What the node service of the CSI driver does to the mounts and the file *)
(* system of a volume, for any number of target paths, handler goroutines  *)
(* and faults, and any sizes: in four parts, the types, the node service   *)
(* by itself, the node service with the kubelet that calls it, and the     *)
(* promise of NodeVolume that the two keep together.                       *)
(***************************************************************************)
EXTENDS NodeService, SequenceTheorems, TLAPS

USE DEF nodeVars, kubeletVars

-----------------------------------------------------------------------------
(* Mount stacks.                                                           *)

\* A mount made on a path goes on top of the stack.
LEMMA Pushed ==
    ASSUME NEW m \in Mount, NEW s \in Seq(Mount)
    PROVE  /\ <<m>> \o s \in Seq(Mount)
           /\ Len(<<m>> \o s) = Len(s) + 1
           /\ <<m>> \o s # <<>>
           /\ Head(<<m>> \o s) = m
           /\ DOMAIN (<<m>> \o s) = 1 .. Len(s) + 1
           /\ (<<m>> \o s)[1] = m
           /\ \A i \in 1 .. Len(s) : (<<m>> \o s)[i + 1] = s[i]
  OBVIOUS

\* An unmount takes the top of a stack off and leaves the rest.
LEMMA Popped ==
    ASSUME NEW s \in Seq(Mount), s # <<>>
    PROVE  /\ Tail(s) \in Seq(Mount)
           /\ Len(Tail(s)) = Len(s) - 1
           /\ DOMAIN Tail(s) = 1 .. Len(s) - 1
           /\ \A i \in 1 .. Len(s) - 1 : Tail(s)[i] = s[i + 1]
           /\ Len(s) <= 1 => Tail(s) = <<>>
  OBVIOUS

\* A remount changes the read-only flag of the top and nothing else.
LEMMA Remounted ==
    ASSUME NEW s \in Seq(Mount), s # <<>>, NEW b \in BOOLEAN
    PROVE  LET r == [s EXCEPT ![1].ro = b]
           IN  /\ r \in Seq(Mount)
               /\ Len(r) = Len(s)
               /\ r # <<>>
               /\ DOMAIN r = DOMAIN s
               /\ Head(r) = [Head(s) EXCEPT !.ro = b]
               /\ \A i \in DOMAIN s : r[i].on = s[i].on
  <1>1. s[1] \in Mount /\ 1 \in DOMAIN s /\ Len(s) \in Nat /\ DOMAIN s = 1 .. Len(s)
    OBVIOUS
  <1>2. [s[1] EXCEPT !.ro = b] \in Mount
    BY <1>1 DEF Mount
  <1> DEFINE r == [s EXCEPT ![1].ro = b]
  <1>3. r = [i \in 1 .. Len(s) |-> IF i = 1 THEN [s[1] EXCEPT !.ro = b] ELSE s[i]]
    BY <1>1
  <1>4. r \in Seq(Mount) /\ Len(r) = Len(s)
    BY <1>1, <1>2, <1>3
  <1> QED
    BY <1>1, <1>2, <1>3, <1>4 DEF Mount

-----------------------------------------------------------------------------
\* A handler goroutine as the model sees it.
Handler == [op : Ops \cup {"none"}, path : Paths, at : Steps, size : 0 .. MaxSize]

\* A goroutine that serves nothing is a handler.
LEMMA IdleType == Idle \in Handler
  BY NodeAssumption DEF Handler, Idle, Ops, Steps, Paths

\* The node starts well typed.
LEMMA TypeInit == Init => TypeOK
  <1> SUFFICES ASSUME Init PROVE TypeOK
    OBVIOUS
  <1>1. call \in [Calls -> Handler]
    BY IdleType DEF Init
  <1>2. mounts \in [Paths -> Seq(Mount)]
    <2>1. <<>> \in Seq(Mount)
      OBVIOUS
    <2> QED
      BY <2>1 DEF Init
  <1>3. /\ fs \in [made : Nat, size : 0 .. MaxSize] /\ dev \in 1 .. MaxSize
        /\ told \in 0 .. MaxSize /\ faults \in 0 .. MaxFaults
    BY NodeAssumption DEF Init
  <1> QED
    BY <1>1, <1>2, <1>3 DEF Init, TypeOK, Handler

\* A handler that goes on to its next step changes nothing but its step.
LEMMA GotoType ==
    ASSUME TypeOK, NEW c \in Calls, NEW s \in Steps, Goto(c, s)
    PROVE  /\ call' \in [Calls -> Handler]
           /\ \A d \in Calls : d # c => call'[d] = call[d]
           /\ call'[c].op = call[c].op /\ call'[c].path = call[c].path
           /\ call'[c].at = s /\ call'[c].size = call[c].size
  <1> DEFINE r == [call[c] EXCEPT !.at = s]
  <1>1. call \in [Calls -> Handler] /\ call[c] \in Handler
    BY DEF TypeOK, Handler
  <1>2. /\ r \in Handler
        /\ r.op = call[c].op /\ r.path = call[c].path /\ r.at = s /\ r.size = call[c].size
    BY <1>1 DEF Handler
  <1>3. call' = [call EXCEPT ![c] = r]
    BY DEF Goto
  <1> HIDE DEF r
  <1> QED
    BY <1>1, <1>2, <1>3

\* A handler that answers frees its goroutine and, if it had registered,
\* the volume's entry of the in-flight registry.
LEMMA AnswerType ==
    ASSUME TypeOK, NEW c \in Calls, Answer(c)
    PROVE  /\ call' \in [Calls -> Handler]
           /\ waiting' \subseteq {d \in Calls : call'[d].op # "none"}
           /\ inFlight' \in BOOLEAN
  <1>1. call' \in [Calls -> Handler]
    BY IdleType DEF TypeOK, Answer, Handler
  <1>2. waiting' \subseteq {d \in Calls : call'[d].op # "none"}
    BY DEF TypeOK, Answer
  <1>3. inFlight' \in BOOLEAN
    BY DEF Answer, Delete
  <1> QED
    BY <1>1, <1>2, <1>3

\* A successful answer is heard, or not, but leaves the kubelet's knowledge
\* and the size it was told well typed.
LEMMA SuccessType ==
    ASSUME TypeOK, NEW c \in Calls, Success(c)
    PROVE  /\ known' \in [Paths -> {"none", "uncertain", "done"}]
           /\ told' \in 0 .. MaxSize
           /\ UNCHANGED <<pod, faults>>
           /\ Answer(c)
  <1>1. call[c].path \in Paths /\ call[c].size \in 0 .. MaxSize
    BY DEF TypeOK
  <1> QED
    BY <1>1 DEF TypeOK, Success

\* What the mount table is after each of the steps that change it.
LEMMA PushEffect ==
    ASSUME TypeOK, NEW p \in Paths, NEW m \in Mount, mounts' = [mounts EXCEPT ![p] = <<m>> \o @]
    PROVE  /\ mounts' \in [Paths -> Seq(Mount)]
           /\ \A q \in Paths : q # p => mounts'[q] = mounts[q]
           /\ mounts'[p] # <<>>
           /\ Len(mounts'[p]) = Len(mounts[p]) + 1
           /\ Head(mounts'[p]) = m
           /\ DOMAIN mounts'[p] = 1 .. Len(mounts[p]) + 1
           /\ mounts'[p][1] = m
           /\ \A i \in 1 .. Len(mounts[p]) : mounts'[p][i + 1] = mounts[p][i]
  <1> DEFINE s == mounts[p]
             r == <<m>> \o s
  <1>1. mounts \in [Paths -> Seq(Mount)] /\ s \in Seq(Mount)
    BY DEF TypeOK
  <1>2. /\ r \in Seq(Mount) /\ Len(r) = Len(s) + 1 /\ r # <<>> /\ Head(r) = m
        /\ DOMAIN r = 1 .. Len(s) + 1 /\ r[1] = m
        /\ \A i \in 1 .. Len(s) : r[i + 1] = s[i]
    BY <1>1, Pushed
  <1>3. mounts' = [mounts EXCEPT ![p] = r]
    OBVIOUS
  <1> HIDE DEF r
  <1>4. mounts'[p] = r /\ mounts' \in [Paths -> Seq(Mount)] /\ \A q \in Paths : q # p => mounts'[q] = mounts[q]
    BY <1>1, <1>2, <1>3
  <1> QED
    BY <1>2, <1>4

\* What Unmount does to the mount table of the node.
LEMMA PopEffect ==
    ASSUME TypeOK, NEW p \in Paths,
           mounts' = [mounts EXCEPT ![p] = IF @ = <<>> THEN @ ELSE Tail(@)]
    PROVE  /\ mounts' \in [Paths -> Seq(Mount)]
           /\ \A q \in Paths : q # p => mounts'[q] = mounts[q]
           /\ Len(mounts[p]) <= 1 => mounts'[p] = <<>>
           /\ mounts[p] = <<>> => mounts'[p] = <<>>
           /\ mounts[p] # <<>> => /\ Len(mounts'[p]) = Len(mounts[p]) - 1
                                  /\ DOMAIN mounts'[p] = 1 .. Len(mounts[p]) - 1
                                  /\ \A i \in 1 .. Len(mounts[p]) - 1 : mounts'[p][i] = mounts[p][i + 1]
  <1> DEFINE s == mounts[p]
             r == IF s = <<>> THEN s ELSE Tail(s)
  <1>1. mounts \in [Paths -> Seq(Mount)] /\ s \in Seq(Mount)
    BY DEF TypeOK
  <1>2. /\ r \in Seq(Mount)
        /\ Len(s) <= 1 => r = <<>>
        /\ s = <<>> => r = <<>>
        /\ s # <<>> => /\ Len(r) = Len(s) - 1
                       /\ DOMAIN r = 1 .. Len(s) - 1
                       /\ \A i \in 1 .. Len(s) - 1 : r[i] = s[i + 1]
    BY <1>1, Popped
  <1>3. mounts' = [mounts EXCEPT ![p] = r]
    OBVIOUS
  <1> HIDE DEF r
  <1>4. mounts'[p] = r /\ mounts' \in [Paths -> Seq(Mount)] /\ \A q \in Paths : q # p => mounts'[q] = mounts[q]
    BY <1>1, <1>2, <1>3
  <1> QED
    BY <1>2, <1>4

\* What Remount does to it: the same stack, with the read-only flag set on
\* its top.
LEMMA RemountEffect ==
    ASSUME TypeOK, NEW c \in Calls, Remount(c)
    PROVE  LET p == call[c].path
           IN  /\ p \in Paths
               /\ mounts' \in [Paths -> Seq(Mount)]
               /\ \A q \in Paths : q # p => mounts'[q] = mounts[q]
               /\ mounts[p] # <<>> /\ mounts'[p] # <<>>
               /\ Len(mounts'[p]) = Len(mounts[p])
               /\ Head(mounts'[p]).on = Head(mounts[p]).on
               /\ p \in ReadOnly => Head(mounts'[p]).ro
               /\ DOMAIN mounts'[p] = DOMAIN mounts[p]
               /\ \A i \in DOMAIN mounts[p] : mounts'[p][i].on = mounts[p][i].on
  <1> DEFINE p == call[c].path
             s == mounts[p]
  <1>1. mounts \in [Paths -> Seq(Mount)] /\ p \in Paths /\ s \in Seq(Mount) /\ s # <<>>
    BY DEF TypeOK, Remount, IsMountPoint
  <1>2. PICK b \in BOOLEAN : b = (p \in ReadOnly)
    <2>1. CASE p \in ReadOnly
      <3>1. TRUE = (p \in ReadOnly)
        BY <2>1
      <3> QED
        BY <3>1
    <2>2. CASE p \notin ReadOnly
      <3>1. FALSE = (p \in ReadOnly)
        BY <2>2
      <3> QED
        BY <3>1
    <2> QED
      BY <2>1, <2>2
  <1> DEFINE r == [s EXCEPT ![1].ro = b]
  <1>3. mounts' = [mounts EXCEPT ![p] = r]
    BY <1>2, Zenon DEF Remount
  <1>4. /\ r \in Seq(Mount) /\ Len(r) = Len(s) /\ r # <<>> /\ DOMAIN r = DOMAIN s
        /\ Head(r) = [Head(s) EXCEPT !.ro = b]
        /\ \A i \in DOMAIN s : r[i].on = s[i].on
    BY <1>1, Remounted
  <1>5. Head(s) \in Mount
    BY <1>1
  <1>6. Head(r).on = Head(s).on /\ Head(r).ro = b
    BY <1>4, <1>5 DEF Mount
  <1> HIDE DEF r
  <1>7. mounts'[p] = r /\ mounts' \in [Paths -> Seq(Mount)] /\ \A q \in Paths : q # p => mounts'[q] = mounts[q]
    BY <1>1, <1>3, <1>4
  <1> QED
    BY <1>1, <1>2, <1>4, <1>6, <1>7

\* Every step of a handler, of the kubelet and of the cluster keeps the
\* types.
LEMMA TypeStep == TypeOK /\ [Next]_vars => TypeOK'
  <1> SUFFICES ASSUME TypeOK, [Next]_vars PROVE TypeOK'
    OBVIOUS
  <1> USE NodeAssumption
  <1>1. ASSUME NEW c \in Calls,
               \/ Enter(c) \/ StageCheck(c) \/ Probe(c) \/ PublishCheck(c)
               \/ UnmountDue(c) \/ ExpandFinds(c)
        PROVE  TypeOK'
    <2>1. PICK s \in Steps : Goto(c, s)
      BY <1>1 DEF Enter, StageCheck, Probe, PublishCheck, UnmountDue, ExpandFinds, StageFinds, Steps
    <2>2. call' \in [Calls -> Handler] /\ \A d \in Calls : call'[d].op = call[d].op
      BY <2>1, GotoType
    <2>3. inFlight' \in BOOLEAN
      BY <1>1 DEF TypeOK, Handler, Enter, StageCheck, Probe, PublishCheck, UnmountDue, ExpandFinds, Insert
    <2>4. UNCHANGED <<nodeVars, waiting, kubeletVars, faults>>
      BY <1>1 DEF Enter, StageCheck, Probe, PublishCheck, UnmountDue, ExpandFinds
    <2> QED
      BY <2>2, <2>3, <2>4 DEF TypeOK, Handler
  <1>2. ASSUME NEW c \in Calls, Mkfs(c) PROVE TypeOK'
    <2>1. call' \in [Calls -> Handler] /\ \A d \in Calls : call'[d].op = call[d].op
      BY <1>2, GotoType DEF Mkfs, Steps
    <2> QED
      BY <1>2, <2>1 DEF TypeOK, Handler, Mkfs
  <1>3. ASSUME NEW c \in Calls, MountDevice(c) \/ Bind(c) PROVE TypeOK'
    <2>1. call' \in [Calls -> Handler] /\ \A d \in Calls : call'[d].op = call[d].op
      BY <1>3, GotoType DEF MountDevice, Bind, Steps
    <2>2. PICK p \in Paths, m \in Mount : mounts' = [mounts EXCEPT ![p] = <<m>> \o @]
      <3>1. call[c].path \in Paths /\ Staging \in Paths
        BY DEF TypeOK, Handler, Paths
      <3>2. [on |-> Source, ro |-> FALSE] \in Mount /\ [on |-> "volume", ro |-> FALSE] \in Mount
        BY DEF Mount, Source
      <3> QED
        BY <1>3, <3>1, <3>2 DEF MountDevice, Bind
    <2>3. mounts' \in [Paths -> Seq(Mount)]
      BY <2>2, PushEffect
    <2> QED
      BY <1>3, <2>1, <2>3 DEF TypeOK, Handler, MountDevice, Bind
  <1>4. ASSUME NEW c \in Calls, Aborted(c) \/ Refused(c) PROVE TypeOK'
    BY <1>4, AnswerType DEF TypeOK, Handler, Aborted, Refused, Error
  <1>5. ASSUME NEW c \in Calls,
               \/ StageBlockSkipped(c) \/ PublishedAlready(c) \/ NotMounted(c)
        PROVE  TypeOK'
    BY <1>5, SuccessType, AnswerType DEF TypeOK, Handler, StageBlockSkipped, PublishedAlready, NotMounted
  <1>6. ASSUME NEW c \in Calls, StageResize(c) \/ ExpandResize(c) PROVE TypeOK'
    <2>1. fs \in [made : Nat, size : 0 .. MaxSize] /\ dev \in 0 .. MaxSize
      BY DEF TypeOK, Handler
    <2>2. fs' \in [made : Nat, size : 0 .. MaxSize]
      <3>1. fs' = [fs EXCEPT !.size = dev]
        BY <1>6 DEF StageResize, ExpandResize, Resized
      <3> QED
        BY <2>1, <3>1
    <2> QED
      BY <1>6, <2>2, SuccessType, AnswerType DEF TypeOK, Handler, StageResize, ExpandResize
  <1>7. ASSUME NEW c \in Calls, Remount(c) PROVE TypeOK'
    <2>2. mounts' \in [Paths -> Seq(Mount)]
      BY <1>7, RemountEffect
    <2> QED
      BY <1>7, <2>2, SuccessType, AnswerType DEF TypeOK, Handler, Remount
  <1>8. ASSUME NEW c \in Calls, Unmount(c) PROVE TypeOK'
    <2>1. call[c].path \in Paths /\ mounts[call[c].path] \in Seq(Mount)
      BY DEF TypeOK, Handler
    <2>2. mounts' \in [Paths -> Seq(Mount)]
      BY <1>8, <2>1, PopEffect DEF Unmount
    <2>3. /\ Answer(c)
          /\ known' \in [Paths -> {"none", "uncertain", "done"}]
          /\ told' \in 0 .. MaxSize
          /\ UNCHANGED <<pod, faults>>
      BY <1>8, SuccessType DEF TypeOK, Handler, Unmount
    <2> QED
      BY <1>8, <2>2, <2>3, AnswerType DEF TypeOK, Handler, Unmount
  <1>9. ASSUME NEW c \in Calls, StepFails(c) PROVE TypeOK'
    BY <1>9, AnswerType DEF TypeOK, Handler, StepFails, Fault
  <1>10. ASSUME NEW c \in Calls, GiveUp(c) PROVE TypeOK'
    BY <1>10 DEF TypeOK, Handler, GiveUp, Fault
  <1>11. ASSUME DriverRestart \/ Reboot PROVE TypeOK'
    <2>1. call' \in [Calls -> Handler] /\ waiting' = {} /\ inFlight' \in BOOLEAN /\ faults' \in 0 .. MaxFaults
      <3>1. call' = [c \in Calls |-> Idle] /\ waiting' = {} /\ inFlight' = FALSE
        BY <1>11 DEF DriverRestart, Reboot, HandlersEnd
      <3>2. faults' \in 0 .. MaxFaults
        BY <1>11 DEF TypeOK, Handler, DriverRestart, Reboot, Fault
      <3> QED
        BY <3>1, <3>2, IdleType
    <2>2. mounts' \in [Paths -> Seq(Mount)] /\ known' \in [Paths -> {"none", "uncertain", "done"}]
      <3>1. <<>> \in Seq(Mount)
        OBVIOUS
      <3>2. CASE DriverRestart
        BY <3>2 DEF TypeOK, Handler, DriverRestart
      <3>3. CASE Reboot
        BY <3>1, <3>3 DEF Reboot
      <3> QED
        BY <1>11, <3>2, <3>3
    <2> QED
      BY <1>11, <2>1, <2>2 DEF TypeOK, Handler, DriverRestart, Reboot
  <1>12. ASSUME NEW t \in Targets, PodComesOrGoes(t) PROVE TypeOK'
    BY <1>12 DEF TypeOK, Handler, PodComesOrGoes
  <1>13. ASSUME DeviceGrows PROVE TypeOK'
    BY <1>13 DEF TypeOK, Handler, DeviceGrows
  <1>14. ASSUME NEW c \in Calls, NEW op \in Ops, NEW p \in Paths, CallDriver(c, op, p) PROVE TypeOK'
    <2>1. [op |-> op, path |-> p, at |-> "begin", size |-> dev]
            \in Handler
      BY DEF TypeOK, Handler, Steps, Handler
    <2>2. call' \in [Calls -> Handler]
      BY <1>14, <2>1 DEF TypeOK, Handler, CallDriver
    <2>3. waiting' \subseteq {d \in Calls : call'[d].op # "none"}
      BY <1>14 DEF TypeOK, Handler, CallDriver, Ops
    <2> QED
      BY <1>14, <2>2, <2>3 DEF TypeOK, Handler, CallDriver
  <1>15. CASE UNCHANGED vars
    BY <1>15 DEF TypeOK, Handler, vars
  <1> QED
    BY <1>1, <1>2, <1>3, <1>4, <1>5, <1>6, <1>7, <1>8, <1>9, <1>10, <1>11, <1>12, <1>13,
       <1>14, <1>15 DEF Next, Progress

\* Whatever the calls, faults and restarts, the state of the node service
\* stays well typed: mount stacks, the in-flight registry and the sizes
\* told.
THEOREM TypeCorrect == Spec => []TypeOK
  BY TypeInit, TypeStep, PTL DEF Spec

-----------------------------------------------------------------------------
(* The node service by itself: the registry and what it protects.          *)

\* A handler and its volume: the staging path goes with stage and unstage,
\* the targets with the others, a block volume is never staged on, and no
\* size is asked for that the device does not have.
ShapeOf(c) ==
    /\ call[c].op = "none" => call[c] = Idle
    /\ call[c].op \in {"stage", "unstage"} => call[c].path = Staging
    /\ call[c].op \in {"publish", "unpublish", "expand"} => call[c].path \in Targets
    /\ block /\ call[c].op = "stage" => call[c].at = "begin"
    /\ call[c].size <= dev

\* All handlers have that shape.
Shape == \A c \in Calls : ShapeOf(c)

\* The registry of internal/inflight.go is a mutual exclusion: a registered
\* handler has the entry, and no two are registered at a time.
Exclusive ==
    /\ \A c \in Calls : Registered(c) => inFlight
    /\ \A c, d \in Calls : Registered(c) /\ Registered(d) => c = d

\* What a handler has checked still holds when it acts on it: nothing
\* mounted between IsLikelyNotMountPoint and the mount, no file system made
\* between the probe and mkfs.
StillSoOf(c) ==
    /\ call[c].op = "stage" /\ call[c].at \in {"probe", "mkfs", "mount"} => mounts[Staging] = <<>>
    /\ At(c, "stage", "mkfs") => fs.made = 0
    /\ At(c, "stage", "mount") => fs.made > 0
    /\ At(c, "publish", "bind") /\ ~ block => mounts[call[c].path] = <<>>

\* That holds of all handlers.
StillSo == \A c \in Calls : StillSoOf(c)

\* The staging path is mounted only with the file system of a filesystem
\* volume.
MountedIsMade ==
    /\ mounts[Staging] # <<>> => ~ block /\ fs.made > 0
    /\ block => fs.made = 0

\* The inductive invariant of the node service alone: mutual exclusion,
\* what it buys a handler between its check and its act, and the properties
\* that follow from it.
NodeInv ==
    /\ TypeOK
    /\ Shape
    /\ Exclusive
    /\ StillSo
    /\ MountedIsMade
    /\ NoStackedMounts
    /\ fs.size <= dev
    /\ SizeHonest

\* The steps of a handler that lead to another step of it.
Moves(c) ==
    \/ StageCheck(c) \/ Probe(c) \/ Mkfs(c) \/ MountDevice(c) \/ PublishCheck(c) \/ Bind(c)
    \/ UnmountDue(c) \/ ExpandFinds(c)

\* The steps of a handler that end it.
Answers(c) ==
    \/ Aborted(c) \/ Refused(c) \/ StageBlockSkipped(c) \/ PublishedAlready(c) \/ NotMounted(c)
    \/ StageResize(c) \/ ExpandResize(c) \/ Remount(c) \/ Unmount(c) \/ StepFails(c)

\* A step that leads on leaves the kubelet's view and the registry alone.
LEMMA MovesTo ==
    ASSUME NEW c \in Calls, Moves(c)
    PROVE  /\ \E s \in Steps \ {"begin"} : Goto(c, s)
           /\ call[c].op \in {"stage", "publish", "unstage", "unpublish", "expand"}
           /\ call[c].op # "expand" => call[c].at # "begin"
           /\ UNCHANGED <<block, dev, inFlight, waiting, kubeletVars, faults>>
  BY DEF Moves, StageCheck, Probe, Mkfs, MountDevice, PublishCheck, Bind, UnmountDue, ExpandFinds,
         StageFinds, At, Undoes, Steps

\* A step that ends a handler answers it, and leaves the volume's mode and
\* device alone.
LEMMA AnswersWith ==
    ASSUME NEW c \in Calls, Answers(c)
    PROVE  Answer(c) /\ UNCHANGED <<block, dev, pod>>
  BY DEF Answers, Aborted, Refused, StageBlockSkipped, PublishedAlready, NotMounted, StageResize,
         ExpandResize, Remount, Unmount, StepFails, Error, Success

\* An answer concerns its own goroutine only.
LEMMA AnswerEffect ==
    ASSUME TypeOK, NEW c \in Calls, Answer(c)
    PROVE  /\ call'[c] = Idle
           /\ \A d \in Calls : d # c => call'[d] = call[d]
           /\ waiting' = waiting \ {c}
           /\ inFlight' = (inFlight /\ ~ Registered(c))
  BY DEF TypeOK, Answer, Delete

\* Insert refuses an entry that is taken and only its holder deletes it, so
\* the exclusion is kept, through a restart too.
LEMMA ExclusiveStep == TypeOK /\ Exclusive /\ [Next]_vars => Exclusive'
  <1> SUFFICES ASSUME TypeOK, Exclusive, [Next]_vars PROVE Exclusive'
    OBVIOUS
  <1>1. ASSUME NEW c \in Calls, Enter(c) PROVE Exclusive'
    <2>1. Goto(c, "check") /\ ~ inFlight /\ inFlight'
      BY <1>1 DEF Enter, Insert
    <2>2. \A d \in Calls : d # c => call'[d] = call[d]
      BY <2>1, GotoType DEF Steps
    <2> QED
      BY <2>1, <2>2 DEF Exclusive, Registered
  <1>2. ASSUME NEW c \in Calls, Moves(c) PROVE Exclusive'
    <2>1. PICK s \in Steps \ {"begin"} : Goto(c, s)
      BY <1>2, MovesTo
    <2>2. /\ \A d \in Calls : d # c => call'[d] = call[d]
          /\ call'[c].op = call[c].op /\ call'[c].at = s
      BY <2>1, GotoType
    <2>3. \A d \in Calls : Registered(d)' => Registered(d)
      BY <1>2, <2>2, MovesTo DEF Registered
    <2>4. inFlight' = inFlight
      BY <1>2, MovesTo
    <2> QED
      BY <2>3, <2>4 DEF Exclusive
  <1>3. ASSUME NEW c \in Calls, Answers(c) PROVE Exclusive'
    <2>1. /\ call'[c] = Idle
          /\ \A d \in Calls : d # c => call'[d] = call[d]
          /\ inFlight' = (inFlight /\ ~ Registered(c))
      BY <1>3, AnswersWith, AnswerEffect
    <2>2. \A d \in Calls : Registered(d)' => d # c /\ Registered(d)
      BY <2>1 DEF Registered, Idle
    <2> QED
      BY <2>1, <2>2 DEF Exclusive
  <1>4. ASSUME NEW c \in Calls, GiveUp(c) PROVE Exclusive'
    BY <1>4 DEF GiveUp, Exclusive, Registered
  <1>5. ASSUME DriverRestart \/ Reboot PROVE Exclusive'
    BY <1>5 DEF DriverRestart, Reboot, HandlersEnd, Exclusive, Registered, Idle
  <1>6. ASSUME NEW t \in Targets, PodComesOrGoes(t) PROVE Exclusive'
    BY <1>6 DEF PodComesOrGoes, Exclusive, Registered
  <1>7. ASSUME DeviceGrows PROVE Exclusive'
    BY <1>7 DEF DeviceGrows, Exclusive, Registered
  <1>8. ASSUME NEW c \in Calls, NEW op \in Ops, NEW p \in Paths, CallDriver(c, op, p) PROVE Exclusive'
    <2>1. \A d \in Calls : Registered(d)' => Registered(d)
      BY <1>8 DEF TypeOK, CallDriver, Registered
    <2> QED
      BY <1>8, <2>1 DEF CallDriver, Exclusive
  <1>9. CASE UNCHANGED vars
    BY <1>9 DEF vars, Exclusive, Registered
  <1> QED
    BY <1>1, <1>2, <1>3, <1>4, <1>5, <1>6, <1>7, <1>8, <1>9 DEF Next, Progress, Moves, Answers
\* A call that was let through has a path that goes with what it does.
LEMMA DuePath ==
    ASSUME NEW op \in Ops, NEW p \in Paths, Due(op, p)
    PROVE  /\ op \in {"stage", "unstage"} => p = Staging
           /\ op \in {"publish", "unpublish", "expand"} => p \in Targets
  <1>1. CASE op = "stage"
    BY <1>1 DEF Due
  <1>2. CASE op = "publish"
    BY <1>2 DEF Due, wanted
  <1>3. CASE op = "unpublish"
    BY <1>3 DEF Due
  <1>4. CASE op = "unstage"
    BY <1>4 DEF Due
  <1>5. CASE op = "expand"
    BY <1>5 DEF Due, wanted
  <1> QED
    BY <1>1, <1>2, <1>3, <1>4, <1>5 DEF Ops

\* Handlers keep their shape: the kubelet asks for what is due, and nothing
\* shrinks a device.
LEMMA ShapeStep == TypeOK /\ Shape /\ [Next]_vars => Shape'
  <1> SUFFICES ASSUME TypeOK, Shape, [Next]_vars, NEW d \in Calls PROVE ShapeOf(d)'
    BY DEF Shape
  <1>0. ShapeOf(d) /\ dev \in Nat /\ call[d].size \in Nat
    BY DEF Shape, TypeOK
  <1>1. ASSUME NEW c \in Calls, Enter(c) PROVE ShapeOf(d)'
    <2>1. Goto(c, "check") /\ call[c].op # "none" /\ ~ (block /\ call[c].op = "stage")
      BY <1>1 DEF Enter, Insert, Guarded
    <2>2. /\ d # c => call'[d] = call[d]
          /\ call'[c].op = call[c].op /\ call'[c].path = call[c].path /\ call'[c].size = call[c].size
      BY <2>1, GotoType DEF Steps
    <2> QED
      BY <1>0, <1>1, <2>1, <2>2 DEF ShapeOf, Enter
  <1>2. ASSUME NEW c \in Calls, Moves(c) PROVE ShapeOf(d)'
    <2>1. PICK s \in Steps \ {"begin"} : Goto(c, s)
      BY <1>2, MovesTo
    <2>2. /\ d # c => call'[d] = call[d]
          /\ call'[c].op = call[c].op /\ call'[c].path = call[c].path /\ call'[c].size = call[c].size
      BY <2>1, GotoType
    <2>3. call[c].op # "none" /\ (call[c].op = "stage" => call[c].at # "begin") /\ UNCHANGED <<block, dev>>
      BY <1>2, MovesTo
    <2> QED
      BY <1>0, <2>2, <2>3 DEF ShapeOf
  <1>3. ASSUME NEW c \in Calls, Answers(c) PROVE ShapeOf(d)'
    <2>1. call'[c] = Idle /\ (d # c => call'[d] = call[d]) /\ UNCHANGED <<block, dev>>
      BY <1>3, AnswersWith, AnswerEffect
    <2> QED
      BY <1>0, <2>1 DEF ShapeOf, Idle
  <1>4. ASSUME NEW c \in Calls, GiveUp(c) PROVE ShapeOf(d)'
    BY <1>0, <1>4 DEF GiveUp, ShapeOf
  <1>5. ASSUME DriverRestart \/ Reboot PROVE ShapeOf(d)'
    <2>1. call'[d] = Idle /\ UNCHANGED <<block, dev>>
      BY <1>5 DEF DriverRestart, Reboot, HandlersEnd
    <2> QED
      BY <1>0, <2>1 DEF ShapeOf, Idle
  <1>6. ASSUME NEW t \in Targets, PodComesOrGoes(t) PROVE ShapeOf(d)'
    BY <1>0, <1>6 DEF PodComesOrGoes, ShapeOf
  <1>7. ASSUME DeviceGrows PROVE ShapeOf(d)'
    BY <1>0, <1>7 DEF DeviceGrows, ShapeOf
  <1>8. ASSUME NEW c \in Calls, NEW op \in Ops, NEW p \in Paths, CallDriver(c, op, p) PROVE ShapeOf(d)'
    <2> DEFINE r == [op |-> op, path |-> p, at |-> "begin", size |-> dev]
    <2>1. r.op = op /\ r.path = p /\ r.at = "begin" /\ r.size = dev
      OBVIOUS
    <2>2. call' = [call EXCEPT ![c] = r] /\ Due(op, p) /\ UNCHANGED <<block, dev>>
      BY <1>8 DEF CallDriver
    <2> HIDE DEF r
    <2>3. call'[d] = IF d = c THEN r ELSE call[d]
      BY <2>2 DEF TypeOK
    <2> QED
      BY <1>0, <2>1, <2>2, <2>3, DuePath DEF ShapeOf, Ops
  <1>9. CASE UNCHANGED vars
    BY <1>0, <1>9 DEF vars, ShapeOf
  <1> QED
    BY <1>1, <1>2, <1>3, <1>4, <1>5, <1>6, <1>7, <1>8, <1>9 DEF Next, Progress, Moves, Answers

\* Whoever mounts, unmounts or makes a filesystem has registered.
LEMMA Undisturbed ==
    ASSUME NEW c \in Calls, Moves(c) \/ Answers(c), fs \in [made : Nat, size : 0 .. MaxSize], ~ Registered(c)
    PROVE  mounts' = mounts /\ fs'.made = fs.made
  <1>1. CASE Moves(c)
    BY <1>1 DEF Moves, StageCheck, Probe, Mkfs, MountDevice, PublishCheck, Bind, UnmountDue, ExpandFinds,
                At, Undoes, Registered
  <1>2. CASE Answers(c)
    BY <1>2 DEF Answers, Aborted, Refused, StageBlockSkipped, PublishedAlready, NotMounted, StageResize,
         ExpandResize, Remount, Unmount, StepFails, Error, Resized, At, Undoes, Registered
  <1> QED
    BY <1>1, <1>2

\* Nobody else mounts, unmounts or formats under a registered handler, so
\* what it checked still holds.
LEMMA StillSoStep == TypeOK /\ Shape /\ Exclusive /\ StillSo /\ [Next]_vars => StillSo'
  <1> SUFFICES ASSUME TypeOK, Shape, Exclusive, StillSo, [Next]_vars, NEW d \in Calls PROVE StillSoOf(d)'
    BY DEF StillSo
  <1>0. StillSoOf(d) /\ call[d].path \in Paths /\ fs \in [made : Nat, size : 0 .. MaxSize]
    BY DEF StillSo, TypeOK
  <1>a. ASSUME mounts' = mounts, fs'.made = fs.made, block' = block, call'[d] = call[d] PROVE StillSoOf(d)'
    BY <1>0, <1>a DEF StillSoOf, At
  <1>b. ASSUME ~ Registered(d)' PROVE StillSoOf(d)'
    BY <1>b DEF StillSoOf, At, Registered
  <1>1. ASSUME NEW c \in Calls, Enter(c) PROVE StillSoOf(d)'
    <2>1. Goto(c, "check") /\ UNCHANGED nodeVars
      BY <1>1 DEF Enter
    <2>2. (d # c => call'[d] = call[d]) /\ call'[c].at = "check"
      BY <2>1, GotoType DEF Steps
    <2> QED
      BY <1>a, <2>1, <2>2 DEF StillSoOf, At
  <1>2. ASSUME NEW c \in Calls, Moves(c) PROVE StillSoOf(d)'
    <2>1. PICK s \in Steps \ {"begin"} : Goto(c, s)
      BY <1>2, MovesTo
    <2>2. /\ d # c => call'[d] = call[d]
          /\ call'[c].op = call[c].op /\ call'[c].path = call[c].path /\ call'[c].at = s
      BY <2>1, GotoType
    <2>3. UNCHANGED block
      BY <1>2, MovesTo
    <2>4. CASE d # c
      <3>1. CASE Registered(d)
        <4>1. ~ Registered(c)
          BY <2>4, <3>1 DEF Exclusive
        <4> QED
          BY <1>0, <1>2, <1>a, <2>2, <2>3, <2>4, <4>1, Undisturbed
      <3>2. CASE ~ Registered(d)
        BY <1>b, <2>2, <2>4, <3>2 DEF Registered
      <3> QED
        BY <3>1, <3>2
    <2>5. CASE d = c
      <3> USE <1>0, <2>2, <2>3, <2>5 DEF StillSoOf, At
      <3>1. ASSUME StageCheck(c) PROVE StillSoOf(d)'
        <4>1. /\ call'[c].at = StageFinds /\ UNCHANGED nodeVars /\ call[c].op = "stage"
          <5>1. StageFinds \in Steps
            BY DEF StageFinds, Steps
          <5> QED
            BY <3>1, <5>1, GotoType DEF StageCheck
        <4> QED
          BY <4>1 DEF StageFinds, IsMountPoint
      <3>2. ASSUME Probe(c) PROVE StillSoOf(d)'
        <4>1. /\ call'[c].at = IF fs.made = 0 THEN "mkfs" ELSE "mount"
              /\ UNCHANGED nodeVars /\ call[c].op = "stage" /\ call[c].at = "probe"
          <5>1. (IF fs.made = 0 THEN "mkfs" ELSE "mount") \in Steps
            BY DEF Steps
          <5> QED
            BY <3>2, <5>1, GotoType DEF Probe
        <4> QED
          BY <4>1
      <3>3. ASSUME Mkfs(c) PROVE StillSoOf(d)'
        <4>1. /\ call'[c].at = "mount" /\ mounts' = mounts /\ fs'.made = fs.made + 1
              /\ call[c].op = "stage" /\ call[c].at = "mkfs"
          BY <3>3, GotoType DEF Mkfs, Steps
        <4> QED
          BY <4>1
      <3>4. ASSUME MountDevice(c) PROVE StillSoOf(d)'
        <4>1. call'[c].at = "resize"
          BY <3>4, GotoType DEF MountDevice, Steps
        <4> QED
          BY <4>1
      <3>5. ASSUME PublishCheck(c) PROVE StillSoOf(d)'
        <4>1. call'[c].at = "bind" /\ UNCHANGED nodeVars /\ (block \/ mounts[call[c].path] = <<>>)
          BY <3>5, GotoType DEF PublishCheck, Steps, IsMountPoint
        <4> QED
          BY <4>1
      <3>6. ASSUME Bind(c) PROVE StillSoOf(d)'
        <4>1. call'[c].at = "remount"
          BY <3>6, GotoType DEF Bind, Steps
        <4> QED
          BY <4>1
      <3>7. ASSUME UnmountDue(c) \/ ExpandFinds(c) PROVE StillSoOf(d)'
        BY <3>7 DEF UnmountDue, ExpandFinds, Undoes
      <3> QED
        BY <1>2, <3>1, <3>2, <3>3, <3>4, <3>5, <3>6, <3>7 DEF Moves
    <2> QED
      BY <2>4, <2>5
  <1>3. ASSUME NEW c \in Calls, Answers(c) PROVE StillSoOf(d)'
    <2>1. call'[c] = Idle /\ (d # c => call'[d] = call[d]) /\ UNCHANGED block
      BY <1>3, AnswersWith, AnswerEffect
    <2>2. CASE d = c
      BY <1>b, <2>1, <2>2 DEF Registered, Idle
    <2>3. CASE d # c /\ Registered(d)
      <3>1. ~ Registered(c)
        BY <2>3 DEF Exclusive
      <3> QED
        BY <1>0, <1>3, <1>a, <2>1, <2>3, <3>1, Undisturbed
    <2>4. CASE d # c /\ ~ Registered(d)
      BY <1>b, <2>1, <2>4 DEF Registered
    <2> QED
      BY <2>2, <2>3, <2>4
  <1>4. ASSUME NEW c \in Calls, GiveUp(c) PROVE StillSoOf(d)'
    BY <1>4, <1>a DEF GiveUp
  <1>5. ASSUME DriverRestart \/ Reboot PROVE StillSoOf(d)'
    BY <1>5, <1>b DEF DriverRestart, Reboot, HandlersEnd, Registered, Idle
  <1>6. ASSUME NEW t \in Targets, PodComesOrGoes(t) PROVE StillSoOf(d)'
    BY <1>6, <1>a DEF PodComesOrGoes
  <1>7. ASSUME DeviceGrows PROVE StillSoOf(d)'
    BY <1>7, <1>a DEF DeviceGrows
  <1>8. ASSUME NEW c \in Calls, NEW op \in Ops, NEW p \in Paths, CallDriver(c, op, p) PROVE StillSoOf(d)'
    <2> DEFINE r == [op |-> op, path |-> p, at |-> "begin", size |-> dev]
    <2>1. r.at = "begin"
      OBVIOUS
    <2>2. call' = [call EXCEPT ![c] = r] /\ UNCHANGED nodeVars
      BY <1>8 DEF CallDriver
    <2> HIDE DEF r
    <2>3. call'[d] = IF d = c THEN r ELSE call[d]
      BY <2>2 DEF TypeOK
    <2> QED
      BY <1>a, <1>b, <2>1, <2>2, <2>3 DEF Registered
  <1>9. CASE UNCHANGED vars
    BY <1>9, <1>a DEF vars
  <1> QED
    BY <1>1, <1>2, <1>3, <1>4, <1>5, <1>6, <1>7, <1>8, <1>9 DEF Next, Progress, Moves, Answers

\* How the mount table changes, action by action.
LEMMA MountCases ==
    ASSUME NEW c \in Calls, Moves(c) \/ Answers(c)
    PROVE  MountDevice(c) \/ Bind(c) \/ Remount(c) \/ Unmount(c) \/ mounts' = mounts
  BY DEF Moves, StageCheck, Probe, Mkfs, PublishCheck, UnmountDue, ExpandFinds,
         Answers, Aborted, Refused, StageBlockSkipped, PublishedAlready, NotMounted, StageResize,
         ExpandResize, StepFails, Error

\* And the filesystem.
LEMMA FsCases ==
    ASSUME NEW c \in Calls, Moves(c) \/ Answers(c), fs \in [made : Nat, size : 0 .. MaxSize]
    PROVE  \/ Mkfs(c)
           \/ fs'.made = fs.made /\ fs'.size = dev
           \/ fs' = fs
  <1>1. CASE Moves(c)
    BY <1>1 DEF Moves, StageCheck, Probe, MountDevice, PublishCheck, Bind, UnmountDue, ExpandFinds
  <1>2. CASE Answers(c)
    BY <1>2 DEF Answers, Aborted, Refused, StageBlockSkipped, PublishedAlready, NotMounted, StageResize,
         ExpandResize, Remount, Unmount, StepFails, Error, Resized
  <1> QED
    BY <1>1, <1>2

\* A path is mounted only when it was found bare, and the staging path only
\* after the file system was made.
LEMMA MountedStep ==
    TypeOK /\ Shape /\ StillSo /\ MountedIsMade /\ NoStackedMounts /\ [Next]_vars
        => (MountedIsMade /\ NoStackedMounts)'
  <1> SUFFICES ASSUME TypeOK, Shape, StillSo, MountedIsMade, NoStackedMounts, [Next]_vars
               PROVE  (MountedIsMade /\ NoStackedMounts)'
    OBVIOUS
  <1>0. /\ Staging \in Paths /\ Staging \notin Targets
        /\ fs \in [made : Nat, size : 0 .. MaxSize]
        /\ mounts \in [Paths -> Seq(Mount)]
        /\ \A p \in Paths : Len(mounts[p]) \in Nat /\ (mounts[p] = <<>> => Len(mounts[p]) = 0)
    BY NodeAssumption DEF TypeOK, Paths
  <1>a. ASSUME UNCHANGED <<block, mounts>>, fs'.made = fs.made PROVE (MountedIsMade /\ NoStackedMounts)'
    BY <1>a DEF MountedIsMade, NoStackedMounts
  <1>1. ASSUME NEW c \in Calls, Moves(c) \/ Answers(c) PROVE (MountedIsMade /\ NoStackedMounts)'
    <2>0. /\ UNCHANGED block /\ ShapeOf(c) /\ StillSoOf(c) /\ call[c].path \in Paths
          /\ fs'.made \in Nat /\ (fs.made > 0 => fs'.made > 0) /\ (~ Mkfs(c) => fs'.made = fs.made)
      <3>1. UNCHANGED block
        BY <1>1, MovesTo, AnswersWith
      <3>2. Mkfs(c) => fs'.made = fs.made + 1
        BY DEF Mkfs
      <3> QED
        BY <1>0, <1>1, <3>1, <3>2, FsCases DEF Shape, StillSo, TypeOK
    <2>1. CASE MountDevice(c)
      <3> DEFINE p == Staging
      <3>1. ~ block /\ mounts[p] = <<>> /\ fs.made > 0 /\ p \in Paths
        BY <1>0, <2>0, <2>1 DEF MountDevice, At, ShapeOf, StillSoOf
      <3>2. [on |-> "volume", ro |-> FALSE] \in Mount
        BY DEF Mount
      <3>3. /\ mounts' \in [Paths -> Seq(Mount)]
            /\ Len(mounts'[p]) = Len(mounts[p]) + 1
            /\ \A q \in Paths : q # p => mounts'[q] = mounts[q]
        BY <1>0, <2>1, <3>2, PushEffect DEF MountDevice
      <3> HIDE DEF p
      <3>4. MountedIsMade'
        BY <2>0, <3>1 DEF MountedIsMade
      <3>5. ~ block /\ Len(mounts'[p]) = 1
        BY <1>0, <3>1, <3>3
      <3>6. \A q \in Paths : Len(mounts'[q]) <= 1
        <4>1. \A q \in Paths : Len(mounts[q]) <= 1
          BY <3>1 DEF NoStackedMounts
        <4> QED
          BY <1>0, <3>3, <3>5, <4>1
      <3> QED
        BY <3>4, <3>6 DEF NoStackedMounts
    <2>2. CASE Bind(c)
      <3> DEFINE p == call[c].path
      <3>1. p \in Targets /\ (~ block => mounts[p] = <<>>)
        BY <2>0, <2>2 DEF Bind, At, ShapeOf, StillSoOf
      <3>2. [on |-> Source, ro |-> FALSE] \in Mount
        BY DEF Mount, Source
      <3>3. /\ Len(mounts'[p]) = Len(mounts[p]) + 1
            /\ \A q \in Paths : q # p => mounts'[q] = mounts[q]
        BY <2>0, <2>2, <3>2, PushEffect DEF Bind
      <3> HIDE DEF p
      <3>4. mounts'[Staging] = mounts[Staging]
        BY <1>0, <3>1, <3>3
      <3>5. fs'.made = fs.made
        BY <2>2 DEF Bind
      <3> QED
        BY <1>0, <2>0, <3>1, <3>3, <3>4, <3>5 DEF MountedIsMade, NoStackedMounts
    <2>3. CASE Remount(c)
      <3> DEFINE p == call[c].path
      <3>1. p \in Targets
        BY <2>0, <2>3 DEF Remount, At, ShapeOf
      <3>2. /\ Len(mounts'[p]) = Len(mounts[p])
            /\ \A q \in Paths : q # p => mounts'[q] = mounts[q]
        BY <2>3, RemountEffect
      <3> HIDE DEF p
      <3>4. mounts'[Staging] = mounts[Staging]
        BY <1>0, <3>1, <3>2
      <3>5. fs'.made = fs.made
        BY <2>3 DEF Remount
      <3> QED
        BY <1>0, <2>0, <3>1, <3>2, <3>4, <3>5 DEF MountedIsMade, NoStackedMounts
    <2>4. CASE Unmount(c)
      <3> DEFINE p == call[c].path
      <3>1. /\ \A q \in Paths : q # p => mounts'[q] = mounts[q]
            /\ Len(mounts[p]) <= 1 => mounts'[p] = <<>>
            /\ mounts[p] = <<>> => mounts'[p] = <<>>
        BY <2>0, <2>4, PopEffect DEF Unmount
      <3> HIDE DEF p
      <3>4. mounts[Staging] = <<>> => mounts'[Staging] = <<>>
        BY <1>0, <3>1
      <3>5. fs'.made = fs.made
        BY <2>4 DEF Unmount
      <3>6. \A q \in Paths : Len(mounts[q]) <= 1 => Len(mounts'[q]) <= 1
        BY <1>0, <3>1
      <3> QED
        BY <1>0, <2>0, <3>4, <3>5, <3>6 DEF MountedIsMade, NoStackedMounts
    <2>5. CASE mounts' = mounts
      <3>1. CASE Mkfs(c)
        <4>1. ~ block /\ fs'.made = fs.made + 1
          BY <2>0, <3>1 DEF Mkfs, At, ShapeOf
        <4> QED
          BY <1>0, <2>0, <2>5, <4>1 DEF MountedIsMade, NoStackedMounts
      <3>2. CASE ~ Mkfs(c)
        BY <1>a, <2>0, <2>5, <3>2
      <3> QED
        BY <3>1, <3>2
    <2> QED
      BY <1>1, <2>1, <2>2, <2>3, <2>4, <2>5, MountCases
  <1>2. ASSUME Reboot PROVE (MountedIsMade /\ NoStackedMounts)'
    <2>1. mounts' = [p \in Paths |-> <<>>] /\ UNCHANGED <<block, fs>>
      BY <1>2 DEF Reboot
    <2>2. \A p \in Paths : mounts'[p] = <<>>
      BY <2>1
    <2> QED
      BY <1>0, <2>1, <2>2 DEF MountedIsMade, NoStackedMounts
  <1>3. ASSUME \/ \E c \in Calls : Enter(c)
               \/ \E c \in Calls : GiveUp(c)
               \/ DriverRestart \/ DeviceGrows \/ UNCHANGED vars
               \/ \E t \in Targets : PodComesOrGoes(t)
               \/ \E c \in Calls, op \in Ops, p \in Paths : CallDriver(c, op, p)
        PROVE (MountedIsMade /\ NoStackedMounts)'
    BY <1>3, <1>a DEF Enter, GiveUp, DriverRestart, DeviceGrows, vars, PodComesOrGoes, CallDriver
  <1> QED
    BY <1>1, <1>2, <1>3 DEF Next, Progress, Moves, Answers

\* What the kubelet takes the size to be.
LEMMA ToldCases ==
    ASSUME TypeOK, NEW c \in Calls, Answers(c)
    PROVE  \/ told' = told
           \/ told' = call[c].size /\ fs'.size = dev
  <1>0. fs \in [made : Nat, size : 0 .. MaxSize]
    BY DEF TypeOK
  <1>1. CASE Aborted(c) \/ Refused(c) \/ StepFails(c)
    BY <1>1 DEF Aborted, Refused, StepFails, Error
  <1>2. CASE StageBlockSkipped(c) \/ PublishedAlready(c) \/ NotMounted(c) \/ Remount(c) \/ Unmount(c)
    <2>1. ~ (call[c].op \in {"stage", "expand"} /\ ~ block)
      BY <1>2 DEF StageBlockSkipped, PublishedAlready, NotMounted, Remount, Unmount, At, Undoes
    <2>2. Success(c) \/ UNCHANGED told
      BY <1>2 DEF StageBlockSkipped, PublishedAlready, NotMounted, Remount, Unmount
    <2> QED
      BY <2>1, <2>2 DEF Success
  <1>3. CASE StageResize(c) \/ ExpandResize(c)
    <2>1. fs'.size = dev
      BY <1>0, <1>3 DEF StageResize, ExpandResize, Resized
    <2> QED
      BY <1>3, <2>1 DEF StageResize, ExpandResize, Success
  <1> QED
    BY <1>1, <1>2, <1>3 DEF Answers

\* The size told to the kubelet is one the file system has, and the file
\* system fits its device.
LEMMA SizeStep ==
    TypeOK /\ Shape /\ fs.size <= dev /\ SizeHonest /\ [Next]_vars => (fs.size <= dev /\ SizeHonest)'
  <1> SUFFICES ASSUME TypeOK, Shape, fs.size <= dev, SizeHonest, [Next]_vars
               PROVE  (fs.size <= dev /\ SizeHonest)'
    OBVIOUS
  <1>0. fs \in [made : Nat, size : 0 .. MaxSize] /\ dev \in Nat /\ told \in Nat /\ fs.size \in Nat
    BY DEF TypeOK
  <1>1. ASSUME NEW c \in Calls, Moves(c) PROVE (fs.size <= dev /\ SizeHonest)'
    <2>1. UNCHANGED <<dev, told>>
      BY <1>1, MovesTo
    <2>2. fs' = fs \/ fs'.size = dev
      BY <1>0, <1>1, FsCases DEF Mkfs
    <2> QED
      BY <1>0, <2>1, <2>2 DEF SizeHonest
  <1>2. ASSUME NEW c \in Calls, Answers(c) PROVE (fs.size <= dev /\ SizeHonest)'
    <2>1. UNCHANGED dev
      BY <1>2, AnswersWith
    <2>2. fs' = fs \/ fs'.size = dev
      BY <1>0, <1>2, FsCases DEF Mkfs
    <2>3. call[c].size <= dev
      BY DEF Shape, ShapeOf
    <2> QED
      BY <1>0, <1>2, <2>1, <2>2, <2>3, ToldCases DEF SizeHonest
  <1>3. ASSUME \/ \E c \in Calls : Enter(c)
               \/ \E c \in Calls : GiveUp(c)
               \/ DriverRestart \/ Reboot \/ DeviceGrows \/ UNCHANGED vars
               \/ \E t \in Targets : PodComesOrGoes(t)
               \/ \E c \in Calls, op \in Ops, p \in Paths : CallDriver(c, op, p)
        PROVE (fs.size <= dev /\ SizeHonest)'
    <2>1. UNCHANGED <<fs, told>> /\ (dev' = dev \/ dev' = dev + 1)
      BY <1>3 DEF Enter, GiveUp, DriverRestart, Reboot, DeviceGrows, vars, PodComesOrGoes, CallDriver
    <2> QED
      BY <1>0, <2>1 DEF SizeHonest
  <1> QED
    BY <1>1, <1>2, <1>3 DEF Next, Progress, Moves, Answers

\* The invariant holds of an empty node.
LEMMA NodeInvInit == Init => NodeInv
  <1> SUFFICES ASSUME Init PROVE NodeInv
    OBVIOUS
  <1>1. \A c \in Calls : call[c] = Idle
    BY DEF Init
  <1>2. Staging \in Paths /\ (\A p \in Paths : mounts[p] = <<>>)
    BY DEF Init, Paths
  <1>3. Shape /\ Exclusive /\ StillSo
    BY <1>1 DEF Shape, ShapeOf, Exclusive, Registered, StillSo, StillSoOf, At, Idle, Init
  <1>4. MountedIsMade /\ NoStackedMounts /\ fs.size <= dev /\ SizeHonest
    BY <1>2 DEF MountedIsMade, NoStackedMounts, SizeHonest, Init
  <1> QED
    BY <1>3, <1>4, TypeInit DEF NodeInv

\* Every step keeps it.
LEMMA NodeInvStep == NodeInv /\ [Next]_vars => NodeInv'
  BY TypeStep, ShapeStep, ExclusiveStep, StillSoStep, MountedStep, SizeStep DEF NodeInv

\* The inductive invariant of the node service holds in every reachable
\* state, late callers included.
THEOREM NodeInvariant == Spec => []NodeInv
  BY NodeInvInit, NodeInvStep, PTL DEF Spec

\* NodeStageVolume and NodePublishVolume never mount over a mount of
\* theirs, whatever calls overlap, time out or are repeated.
THEOREM MountsDoNotStack == Spec => []NoStackedMounts
  BY NodeInvariant, PTL DEF NodeInv

\* A size that NodeExpandVolume or NodeStageVolume answered with is one the
\* file system really has.
THEOREM SizeIsHonest == Spec => []SizeHonest
  BY NodeInvariant, PTL DEF NodeInv

\* Only mkfs makes a file system, and it runs only where the probe found
\* none.
LEMMA MadeOnceStep == NodeInv /\ [Next]_vars => [fs.made > 0 => fs'.made = fs.made]_vars
  <1> SUFFICES ASSUME NodeInv, [Next]_vars, fs.made > 0 PROVE fs'.made = fs.made
    OBVIOUS
  <1>0. fs \in [made : Nat, size : 0 .. MaxSize]
    BY DEF NodeInv, TypeOK
  <1>1. ASSUME NEW c \in Calls, Moves(c) \/ Answers(c) PROVE fs'.made = fs.made
    <2>1. ~ Mkfs(c)
      BY DEF NodeInv, StillSo, StillSoOf, Mkfs
    <2> QED
      BY <1>0, <1>1, <2>1, FsCases
  <1>2. ASSUME \/ \E c \in Calls : Enter(c)
               \/ \E c \in Calls : GiveUp(c)
               \/ DriverRestart \/ Reboot \/ DeviceGrows \/ UNCHANGED vars
               \/ \E t \in Targets : PodComesOrGoes(t)
               \/ \E c \in Calls, op \in Ops, p \in Paths : CallDriver(c, op, p)
        PROVE fs'.made = fs.made
    BY <1>2 DEF Enter, GiveUp, DriverRestart, Reboot, DeviceGrows, vars, PodComesOrGoes, CallDriver
  <1> QED
    BY <1>1, <1>2 DEF Next, Progress, Moves, Answers

\* No sequence of calls, retries and restarts formats a volume that holds a
\* file system.
THEOREM MadeOnce == Spec => NeverReformatted
  BY NodeInvariant, MadeOnceStep, PTL DEF Spec, NeverReformatted

-----------------------------------------------------------------------------
(* The node service and the kubelet: what was answered stays true.         *)

\* A call that may change the mounts of its path.
Live(c) == call[c].op \notin {"none", "expand"} /\ ~ (block /\ call[c].path = Staging)

\* A call that may change mounts has a caller waiting for it, or is
\* registered; and of the calls waited for no two concern one path or the
\* staging path. It fails if a caller may give up on a handler that has not
\* registered yet.
Heard ==
    /\ \A c \in Calls : Live(c) => c \in waiting \/ Registered(c)
    /\ \A c, d \in waiting : c # d =>
         call[c].op = "unpublish" /\ call[d].op = "unpublish" /\ call[c].path # call[d].path

\* While such a call runs, the kubelet takes the path for uncertain.
Uncertain == \A c \in Calls : Live(c) => known[call[c].path] = "uncertain"

\* The kubelet unstages after the last target is unpublished and publishes
\* after staging, and it stays so while the call runs.
Ordered ==
    \A c \in Calls : ~ block =>
        /\ call[c].op = "unstage" => \A t \in Targets : known[t] = "none"
        /\ call[c].op = "publish" => known[Staging] = "done"

\* A target the kubelet takes for unpublished has nothing mounted.
NoneIsBare == \A t \in Targets : known[t] = "none" => mounts[t] = <<>>

\* A target is mounted only over a staged volume.
StagedFirst == \A t \in Targets : mounts[t] # <<>> => block \/ mounts[Staging] # <<>>

\* Every mount shows the volume itself, not what the staging directory held
\* before.
OnVolume == \A p \in Paths : \A i \in DOMAIN mounts[p] : mounts[p][i].on = "volume"

\* The inductive invariant of the node service together with the kubelet
\* that calls it.
KubeletInv ==
    /\ Heard
    /\ Uncertain
    /\ Ordered
    /\ NoneIsBare
    /\ StagedFirst
    /\ OnVolume
    /\ AsAnswered

\* A caller gives up only on a registered handler, and the registry turns
\* away the retries until that one answers.
LEMMA HeardStep ==
    ASSUME ~ Late, TypeOK, Shape, Heard, [Next]_vars
    PROVE  Heard'
  <1>0. waiting \subseteq {c \in Calls : call[c].op # "none"}
    BY DEF TypeOK
  <1>1. ASSUME NEW c \in Calls, Enter(c) PROVE Heard'
    <2>1. Goto(c, "check") /\ UNCHANGED <<block, waiting>>
      BY <1>1 DEF Enter
    <2>2. /\ \A d \in Calls : d # c => call'[d] = call[d]
          /\ call'[c].op = call[c].op /\ call'[c].path = call[c].path /\ call'[c].at = "check"
      BY <2>1, GotoType DEF Steps
    <2>3. \A d \in Calls : Live(d)' => d \in waiting' \/ Registered(d)'
      BY <2>1, <2>2 DEF Heard, Live, Registered
    <2>4. \A d \in Calls : call'[d].op = call[d].op /\ call'[d].path = call[d].path
      BY <2>2
    <2> QED
      BY <1>0, <2>1, <2>3, <2>4 DEF Heard
  <1>2. ASSUME NEW c \in Calls, Moves(c) PROVE Heard'
    <2>1. PICK s \in Steps \ {"begin"} : Goto(c, s)
      BY <1>2, MovesTo
    <2>2. /\ \A d \in Calls : d # c => call'[d] = call[d]
          /\ call'[c].op = call[c].op /\ call'[c].path = call[c].path /\ call'[c].at = s
      BY <2>1, GotoType
    <2>3. UNCHANGED <<block, waiting>>
      BY <1>2, MovesTo
    <2>4. \A d \in Calls : Live(d)' => d \in waiting' \/ Registered(d)'
      BY <2>2, <2>3 DEF Heard, Live, Registered
    <2>5. \A d \in Calls : call'[d].op = call[d].op /\ call'[d].path = call[d].path
      BY <2>2
    <2> QED
      BY <1>0, <2>3, <2>4, <2>5 DEF Heard
  <1>3. ASSUME NEW c \in Calls, Answers(c) PROVE Heard'
    <2>1. /\ call'[c] = Idle /\ \A d \in Calls : d # c => call'[d] = call[d]
          /\ waiting' = waiting \ {c} /\ UNCHANGED block
      BY <1>3, AnswersWith, AnswerEffect
    <2>2. \A d \in Calls : Live(d)' => d \in waiting' \/ Registered(d)'
      BY <2>1 DEF Heard, Live, Registered, Idle
    <2> QED
      BY <1>0, <2>1, <2>2 DEF Heard
  <1>4. ASSUME NEW c \in Calls, GiveUp(c) PROVE Heard'
    <2>1. ~ Guarded(c) \/ Registered(c)
      BY <1>4 DEF GiveUp
    <2>2. UNCHANGED <<block, call>> /\ waiting' = waiting \ {c}
      BY <1>4 DEF GiveUp
    <2>3. ShapeOf(c)
      BY DEF Shape
    <2>4. Live(c) => Registered(c)
      BY <2>1, <2>3 DEF Live, Guarded, ShapeOf
    <2> QED
      BY <2>2, <2>4 DEF Heard, Live, Registered
  <1>5. ASSUME DriverRestart \/ Reboot PROVE Heard'
    <2>1. (\A d \in Calls : call'[d] = Idle) /\ waiting' = {}
      BY <1>5 DEF DriverRestart, Reboot, HandlersEnd
    <2> QED
      BY <2>1 DEF Heard, Live, Idle
  <1>6. ASSUME (\E t \in Targets : PodComesOrGoes(t)) \/ DeviceGrows \/ UNCHANGED vars PROVE Heard'
    BY <1>6 DEF PodComesOrGoes, DeviceGrows, vars, Heard, Live, Registered
  <1>7. ASSUME NEW c \in Calls, NEW op \in Ops, NEW p \in Paths, CallDriver(c, op, p) PROVE Heard'
    <2> DEFINE r == [op |-> op, path |-> p, at |-> "begin", size |-> dev]
    <2>1. r.op = op /\ r.path = p
      OBVIOUS
    <2>2. /\ call' = [call EXCEPT ![c] = r] /\ UNCHANGED block /\ waiting' = waiting \cup {c}
          /\ call[c] = Idle
          /\ \A d \in waiting : op = "unpublish" /\ call[d].op = "unpublish" /\ call[d].path # p
      BY <1>7 DEF CallDriver
    <2> HIDE DEF r
    <2>3. call'[c] = r /\ \A d \in Calls : d # c => call'[d] = call[d]
      BY <2>2 DEF TypeOK
    <2>4. c \notin waiting
      BY <1>0, <2>2 DEF Idle
    <2>5. \A d \in Calls : Live(d)' => d \in waiting' \/ Registered(d)'
      BY <2>2, <2>3 DEF Heard, Live, Registered
    <2>6. ASSUME NEW d \in waiting', NEW e \in waiting', d # e
          PROVE  call'[d].op = "unpublish" /\ call'[e].op = "unpublish" /\ call'[d].path # call'[e].path
      BY <1>0, <2>1, <2>2, <2>3, <2>4, <2>6 DEF Heard
    <2> QED
      BY <2>5, <2>6 DEF Heard
  <1> QED
    BY <1>1, <1>2, <1>3, <1>4, <1>5, <1>6, <1>7 DEF Next, Progress, Moves, Answers

\* What an answer changes of what the kubelet knows.
LEMMA KnownEffect ==
    ASSUME TypeOK, NEW c \in Calls, Answers(c)
    PROVE  \/ known' = known
           \/ /\ c \in waiting /\ Success(c)
              /\ \A q \in Paths : q # call[c].path => known'[q] = known[q]
              /\ \/ call[c].op \in {"stage", "publish"} /\ known'[call[c].path] = "done"
                 \/ call[c].op \in {"unstage", "unpublish"} /\ known'[call[c].path] = "none"
  <1>0. call[c].path \in Paths /\ known \in [Paths -> {"none", "uncertain", "done"}]
    BY DEF TypeOK
  <1>1. Success(c) \/ known' = known
    BY DEF Answers, Aborted, Refused, StageBlockSkipped, PublishedAlready, NotMounted, StageResize,
           ExpandResize, Remount, Unmount, StepFails, Error
  <1>2. CASE Success(c) /\ c \notin waiting
    BY <1>2 DEF Success
  <1>3. CASE Success(c) /\ c \in waiting
    <2>1. CASE call[c].op \in {"stage", "publish"}
      <3>1. known' = [known EXCEPT ![call[c].path] = "done"]
        BY <1>3, <2>1 DEF Success
      <3> QED
        BY <1>0, <1>3, <2>1, <3>1
    <2>2. CASE call[c].op \in {"unstage", "unpublish"}
      <3>1. known' = [known EXCEPT ![call[c].path] = "none"]
        BY <1>3, <2>2 DEF Success
      <3> QED
        BY <1>0, <1>3, <2>2, <3>1
    <2>3. CASE call[c].op \notin {"stage", "publish", "unstage", "unpublish"}
      BY <1>3, <2>3 DEF Success
    <2> QED
      BY <2>1, <2>2, <2>3
  <1> QED
    BY <1>1, <1>2, <1>3

\* Whoever is answered with success and is no expansion, or a raw volume's staging, has registered.
LEMMA SuccessIsRegistered ==
    ASSUME TypeOK, Shape, NEW c \in Calls, Answers(c), known' # known
    PROVE  Registered(c) \/ (block /\ call[c].path = Staging)
  <1>1. ShapeOf(c) /\ Success(c) /\ call[c].op # "expand"
    BY KnownEffect DEF Shape
  <1>2. ~ (Aborted(c) \/ Refused(c) \/ StepFails(c))
    BY DEF Aborted, Refused, StepFails, Error
  <1>3. CASE StageBlockSkipped(c)
    BY <1>1, <1>3 DEF StageBlockSkipped, At, ShapeOf
  <1>4. CASE PublishedAlready(c) \/ NotMounted(c) \/ StageResize(c) \/ Remount(c) \/ Unmount(c)
    BY <1>1, <1>4 DEF PublishedAlready, NotMounted, StageResize, Remount, Unmount, At, Undoes, Registered
  <1>5. ~ ExpandResize(c)
    BY <1>1 DEF ExpandResize, At
  <1> QED
    BY <1>2, <1>3, <1>4, <1>5 DEF Answers

\* A call is made with its path uncertain and in the order of the kubelet,
\* and only the answer to the call changes either.
LEMMA KnownStep ==
    ASSUME TypeOK, Shape, Exclusive, Heard, Uncertain, Ordered, [Next]_vars
    PROVE  (Uncertain /\ Ordered)'
  <1>0. Staging \in Paths /\ Staging \notin Targets /\ Targets \subseteq Paths
    BY NodeAssumption DEF Paths
  <1>a. ASSUME UNCHANGED <<block, known>>,
               \A d \in Calls : call'[d].op # "none" => call'[d].op = call[d].op /\ call'[d].path = call[d].path
        PROVE  (Uncertain /\ Ordered)'
    BY <1>a DEF Uncertain, Ordered, Live
  <1>1. ASSUME NEW c \in Calls, Enter(c) \/ Moves(c) PROVE (Uncertain /\ Ordered)'
    <2>1. PICK s \in Steps \ {"begin"} : Goto(c, s)
      BY <1>1, MovesTo DEF Enter, Steps
    <2>2. \A d \in Calls : call'[d].op = call[d].op /\ call'[d].path = call[d].path
      BY <2>1, GotoType
    <2>3. UNCHANGED <<block, known>>
      BY <1>1, MovesTo DEF Enter
    <2> QED
      BY <1>a, <2>2, <2>3
  <1>2. ASSUME NEW c \in Calls, Answers(c) PROVE (Uncertain /\ Ordered)'
    <2>1. /\ call'[c] = Idle /\ \A d \in Calls : d # c => call'[d] = call[d]
          /\ UNCHANGED block
      BY <1>2, AnswersWith, AnswerEffect
    <2>2. CASE known' = known
      BY <1>a, <2>1, <2>2 DEF Idle
    <2>3. CASE known' # known
      <3> DEFINE p == call[c].path
      <3>1. /\ c \in waiting /\ Success(c)
            /\ \A q \in Paths : q # p => known'[q] = known[q]
            /\ \/ call[c].op \in {"stage", "publish"} /\ known'[p] = "done"
               \/ call[c].op \in {"unstage", "unpublish"} /\ known'[p] = "none"
        BY <1>2, <2>3, KnownEffect
      <3>2. ShapeOf(c) /\ p \in Paths
        BY DEF Shape, TypeOK
      <3>3. Registered(c) \/ (block /\ p = Staging)
        BY <1>2, <2>3, SuccessIsRegistered
      <3>4. ASSUME NEW d \in Calls, d # c, Live(d) PROVE call[d].path # p
        <4>1. CASE d \in waiting
          BY <3>1, <3>4, <4>1 DEF Heard
        <4>2. CASE Registered(d)
          BY <3>3, <3>4, <4>2 DEF Exclusive, Live
        <4> QED
          BY <3>4, <4>1, <4>2 DEF Heard
      <3>5. Uncertain'
        <4> SUFFICES ASSUME NEW d \in Calls, Live(d)' PROVE known'[call'[d].path] = "uncertain"
          BY DEF Uncertain
        <4>1. d # c /\ Live(d) /\ call'[d] = call[d] /\ call[d].path \in Paths
          BY <2>1 DEF Live, Idle, TypeOK
        <4> QED
          BY <3>1, <3>4, <4>1 DEF Uncertain
      <3>6. Ordered'
        <4> SUFFICES ASSUME NEW d \in Calls, ~ block
                     PROVE  /\ call'[d].op = "unstage" => \A t \in Targets : known'[t] = "none"
                            /\ call'[d].op = "publish" => known'[Staging] = "done"
          BY <2>1 DEF Ordered
        <4>1. CASE d = c
          BY <2>1, <4>1 DEF Idle
        <4>2. CASE d # c /\ call[d].op = "unstage"
          <5>1. \A t \in Targets : known[t] = "none"
            BY <4>2 DEF Ordered
          <5>2. known[Staging] = "uncertain"
            BY <4>2 DEF Uncertain, Live, Shape, ShapeOf
          <5>3. call[c].op # "publish"
            BY <5>2 DEF Ordered
          <5> QED
            BY <1>0, <2>1, <3>1, <3>2, <4>2, <5>1, <5>3 DEF ShapeOf
        <4>3. CASE d # c /\ call[d].op = "publish"
          <5>1. known[Staging] = "done"
            BY <4>3 DEF Ordered
          <5>2. p # Staging
            <6>1. Live(c) => known[p] = "uncertain"
              BY DEF Uncertain
            <6> QED
              BY <3>1, <3>2, <5>1, <6>1 DEF Live, ShapeOf
          <5> QED
            BY <1>0, <2>1, <3>1, <4>3, <5>1, <5>2
        <4>4. CASE d # c /\ call[d].op \notin {"unstage", "publish"}
          BY <2>1, <4>4
        <4> QED
          BY <4>1, <4>2, <4>3, <4>4
      <3> QED
        BY <3>5, <3>6
    <2> QED
      BY <2>2, <2>3
  <1>3. ASSUME NEW c \in Calls, GiveUp(c) PROVE (Uncertain /\ Ordered)'
    BY <1>3, <1>a DEF GiveUp
  <1>4. ASSUME DriverRestart \/ Reboot PROVE (Uncertain /\ Ordered)'
    <2>1. \A d \in Calls : call'[d] = Idle
      BY <1>4 DEF DriverRestart, Reboot, HandlersEnd
    <2> QED
      BY <2>1 DEF Uncertain, Ordered, Live, Idle
  <1>5. ASSUME (\E t \in Targets : PodComesOrGoes(t)) \/ DeviceGrows \/ UNCHANGED vars
        PROVE  (Uncertain /\ Ordered)'
    BY <1>5, <1>a DEF PodComesOrGoes, DeviceGrows, vars
  <1>6. ASSUME NEW c \in Calls, NEW op \in Ops, NEW p \in Paths, CallDriver(c, op, p)
        PROVE  (Uncertain /\ Ordered)'
    <2> DEFINE r == [op |-> op, path |-> p, at |-> "begin", size |-> dev]
    <2>1. r.op = op /\ r.path = p
      OBVIOUS
    <2>2. /\ call' = [call EXCEPT ![c] = r] /\ UNCHANGED block /\ Due(op, p)
          /\ call[c] = Idle
          /\ \A d \in waiting : op = "unpublish" /\ call[d].op = "unpublish" /\ call[d].path # p
          /\ known' = IF op = "expand" THEN known ELSE [known EXCEPT ![p] = "uncertain"]
      BY <1>6 DEF CallDriver
    <2> HIDE DEF r
    <2>3. call'[c] = r /\ \A d \in Calls : d # c => call'[d] = call[d]
      BY <2>2 DEF TypeOK
    <2>4. /\ op = "expand" => known' = known
          /\ op # "expand" => known'[p] = "uncertain" /\ \A q \in Paths : q # p => known'[q] = known[q]
      BY <2>2 DEF TypeOK
    <2>5. Uncertain'
      <3> SUFFICES ASSUME NEW d \in Calls, Live(d)' PROVE known'[call'[d].path] = "uncertain"
        BY DEF Uncertain
      <3>1. CASE d = c
        BY <2>1, <2>3, <2>4, <3>1 DEF Live
      <3>2. CASE d # c
        <4>1. Live(d) /\ call'[d] = call[d] /\ call[d].path \in Paths /\ known[call[d].path] = "uncertain"
          BY <2>2, <2>3, <3>2 DEF Live, TypeOK, Uncertain
        <4> QED
          BY <2>4, <4>1
      <3> QED
        BY <3>1, <3>2
    <2>6. Ordered'
      <3> SUFFICES ASSUME NEW d \in Calls, ~ block
                   PROVE  /\ call'[d].op = "unstage" => \A t \in Targets : known'[t] = "none"
                          /\ call'[d].op = "publish" => known'[Staging] = "done"
        BY <2>2 DEF Ordered
      <3>1. ASSUME d = c, op = "unstage" PROVE \A t \in Targets : known'[t] = "none"
        <4>1. p = Staging /\ \A t \in Targets : known[t] = "none"
          BY <2>2, <3>1 DEF Due
        <4> QED
          BY <1>0, <2>4, <3>1, <4>1
      <3>2. ASSUME d = c, op = "publish" PROVE known'[Staging] = "done"
        <4>1. p \in Targets /\ known[Staging] = "done"
          BY <2>2, <3>2 DEF Due, wanted
        <4> QED
          BY <1>0, <2>4, <3>2, <4>1
      <3>3. ASSUME d # c, call[d].op = "unstage" PROVE \A t \in Targets : known'[t] = "none"
        <4>1. \A t \in Targets : known[t] = "none"
          BY <3>3 DEF Ordered
        <4>2. known[Staging] = "uncertain"
          BY <3>3 DEF Uncertain, Live, Shape, ShapeOf
        <4>3. op \notin {"publish", "unpublish"}
          BY <2>2, <4>1, <4>2 DEF Due
        <4> QED
          BY <1>0, <2>2, <2>4, <4>1, <4>3, DuePath DEF Ops
      <3>4. ASSUME d # c, call[d].op = "publish" PROVE known'[Staging] = "done"
        <4>1. known[Staging] = "done"
          BY <3>4 DEF Ordered
        <4>2. known[call[d].path] = "uncertain" /\ call[d].path \in Targets
          <5>1. ShapeOf(d) /\ call[d].path \in Targets
            BY <3>4 DEF Shape, ShapeOf
          <5> QED
            BY <1>0, <3>4, <5>1 DEF Uncertain, Live
        <4>3. op \notin {"stage", "unstage"}
          BY <2>2, <4>1, <4>2 DEF Due
        <4> QED
          BY <1>0, <2>2, <2>4, <4>1, <4>3, DuePath DEF Ops
      <3> QED
        BY <2>1, <2>3, <3>1, <3>2, <3>3, <3>4
    <2> QED
      BY <2>5, <2>6
  <1> QED
    BY <1>1, <1>2, <1>3, <1>4, <1>5, <1>6 DEF Next, Progress, Moves, Answers

\* What is right of one path.
PathOK(p) ==
    /\ p \in Targets /\ known[p] = "none" => mounts[p] = <<>>
    /\ \A i \in DOMAIN mounts[p] : mounts[p][i].on = "volume"
    /\ known[p] = "done" /\ ~ (block /\ p = Staging) =>
         mounts[p] # <<>> /\ (p \in ReadOnly => Head(mounts[p]).ro)

\* The conjuncts that speak of one path at a time, taken together.
LEMMA PathsOK ==
    ASSUME TypeOK
    PROVE  (\A p \in Paths : PathOK(p)) <=> NoneIsBare /\ OnVolume /\ AsAnswered
  <1>1. ASSUME \A p \in Paths : PathOK(p) PROVE NoneIsBare /\ OnVolume /\ AsAnswered
    <2>1. NoneIsBare /\ OnVolume
      BY <1>1 DEF PathOK, NoneIsBare, OnVolume, Paths
    <2>2. ASSUME NEW p \in Paths, mounts[p] # <<>> PROVE Head(mounts[p]).on = "volume"
      <3>1. mounts[p] \in Seq(Mount)
        BY DEF TypeOK
      <3>2. 1 \in DOMAIN mounts[p] /\ Head(mounts[p]) = mounts[p][1]
        BY <2>2, <3>1
      <3> QED
        BY <1>1, <3>2 DEF PathOK
    <2> QED
      BY <1>1, <2>1, <2>2 DEF PathOK, AsAnswered, IsMountPoint, Visible
  <1>2. ASSUME NoneIsBare, OnVolume, AsAnswered, NEW p \in Paths PROVE PathOK(p)
    BY <1>2 DEF PathOK, NoneIsBare, OnVolume, AsAnswered, IsMountPoint, Visible, Paths
  <1> QED
    BY <1>1, <1>2

\* What is right of a path stays right: a mount shows the volume because
\* staging is done, and an answer reports what the handler found or did.
LEMMA PathStep ==
    ASSUME NodeInv, KubeletInv, [Next]_vars, NEW q \in Paths
    PROVE  PathOK(q)'
  <1>0. /\ PathOK(q) /\ TypeOK /\ Shape
        /\ mounts \in [Paths -> Seq(Mount)]
        /\ known \in [Paths -> {"none", "uncertain", "done"}]
        /\ Staging \in Paths /\ Staging \notin Targets /\ Staging \notin ReadOnly /\ Targets \subseteq Paths
    BY PathsOK, NodeAssumption DEF NodeInv, KubeletInv, TypeOK, Paths
  <1>a. ASSUME UNCHANGED block, mounts'[q] = mounts[q], known'[q] = known[q] PROVE PathOK(q)'
    BY <1>0, <1>a DEF PathOK
  <1>b. ASSUME UNCHANGED block, mounts'[q] = mounts[q], known'[q] = "uncertain" PROVE PathOK(q)'
    BY <1>0, <1>b DEF PathOK
  <1>1. ASSUME NEW c \in Calls, Moves(c) PROVE PathOK(q)'
    <2> DEFINE p == call[c].path
    <2>0. UNCHANGED <<block, known>> /\ ShapeOf(c) /\ StillSoOf(c) /\ p \in Paths
      BY <1>0, <1>1, MovesTo DEF Shape, TypeOK, NodeInv, StillSo
    <2>1. ASSUME NEW m \in Mount, NEW o \in Paths, o = p, m.on = "volume", Live(c),
                 mounts' = [mounts EXCEPT ![o] = <<m>> \o @]
          PROVE  PathOK(q)'
      <3>1. known[o] = "uncertain"
        BY <2>1 DEF KubeletInv, Uncertain
      <3>2. /\ \A x \in Paths : x # o => mounts'[x] = mounts[x]
            /\ DOMAIN mounts'[o] = 1 .. Len(mounts[o]) + 1
            /\ mounts'[o][1] = m
            /\ \A i \in 1 .. Len(mounts[o]) : mounts'[o][i + 1] = mounts[o][i]
        BY <1>0, <2>1, PushEffect
      <3>3. CASE q # o
        BY <1>a, <2>0, <3>2, <3>3
      <3>4. CASE q = o
        <4>1. \A i \in DOMAIN mounts'[o] : mounts'[o][i].on = "volume"
          <5>1. DOMAIN mounts[o] = 1 .. Len(mounts[o]) /\ Len(mounts[o]) \in Nat
            BY <1>0
          <5> SUFFICES ASSUME NEW i \in DOMAIN mounts'[o] PROVE mounts'[o][i].on = "volume"
            OBVIOUS
          <5>2. CASE i = 1
            BY <2>1, <3>2, <5>2
          <5>3. CASE i # 1
            <6>1. i - 1 \in 1 .. Len(mounts[o]) /\ i = (i - 1) + 1
              BY <3>2, <5>1, <5>3
            <6>2. mounts'[o][i] = mounts[o][i - 1]
              BY <3>2, <6>1
            <6> QED
              BY <1>0, <3>4, <5>1, <6>1, <6>2 DEF PathOK
          <5> QED
            BY <5>2, <5>3
        <4> QED
          BY <2>0, <3>1, <3>4, <4>1 DEF PathOK
      <3> QED
        BY <3>3, <3>4
    <2>2. CASE MountDevice(c)
      <3>1. p = Staging /\ Live(c)
        BY <2>0, <2>2 DEF MountDevice, At, ShapeOf, Live
      <3> DEFINE m == [on |-> "volume", ro |-> FALSE]
      <3>2. m \in Mount /\ m.on = "volume"
        BY DEF Mount
      <3>3. mounts' = [mounts EXCEPT ![Staging] = <<m>> \o @]
        BY <2>2 DEF MountDevice
      <3> HIDE DEF m, p
      <3> QED
        BY <1>0, <2>1, <3>1, <3>2, <3>3
    <2>3. CASE Bind(c)
      <3>1. p \in Targets /\ Live(c)
        BY <1>0, <2>0, <2>3 DEF Bind, At, ShapeOf, Live
      <3>2. Source = "volume"
        <4>1. CASE ~ block
          <5>1. known[Staging] = "done"
            BY <2>3, <4>1 DEF KubeletInv, Ordered, Bind, At
          <5> QED
            BY <1>0, <4>1, <5>1 DEF KubeletInv, AsAnswered, Source
        <4>2. CASE block
          BY <4>2 DEF Source
        <4> QED
          BY <4>1, <4>2
      <3> DEFINE m == [on |-> Source, ro |-> FALSE]
      <3>3. m \in Mount /\ m.on = "volume"
        BY <3>2 DEF Mount
      <3>4. mounts' = [mounts EXCEPT ![p] = <<m>> \o @]
        BY <2>3 DEF Bind
      <3> HIDE DEF m, p
      <3> QED
        BY <2>0, <2>1, <3>1, <3>3, <3>4
    <2>4. CASE ~ MountDevice(c) /\ ~ Bind(c)
      <3>1. mounts' = mounts
        BY <1>1, <2>4 DEF Moves, StageCheck, Probe, Mkfs, PublishCheck, UnmountDue, ExpandFinds
      <3> QED
        BY <1>a, <2>0, <3>1
    <2> QED
      BY <2>2, <2>3, <2>4
  <1>2. ASSUME NEW c \in Calls, Answers(c) PROVE PathOK(q)'
    <2> DEFINE p == call[c].path
    <2>0. UNCHANGED block /\ ShapeOf(c) /\ p \in Paths /\ (Live(c) => known[p] = "uncertain")
      BY <1>0, <1>2, AnswersWith DEF Shape, TypeOK, KubeletInv, Uncertain
    <2>1. \/ known' = known
          \/ /\ \A x \in Paths : x # p => known'[x] = known[x]
             /\ \/ call[c].op \in {"stage", "publish"} /\ known'[p] = "done"
                \/ call[c].op \in {"unstage", "unpublish"} /\ known'[p] = "none"
      BY <1>0, <1>2, KnownEffect
    <2>2. CASE Remount(c)
      <3>1. /\ \A x \in Paths : x # p => mounts'[x] = mounts[x]
            /\ mounts'[p] # <<>>
            /\ p \in ReadOnly => Head(mounts'[p]).ro
            /\ DOMAIN mounts'[p] = DOMAIN mounts[p]
            /\ \A i \in DOMAIN mounts[p] : mounts'[p][i].on = mounts[p][i].on
        BY <1>0, <2>2, RemountEffect
      <3>2. call[c].op = "publish" /\ p \in Targets
        BY <2>0, <2>2 DEF Remount, At, ShapeOf
      <3>3. known[p] = "uncertain"
        BY <1>0, <2>0, <3>2 DEF Live
      <3> HIDE DEF p
      <3>4. CASE q # p
        BY <1>a, <2>0, <2>1, <3>1, <3>4
      <3>5. CASE q = p
        <4>1. known'[p] # "none"
          BY <2>1, <3>2, <3>3
        <4> QED
          BY <1>0, <3>1, <3>5, <4>1 DEF PathOK
      <3> QED
        BY <3>4, <3>5
    <2>3. CASE Unmount(c)
      <3>0. Undoes(c, "umount")
        BY <2>3 DEF Unmount
      <3>1. /\ \A x \in Paths : x # p => mounts'[x] = mounts[x]
            /\ Len(mounts[p]) <= 1 => mounts'[p] = <<>>
            /\ mounts[p] = <<>> => mounts'[p] = <<>>
            /\ mounts[p] # <<>> => /\ DOMAIN mounts'[p] = 1 .. Len(mounts[p]) - 1
                                   /\ \A i \in 1 .. Len(mounts[p]) - 1 : mounts'[p][i] = mounts[p][i + 1]
        BY <1>0, <2>0, <2>3, PopEffect DEF Unmount
      <3>2. Len(mounts[p]) > 1 => known' = known
        BY <2>3 DEF Unmount, Uncovered
      <3>3. (block /\ p = Staging) \/ known[p] = "uncertain"
        BY <2>0, <3>0 DEF Undoes, Live
      <3>4. known'[p] = "none" \/ known'[p] = known[p]
        BY <2>1, <3>0 DEF Undoes
      <3>5. Len(mounts[p]) \in Nat /\ DOMAIN mounts[p] = 1 .. Len(mounts[p])
        BY <1>0, <2>0
      <3> HIDE DEF p
      <3>6. CASE q # p
        BY <1>a, <2>0, <2>1, <3>1, <3>6
      <3>7. CASE q = p
        <4>1. \A i \in DOMAIN mounts'[p] : mounts'[p][i].on = "volume"
          <5>1. CASE mounts[p] = <<>>
            BY <1>0, <3>1, <3>7, <5>1 DEF PathOK
          <5>2. CASE mounts[p] # <<>>
            <6> SUFFICES ASSUME NEW i \in DOMAIN mounts'[p] PROVE mounts'[p][i].on = "volume"
              OBVIOUS
            <6>1. i + 1 \in DOMAIN mounts[p] /\ mounts'[p][i] = mounts[p][i + 1]
              BY <3>1, <3>5, <5>2
            <6> QED
              BY <1>0, <3>7, <6>1 DEF PathOK
          <5> QED
            BY <5>1, <5>2
        <4>2. q \in Targets /\ known'[q] = "none" => mounts'[q] = <<>>
          <5>1. CASE Len(mounts[p]) <= 1
            BY <3>1, <3>7, <5>1
          <5>2. CASE Len(mounts[p]) > 1
            BY <1>0, <3>2, <3>3, <3>7, <5>2
          <5> QED
            BY <3>5, <5>1, <5>2
        <4>3. ~ (known'[q] = "done" /\ ~ (block /\ q = Staging))
          BY <3>3, <3>4, <3>7
        <4> QED
          BY <2>0, <3>7, <4>1, <4>2, <4>3 DEF PathOK
      <3> QED
        BY <3>6, <3>7
    <2>4. CASE ~ Remount(c) /\ ~ Unmount(c)
      <3>1. mounts' = mounts
        BY <1>2, <2>4 DEF Answers, Aborted, Refused, StageBlockSkipped, PublishedAlready, NotMounted,
                          StageResize, ExpandResize, StepFails, Error
      <3>2. CASE known' = known
        BY <1>a, <2>0, <3>1, <3>2
      <3>3. CASE known' # known
        <4>0. Success(c) /\ call[c].op # "expand"
          BY <1>0, <1>2, <3>3, KnownEffect
        <4>1. ~ (Aborted(c) \/ Refused(c) \/ StepFails(c)) /\ ~ ExpandResize(c)
          BY <3>3, <4>0 DEF Aborted, Refused, StepFails, Error, ExpandResize, At
        <4>2. CASE q # p
          BY <1>a, <2>0, <2>1, <3>1, <4>2
        <4>3. CASE q = p /\ StageBlockSkipped(c)
          <5>1. block /\ p = Staging
            BY <2>0, <4>3 DEF StageBlockSkipped, At, ShapeOf
          <5> QED
            BY <1>0, <2>0, <3>1, <4>3, <5>1 DEF PathOK
        <4>4. CASE q = p /\ StageResize(c)
          <5>1. p = Staging /\ mounts[p] # <<>>
            BY <2>0, <4>4 DEF StageResize, At, ShapeOf, IsMountPoint
          <5> QED
            BY <1>0, <2>0, <3>1, <4>4, <5>1 DEF PathOK
        <4>5. CASE q = p /\ PublishedAlready(c)
          <5>1. call[c].op = "publish" /\ mounts[p] # <<>> /\ (p \in ReadOnly => Head(mounts[p]).ro)
            BY <4>5 DEF PublishedAlready, At, IsMountPoint, checkMount, Visible
          <5>2. known'[p] = "done"
            BY <2>1, <3>3, <5>1
          <5> QED
            BY <1>0, <2>0, <3>1, <4>5, <5>1, <5>2 DEF PathOK
        <4>6. CASE q = p /\ NotMounted(c)
          <5>1. call[c].op \in {"unstage", "unpublish"} /\ mounts[p] = <<>>
            BY <4>6 DEF NotMounted, Undoes, IsMountPoint
          <5>2. known'[p] = "none"
            BY <2>1, <3>3, <5>1
          <5> QED
            BY <1>0, <2>0, <3>1, <4>6, <5>1, <5>2 DEF PathOK
        <4> QED
          BY <1>2, <2>4, <4>1, <4>2, <4>3, <4>4, <4>5, <4>6 DEF Answers
      <3> QED
        BY <3>2, <3>3
    <2> QED
      BY <2>2, <2>3, <2>4
  <1>3. ASSUME Reboot PROVE PathOK(q)'
    <2>1. mounts'[q] = <<>> /\ known'[q] = "none"
      BY <1>3 DEF Reboot
    <2> QED
      BY <2>1 DEF PathOK
  <1>4. ASSUME \/ \E c \in Calls : Enter(c)
               \/ \E c \in Calls : GiveUp(c)
               \/ DriverRestart \/ DeviceGrows \/ UNCHANGED vars
               \/ \E t \in Targets : PodComesOrGoes(t)
        PROVE  PathOK(q)'
    BY <1>4, <1>a DEF Enter, GiveUp, DriverRestart, DeviceGrows, vars, PodComesOrGoes
  <1>5. ASSUME NEW c \in Calls, NEW op \in Ops, NEW p \in Paths, CallDriver(c, op, p) PROVE PathOK(q)'
    <2>1. UNCHANGED <<block, mounts>> /\ (known'[q] = known[q] \/ known'[q] = "uncertain")
      BY <1>0, <1>5 DEF CallDriver
    <2> QED
      BY <1>a, <1>b, <2>1
  <1> QED
    BY <1>1, <1>2, <1>3, <1>4, <1>5 DEF Next, Progress, Moves, Answers

\* Unstage runs when no target is mounted any more.
LEMMA StagedFirstStep == NodeInv /\ KubeletInv /\ [Next]_vars => StagedFirst'
  <1> SUFFICES ASSUME NodeInv, KubeletInv, [Next]_vars PROVE StagedFirst'
    OBVIOUS
  <1>0. /\ TypeOK /\ Shape /\ StagedFirst /\ Staging \in Paths /\ Staging \notin Targets /\ Targets \subseteq Paths
        /\ mounts \in [Paths -> Seq(Mount)]
    BY NodeAssumption DEF NodeInv, KubeletInv, Paths, TypeOK
  <1>a. ASSUME UNCHANGED <<block, mounts>> PROVE StagedFirst'
    BY <1>0, <1>a DEF StagedFirst
  <1>1. ASSUME NEW c \in Calls, Moves(c) \/ Answers(c) PROVE StagedFirst'
    <2> DEFINE p == call[c].path
    <2>0. UNCHANGED block /\ ShapeOf(c) /\ p \in Paths
      BY <1>0, <1>1, MovesTo, AnswersWith DEF Shape, TypeOK
    <2>1. CASE MountDevice(c)
      <3>1. [on |-> "volume", ro |-> FALSE] \in Mount
        BY DEF Mount
      <3>2. mounts'[Staging] # <<>>
        BY <1>0, <2>1, <3>1, PushEffect DEF MountDevice
      <3> QED
        BY <3>2 DEF StagedFirst
    <2>2. CASE Bind(c)
      <3>1. p \in Targets /\ (block \/ mounts[Staging] # <<>>)
        <4>1. ~ block => known[Staging] = "done"
          BY <2>2 DEF KubeletInv, Ordered, Bind, At
        <4> QED
          BY <1>0, <2>0, <2>2, <4>1 DEF KubeletInv, AsAnswered, IsMountPoint, Bind, At, ShapeOf
      <3>2. [on |-> Source, ro |-> FALSE] \in Mount
        BY DEF Mount, Source
      <3>3. \A x \in Paths : x # p => mounts'[x] = mounts[x]
        BY <1>0, <2>0, <2>2, <3>2, PushEffect DEF Bind
      <3> HIDE DEF p
      <3>4. mounts'[Staging] = mounts[Staging]
        BY <1>0, <3>1, <3>3
      <3> QED
        BY <2>0, <3>1, <3>4 DEF StagedFirst
    <2>3. CASE Remount(c)
      <3>1. p \in Targets /\ mounts[p] # <<>> /\ \A x \in Paths : x # p => mounts'[x] = mounts[x]
        BY <1>0, <2>0, <2>3, RemountEffect DEF Remount, At, ShapeOf
      <3> HIDE DEF p
      <3> QED
        BY <1>0, <2>0, <3>1 DEF StagedFirst
    <2>4. CASE Unmount(c)
      <3>1. /\ \A x \in Paths : x # p => mounts'[x] = mounts[x]
            /\ mounts[p] = <<>> => mounts'[p] = <<>>
        BY <1>0, <2>0, <2>4, PopEffect DEF Unmount
      <3>2. CASE block \/ p # Staging
        <4> HIDE DEF p
        <4> QED
          BY <1>0, <2>0, <3>1, <3>2 DEF StagedFirst
      <3>3. CASE ~ block /\ p = Staging
        <4>1. call[c].op = "unstage"
          BY <1>0, <2>0, <2>4, <3>3 DEF Unmount, Undoes, ShapeOf
        <4>2. \A t \in Targets : mounts[t] = <<>>
          BY <3>3, <4>1 DEF KubeletInv, Ordered, NoneIsBare
        <4> HIDE DEF p
        <4>3. \A t \in Targets : mounts'[t] = <<>>
          BY <1>0, <3>1, <3>3, <4>2
        <4> QED
          BY <4>3 DEF StagedFirst
      <3> QED
        BY <3>2, <3>3
    <2>5. CASE mounts' = mounts
      BY <1>a, <2>0, <2>5
    <2> QED
      BY <1>1, <2>1, <2>2, <2>3, <2>4, <2>5, MountCases
  <1>2. ASSUME Reboot PROVE StagedFirst'
    <2>1. \A t \in Targets : mounts'[t] = <<>>
      BY <1>0, <1>2 DEF Reboot
    <2> QED
      BY <2>1 DEF StagedFirst
  <1>3. ASSUME \/ \E c \in Calls : Enter(c)
               \/ \E c \in Calls : GiveUp(c)
               \/ DriverRestart \/ DeviceGrows \/ UNCHANGED vars
               \/ \E t \in Targets : PodComesOrGoes(t)
               \/ \E c \in Calls, op \in Ops, p \in Paths : CallDriver(c, op, p)
        PROVE  StagedFirst'
    BY <1>3, <1>a DEF Enter, GiveUp, DriverRestart, DeviceGrows, vars, PodComesOrGoes, CallDriver
  <1> QED
    BY <1>1, <1>2, <1>3 DEF Next, Progress, Moves, Answers

\* The invariant holds before any call.
LEMMA KubeletInvInit == Init => KubeletInv
  <1> SUFFICES ASSUME Init PROVE KubeletInv
    OBVIOUS
  <1>1. \A c \in Calls : call[c] = Idle
    BY DEF Init
  <1>2. Targets \subseteq Paths /\ \A p \in Paths : mounts[p] = <<>> /\ known[p] = "none"
    BY DEF Init, Paths
  <1>3. Heard /\ Uncertain /\ Ordered
    BY <1>1 DEF Heard, Uncertain, Ordered, Live, Idle, Init
  <1>4. NoneIsBare /\ StagedFirst /\ OnVolume /\ AsAnswered
    <2>1. DOMAIN <<>> = {}
      OBVIOUS
    <2> QED
      BY <1>2, <2>1 DEF NoneIsBare, StagedFirst, OnVolume, AsAnswered
  <1> QED
    BY <1>3, <1>4 DEF KubeletInv

\* Every step keeps it, when no caller gives up on a handler that has not
\* registered.
LEMMA KubeletInvStep ==
    ASSUME ~ Late, NodeInv, KubeletInv, [Next]_vars
    PROVE  KubeletInv'
  <1>1. TypeOK /\ Shape /\ Exclusive /\ TypeOK'
    BY NodeInvStep DEF NodeInv
  <1>2. Heard'
    BY <1>1, HeardStep DEF KubeletInv
  <1>3. (Uncertain /\ Ordered)'
    BY <1>1, KnownStep DEF KubeletInv
  <1>4. (NoneIsBare /\ OnVolume /\ AsAnswered)'
    <2>1. (\A p \in Paths : PathOK(p))'
      BY PathStep
    <2>2. ((\A p \in Paths : PathOK(p)) <=> NoneIsBare /\ OnVolume /\ AsAnswered)'
      BY <1>1, PathsOK, PTL
    <2> QED
      BY <2>1, <2>2
  <1> QED
    BY <1>2, <1>3, <1>4, StagedFirstStep DEF KubeletInv

\* Both invariants hold in every reachable state, when no caller gives up
\* on a handler before it has registered.
THEOREM KubeletInvariant == ~ Late => (Spec => [](NodeInv /\ KubeletInv))
  <1> SUFFICES ASSUME ~ Late PROVE Spec => [](NodeInv /\ KubeletInv)
    OBVIOUS
  <1>1. Init => NodeInv /\ KubeletInv
    BY NodeInvInit, KubeletInvInit
  <1>2. NodeInv /\ KubeletInv /\ [Next]_vars => (NodeInv /\ KubeletInv)'
    BY NodeInvStep, KubeletInvStep
  <1> QED
    BY <1>1, <1>2, PTL DEF Spec

\* What the node service answered stays true until the next call for the path:
\* a path the kubelet was told is staged or published is mounted, on the
\* volume, and read-only if that was asked for.  A handler that starts only
\* after its caller has given up can undo an answered call, hence the
\* hypothesis.
THEOREM AnswersHold == ~ Late => (Spec => []AsAnswered)
  <1>1. NodeInv /\ KubeletInv => AsAnswered
    BY DEF KubeletInv
  <1> QED
    BY <1>1, KubeletInvariant, PTL

-----------------------------------------------------------------------------
(* The promise of NodeVolume.                                              *)

\* The initial states map to the initial states of the promise.
LEMMA PromiseInit == Init => Promise!Init
  <1> SUFFICES ASSUME Init PROVE Promise!Init
    OBVIOUS
  <1>1. Staging \in Paths /\ Targets \subseteq Paths
    BY DEF Paths
  <1>2. block \in BOOLEAN /\ ~ (fs.made > 0)
    BY DEF Init
  <1>3. ~ IsMountPoint(Staging) /\ \A t \in Targets : ~ IsMountPoint(t)
    BY <1>1 DEF Init, IsMountPoint
  <1>4. (fs.made > 0) = FALSE
    BY <1>2
  <1>5. IsMountPoint(Staging) = FALSE
    BY <1>3
  <1>6. {t \in Targets : IsMountPoint(t)} = {}
    BY <1>3
  <1> QED
    BY <1>2, <1>4, <1>5, <1>6 DEF Promise!Init

\* Every step is a step of the promised volume or leaves it alone.
LEMMA PromiseStep == NodeInv /\ KubeletInv /\ [Next]_vars => [Promise!Next]_(Promise!vars)
  <1> SUFFICES ASSUME NodeInv, KubeletInv, [Next]_vars PROVE [Promise!Next]_(Promise!vars)
    OBVIOUS
  <1> DEFINE F == fs.made > 0
             S == IsMountPoint(Staging)
             P == {t \in Targets : IsMountPoint(t)}
  <1>0. /\ TypeOK /\ Shape /\ Staging \in Paths /\ Staging \notin Targets /\ Targets \subseteq Paths
        /\ mounts \in [Paths -> Seq(Mount)] /\ fs \in [made : Nat, size : 0 .. MaxSize]
    BY NodeAssumption DEF NodeInv, KubeletInv, Paths, TypeOK
  <1>a. ASSUME UNCHANGED block, F' = F, S' = S, P' = P PROVE [Promise!Next]_(Promise!vars)
    BY <1>a DEF Promise!vars
  <1>b. ASSUME mounts' = mounts PROVE S' = S /\ P' = P
    BY <1>b DEF IsMountPoint
  <1>1. ASSUME NEW c \in Calls, Moves(c) \/ Answers(c) PROVE [Promise!Next]_(Promise!vars)
    <2> DEFINE p == call[c].path
    <2>0. UNCHANGED block /\ ShapeOf(c) /\ StillSoOf(c) /\ p \in Paths
      BY <1>0, <1>1, MovesTo, AnswersWith DEF Shape, TypeOK, NodeInv, StillSo
    <2>1. CASE Mkfs(c)
      <3>1. ~ block /\ ~ F /\ mounts' = mounts
        BY <2>0, <2>1 DEF Mkfs, At, ShapeOf, StillSoOf
      <3>2. F'
        BY <1>0, <2>1 DEF Mkfs
      <3>3. F' = TRUE
        BY <3>2
      <3>4. S' = S /\ P' = P
        BY <1>b, <3>1
      <3>5. Promise!Format
        BY <2>0, <3>1, <3>3, <3>4 DEF Promise!Format
      <3> QED
        BY <3>5 DEF Promise!Next
    <2>a. CASE ~ Mkfs(c)
      <3>0. F' = F
        <4>1. fs'.made = fs.made
          BY <1>0, <1>1, <2>a, FsCases
        <4> QED
          BY <4>1
      <3>1. CASE MountDevice(c)
        <4>1. F /\ ~ S
          BY <2>0, <3>1 DEF MountDevice, At, StillSoOf, IsMountPoint
        <4>2. [on |-> "volume", ro |-> FALSE] \in Mount
          BY DEF Mount
        <4>3. /\ mounts'[Staging] # <<>>
              /\ \A x \in Paths : x # Staging => mounts'[x] = mounts[x]
          BY <1>0, <3>1, <4>2, PushEffect DEF MountDevice
        <4>4. S' = TRUE
          BY <4>3 DEF IsMountPoint
        <4>5. P' = P
          BY <1>0, <4>3 DEF IsMountPoint
        <4>6. Promise!Stage
          BY <2>0, <3>0, <4>1, <4>4, <4>5 DEF Promise!Stage
        <4> QED
          BY <4>6 DEF Promise!Next
      <3>2. CASE Bind(c)
        <4>1. p \in Targets /\ (block \/ S)
          <5>1. ~ block => known[Staging] = "done"
            BY <3>2 DEF KubeletInv, Ordered, Bind, At
          <5> QED
            BY <1>0, <2>0, <3>2, <5>1 DEF KubeletInv, AsAnswered, Bind, At, ShapeOf
        <4>2. [on |-> Source, ro |-> FALSE] \in Mount
          BY DEF Mount, Source
        <4>3. mounts'[p] # <<>> /\ \A x \in Paths : x # p => mounts'[x] = mounts[x]
          BY <1>0, <2>0, <3>2, <4>2, PushEffect DEF Bind
        <4> HIDE DEF p
        <4>4. S' = S
          BY <1>0, <4>1, <4>3 DEF IsMountPoint
        <4>5. P' = P \cup {p}
          BY <1>0, <4>1, <4>3 DEF IsMountPoint
        <4>6. Promise!Publish(p)
          BY <2>0, <3>0, <4>1, <4>4, <4>5 DEF Promise!Publish
        <4> QED
          BY <4>1, <4>6 DEF Promise!Next
      <3>3. CASE Remount(c)
        <4>1. mounts[p] # <<>> /\ mounts'[p] # <<>> /\ \A x \in Paths : x # p => mounts'[x] = mounts[x]
          BY <1>0, <2>0, <3>3, RemountEffect
        <4> HIDE DEF p
        <4>2. S' = S
          BY <1>0, <4>1 DEF IsMountPoint
        <4>3. P' = P
          BY <1>0, <4>1 DEF IsMountPoint
        <4> QED
          BY <1>a, <2>0, <3>0, <4>2, <4>3
      <3>4. CASE Unmount(c)
        <4>1. /\ \A x \in Paths : x # p => mounts'[x] = mounts[x]
              /\ mounts[p] = <<>> => mounts'[p] = <<>>
              /\ Len(mounts[p]) <= 1 => mounts'[p] = <<>>
          BY <1>0, <2>0, <3>4, PopEffect DEF Unmount
        <4>2. CASE p \in Targets
          <5> HIDE DEF p
          <5>1. S' = S
            BY <1>0, <4>1, <4>2 DEF IsMountPoint
          <5>2. CASE mounts'[p] = <<>>
            <6>1. P' = P \ {p}
              BY <1>0, <4>1, <4>2, <5>2 DEF IsMountPoint
            <6>2. Promise!Unpublish(p)
              BY <2>0, <3>0, <5>1, <6>1 DEF Promise!Unpublish
            <6> QED
              BY <4>2, <6>2 DEF Promise!Next
          <5>3. CASE mounts'[p] # <<>>
            <6>1. P' = P
              BY <1>0, <4>1, <4>2, <5>3 DEF IsMountPoint
            <6> QED
              BY <1>a, <2>0, <3>0, <5>1, <6>1
          <5> QED
            BY <5>2, <5>3
        <4>3. CASE p = Staging
          <5>1. P' = P
            <6> HIDE DEF p
            <6> QED
              BY <1>0, <4>1, <4>3 DEF IsMountPoint
          <5>2. CASE ~ S
            <6>1. ~ S'
              BY <4>1, <4>3, <5>2 DEF IsMountPoint
            <6>2. S' = FALSE /\ S = FALSE
              BY <5>2, <6>1
            <6> QED
              BY <1>a, <2>0, <3>0, <5>1, <6>2, Zenon
          <5>3. CASE S
            <6>1. ~ block /\ Len(mounts[p]) <= 1
              BY <1>0, <4>3, <5>3 DEF NodeInv, MountedIsMade, NoStackedMounts, IsMountPoint
            <6>2. call[c].op = "unstage"
              BY <1>0, <2>0, <3>4, <4>3 DEF Unmount, Undoes, ShapeOf
            <6>3. \A t \in Targets : ~ IsMountPoint(t)
              BY <6>1, <6>2 DEF KubeletInv, Ordered, NoneIsBare, IsMountPoint
            <6>4. P = {}
              BY <6>3
            <6>5. S' = FALSE
              BY <4>1, <4>3, <6>1 DEF IsMountPoint
            <6>6. Promise!Unstage
              BY <2>0, <3>0, <5>1, <5>3, <6>4, <6>5 DEF Promise!Unstage
            <6> QED
              BY <6>6 DEF Promise!Next
          <5> QED
            BY <5>2, <5>3
        <4> QED
          BY <2>0, <4>2, <4>3 DEF Paths
      <3>5. CASE mounts' = mounts
        BY <1>a, <1>b, <2>0, <3>0, <3>5
      <3> QED
        BY <1>1, <3>1, <3>2, <3>3, <3>4, <3>5, MountCases
    <2> QED
      BY <2>1, <2>a
  <1>2. ASSUME Reboot PROVE [Promise!Next]_(Promise!vars)
    <2>1. (\A x \in Paths : mounts'[x] = <<>>) /\ UNCHANGED <<block, fs>>
      BY <1>2 DEF Reboot
    <2>2. S' = FALSE
      BY <1>0, <2>1 DEF IsMountPoint
    <2>3. P' = {}
      BY <1>0, <2>1 DEF IsMountPoint
    <2>4. F' = F
      BY <2>1
    <2>5. Promise!Reboot
      BY <2>1, <2>2, <2>3, <2>4 DEF Promise!Reboot
    <2> QED
      BY <2>5 DEF Promise!Next
  <1>3. ASSUME \/ \E c \in Calls : Enter(c)
               \/ \E c \in Calls : GiveUp(c)
               \/ DriverRestart \/ DeviceGrows \/ UNCHANGED vars
               \/ \E t \in Targets : PodComesOrGoes(t)
               \/ \E c \in Calls, op \in Ops, p \in Paths : CallDriver(c, op, p)
        PROVE  [Promise!Next]_(Promise!vars)
    <2>1. UNCHANGED <<block, fs, mounts>>
      BY <1>3 DEF Enter, GiveUp, DriverRestart, DeviceGrows, vars, PodComesOrGoes, CallDriver
    <2>2. F' = F
      BY <2>1
    <2> QED
      BY <1>a, <1>b, <2>1, <2>2
  <1> QED
    BY <1>1, <1>2, <1>3 DEF Next, Progress, Moves, Answers

\* The node service implements the promise of NodeVolume: formatted once,
\* staged before and unstaged after its targets, published and unpublished
\* target by target.
THEOREM ImplementsPromise == ~ Late => (Spec => KeepsPromise)
  <1> SUFFICES ASSUME ~ Late PROVE Spec => KeepsPromise
    OBVIOUS
  <1>1. Init => Promise!Init
    BY PromiseInit
  <1>2. NodeInv /\ KubeletInv /\ [Next]_vars => [Promise!Next]_(Promise!vars)
    BY PromiseStep
  <1>3. Spec => [](NodeInv /\ KubeletInv)
    BY KubeletInvariant
  <1> QED
    BY <1>1, <1>2, <1>3, PTL DEF Spec, KeepsPromise, Promise!Spec
=============================================================================
