----------------------------- MODULE NodeVolume -----------------------------
(***************************************************************************)
(* What the node service promises about the mounts of one volume, whatever *)
(* calls overlap, fail or are repeated: a filesystem is made once, the     *)
(* volume is staged before it is published anywhere, and leaves the        *)
(* staging path only when no target needs it any more.  A raw volume is    *)
(* not formatted, and published without being staged.                      *)
(***************************************************************************)
CONSTANT Targets

VARIABLES
    raw,            \* the volume is a raw block volume
    formatted,      \* the device holds a filesystem
    staged,         \* the volume is mounted at the staging path
    published       \* the targets it is mounted at

vars == <<raw, formatted, staged, published>>

Init ==
    /\ raw \in BOOLEAN
    /\ formatted = FALSE
    /\ staged = FALSE
    /\ published = {}

Format ==
    /\ ~ raw
    /\ ~ formatted
    /\ formatted' = TRUE
    /\ UNCHANGED <<raw, staged, published>>

Stage ==
    /\ formatted
    /\ ~ staged
    /\ staged' = TRUE
    /\ UNCHANGED <<raw, formatted, published>>

Unstage ==
    /\ staged
    /\ published = {}
    /\ staged' = FALSE
    /\ UNCHANGED <<raw, formatted, published>>

Publish(t) ==
    /\ raw \/ staged
    /\ published' = published \cup {t}
    /\ UNCHANGED <<raw, formatted, staged>>

Unpublish(t) ==
    /\ published' = published \ {t}
    /\ UNCHANGED <<raw, formatted, staged>>

\* The mounts of the node go together.
Reboot ==
    /\ staged' = FALSE
    /\ published' = {}
    /\ UNCHANGED <<raw, formatted>>

Next ==
    \/ Format
    \/ Stage
    \/ Unstage
    \/ \E t \in Targets : Publish(t) \/ Unpublish(t)
    \/ Reboot

Spec == Init /\ [][Next]_vars
=============================================================================
