------------------------- MODULE MCLSCController -------------------------
(* Instances of LSCController for TLC.                                     *)
EXTENDS LSCController, TLC

CONSTANTS g1, g2, p1, p2, wipe, hot, cold, team

LVG(labels, node, pools) ==
    [there |-> TRUE, labels |-> labels, nodes |-> {node}, pools |-> pools]

\* A class that selects a group by its label or its name, which resolve alike.
Hot == [name |-> None, selector |-> hot, thin |-> None]
ByLabel == [type |-> "Thick", entries |-> <<Hot>>, cleanup |-> None]
ByName == [type |-> "Thick", entries |-> <<[Hot EXCEPT !.name = g1, !.selector = None]>>,
           cleanup |-> None]
OneWay == {ByLabel}
TwoWays == {ByLabel, ByName}

OneHot == g1 :> LVG({hot}, "n1", {}) @@ g2 :> LVG({}, "n2", {})
BothHot == g1 :> LVG({hot}, "n1", {}) @@ g2 :> LVG({hot}, "n2", {})
OnlyOneHot == {OneHot}
SecondJoins == {OneHot, BothHot}

\* A Thin class with two selectors, and one that names a group.  Relabelling the
\* groups swaps their pools; or the group named goes and the other makes the class
\* with the selectors ambiguous.
PoolOf(label, pool) == [name |-> None, selector |-> label, thin |-> pool]
TwoPools == [type |-> "Thin", entries |-> <<PoolOf(hot, p1), PoolOf(cold, p2)>>, cleanup |-> wipe]
Named == [type |-> "Thin", entries |-> <<[PoolOf(None, p1) EXCEPT !.name = g1]>>, cleanup |-> None]
ThinOrNamed == {TwoPools, Named}

Apart == g1 :> LVG({hot}, "n1", {p1, p2}) @@ g2 :> LVG({cold}, "n2", {p1, p2})
Swapped == g1 :> LVG({cold}, "n1", {p1, p2}) @@ g2 :> LVG({hot}, "n2", {p1, p2})
Ambiguous == g1 :> [LVG({}, "n1", {p1, p2}) EXCEPT !.there = FALSE]
             @@ g2 :> LVG({hot, cold}, "n2", {p1, p2})
Regrouped == {Apart, Swapped, Ambiguous}

Plain == [ok |-> TRUE, ignored |-> {}]
Ignoring == [ok |-> TRUE, ignored |-> {team}]
Malformed == [ok |-> FALSE, ignored |-> {}]
OnlyPlain == {Plain}
AllConfigs == {Plain, Ignoring, Malformed}

NoLabels == {{}}
TeamOrNot == {{}, {team}}
LeftByOldRelease == {{Old, Current}}
=============================================================================
