--------------------------- MODULE MCMutableGroup ---------------------------
(***************************************************************************)
(* Instances of MutableGroup for TLC: keys by the byte that picks their    *)
(* bucket, on a ladder of three levels.                                    *)
(***************************************************************************)
EXTENDS MutableGroup, TLC

CONSTANTS k1, k2, k3

SmallLadder == {1, 2, 4}

\* A ladder whose one step is to the highest level.
OneStep == {1, 4}

\* Two keys in the upper half, whose fan-out leaves the first bucket empty.
HighBytes == k1 :> 2 @@ k2 :> 3

\* Three keys, the last two of which part only at the highest level.
ThreeBytes == k1 :> 1 @@ k2 :> 2 @@ k3 :> 3

\* Flushes alone, and with delayed sweeps beside them.
Flushes == {[legacy |-> FALSE, sweeps |-> FALSE, lists |-> FALSE]}
Sweeps == {[legacy |-> FALSE, sweeps |-> TRUE, lists |-> FALSE]}

\* Sweeps, also over a store written before fan-out, or else a list.
SweepsOrList ==
    {[legacy |-> old, sweeps |-> TRUE, lists |-> FALSE] : old \in BOOLEAN}
        \cup {[legacy |-> FALSE, sweeps |-> FALSE, lists |-> TRUE]}

=============================================================================
