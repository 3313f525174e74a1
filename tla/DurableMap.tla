----------------------------- MODULE DurableMap -----------------------------
(***************************************************************************)
(* What a group of the local mutable store promises of its keys: a map     *)
(* whose stored values reach the disk some time after they were written,   *)
(* that never goes back on what the disk has, and that a restart finds as  *)
(* the disk has it.  A key's value is the number of times it was changed.  *)
(***************************************************************************)
EXTENDS Integers

CONSTANT Key

VARIABLES
    latest,    \* the value of each key a load answers
    durable    \* the value of each key that a restart would find

Init ==
    /\ latest \in [Key -> Nat]
    /\ durable = latest

\* A store or a compare-and-swap changes one key.
Change ==
    \E k \in Key :
        /\ latest' = [latest EXCEPT ![k] = @ + 1]
        /\ UNCHANGED durable

\* A write to disk moves some keys towards their latest value, and none back.
Persist ==
    /\ \A k \in Key : durable'[k] \in durable[k] .. latest[k]
    /\ DOMAIN durable' = Key
    /\ UNCHANGED latest

\* The process stops, and what was in memory only is lost.
Restart ==
    /\ latest' = durable
    /\ UNCHANGED durable

Next == Change \/ Persist \/ Restart

Spec == Init /\ [][Next]_<<latest, durable>>

=============================================================================
