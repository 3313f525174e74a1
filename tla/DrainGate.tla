------------------------------ MODULE DrainGate ------------------------------
(* What the payload gate of a group promises the immutable store: holds are  *)
(* taken and dropped at any time, and a drain returns only once every hold   *)
(* taken before it was called has been dropped.  The uses of the gate in     *)
(* immutable_store.rs rest on this and on nothing else of it.                *)
EXTENDS FiniteSets

CONSTANTS Holders,  \* those who take holds, each at most one at a time
          Drains    \* those who call drain

VARIABLES held,     \* the holders that have a hold
          draining, \* the drains in progress
          awaited   \* the holds each drain in progress still has to see dropped

gateVars == <<held, draining, awaited>>

Init ==
    /\ held = {}
    /\ draining = {}
    /\ awaited = [d \in Drains |-> {}]

(* hold() returns: it never waits, whatever a drain is doing *)
Hold(p) ==
    /\ p \notin held
    /\ held' = held \cup {p}
    /\ UNCHANGED <<draining, awaited>>

(* the hold is dropped *)
Drop(p) ==
    /\ p \in held
    /\ held' = held \ {p}
    /\ awaited' = [d \in Drains |-> awaited[d] \ {p}]
    /\ UNCHANGED draining

(* drain() is called: it answers for the holds there are now *)
BeginDrain(d) ==
    /\ d \notin draining
    /\ draining' = draining \cup {d}
    /\ awaited' = [awaited EXCEPT ![d] = held]
    /\ UNCHANGED held

(* drain() returns *)
EndDrain(d) ==
    /\ d \in draining
    /\ awaited[d] = {}
    /\ draining' = draining \ {d}
    /\ UNCHANGED <<held, awaited>>

(* the future of drain() is dropped while it waits *)
CancelDrain(d) ==
    /\ d \in draining
    /\ draining' = draining \ {d}
    /\ awaited' = [awaited EXCEPT ![d] = {}]
    /\ UNCHANGED held

Next ==
    \/ \E p \in Holders : Hold(p) \/ Drop(p)
    \/ \E d \in Drains : BeginDrain(d) \/ EndDrain(d) \/ CancelDrain(d)

Spec == Init /\ [][Next]_gateVars
==============================================================================
