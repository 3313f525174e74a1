----------------------------- MODULE PayloadGate -----------------------------
(* The payload gate of an immutable store group, payload_gate.rs: holds      *)
(* counted without a lock under the parity of an epoch, and drains that move *)
(* the epoch on and wait for the counter of the old parity to empty.  Every  *)
(* atomic load, add and subtract of the code is a step of its own.           *)
EXTENDS Integers, FiniteSets

CONSTANTS Holders,   \* tasks that take holds
          Drains,    \* tasks that drain
          MaxEpoch,  \* bound on the drains begun
          NoDrain    \* the draining mutex is free

ASSUME GateAssumption ==
    /\ IsFiniteSet(Holders)
    /\ MaxEpoch \in Nat
    /\ NoDrain \notin Drains

VARIABLES
    epoch,     \* drains begun
    holds,     \* the two counters of holds
    mutex,     \* the drain that has the draining mutex
    phase,     \* which counter the drain with the mutex empties
    woken,     \* released was notified since that drain armed its Notified
    hpc,       \* where a holder is in hold() and release()
    read,      \* the epoch a holder read, whose parity is its counter
    after,     \* where release() returns to: a drop, or the loop of hold()
    dpc,       \* where a drain is
    taken,     \* history: the epoch in which a hold was taken, 0 when there is none
    awaited    \* history: the holds taken before a drain was called, not yet dropped

vars == <<epoch, holds, mutex, phase, woken, hpc, read, after, dpc, taken, awaited>>

HolderPcs == {"idle", "load", "count", "check", "held", "sub", "look", "notify"}
DrainPcs == {"idle", "lock", "arm", "test", "asleep", "bump", "drained"}

(* "next": the counter of the next epoch; "own": the counter the drain closed *)
Phases == {"next", "own"}

TypeOK ==
    /\ epoch \in Nat
    /\ holds \in [{0, 1} -> Nat]
    /\ mutex \in Drains \cup {NoDrain}
    /\ phase \in Phases
    /\ woken \in BOOLEAN
    /\ hpc \in [Holders -> HolderPcs]
    /\ read \in [Holders -> Nat]
    /\ after \in [Holders -> {"idle", "load"}]
    /\ dpc \in [Drains -> DrainPcs]
    /\ taken \in [Holders -> Nat]
    /\ awaited \in [Drains -> SUBSET Holders]

Init ==
    /\ epoch = 0
    /\ holds = [c \in {0, 1} |-> 0]
    /\ mutex = NoDrain
    /\ phase = "next"
    /\ woken = FALSE
    /\ hpc = [p \in Holders |-> "idle"]
    /\ read = [p \in Holders |-> 0]
    /\ after = [p \in Holders |-> "idle"]
    /\ dpc = [d \in Drains |-> "idle"]
    /\ taken = [p \in Holders |-> 0]
    /\ awaited = [d \in Drains |-> {}]

Parity(e) == e % 2
CounterOf(p) == Parity(read[p])

------------------------------------------------------------------------------
(* hold() *)

CallHold(p) ==
    /\ hpc[p] = "idle"
    /\ hpc' = [hpc EXCEPT ![p] = "load"]
    /\ UNCHANGED <<epoch, holds, mutex, phase, woken, read, after, dpc, taken, awaited>>

LoadEpoch(p) ==
    /\ hpc[p] = "load"
    /\ read' = [read EXCEPT ![p] = epoch]
    /\ hpc' = [hpc EXCEPT ![p] = "count"]
    /\ UNCHANGED <<epoch, holds, mutex, phase, woken, after, dpc, taken, awaited>>

Count(p) ==
    /\ hpc[p] = "count"
    /\ holds' = [holds EXCEPT ![CounterOf(p)] = @ + 1]
    /\ hpc' = [hpc EXCEPT ![p] = "check"]
    /\ UNCHANGED <<epoch, mutex, phase, woken, read, after, dpc, taken, awaited>>

(* the epoch is the one read: the hold is taken; otherwise its count is      *)
(* released and the loop starts over                                         *)
CheckEpoch_unchecked(p) ==
    /\ hpc[p] = "check"
    /\ hpc' = [hpc EXCEPT ![p] = "held"]
    /\ taken' = [taken EXCEPT ![p] = epoch]
    /\ UNCHANGED <<epoch, holds, mutex, phase, woken, read, after, dpc, awaited>>

CheckEpoch(p) ==
    /\ hpc[p] = "check"
    /\ \/ /\ epoch = read[p]
          /\ hpc' = [hpc EXCEPT ![p] = "held"]
          /\ taken' = [taken EXCEPT ![p] = epoch]
          /\ UNCHANGED after
       \/ /\ epoch # read[p]
          /\ hpc' = [hpc EXCEPT ![p] = "sub"]
          /\ after' = [after EXCEPT ![p] = "load"]
          /\ UNCHANGED taken
    /\ UNCHANGED <<epoch, holds, mutex, phase, woken, read, dpc, awaited>>

------------------------------------------------------------------------------
(* release(), from Drop of a PayloadHold or from the loop of hold() *)

(* the hold is dropped: it counts as dropped from here on *)
DropHold(p) ==
    /\ hpc[p] = "held"
    /\ hpc' = [hpc EXCEPT ![p] = "sub"]
    /\ after' = [after EXCEPT ![p] = "idle"]
    /\ taken' = [taken EXCEPT ![p] = 0]
    /\ awaited' = [d \in Drains |-> awaited[d] \ {p}]
    /\ UNCHANGED <<epoch, holds, mutex, phase, woken, read, dpc>>

Subtract(p) ==
    /\ hpc[p] = "sub"
    /\ holds' = [holds EXCEPT ![CounterOf(p)] = @ - 1]
    /\ hpc' = [hpc EXCEPT ![p] = IF holds[CounterOf(p)] = 1 THEN "look" ELSE after[p]]
    /\ UNCHANGED <<epoch, mutex, phase, woken, read, after, dpc, taken, awaited>>

(* the last hold of its counter: a drain can only wait on the counter that   *)
(* holds are not taken in now                                                *)
LookEpoch(p) ==
    /\ hpc[p] = "look"
    /\ hpc' = [hpc EXCEPT ![p] = IF Parity(epoch) # CounterOf(p) THEN "notify" ELSE after[p]]
    /\ UNCHANGED <<epoch, holds, mutex, phase, woken, read, after, dpc, taken, awaited>>

NotifyWaiters(p) ==
    /\ hpc[p] = "notify"
    /\ woken' = TRUE
    /\ hpc' = [hpc EXCEPT ![p] = after[p]]
    /\ UNCHANGED <<epoch, holds, mutex, phase, read, after, dpc, taken, awaited>>

------------------------------------------------------------------------------
(* drain() *)

Active(d) == dpc[d] \notin {"idle", "drained"}

(* called: it answers for the holds taken by now *)
CallDrain(d) ==
    /\ dpc[d] = "idle"
    /\ epoch + Cardinality({x \in Drains : Active(x)}) < MaxEpoch
    /\ dpc' = [dpc EXCEPT ![d] = "lock"]
    /\ awaited' = [awaited EXCEPT ![d] = {p \in Holders : hpc[p] = "held"}]
    /\ UNCHANGED <<epoch, holds, mutex, phase, woken, hpc, read, after, taken>>

(* draining.lock(), then on to the counter of the next epoch *)
LockDraining_straight(d) ==
    /\ dpc[d] = "lock"
    /\ mutex = NoDrain
    /\ mutex' = d
    /\ dpc' = [dpc EXCEPT ![d] = "bump"]
    /\ UNCHANGED <<epoch, holds, phase, woken, hpc, read, after, taken, awaited>>

LockDraining(d) ==
    /\ dpc[d] = "lock"
    /\ mutex = NoDrain
    /\ mutex' = d
    /\ phase' = "next"
    /\ dpc' = [dpc EXCEPT ![d] = "arm"]
    /\ UNCHANGED <<epoch, holds, woken, hpc, read, after, taken, awaited>>

(* the counter emptied() waits on: the epoch does not move meanwhile, as     *)
(* only the drain with the mutex moves it, and both phases wait on the       *)
(* parity that the current epoch does not have                               *)
Emptying == Parity(epoch + 1)

Arm(d) ==
    /\ dpc[d] = "arm"
    /\ woken' = FALSE
    /\ dpc' = [dpc EXCEPT ![d] = "test"]
    /\ UNCHANGED <<epoch, holds, mutex, phase, hpc, read, after, taken, awaited>>

(* emptied() returns once it sees the counter at zero: the first time to     *)
(* move the epoch, the second to return from drain, releasing the mutex      *)
TestEmpty_once(d) ==
    /\ dpc[d] = "test"
    /\ \/ /\ holds[Emptying] # 0
          /\ dpc' = [dpc EXCEPT ![d] = "asleep"]
          /\ UNCHANGED mutex
       \/ /\ holds[Emptying] = 0
          /\ dpc' = [dpc EXCEPT ![d] = "drained"]
          /\ mutex' = NoDrain
    /\ UNCHANGED <<epoch, holds, phase, woken, hpc, read, after, taken, awaited>>

TestEmpty(d) ==
    /\ dpc[d] = "test"
    /\ \/ /\ holds[Emptying] # 0
          /\ dpc' = [dpc EXCEPT ![d] = "asleep"]
          /\ UNCHANGED mutex
       \/ /\ holds[Emptying] = 0
          /\ phase = "next"
          /\ dpc' = [dpc EXCEPT ![d] = "bump"]
          /\ UNCHANGED mutex
       \/ /\ holds[Emptying] = 0
          /\ phase = "own"
          /\ dpc' = [dpc EXCEPT ![d] = "drained"]
          /\ mutex' = NoDrain
    /\ UNCHANGED <<epoch, holds, phase, woken, hpc, read, after, taken, awaited>>

Wake(d) ==
    /\ dpc[d] = "asleep"
    /\ woken
    /\ dpc' = [dpc EXCEPT ![d] = "arm"]
    /\ UNCHANGED <<epoch, holds, mutex, phase, woken, hpc, read, after, taken, awaited>>

BumpEpoch(d) ==
    /\ dpc[d] = "bump"
    /\ epoch' = epoch + 1
    /\ phase' = "own"
    /\ dpc' = [dpc EXCEPT ![d] = "arm"]
    /\ UNCHANGED <<holds, mutex, woken, hpc, read, after, taken, awaited>>

(* the caller goes on *)
LeaveDrain(d) ==
    /\ dpc[d] = "drained"
    /\ dpc' = [dpc EXCEPT ![d] = "idle"]
    /\ UNCHANGED <<epoch, holds, mutex, phase, woken, hpc, read, after, taken, awaited>>

(* the future is dropped at one of its awaits: the mutex, or the Notified *)
CancelDrain(d) ==
    /\ dpc[d] \in {"lock", "asleep"}
    /\ dpc' = [dpc EXCEPT ![d] = "idle"]
    /\ mutex' = IF mutex = d THEN NoDrain ELSE mutex
    /\ awaited' = [awaited EXCEPT ![d] = {}]
    /\ UNCHANGED <<epoch, holds, phase, woken, hpc, read, after, taken>>

------------------------------------------------------------------------------
HolderStep(p) ==
    \/ CallHold(p)
    \/ LoadEpoch(p)
    \/ Count(p)
    \/ CheckEpoch(p)
    \/ DropHold(p)
    \/ Subtract(p)
    \/ LookEpoch(p)
    \/ NotifyWaiters(p)

DrainStep(d) ==
    \/ CallDrain(d)
    \/ LockDraining(d)
    \/ Arm(d)
    \/ TestEmpty(d)
    \/ Wake(d)
    \/ BumpEpoch(d)
    \/ LeaveDrain(d)
    \/ CancelDrain(d)

Next ==
    \/ \E p \in Holders : HolderStep(p)
    \/ \E d \in Drains : DrainStep(d)

Spec == Init /\ [][Next]_vars

(* A task inside hold() or release() does not wait, so it goes on.  A hold   *)
(* taken in an earlier epoch is dropped in time; one taken in the current    *)
(* epoch need not ever be.  A drain that can take a step takes it, and       *)
(* draining is a tokio Mutex, which is granted in the order of arrival.      *)
Fairness ==
    /\ \A p \in Holders :
          /\ WF_vars(LoadEpoch(p) \/ Count(p) \/ CheckEpoch(p) \/ Subtract(p)
                       \/ LookEpoch(p) \/ NotifyWaiters(p))
          /\ WF_vars(taken[p] # epoch /\ DropHold(p))
    /\ \A d \in Drains :
          /\ SF_vars(LockDraining(d))
          /\ WF_vars(Arm(d) \/ TestEmpty(d) \/ Wake(d) \/ BumpEpoch(d))

FairSpec == Spec /\ Fairness

------------------------------------------------------------------------------
(* drain() returns only once every hold taken before it was called has been  *)
(* dropped, with drains cancelled at their awaits, holds that raced the      *)
(* epoch, and other drains before it.                                        *)
DrainWaits == \A d \in Drains : dpc[d] = "drained" => awaited[d] = {}

(* Every drain returns or is cancelled: the wake-up of release() is never    *)
(* lost, and a drain waits for no hold counted after it moved the epoch, so  *)
(* a stream of new holds cannot keep it waiting.                             *)
DrainReturns == \A d \in Drains : Active(d) ~> ~Active(d)

(* The gate implements what its callers rely on: a hold is taken by the      *)
(* check of the epoch that succeeds, and dropped as its release begins.      *)
Gate == INSTANCE DrainGate WITH
            held <- {p \in Holders : hpc[p] = "held"},
            draining <- {d \in Drains : Active(d)},
            awaited <- awaited

ImplementsGate == Gate!Spec
==============================================================================
