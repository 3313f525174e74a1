-------------------------- MODULE PayloadGateProofs --------------------------
(* Proofs about PayloadGate, for any number of holders and drains: a drain   *)
(* waits for the holds taken before it, and the gate implements DrainGate.   *)
(*                                                                           *)
(* The argument: a counter is the number of tasks between their add and      *)
(* their subtract with its parity, so a counter seen at zero has no hold in  *)
(* it.  The epoch stands still from a drain's first look at a counter to its *)
(* own bump, as it has the mutex; once it saw the counter of the next epoch  *)
(* empty, every hold it answers for is in the counter of the current one,    *)
(* which is the one it waits on after the bump.                              *)
EXTENDS PayloadGate, FiniteSetTheorems, TLAPS

(* The tasks counted in counter c: between fetch_add and fetch_sub *)
CountedIn(c) ==
    {p \in Holders : hpc[p] \in {"check", "held", "sub"} /\ CounterOf(p) = c}

CountsRight == \A c \in {0, 1} : holds[c] = Cardinality(CountedIn(c))

(* What a drain in each place knows *)
DrainKnows(d) ==
    /\ mutex = d <=> dpc[d] \in {"arm", "test", "asleep", "bump"}
    /\ \A p \in awaited[d] : hpc[p] = "held"
    /\ dpc[d] = "bump" => \A p \in awaited[d] : CounterOf(p) = Parity(epoch)
    /\ dpc[d] \in {"arm", "test", "asleep"} /\ phase = "own" =>
          \A p \in awaited[d] : CounterOf(p) = Emptying
    /\ dpc[d] \in {"drained", "idle"} => awaited[d] = {}

(* The inductive invariant *)
GateInv == TypeOK /\ CountsRight /\ \A d \in Drains : DrainKnows(d)

------------------------------------------------------------------------------
\* The parity of the epoch alternates with each drain.
LEMMA ParityFlips ==
    ASSUME NEW e \in Nat
    PROVE  /\ Parity(e) \in {0, 1}
           /\ Parity(e + 1) \in {0, 1}
           /\ Parity(e + 1) # Parity(e)
           /\ Parity(e + 1 + 1) = Parity(e)
           /\ \A c \in {0, 1} : c # Parity(e + 1) => c = Parity(e)
BY DEF Parity

(* The initial state is well typed and nothing is counted *)
LEMMA GateInit == Init => GateInv
<1> SUFFICES ASSUME Init PROVE GateInv
  OBVIOUS
<1>1. TypeOK
  BY DEF Init, TypeOK, HolderPcs, DrainPcs, Phases
<1>2. CountsRight
  <2>1. \A c \in {0, 1} : CountedIn(c) = {}
    BY DEF Init, CountedIn
  <2> QED BY <2>1, FS_EmptySet DEF CountsRight, Init
<1>3. \A d \in Drains : DrainKnows(d)
  BY GateAssumption DEF Init, DrainKnows
<1> QED BY <1>1, <1>2, <1>3 DEF GateInv

(* Every step keeps the types *)
LEMMA GateTypes == GateInv /\ [Next]_vars => TypeOK'
<1> SUFFICES ASSUME GateInv, [Next]_vars PROVE TypeOK'
  OBVIOUS
<1> USE DEF HolderPcs, DrainPcs, Phases
<1>1. TypeOK /\ CountsRight
  BY DEF GateInv
<1>2. ASSUME NEW p \in Holders, HolderStep(p) PROVE TypeOK'
  <2>1. CounterOf(p) \in {0, 1}
    BY <1>1, ParityFlips DEF TypeOK, CounterOf
  <2>2. CASE CallHold(p)
    BY <1>1, <2>2 DEF TypeOK, CallHold
  <2>3. CASE LoadEpoch(p)
    BY <1>1, <2>3 DEF TypeOK, LoadEpoch
  <2>4. CASE Count(p)
    BY <1>1, <2>1, <2>4 DEF TypeOK, Count
  <2>5. CASE CheckEpoch(p)
    BY <1>1, <2>5 DEF TypeOK, CheckEpoch
  <2>6. CASE DropHold(p)
    BY <1>1, <2>6 DEF TypeOK, DropHold
  <2>7. CASE Subtract(p)
    <3>1. p \in CountedIn(CounterOf(p))
      BY <2>7 DEF Subtract, CountedIn
    <3>2. IsFiniteSet(CountedIn(CounterOf(p)))
      BY GateAssumption, FS_Subset DEF CountedIn
    <3>3. holds[CounterOf(p)] # 0
      BY <1>1, <2>1, <3>1, <3>2, FS_EmptySet DEF CountsRight
    <3>4. holds[CounterOf(p)] - 1 \in Nat
      BY <1>1, <2>1, <3>3 DEF TypeOK
    <3> QED BY <1>1, <2>1, <2>7, <3>4 DEF TypeOK, Subtract
  <2>8. CASE LookEpoch(p)
    BY <1>1, <2>8 DEF TypeOK, LookEpoch
  <2>9. CASE NotifyWaiters(p)
    BY <1>1, <2>9 DEF TypeOK, NotifyWaiters
  <2> QED BY <1>2, <2>2, <2>3, <2>4, <2>5, <2>6, <2>7, <2>8, <2>9 DEF HolderStep
<1>3. ASSUME NEW d \in Drains, DrainStep(d) PROVE TypeOK'
  <2>1. CASE CallDrain(d)
    BY <1>1, <2>1 DEF TypeOK, CallDrain
  <2>2. CASE LockDraining(d)
    BY <1>1, <2>2 DEF TypeOK, LockDraining
  <2>3. CASE Arm(d)
    BY <1>1, <2>3 DEF TypeOK, Arm
  <2>4. CASE TestEmpty(d)
    BY <1>1, <2>4 DEF TypeOK, TestEmpty
  <2>5. CASE Wake(d)
    BY <1>1, <2>5 DEF TypeOK, Wake
  <2>6. CASE BumpEpoch(d)
    BY <1>1, <2>6 DEF TypeOK, BumpEpoch
  <2>7. CASE LeaveDrain(d)
    BY <1>1, <2>7 DEF TypeOK, LeaveDrain
  <2>8. CASE CancelDrain(d)
    BY <1>1, <2>8 DEF TypeOK, CancelDrain
  <2> QED BY <1>3, <2>1, <2>2, <2>3, <2>4, <2>5, <2>6, <2>7, <2>8 DEF DrainStep
<1>4. CASE UNCHANGED vars
  BY <1>1, <1>4 DEF TypeOK, vars
<1> QED BY <1>2, <1>3, <1>4 DEF Next

------------------------------------------------------------------------------
(* Every step keeps the counters equal to the tasks counted in them *)
LEMMA GateCounts == GateInv /\ [Next]_vars => CountsRight'
<1> SUFFICES ASSUME GateInv, [Next]_vars PROVE CountsRight'
  OBVIOUS
<1>1. TypeOK /\ CountsRight
  BY DEF GateInv
<1>2. \A c \in {0, 1} : IsFiniteSet(CountedIn(c))
  BY GateAssumption, FS_Subset DEF CountedIn
<1>3. ASSUME holds' = holds, \A c \in {0, 1} : CountedIn(c)' = CountedIn(c)
      PROVE  CountsRight'
  BY <1>1, <1>3 DEF CountsRight
<1>4. ASSUME NEW p \in Holders, HolderStep(p) PROVE CountsRight'
  <2>1. CounterOf(p) \in {0, 1}
    BY <1>1, ParityFlips DEF TypeOK, CounterOf
  <2>2. CASE CallHold(p)
    BY <1>1, <1>3, <2>2 DEF TypeOK, CallHold, CountedIn, CounterOf
  <2>3. CASE LoadEpoch(p)
    BY <1>1, <1>3, <2>3 DEF TypeOK, LoadEpoch, CountedIn, CounterOf
  <2>4. CASE Count(p)
    <3>0. PICK k \in {0, 1} : k = CounterOf(p)
      BY <2>1
    <3>1. p \notin CountedIn(k)
      BY <2>4, <3>0 DEF Count, CountedIn
    <3>2. CountedIn(k)' = CountedIn(k) \cup {p}
      BY <1>1, <2>4, <3>0 DEF TypeOK, Count, CountedIn, CounterOf
    <3>3. \A c \in {0, 1} : c # k => CountedIn(c)' = CountedIn(c)
      BY <1>1, <2>4, <3>0 DEF TypeOK, Count, CountedIn, CounterOf
    <3>4. Cardinality(CountedIn(k) \cup {p}) = Cardinality(CountedIn(k)) + 1
      BY <1>2, <2>1, <3>1, FS_AddElement
    <3>5. holds' = [holds EXCEPT ![k] = @ + 1]
      BY <2>4, <3>0 DEF Count
    <3> QED BY <1>1, <3>2, <3>3, <3>4, <3>5 DEF CountsRight, TypeOK
  <2>5. CASE CheckEpoch(p)
    BY <1>1, <1>3, <2>5 DEF TypeOK, CheckEpoch, CountedIn, CounterOf
  <2>6. CASE DropHold(p)
    BY <1>1, <1>3, <2>6 DEF TypeOK, DropHold, CountedIn, CounterOf
  <2>7. CASE Subtract(p)
    <3>0. PICK k \in {0, 1} : k = CounterOf(p)
      BY <2>1
    <3>1. p \in CountedIn(k)
      BY <2>7, <3>0 DEF Subtract, CountedIn
    <3>2. CountedIn(k)' = CountedIn(k) \ {p}
      BY <1>1, <2>7, <3>0 DEF TypeOK, Subtract, CountedIn, CounterOf
    <3>3. \A c \in {0, 1} : c # k => CountedIn(c)' = CountedIn(c)
      BY <1>1, <2>7, <3>0 DEF TypeOK, Subtract, CountedIn, CounterOf
    <3>4. Cardinality(CountedIn(k) \ {p}) = Cardinality(CountedIn(k)) - 1
      BY <1>2, <2>1, <3>1, FS_RemoveElement
    <3>5. holds' = [holds EXCEPT ![k] = @ - 1]
      BY <2>7, <3>0 DEF Subtract
    <3> QED BY <1>1, <3>2, <3>3, <3>4, <3>5 DEF CountsRight, TypeOK
  <2>8. CASE LookEpoch(p)
    BY <1>1, <1>3, <2>8 DEF TypeOK, LookEpoch, CountedIn, CounterOf
  <2>9. CASE NotifyWaiters(p)
    BY <1>1, <1>3, <2>9 DEF TypeOK, NotifyWaiters, CountedIn, CounterOf
  <2> QED BY <1>4, <2>2, <2>3, <2>4, <2>5, <2>6, <2>7, <2>8, <2>9 DEF HolderStep
<1>5. ASSUME NEW d \in Drains, DrainStep(d) PROVE CountsRight'
  <2>1. UNCHANGED <<holds, hpc, read>>
    BY <1>5 DEF DrainStep, CallDrain, LockDraining, Arm, TestEmpty, Wake, BumpEpoch,
                LeaveDrain, CancelDrain
  <2> QED BY <1>3, <2>1 DEF CountedIn, CounterOf
<1>6. CASE UNCHANGED vars
  BY <1>3, <1>6 DEF vars, CountedIn, CounterOf
<1> QED BY <1>4, <1>5, <1>6 DEF Next

------------------------------------------------------------------------------
(* A counter seen at zero has no hold in it *)
LEMMA ZeroIsEmpty ==
    ASSUME GateInv, NEW c \in {0, 1}, holds[c] = 0
    PROVE  \A p \in Holders : hpc[p] = "held" => CounterOf(p) # c
<1>1. IsFiniteSet(CountedIn(c))
  BY GateAssumption, FS_Subset DEF CountedIn
<1>2. CountedIn(c) = {}
  BY <1>1, FS_EmptySet DEF GateInv, CountsRight
<1> QED BY <1>2 DEF CountedIn

(* A holder's step leaves what every drain knows: it only ever takes a task  *)
(* out of the awaited, by dropping its hold, and moves no hold's counter     *)
LEMMA HolderKeeps ==
    ASSUME GateInv, NEW p \in Holders, HolderStep(p), NEW d \in Drains
    PROVE  DrainKnows(d)'
<1>1. TypeOK /\ DrainKnows(d)
  BY DEF GateInv
<1>2. UNCHANGED <<epoch, mutex, phase, dpc>>
  BY DEF HolderStep, CallHold, LoadEpoch, Count, CheckEpoch, DropHold, Subtract,
         LookEpoch, NotifyWaiters
<1>3. \A q \in awaited[d]' :
         /\ q \in awaited[d]
         /\ hpc'[q] = "held"
         /\ read'[q] = read[q]
  BY <1>1 DEF TypeOK, DrainKnows, HolderStep, CallHold, LoadEpoch, Count, CheckEpoch,
              DropHold, Subtract, LookEpoch, NotifyWaiters
<1> QED BY <1>1, <1>2, <1>3 DEF DrainKnows, CounterOf, Emptying

(* A drain's step leaves what another drain knows: the epoch and the phase   *)
(* move only with the mutex                                                  *)
LEMMA OtherDrainKeeps ==
    ASSUME GateInv, NEW e \in Drains, DrainStep(e), NEW d \in Drains, d # e
    PROVE  DrainKnows(d)'
<1>1. TypeOK /\ DrainKnows(d) /\ DrainKnows(e)
  BY DEF GateInv
<1>2. UNCHANGED <<hpc, read>> /\ dpc'[d] = dpc[d] /\ awaited'[d] = awaited[d]
  BY <1>1 DEF TypeOK, DrainStep, CallDrain, LockDraining, Arm, TestEmpty, Wake, BumpEpoch,
              LeaveDrain, CancelDrain
<1>3. (mutex' = d) <=> (mutex = d)
  BY <1>1, GateAssumption DEF DrainKnows, DrainStep, CallDrain, LockDraining, Arm, TestEmpty,
              Wake, BumpEpoch, LeaveDrain, CancelDrain
<1>4. mutex = d => UNCHANGED <<epoch, phase>>
  BY <1>1, GateAssumption DEF DrainKnows, DrainStep, CallDrain, LockDraining, Arm, TestEmpty,
              Wake, BumpEpoch, LeaveDrain, CancelDrain
<1> QED BY <1>1, <1>2, <1>3, <1>4 DEF DrainKnows, CounterOf, Emptying

(* A drain's own step *)
LEMMA OwnDrainKeeps ==
    ASSUME GateInv, NEW d \in Drains, DrainStep(d)
    PROVE  DrainKnows(d)'
<1>1. TypeOK /\ DrainKnows(d)
  BY DEF GateInv
<1>2. \A p \in awaited[d] : p \in Holders /\ CounterOf(p) \in {0, 1}
  BY <1>1, ParityFlips DEF TypeOK, CounterOf
<1>3. epoch \in Nat /\ Emptying \in {0, 1}
  BY <1>1, ParityFlips DEF TypeOK, Emptying
<1>4. CASE CallDrain(d)
  BY <1>1, <1>4 DEF TypeOK, DrainKnows, CallDrain
<1>5. CASE LockDraining(d)
  BY <1>1, <1>5 DEF TypeOK, DrainKnows, LockDraining
<1>6. CASE Arm(d)
  BY <1>1, <1>6 DEF TypeOK, DrainKnows, Arm, CounterOf, Emptying
<1>7. CASE TestEmpty(d)
  <2>1. holds[Emptying] = 0 => \A p \in awaited[d] : CounterOf(p) # Emptying
    BY <1>1, <1>2, <1>3, ZeroIsEmpty DEF DrainKnows
  <2>2. holds[Emptying] = 0 => \A p \in awaited[d] : CounterOf(p) = Parity(epoch)
    BY <1>2, <1>3, <2>1, ParityFlips DEF Emptying
  <2>3. holds[Emptying] = 0 /\ phase = "own" => awaited[d] = {}
    BY <1>1, <1>7, <2>1 DEF DrainKnows, TestEmpty
  <2>4. UNCHANGED <<epoch, phase, hpc, read, awaited>>
    BY <1>7 DEF TestEmpty
  <2>5. CASE holds[Emptying] # 0
    BY <1>1, <1>7, <2>4, <2>5 DEF TypeOK, DrainKnows, TestEmpty, CounterOf, Emptying
  <2>6. CASE holds[Emptying] = 0 /\ phase = "next"
    BY <1>1, <1>7, <2>2, <2>4, <2>6 DEF TypeOK, DrainKnows, TestEmpty, CounterOf
  <2>7. CASE holds[Emptying] = 0 /\ phase = "own"
    BY <1>1, <1>7, <2>3, <2>4, <2>7, GateAssumption DEF TypeOK, DrainKnows, TestEmpty
  <2> QED BY <1>1, <2>5, <2>6, <2>7 DEF TypeOK, Phases
<1>8. CASE Wake(d)
  BY <1>1, <1>8 DEF TypeOK, DrainKnows, Wake, CounterOf, Emptying
<1>9. CASE BumpEpoch(d)
  <2>1. \A p \in awaited[d] : CounterOf(p) = Parity(epoch)
    BY <1>1, <1>9 DEF DrainKnows, BumpEpoch
  <2>2. Emptying' = Parity(epoch)
    BY <1>3, <1>9, ParityFlips DEF BumpEpoch, Emptying
  <2> QED BY <1>1, <1>9, <2>1, <2>2 DEF TypeOK, DrainKnows, BumpEpoch, CounterOf
<1>10. CASE LeaveDrain(d)
  BY <1>1, <1>10 DEF TypeOK, DrainKnows, LeaveDrain
<1>11. CASE CancelDrain(d)
  BY <1>1, <1>11, GateAssumption DEF TypeOK, DrainKnows, CancelDrain
<1> QED BY <1>4, <1>5, <1>6, <1>7, <1>8, <1>9, <1>10, <1>11 DEF DrainStep

\* Every step keeps the invariant.
LEMMA GateStep == GateInv /\ [Next]_vars => GateInv'
<1> SUFFICES ASSUME GateInv, [Next]_vars, NEW d \in Drains PROVE DrainKnows(d)'
  BY GateTypes, GateCounts DEF GateInv
<1>1. CASE UNCHANGED vars
  BY <1>1 DEF GateInv, DrainKnows, CounterOf, Emptying, vars
<1> QED BY <1>1, HolderKeeps, OtherDrainKeeps, OwnDrainKeeps DEF Next

\* The inductive invariant holds in every state.
LEMMA GateInvariant == Spec => []GateInv
BY GateInit, GateStep, PTL DEF Spec

------------------------------------------------------------------------------
(* drain() returns only once every hold taken before it was called has been  *)
(* dropped, for any number of holders and drains and any bound on the epoch. *)
THEOREM DrainsWait == Spec => []DrainWaits
<1>1. GateInv => DrainWaits
  BY DEF GateInv, DrainKnows, DrainWaits
<1> QED BY <1>1, GateInvariant, PTL

(* Every step of the gate is a step of the gate its callers rely on, or      *)
(* leaves that gate as it is.                                                *)
THEOREM GateImplemented == Spec => ImplementsGate
<1> USE DEF Active
<1>1. Init => Gate!Init
  BY DEF Init, Gate!Init
<1>2. GateInv /\ [Next]_vars => [Gate!Next]_(Gate!gateVars)
  <2> SUFFICES ASSUME GateInv, [Next]_vars PROVE [Gate!Next]_(Gate!gateVars)
    OBVIOUS
  <2>1. TypeOK /\ \A d \in Drains : DrainKnows(d)
    BY DEF GateInv
  <2>2. ASSUME NEW p \in Holders, HolderStep(p) PROVE [Gate!Next]_(Gate!gateVars)
    <3>1. CASE CallHold(p) \/ LoadEpoch(p) \/ Count(p) \/ Subtract(p) \/ LookEpoch(p)
                 \/ NotifyWaiters(p)
      <4>1. {q \in Holders : hpc[q] = "held"}' = {q \in Holders : hpc[q] = "held"}
        BY <2>1, <3>1 DEF TypeOK, CallHold, LoadEpoch, Count, Subtract, LookEpoch, NotifyWaiters
      <4>2. UNCHANGED <<dpc, awaited>>
        BY <3>1 DEF CallHold, LoadEpoch, Count, Subtract, LookEpoch, NotifyWaiters
      <4> QED BY <4>1, <4>2 DEF Gate!gateVars
    <3>2. CASE CheckEpoch(p)
      <4>1. CASE epoch = read[p]
        <5>1. Gate!Hold(p)
          BY <2>1, <3>2, <4>1 DEF TypeOK, CheckEpoch, Gate!Hold
        <5> QED BY <5>1 DEF Gate!Next
      <4>2. CASE epoch # read[p]
        <5>1. {q \in Holders : hpc[q] = "held"}' = {q \in Holders : hpc[q] = "held"}
          BY <2>1, <3>2, <4>2 DEF TypeOK, CheckEpoch
        <5> QED BY <3>2, <5>1 DEF CheckEpoch, Gate!gateVars
      <4> QED BY <4>1, <4>2
    <3>3. CASE DropHold(p)
      <4>1. Gate!Drop(p)
        BY <2>1, <3>3 DEF TypeOK, DropHold, Gate!Drop
      <4> QED BY <4>1 DEF Gate!Next
    <3> QED BY <2>2, <3>1, <3>2, <3>3 DEF HolderStep
  <2>3. ASSUME NEW d \in Drains, DrainStep(d) PROVE [Gate!Next]_(Gate!gateVars)
    <3>1. CASE LockDraining(d) \/ Arm(d) \/ Wake(d) \/ BumpEpoch(d) \/ LeaveDrain(d)
      <4>1. {e \in Drains : Active(e)}' = {e \in Drains : Active(e)}
        BY <2>1, <3>1 DEF TypeOK, LockDraining, Arm, Wake, BumpEpoch, LeaveDrain
      <4>2. UNCHANGED <<hpc, awaited>>
        BY <3>1 DEF LockDraining, Arm, Wake, BumpEpoch, LeaveDrain
      <4> QED BY <4>1, <4>2 DEF Gate!gateVars
    <3>2. CASE CallDrain(d)
      <4>1. Gate!BeginDrain(d)
        BY <2>1, <3>2 DEF TypeOK, CallDrain, Gate!BeginDrain
      <4> QED BY <4>1 DEF Gate!Next
    <3>3. CASE TestEmpty(d)
      <4>1. CASE dpc'[d] = "drained"
        <5>1. awaited[d] = {}
          BY <2>1, <3>3, <4>1, OwnDrainKeeps DEF TypeOK, DrainKnows, TestEmpty, DrainStep
        <5>2. Gate!EndDrain(d)
          BY <2>1, <3>3, <4>1, <5>1 DEF TypeOK, TestEmpty, Gate!EndDrain
        <5> QED BY <5>2 DEF Gate!Next
      <4>2. CASE dpc'[d] # "drained"
        <5>1. {e \in Drains : Active(e)}' = {e \in Drains : Active(e)}
          BY <2>1, <3>3, <4>2 DEF TypeOK, TestEmpty
        <5> QED BY <3>3, <5>1 DEF TestEmpty, Gate!gateVars
      <4> QED BY <4>1, <4>2
    <3>4. CASE CancelDrain(d)
      <4>1. Gate!CancelDrain(d)
        BY <2>1, <3>4 DEF TypeOK, CancelDrain, Gate!CancelDrain
      <4> QED BY <4>1 DEF Gate!Next
    <3> QED BY <2>3, <3>1, <3>2, <3>3, <3>4 DEF DrainStep
  <2>4. CASE UNCHANGED vars
    BY <2>4 DEF vars, Gate!gateVars
  <2> QED BY <2>2, <2>3, <2>4 DEF Next
<1> QED BY <1>1, <1>2, GateInvariant, PTL DEF Spec, ImplementsGate, Gate!Spec
==============================================================================
