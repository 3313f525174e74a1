-------------------------- MODULE StoreLockProofs --------------------------
(***************************************************************************)
(* The proofs about the store lock, for any processes, stores and uses:    *)
(* the types of its variables, that nothing of a store is in use without   *)
(* the flock, and that the epoch tells every process which of its state is *)
(* out of date.                                                            *)
(***************************************************************************)
EXTENDS StoreLock, TLAPS

-----------------------------------------------------------------------------
(***************************************************************************)
(* The types.  TypeOK is inductive once it says that a gate is idle        *)
(* exactly when nobody is at it, and that whoever is there is of its       *)
(* process.                                                                *)
(***************************************************************************)

\* Who is at a gate.
GateOK == \A p \in Process :
    /\ at[p] = "idle" <=> gate[p] = NoGuard
    /\ gate[p] # NoGuard => gate[p] \in Guard /\ ProcG(gate[p]) = p

\* TypeOK, by the groups of variables that the actions leave unchanged together.
TypeDisk == dir \in BOOLEAN /\ epoch \in Epoch /\ nonces \in Nat
TypeState ==
    /\ flock \in Process \cup {Nobody} /\ held \in [Process -> BOOLEAN]
    /\ advanced \in [Process -> BOOLEAN] /\ retrying \in [Process -> BOOLEAN]
TypeEpoch == current \in [Process -> Epoch] /\ generation \in [Process -> Nat]
TypeGate ==
    /\ gate \in [Process -> Guard \cup {NoGuard}] /\ at \in [Process -> Phase]
    /\ dropped \in [Process -> BOOLEAN] /\ stale \in [Process -> BOOLEAN]
    /\ fresh \in [Process -> BOOLEAN] /\ stamp \in [Process -> Epoch]
    /\ GateOK
TypeUse ==
    /\ waiting \subseteq Guard /\ guards \subseteq Guard
    /\ spans \subseteq Use /\ covered \subseteq Use
    /\ op \in [Use -> {"none", "read", "write"}]
TypeAdopt == observed \in [Store -> Epoch] /\ observedGen \in [Store -> Nat \cup {NeverAdopted}]
TypeFile ==
    /\ dirty \in [Store -> BOOLEAN] /\ io \in [Store -> {"none", "share", "write", "lone"}]
    /\ left \in [Store -> BOOLEAN]
    /\ behind \in [Store -> SUBSET {"process", "sibling", "orphan", "deleted", "deletedUnmarked"}]
Types == TypeDisk /\ TypeState /\ TypeEpoch /\ TypeGate /\ TypeUse /\ TypeAdopt /\ TypeFile

\* The prover of a leaf that names none.
USE ZenonT(30)

\* The types by group of variables are TypeOK and GateOK.
LEMMA TypesTypeOK == Types <=> TypeOK /\ GateOK
BY DEF Types, TypeDisk, TypeState, TypeEpoch, TypeGate, TypeUse, TypeAdopt, TypeFile, TypeOK

\* A group left unchanged keeps its type.
LEMMA TypesUnchanged == ASSUME Types
    PROVE /\ UNCHANGED diskVars => TypeDisk'
          /\ UNCHANGED stateVars => TypeState'
          /\ UNCHANGED epochVars => TypeEpoch'
          /\ UNCHANGED gateVars => TypeGate'
          /\ UNCHANGED useVars => TypeUse'
          /\ UNCHANGED adoptVars => TypeAdopt'
          /\ UNCHANGED fileVars => TypeFile'
BY DEF Types, TypeDisk, TypeState, TypeEpoch, TypeGate, TypeUse, TypeAdopt, TypeFile, GateOK,
    diskVars, stateVars, epochVars, gateVars, useVars, adoptVars, fileVars

\* The store and the process of a guard.
LEMMA GuardType == ASSUME NEW g \in Guard
    PROVE /\ StoreG(g) \in Store /\ ProcG(g) \in Process /\ g # NoGuard
          /\ g[1] \in Use /\ g[2] \in {"use", "op"}
BY ConstantsAssumption DEF Guard, StoreG, ProcG

\* The store, the process and the two guards of a use.
LEMMA UseType == ASSUME NEW u \in Use
    PROVE /\ StoreOf[u] \in Store /\ ProcU(u) \in Process
          /\ <<u, "use">> \in Guard /\ <<u, "op">> \in Guard
          /\ StoreG(<<u, "use">>) = StoreOf[u] /\ StoreG(<<u, "op">>) = StoreOf[u]
          /\ ProcG(<<u, "use">>) = ProcU(u) /\ ProcG(<<u, "op">>) = ProcU(u)
BY ConstantsAssumption DEF Guard, StoreG, ProcG, ProcU

\* The kinds of epoch are epochs.
LEMMA EpochType ==
    /\ NoEpoch \in Epoch /\ Absent \in Epoch /\ Unreadable \in Epoch
    /\ \A n, c \in Nat : At(n, c) \in Epoch
BY DEF NoEpoch, Absent, Unreadable, At, Epoch

\* An advanced epoch is an epoch.
LEMMA NextEpochType == ASSUME nonces \in Nat, NEW e \in Epoch
    PROVE NextEpoch(e) \in Epoch /\ NoncesAfter(e) \in Nat
<1>1. CASE e.kind = "at"
  BY <1>1, SMT DEF NextEpoch, NoncesAfter, Epoch, At
<1>2. CASE e.kind # "at"
  BY <1>2, EpochType, SMT DEF NextEpoch, NoncesAfter
<1> QED BY <1>1, <1>2

\* What a process takes to be current is an epoch.
LEMMA SetCurrentType == ASSUME TypeEpoch, NEW p \in Process, NEW e \in Epoch, SetCurrent(p, e)
    PROVE TypeEpoch'
BY SMT DEF SetCurrent, TypeEpoch

\* A step in the gate keeps the types of the gate.
LEMMA InGateType == ASSUME TypeGate,
        NEW p \in Process, NEW g \in Guard, ProcG(g) = p, NEW phase \in Phase \ {"idle"},
        NEW b \in BOOLEAN, NEW c \in BOOLEAN, NEW e \in Epoch,
        InGate(p, g, phase, b, c, e)
    PROVE TypeGate'
<1>1. g # NoGuard /\ phase \in Phase /\ phase # "idle"
  BY GuardType
<1>2. TypeGate => GateOK'
  BY <1>1 DEF InGate, TypeGate, GateOK
<1>3. QED
  BY <1>1, <1>2 DEF InGate, TypeGate

\* Leaving the gate keeps them.
LEMMA LeaveGateType == ASSUME TypeGate, NEW p \in Process, LeaveGate(p)
    PROVE TypeGate'
BY EpochType DEF InGate, LeaveGate, TypeGate, GateOK, Phase

\* A release keeps the types of the hold.
LEMMA ReleaseType == ASSUME TypeState, NEW p \in Process, NEW G, NEW D, NEW b, NEW c,
        ReleaseIfIdle(p, G, D, b, c)
    PROVE TypeState'
BY DEF ReleaseIfIdle, Release, TypeState, stateVars

\* Joining, or turning to the gate, keeps the types of the claims.
LEMMA AcquireType == ASSUME Types, NEW g \in Guard, NEW i, Acquire(g, i)
    PROVE /\ guards' \subseteq Guard /\ waiting' \subseteq Guard
          /\ observedGen' \in [Store -> Nat \cup {NeverAdopted}]
BY GuardType DEF Acquire, Join, Types, TypeUse, TypeAdopt, TypeEpoch

\* Withdrawing a claim leaves each use with an operation or none.
LEMMA WithdrawType == ASSUME TypeUse, NEW g, NEW b, Withdraw(g, b)
    PROVE op' \in [Use -> {"none", "read", "write"}]
BY DEF Withdraw, TypeUse

\* Every step keeps the types and GateOK.
LEMMA TypeStep == ASSUME Types, [Next]_vars PROVE Types'
<1>1. ASSUME NEW u \in Use, BeginUse(u) PROVE Types'
  <2>1. TypeUse'
    BY <1>1, UseType, AcquireType DEF BeginUse, Types, TypeUse
  <2>2. TypeAdopt'
    BY <1>1, UseType, AcquireType DEF BeginUse, Types, TypeAdopt
  <2> QED BY <1>1, <2>1, <2>2, TypesUnchanged DEF BeginUse, Types
<1>2. ASSUME NEW u \in Use, IntoSpan(u) PROVE Types'
  <2>1. TypeUse'
    BY <1>2 DEF IntoSpan, Types, TypeUse
  <2> QED BY <1>2, <2>1, TypesUnchanged DEF IntoSpan, Types
<1>3. ASSUME NEW u \in Use, EndUse(u) PROVE Types'
  <2>1. TypeState'
    BY <1>3, UseType, ReleaseType DEF EndUse, Types, TypeState
  <2>2. TypeUse'
    BY <1>3 DEF EndUse, Types, TypeUse
  <2> QED BY <1>3, <2>1, <2>2, TypesUnchanged DEF EndUse, Types
<1>4. ASSUME NEW u \in Use, BeginOp(u, "read") PROVE Types'
  <2>1. TypeUse'
    BY <1>4, UseType, AcquireType DEF BeginOp, Types, TypeUse
  <2>2. TypeAdopt'
    BY <1>4, UseType, AcquireType DEF BeginOp, Types, TypeAdopt
  <2> QED BY <1>4, <2>1, <2>2, TypesUnchanged DEF BeginOp, Types
<1>5. ASSUME NEW u \in Use, BeginOp(u, "write") PROVE Types'
  <2>1. TypeUse'
    BY <1>5, UseType, AcquireType DEF BeginOp, Types, TypeUse
  <2>2. TypeAdopt'
    BY <1>5, UseType, AcquireType DEF BeginOp, Types, TypeAdopt
  <2> QED BY <1>5, <2>1, <2>2, TypesUnchanged DEF BeginOp, Types
<1>6. ASSUME NEW u \in Use, BeginSweep(u) PROVE Types'
  <2>1. TypeUse'
    BY <1>6, UseType, AcquireType DEF BeginSweep, Types, TypeUse
  <2>2. TypeAdopt'
    BY <1>6, UseType, AcquireType DEF BeginSweep, Types, TypeAdopt
  <2> QED BY <1>6, <2>1, <2>2, TypesUnchanged DEF BeginSweep, Types
<1>7. ASSUME NEW u \in Use, EndOp(u) PROVE Types'
  <2>1. TypeState'
    BY <1>7, UseType, ReleaseType, TypesUnchanged DEF EndOp, Types, TypeState
  <2>2. TypeUse'
    BY <1>7 DEF EndOp, Types, TypeUse
  <2> QED BY <1>7, <2>1, <2>2, TypesUnchanged DEF EndOp, Types
<1>8. ASSUME NEW u \in Use, Modify(u) PROVE Types'
  <2>1. TypeFile'
    BY <1>8 DEF Modify, Types, TypeFile
  <2> QED BY <1>8, <2>1, TypesUnchanged DEF Modify, Types
<1>9. ASSUME NEW u \in Use, StartFlush(u) PROVE Types'
  <2>1. TypeFile'
    BY <1>9 DEF StartFlush, Types, TypeFile
  <2> QED BY <1>9, <2>1, TypesUnchanged DEF StartFlush, Types
<1>10. ASSUME NEW u \in Use, SweepWrite(u) PROVE Types'
  <2>1. TypeFile'
    BY <1>10 DEF SweepWrite, Types, TypeFile
  <2> QED BY <1>10, <2>1, TypesUnchanged DEF SweepWrite, Types
<1>11. ASSUME NEW g \in Guard, JoinAtGate(g) PROVE Types'
  <2>1. TypeUse'
    BY <1>11 DEF JoinAtGate, Types, TypeUse, Join
  <2>2. TypeAdopt'
    BY <1>11, GuardType DEF JoinAtGate, Types, TypeAdopt, Join, TypeEpoch
  <2> QED BY <1>11, <2>1, <2>2, TypesUnchanged DEF JoinAtGate, Types
<1>12. ASSUME NEW g \in Guard, JoinBehind(g) PROVE Types'
  <2>1. TypeDisk'
    BY <1>12, GuardType, NextEpochType DEF JoinBehind, Types, TypeDisk, TypeEpoch
  <2>2. TypeGate'
    BY <1>12, GuardType, NextEpochType, EpochType, InGateType DEF JoinBehind, Types, TypeGate,
       FirstPhase, Phase, TypeDisk, TypeEpoch
  <2>3. TypeUse'
    BY <1>12 DEF JoinBehind, Types, TypeUse
  <2>4. TypeAdopt'
    BY <1>12, GuardType DEF JoinBehind, Types, TypeAdopt, TypeEpoch
  <2> QED BY <1>12, <2>1, <2>2, <2>3, <2>4, TypesUnchanged DEF JoinBehind, Types
<1>13. ASSUME NEW g \in Guard, TurnToFlock(g) PROVE Types'
  <2>1. TypeGate'
    BY <1>13, GuardType, EpochType, InGateType DEF TurnToFlock, Types, TypeGate, Phase
  <2>2. TypeUse'
    BY <1>13 DEF TurnToFlock, Types, TypeUse
  <2> QED BY <1>13, <2>1, <2>2, TypesUnchanged DEF TurnToFlock, Types
<1>14. ASSUME NEW g \in Guard, CancelWaiting(g) PROVE Types'
  <2>1. TypeUse'
    BY <1>14, WithdrawType DEF CancelWaiting, Types, TypeUse
  <2> QED BY <1>14, <2>1, TypesUnchanged DEF CancelWaiting, Types
<1>15. ASSUME NEW p \in Process, FilesIdle(p) PROVE Types'
  <2>1. TypeGate'
    BY <1>15 DEF FilesIdle, Types, TypeGate, GateOK, Phase
  <2> QED BY <1>15, <2>1, TypesUnchanged DEF FilesIdle, Types
<1>16. ASSUME NEW p \in Process, TakeFlock(p) PROVE Types'
  <2>1. TypeDisk'
    BY <1>16 DEF TakeFlock, Types, TypeDisk
  <2>2. TypeState'
    BY <1>16 DEF TakeFlock, Types, TypeState
  <2>3. TypeGate'
    BY <1>16 DEF TakeFlock, Types, TypeGate, GateOK, Phase
  <2> QED BY <1>16, <2>1, <2>2, <2>3, TypesUnchanged DEF TakeFlock, Types
<1>17. ASSUME NEW p \in Process, BeginHold(p) PROVE Types'
  <2> DEFINE g == gate[p]
  <2> USE DEF Types
  <2>1. PICK onDisk \in ReadEpoch : BeginHoldAt(p, onDisk)
    BY <1>17 DEF BeginHold
  <2>2. g \in Guard /\ ProcG(g) = p /\ onDisk \in Epoch
    BY <2>1, EpochType DEF ReadEpoch, TypeDisk, TypeGate, GateOK, BeginHoldAt
  <2> DEFINE advance == Intent(g) = "write" \/ at[p] = "readRecreated"
             isStale == at[p] = "readRecreated" \/ IsStaleAgainst(StoreG(g), onDisk)
  <2>3. isStale \in BOOLEAN
    OBVIOUS
  <2>4. CASE advance
    <3>1. NextEpoch(onDisk) \in Epoch /\ NoncesAfter(onDisk) \in Nat
      BY <2>2, NextEpochType DEF TypeDisk
    <3>2. TypeGate'
      BY <2>1, <2>2, <2>3, <2>4, <3>1, InGateType DEF BeginHoldAt, Phase
    <3>3. TypeDisk' /\ TypeUse'
      BY <2>1, <2>4, <3>1 DEF BeginHoldAt, TypeDisk, TypeUse
    <3> QED BY <2>1, <2>4, <3>2, <3>3, TypesUnchanged DEF BeginHoldAt, TypeDisk
  <2>5. CASE ~advance
    <3>a. TypeState' /\ TypeDisk'
      BY <2>1, <2>5 DEF BeginHoldAt, TypeState, TypeDisk
    <3>0. SetCurrent(p, onDisk)
      BY <2>1, <2>5 DEF BeginHoldAt
    <3>b. TypeEpoch'
      BY <2>2, <3>0, SetCurrentType
    <3>c. TypeUse'
      BY <2>1, <2>2, <2>5 DEF BeginHoldAt, TypeUse
    <3>1. TypeState' /\ TypeEpoch' /\ TypeDisk' /\ TypeUse'
      BY <3>a, <3>b, <3>c
    <3>2. TypeAdopt'
      BY <2>1, <2>2, <2>5, <3>1, TypesUnchanged DEF BeginHoldAt, Adopt, TypeAdopt, TypeEpoch
    <3>3. TypeGate'
      BY <2>1, <2>2, <2>3, <2>5, InGateType, LeaveGateType, EpochType DEF BeginHoldAt, Phase
    <3> QED BY <2>1, <2>5, <3>1, <3>2, <3>3, TypesUnchanged DEF BeginHoldAt
  <2> QED BY <2>4, <2>5
<1>18. ASSUME NEW p \in Process, WriteEpoch(p) PROVE Types'
  <2>1. TypeDisk'
    BY <1>18 DEF WriteEpoch, Types, TypeDisk, TypeGate
  <2>2. TypeState'
    BY <1>18 DEF WriteEpoch, Types, TypeState
  <2>3. TypeGate'
    BY <1>18 DEF WriteEpoch, Types, TypeGate, GateOK, Phase
  <2> QED BY <1>18, <2>1, <2>2, <2>3, TypesUnchanged DEF WriteEpoch, Types
<1>19. ASSUME NEW p \in Process, RecordAdvance(p) PROVE Types'
  <2> USE DEF Types
  <2>1. gate[p] \in Guard /\ ProcG(gate[p]) = p /\ stamp[p] \in Epoch /\ stale[p] \in BOOLEAN
    BY <1>19 DEF RecordAdvance, TypeGate, GateOK
  <2>2. TypeEpoch' /\ TypeState'
    BY <1>19, <2>1, SMT DEF RecordAdvance, SetCurrent, TypeEpoch, TypeState
  <2>3. TypeAdopt'
    BY <1>19, <2>1, <2>2, TypesUnchanged DEF RecordAdvance, Adopt, TypeAdopt, TypeEpoch
  <2>4. TypeGate'
    BY <1>19, <2>1, InGateType, LeaveGateType, EpochType DEF RecordAdvance, Phase, TypeGate
  <2> QED BY <1>19, <2>2, <2>3, <2>4, TypesUnchanged DEF RecordAdvance
<1>20. ASSUME NEW p \in Process, InstallHold(p) PROVE Types'
  <2>1. TypeState'
    BY <1>20 DEF InstallHold, Types, TypeState
  <2>2. TypeGate'
    BY <1>20, GuardType, EpochType, InGateType, LeaveGateType DEF InstallHold, Types, TypeGate,
       GateOK, Phase
  <2>3. TypeUse'
    BY <1>20, GuardType DEF InstallHold, Types, TypeUse, TypeGate, GateOK
  <2> QED BY <1>20, <2>1, <2>2, <2>3, TypesUnchanged DEF InstallHold, Types
<1>21. ASSUME NEW p \in Process, Reload(p) PROVE Types'
  <2>1. TypeGate'
    BY <1>21 DEF Reload, Types, TypeGate, GateOK, Phase
  <2>2. TypeFile'
    BY <1>21 DEF Reload, Types, TypeFile
  <2> QED BY <1>21, <2>1, <2>2, TypesUnchanged DEF Reload, Types
<1>22. ASSUME NEW p \in Process, NoteRefreshed(p) PROVE Types'
  <2>1. TypeGate'
    BY <1>22, LeaveGateType DEF NoteRefreshed, Types, TypeGate
  <2>2. TypeAdopt'
    BY <1>22 DEF NoteRefreshed, Types, TypeAdopt, Adopt, TypeEpoch
  <2> QED BY <1>22, <2>1, <2>2, TypesUnchanged DEF NoteRefreshed, Types
<1>23. ASSUME NEW p \in Process, RetryRelease(p) PROVE Types'
  <2>1. TypeState'
    BY <1>23 DEF RetryRelease, Types, TypeState
  <2> QED BY <1>23, <2>1, TypesUnchanged DEF RetryRelease, Types
<1>24. ASSUME NEW p \in Process, WriteEpochFails(p) PROVE Types'
  <2>1. TypeState'
    BY <1>24, ReleaseType, TypesUnchanged DEF WriteEpochFails, Types, TypeState, stateVars
  <2>2. TypeGate'
    BY <1>24, LeaveGateType DEF WriteEpochFails, Types, TypeGate
  <2>3. TypeUse'
    BY <1>24, WithdrawType DEF WriteEpochFails, Types, TypeUse
  <2> QED BY <1>24, <2>1, <2>2, <2>3, TypesUnchanged DEF WriteEpochFails, Types
<1>25. ASSUME NEW p \in Process, CancelAtGate(p) PROVE Types'
  <2>1. TypeState'
    BY <1>25, ReleaseType DEF CancelAtGate, Types, TypeState
  <2>2. TypeGate'
    BY <1>25, LeaveGateType DEF CancelAtGate, Types, TypeGate, GateOK
  <2>3. TypeUse'
    BY <1>25, WithdrawType DEF CancelAtGate, Types, TypeUse
  <2> QED BY <1>25, <2>1, <2>2, <2>3, TypesUnchanged DEF CancelAtGate, Types
<1>26. ASSUME NEW p \in Process, Crash(p) PROVE Types'
  <2>1. TypeState'
    BY <1>26 DEF Crash, Types, TypeState
  <2>2. TypeEpoch'
    BY <1>26, EpochType DEF Crash, Types, TypeEpoch
  <2>3. TypeGate'
    BY <1>26, LeaveGateType DEF Crash, Types, TypeGate
  <2>4. TypeUse'
    BY <1>26 DEF Crash, Types, TypeUse
  <2>5. TypeAdopt'
    BY <1>26, EpochType DEF Crash, Types, TypeAdopt
  <2>6. TypeFile'
    BY <1>26 DEF Crash, Types, TypeFile
  <2> QED BY <1>26, <2>1, <2>2, <2>3, <2>4, <2>5, <2>6, TypesUnchanged DEF Crash, Types
<1>27. ASSUME NEW s \in Store, ClaimFlag(s) PROVE Types'
  <2>1. TypeFile'
    BY <1>27 DEF ClaimFlag, Types, TypeFile
  <2> QED BY <1>27, <2>1, TypesUnchanged DEF ClaimFlag, Types
<1>28. ASSUME NEW s \in Store, Land(s) PROVE Types'
  <2>1. TypeFile'
    BY <1>28 DEF Land, Types, TypeFile, EndWrite, Parts
  <2> QED BY <1>28, <2>1, TypesUnchanged DEF Land, Types
<1>29. ASSUME NEW s \in Store, EndFlush(s) PROVE Types'
  <2>1. TypeState'
    BY <1>29, ConstantsAssumption, ReleaseType DEF EndFlush, Types, TypeState
  <2>2. TypeFile'
    BY <1>29 DEF EndFlush, Types, TypeFile
  <2> QED BY <1>29, <2>1, <2>2, TypesUnchanged DEF EndFlush, Types
<1>30. ASSUME NEW s \in Store, LandFails(s) PROVE Types'
  <2>1. TypeFile'
    BY <1>30 DEF LandFails, Types, TypeFile, EndWrite
  <2> QED BY <1>30, <2>1, TypesUnchanged DEF LandFails, Types
<1>31. ASSUME NEW s \in Store, Reopen(s) PROVE Types'
  <2>1. TypeAdopt'
    BY <1>31, EpochType DEF Reopen, Types, TypeAdopt
  <2>2. TypeFile'
    BY <1>31 DEF Reopen, Types, TypeFile
  <2> QED BY <1>31, <2>1, <2>2, TypesUnchanged DEF Reopen, Types
<1>32. CASE Delete
  <2>1. TypeDisk'
    BY <1>32, EpochType DEF Delete, Types, TypeDisk
  <2>2. TypeFile'
    BY <1>32 DEF Delete, Types, TypeFile
  <2> QED BY <1>32, <2>1, <2>2, TypesUnchanged DEF Delete, Types
<1>33. CASE UNCHANGED vars
  BY <1>33, TypesUnchanged DEF vars, Types
<1> QED
  BY <1>1, <1>2, <1>3, <1>4, <1>5, <1>6, <1>7, <1>8, <1>9, <1>10, <1>11, <1>12, <1>13, <1>14, <1>15, <1>16, <1>17, <1>18, <1>19, <1>20, <1>21, <1>22, <1>23, <1>24, <1>25, <1>26, <1>27, <1>28, <1>29, <1>30, <1>31, <1>32, <1>33 DEF Next, UseStep, GuardStep, GateStep, FlushStep, Failure

\* Every state the lock reaches is well typed.
THEOREM TypeCorrect == Spec => []TypeOK
<1>1. Init => Types
  BY EpochType, SMT DEF Init, Types, TypeDisk, TypeState, TypeEpoch, TypeGate, TypeUse, TypeAdopt,
     TypeFile, GateOK, Phase
<1>2. Types /\ [Next]_vars => Types'
  BY TypeStep
<1> QED BY <1>1, <1>2, TypesTypeOK, PTL DEF Spec

-----------------------------------------------------------------------------
(***************************************************************************)
(* Nothing of a store is in use without the flock.                         *)
(*                                                                         *)
(* NothingWithoutFlock is not inductive: a release at the end of one use   *)
(* says nothing of an acquisition halfway through the gate, which may have *)
(* the flock and no guard yet.  The invariant says, process by process,    *)
(* where an acquisition at the gate stands in each phase (AtGate), and     *)
(* that the claims of one use are apart (Claims).  A step is one process's *)
(* (Only), so that each action is looked at for that process alone.        *)
(***************************************************************************)

\* The claims of p's uses do not get in each other's way.
Claims(p) ==
    /\ \A g \in waiting : ProcG(g) = p => g \notin guards /\ gate[p] # g
    /\ \A u \in covered : ProcU(u) = p =>
           /\ op[u] # "none"
           /\ <<u, "use">> \in guards /\ gate[p] # <<u, "use">>
           /\ <<u, "op">> \notin guards /\ gate[p] # <<u, "op">> /\ <<u, "op">> \notin waiting

\* Whether the acquisition at p's gate is counted in, and whether p has the flock, by phase.
AtGate(p) ==
    /\ at[p] \in {"flock", "read", "readRecreated", "install"} =>
           ~held[p] /\ ~dropped[p] /\ gate[p] \notin guards
    /\ at[p] \in {"files", "reload", "refreshed"} => ~dropped[p] /\ gate[p] \in guards
    /\ at[p] = "files" => ~fresh[p]
    /\ at[p] \in {"write", "record"} =>
           \/ fresh[p] /\ ~held[p] /\ gate[p] \notin guards
           \/ ~fresh[p] /\ (gate[p] \in guards <=> ~dropped[p])
    /\ \/ at[p] \in {"read", "readRecreated", "write", "install"}
       \/ at[p] = "record" /\ fresh[p] /\ ~dropped[p]
       => flock = p

\* What p works on it holds, and what it holds is locked.
Holds(p) ==
    /\ \A g \in guards : ProcG(g) = p => held[p]
    /\ \A s \in Store : ProcOf[s] = p /\ (dirty[s] \/ io[s] # "none") => held[p]
    /\ held[p] => flock = p

Exclusive == Types /\ \A p \in Process : Claims(p) /\ AtGate(p) /\ Holds(p)

\* A step of p alone.
GateOnly(p) == \A q \in Process : q # p =>
    gate'[q] = gate[q] /\ at'[q] = at[q] /\ dropped'[q] = dropped[q] /\ fresh'[q] = fresh[q]
HeldOnly(p) == \A q \in Process : q # p => held'[q] = held[q] /\ (flock = q => flock' = q)
UsesOnly(p) ==
    /\ \A g \in Guard : ProcG(g) # p =>
           (g \in guards' <=> g \in guards) /\ (g \in waiting' <=> g \in waiting)
    /\ \A u \in Use : ProcU(u) # p => (u \in covered' <=> u \in covered) /\ op'[u] = op[u]
FilesOnly(p) == \A s \in Store : ProcOf[s] # p => dirty'[s] = dirty[s] /\ io'[s] = io[s]
Only(p) == GateOnly(p) /\ HeldOnly(p) /\ UsesOnly(p) /\ FilesOnly(p)

\* A step of one process keeps the invariant when it keeps it of that process.
LEMMA OnlyKeeps == ASSUME Exclusive, Types', NEW p \in Process, Only(p), Claims(p)', AtGate(p)', Holds(p)'
    PROVE Exclusive'
<1> SUFFICES ASSUME NEW q \in Process, q # p PROVE Claims(q)' /\ AtGate(q)' /\ Holds(q)'
  BY DEF Exclusive
<1>1. Claims(q) /\ AtGate(q) /\ Holds(q)
  BY DEF Exclusive
<1>2. /\ \A g \in Guard : ProcG(g) = q => (g \in guards' <=> g \in guards) /\ (g \in waiting' <=> g \in waiting)
      /\ \A u \in Use : ProcU(u) = q => (u \in covered' <=> u \in covered) /\ op'[u] = op[u]
      /\ \A s \in Store : ProcOf[s] = q => dirty'[s] = dirty[s] /\ io'[s] = io[s]
  <2>1. \A g \in Guard : ProcG(g) = q => (g \in guards' <=> g \in guards) /\ (g \in waiting' <=> g \in waiting)
    BY DEF Only, UsesOnly
  <2>2. \A u \in Use : ProcU(u) = q => (u \in covered' <=> u \in covered) /\ op'[u] = op[u]
    BY DEF Only, UsesOnly
  <2>3. \A s \in Store : ProcOf[s] = q => dirty'[s] = dirty[s] /\ io'[s] = io[s]
    BY DEF Only, FilesOnly
  <2> QED BY <2>1, <2>2, <2>3
<1>3. /\ gate'[q] = gate[q] /\ at'[q] = at[q] /\ dropped'[q] = dropped[q] /\ fresh'[q] = fresh[q]
      /\ held'[q] = held[q] /\ (flock = q => flock' = q)
  BY DEF Only, GateOnly, HeldOnly, UsesOnly, FilesOnly
<1>4. waiting' \subseteq Guard /\ guards' \subseteq Guard /\ covered' \subseteq Use
  BY DEF Types, TypeUse
<1>5. Claims(q)'
  <2>1. ASSUME NEW g \in waiting', ProcG(g) = q PROVE g \notin guards' /\ gate'[q] # g
    BY <2>1, <1>1, <1>2, <1>3, <1>4 DEF Claims
  <2>2. ASSUME NEW u \in covered', ProcU(u) = q
        PROVE /\ op'[u] # "none"
              /\ <<u, "use">> \in guards' /\ gate'[q] # <<u, "use">>
              /\ <<u, "op">> \notin guards' /\ gate'[q] # <<u, "op">> /\ <<u, "op">> \notin waiting'
    <3>1. u \in Use /\ u \in covered /\ op'[u] = op[u]
      BY <2>2, <1>2, <1>4
    <3>2. /\ <<u, "use">> \in guards' <=> <<u, "use">> \in guards
          /\ <<u, "op">> \in guards' <=> <<u, "op">> \in guards
          /\ <<u, "op">> \in waiting' <=> <<u, "op">> \in waiting
      BY <2>2, <3>1, <1>2, UseType
    <3> QED BY <2>2, <3>1, <3>2, <1>1, <1>3 DEF Claims
  <2> QED BY <2>1, <2>2 DEF Claims
<1>6. AtGate(q)'
  <2>1. at[q] # "idle" => (gate[q] \in guards' <=> gate[q] \in guards)
    BY <1>2 DEF Exclusive, Types, TypeGate, GateOK
  <2> QED BY <2>1, <1>1, <1>3 DEF AtGate
<1>7. Holds(q)'
  <2>1. ASSUME NEW g \in guards', ProcG(g) = q PROVE held'[q]
    BY <2>1, <1>1, <1>2, <1>3, <1>4 DEF Holds
  <2>2. ASSUME NEW s \in Store, ProcOf[s] = q, dirty'[s] \/ io'[s] # "none" PROVE held'[q]
    BY <2>2, <1>1, <1>2, <1>3 DEF Holds
  <2>3. held'[q] => flock' = q
    BY <1>1, <1>3 DEF Holds
  <2> QED BY <2>1, <2>2, <2>3 DEF Holds
<1> QED BY <1>5, <1>6, <1>7

\* What is unchanged is unchanged of the other processes.
LEMMA Unchanged == ASSUME NEW p \in Process
    PROVE /\ UNCHANGED <<gate, at, dropped, fresh>> => GateOnly(p)
          /\ UNCHANGED <<held, flock>> => HeldOnly(p)
          /\ UNCHANGED <<guards, waiting, covered, op>> => UsesOnly(p)
          /\ UNCHANGED <<dirty, io>> => FilesOnly(p)
BY DEF GateOnly, HeldOnly, UsesOnly, FilesOnly

\* A step in the gate of one process leaves the other gates alone.
LEMMA InGateOnly == ASSUME TypeGate, NEW p \in Process, NEW g, NEW phase, NEW b, NEW c, NEW e,
        InGate(p, g, phase, b, c, e)
    PROVE /\ GateOnly(p)
          /\ gate'[p] = g /\ at'[p] = phase /\ dropped'[p] = FALSE /\ fresh'[p] = c
BY DEF InGate, TypeGate, GateOnly

\* A release lets go only of what is idle, has no file in use, and no epoch write in flight.
LEMMA ReleaseOnly == ASSUME Exclusive, NEW p \in Process, NEW G, NEW D, NEW b, NEW c, ReleaseIfIdle(p, G, D, b, c)
    PROVE /\ HeldOnly(p)
          /\ \/ held'[p] = held[p] /\ flock' = flock
             \/ /\ held[p] /\ ~held'[p] /\ Idle(p, G, D) /\ ~b
                /\ flock = p /\ ((~c /\ flock' = Nobody) \/ (c /\ flock' = p))
<1>1. TypeState /\ (held[p] => flock = p)
  BY DEF Exclusive, Types, Holds
<1>2. CASE ~Idle(p, G, D) \/ (held[p] /\ b)
  BY <1>1, <1>2 DEF ReleaseIfIdle, Release, TypeState, stateVars, HeldOnly
<1>3. CASE Idle(p, G, D) /\ ~(held[p] /\ b)
  <2>1. held' = [held EXCEPT ![p] = FALSE] /\ flock' = IF held[p] /\ ~c THEN Nobody ELSE flock
    BY <1>3 DEF ReleaseIfIdle, Release
  <2>2. HeldOnly(p)
    BY <2>1, <1>1 DEF TypeState, HeldOnly
  <2> QED BY <2>1, <2>2, <1>1, <1>3 DEF TypeState
<1> QED BY <1>2, <1>3

\* What the invariant says of the process of a step.
LEMMA Before == ASSUME Exclusive, NEW p \in Process
    PROVE /\ Claims(p) /\ AtGate(p) /\ Holds(p)
          /\ at[p] = "idle" <=> gate[p] = NoGuard
          /\ gate[p] # NoGuard => gate[p] \in Guard /\ ProcG(gate[p]) = p
          /\ waiting \subseteq Guard /\ guards \subseteq Guard /\ covered \subseteq Use
          /\ TypeGate /\ op \in [Use -> {"none", "read", "write"}]
BY DEF Exclusive, Types, TypeGate, GateOK, TypeUse

\* Claims stay apart where none is made.
LEMMA ClaimsKept == ASSUME Exclusive, NEW p \in Process, UNCHANGED <<guards, waiting, covered, op>>,
        gate'[p] = gate[p] \/ gate'[p] = NoGuard
    PROVE Claims(p)'
<1>1. \A g \in Guard : gate[p] # g => gate'[p] # g
  BY GuardType
<1>2. Claims(p) /\ waiting \subseteq Guard /\ covered \subseteq Use
  BY Before
<1> QED BY <1>1, <1>2, UseType DEF Claims

\* What is known at a gate stays while gate, hold and flock do.
LEMMA AtGateKept == ASSUME Exclusive, NEW p \in Process,
        gate'[p] = gate[p], at'[p] = at[p], dropped'[p] = dropped[p], fresh'[p] = fresh[p],
        held'[p] = held[p], flock' = flock,
        gate[p] \in Guard => (gate[p] \in guards' <=> gate[p] \in guards)
    PROVE AtGate(p)'
BY Before DEF AtGate

\* Everything stays under the flock while what begins is under it.
LEMMA HoldsKept == ASSUME Exclusive, NEW p \in Process, held'[p] = held[p], flock' = flock,
        \A g \in guards' : ProcG(g) = p => g \in guards \/ held[p],
        \A s \in Store : ProcOf[s] = p /\ (dirty'[s] \/ io'[s] # "none") =>
                             dirty[s] \/ io[s] # "none" \/ held[p]
    PROVE Holds(p)'
BY Before DEF Holds

\* Nothing is left without the flock by a release, and an epoch write keeps it.
LEMMA LetGo == ASSUME Exclusive, NEW p \in Process,
        gate'[p] = gate[p], at'[p] = at[p], dropped'[p] = dropped[p], fresh'[p] = fresh[p],
        guards' \subseteq guards, gate[p] \in guards' <=> gate[p] \in guards,
        \A s \in Store : ProcOf[s] = p /\ (dirty'[s] \/ io'[s] # "none") => dirty[s] \/ io[s] # "none",
        \/ held'[p] = held[p] /\ flock' = flock
        \/ /\ held[p] /\ ~held'[p]
           /\ \A g \in guards' : ProcG(g) # p
           /\ \A s \in Store : ProcOf[s] = p => ~dirty'[s] /\ io'[s] = "none"
           /\ flock = p /\ ((~(at[p] = "write") /\ flock' = Nobody) \/ (at[p] = "write" /\ flock' = p))
    PROVE AtGate(p)' /\ Holds(p)'
<1>1. CASE held'[p] = held[p] /\ flock' = flock
  <2>1. AtGate(p)'
    BY <1>1, AtGateKept
  <2>2. Holds(p)'
    BY <1>1, HoldsKept
  <2> QED BY <2>1, <2>2
<1>2. CASE /\ held[p] /\ ~held'[p]
           /\ \A g \in guards' : ProcG(g) # p
           /\ \A s \in Store : ProcOf[s] = p => ~dirty'[s] /\ io'[s] = "none"
           /\ flock = p /\ ((~(at[p] = "write") /\ flock' = Nobody) \/ (at[p] = "write" /\ flock' = p))
  <2>1. AtGate(p) /\ (gate[p] # NoGuard => ProcG(gate[p]) = p) /\ (at[p] = "idle" <=> gate[p] = NoGuard)
    BY Before
  <2>2. AtGate(p)'
    BY <1>2, <2>1 DEF AtGate
  <2> QED BY <1>2, <2>2 DEF Holds
<1> QED BY <1>1, <1>2

\* A step that leaves p's gate, its claims and its hold alone.
LEMMA Idles == ASSUME Exclusive, Types', NEW p \in Process,
        UNCHANGED <<gate, at, dropped, fresh>>, UNCHANGED <<held, flock>>,
        UNCHANGED <<guards, waiting, covered, op>>, FilesOnly(p),
        \A s \in Store : ProcOf[s] = p /\ (dirty'[s] \/ io'[s] # "none") =>
                             dirty[s] \/ io[s] # "none" \/ held[p]
    PROVE Exclusive'
<1>1. Claims(p)'
  BY ClaimsKept
<1>2. AtGate(p)'
  BY AtGateKept
<1>3. Holds(p)'
  BY HoldsKept
<1>4. Only(p)
  BY Unchanged DEF Only
<1> QED BY <1>1, <1>2, <1>3, <1>4, OnlyKeeps

\* A use that claims the store: the invariant is kept.
LEMMA BeginUseKeeps == ASSUME Exclusive, Types', NEW u \in Use, BeginUse(u) PROVE Exclusive'
<1> DEFINE p == ProcU(u)  g == <<u, "use">>
<1>1. p \in Process /\ g \in Guard /\ ProcG(g) = p
  BY UseType
<1>2. UNCHANGED <<gate, at, dropped, fresh, held, flock, dirty, io, covered, op>>
  BY DEF BeginUse, gateVars, stateVars, fileVars
<1>3. g \notin guards /\ g \notin waiting /\ gate[p] # g /\ op[u] = "none"
  BY <1>1 DEF BeginUse, Unclaimed
<1>4. \/ guards' = guards \cup {g} /\ waiting' = waiting /\ held[p]
      \/ guards' = guards /\ waiting' = waiting \cup {g}
  BY <1>1 DEF BeginUse, Acquire, Join, TryJoin, StoreG, ProcG
<1>5. Only(p)
  <2>1. UsesOnly(p)
    BY <1>1, <1>2, <1>4 DEF UsesOnly
  <2> QED BY <2>1, <1>1, <1>2, Unchanged DEF Only
<1>6. Claims(p)'
  <2>1. Claims(p)
    BY <1>1, Before
  <2>2. \A v \in covered : ProcU(v) = p => <<v, "op">> # g
    BY <2>1, <1>3 DEF Claims
  <2> QED BY <2>1, <2>2, <1>2, <1>3, <1>4 DEF Claims
<1>7. AtGate(p)'
  BY <1>1, <1>2, <1>3, <1>4, AtGateKept
<1>8. Holds(p)'
  BY <1>1, <1>2, <1>4, HoldsKept
<1> QED BY <1>1, <1>5, <1>6, <1>7, <1>8, OnlyKeeps

\* An operation that joins the hold or turns to the gate: the invariant is kept.
LEMMA BeginOpKeeps == ASSUME Exclusive, Types', NEW u \in Use, NEW intent \in {"read", "write"}, BeginOp(u, intent)
    PROVE Exclusive'
<1> DEFINE p == ProcU(u)  g == <<u, "op">>
<1>1. p \in Process /\ g \in Guard /\ ProcG(g) = p
  BY UseType
<1>2. UNCHANGED <<gate, at, dropped, fresh, held, flock, dirty, io>> /\ op' = [op EXCEPT ![u] = intent]
  BY DEF BeginOp, gateVars, stateVars, fileVars
<1>3. /\ g \notin guards /\ g \notin waiting /\ gate[p] # g /\ op[u] = "none"
      /\ <<u, "use">> \in guards /\ gate[p] # <<u, "use">>
  BY <1>1, UseType DEF BeginOp, Unclaimed, Claimed
<1>4. \/ guards' = guards \cup {g} /\ waiting' = waiting /\ covered' = covered /\ held[p]
      \/ guards' = guards /\ waiting' = waiting \cup {g} /\ covered' = covered
      \/ guards' = guards /\ waiting' = waiting /\ covered' = covered \cup {u}
  BY <1>1 DEF BeginOp, Acquire, Join, TryJoin, StoreG, ProcG
<1>5. Only(p)
  <2>1. UsesOnly(p)
    BY <1>1, <1>2, <1>4, Before DEF UsesOnly
  <2> QED BY <2>1, <1>1, <1>2, Unchanged DEF Only
<1>6. Claims(p)'
  <2>1. Claims(p) /\ covered \subseteq Use /\ op \in [Use -> {"none", "read", "write"}]
    BY <1>1, Before
  <2>2. ASSUME NEW h \in waiting', ProcG(h) = p PROVE h \notin guards' /\ gate'[p] # h
    <3>1. CASE h = g
      BY <2>2, <3>1, <1>2, <1>3, <1>4
    <3>2. CASE h # g
      <4>1. h \in waiting
        BY <2>2, <3>2, <1>4
      <4>2. h \notin guards /\ gate[p] # h
        BY <2>1, <2>2, <4>1 DEF Claims
      <4> QED BY <3>2, <4>2, <1>2, <1>4
    <3> QED BY <3>1, <3>2
  <2>3. u \notin covered
    BY <2>1, <1>3 DEF Claims
  <2>4. ASSUME NEW v \in covered', ProcU(v) = p
        PROVE /\ op'[v] # "none"
              /\ <<v, "use">> \in guards' /\ gate'[p] # <<v, "use">>
              /\ <<v, "op">> \notin guards' /\ gate'[p] # <<v, "op">> /\ <<v, "op">> \notin waiting'
    <3>1. CASE v = u
      BY <3>1, <2>1, <2>3, <1>2, <1>3, <1>4
    <3>2. CASE v # u
      <4>1. v \in covered
        BY <3>2, <2>4, <1>4
      <4>2. op'[v] = op[v] /\ <<v, "op">> # g
        BY <4>1, <3>2, <2>1, <1>2
      <4> QED BY <4>1, <4>2, <2>4, <2>1, <1>2, <1>4 DEF Claims
    <3> QED BY <3>1, <3>2
  <2> QED BY <2>2, <2>4 DEF Claims
<1>7. AtGate(p)'
  BY <1>1, <1>2, <1>3, <1>4, AtGateKept
<1>8. Holds(p)'
  BY <1>1, <1>2, <1>4, HoldsKept
<1> QED BY <1>1, <1>5, <1>6, <1>7, <1>8, OnlyKeeps

\* A delayed flush that begins, outside any use: the invariant is kept.
LEMMA BeginSweepKeeps == ASSUME Exclusive, Types', NEW u \in Use, BeginSweep(u) PROVE Exclusive'
<1> DEFINE p == ProcU(u)  g == <<u, "op">>
<1>1. p \in Process /\ g \in Guard /\ ProcG(g) = p
  BY UseType
<1>2. UNCHANGED <<gate, at, dropped, fresh, held, flock, dirty, io, covered>> /\ op' = [op EXCEPT ![u] = "write"]
  BY DEF BeginSweep, gateVars, stateVars, fileVars
<1>3. /\ g \notin guards /\ g \notin waiting /\ gate[p] # g /\ op[u] = "none"
  BY <1>1, UseType DEF BeginSweep, Unclaimed
<1>4. \/ guards' = guards \cup {g} /\ waiting' = waiting /\ held[p]
      \/ guards' = guards /\ waiting' = waiting \cup {g}
  BY <1>1 DEF BeginSweep, Acquire, Join, TryJoin, StoreG, ProcG
<1>5. Only(p)
  <2>1. UsesOnly(p)
    BY <1>1, <1>2, <1>4, Before DEF UsesOnly
  <2> QED BY <2>1, <1>1, <1>2, Unchanged DEF Only
<1>6. Claims(p)'
  <2>1. Claims(p) /\ covered \subseteq Use /\ op \in [Use -> {"none", "read", "write"}]
    BY <1>1, Before
  <2>2. ASSUME NEW h \in waiting', ProcG(h) = p PROVE h \notin guards' /\ gate'[p] # h
    <3>1. CASE h = g
      BY <2>2, <3>1, <1>2, <1>3, <1>4
    <3>2. CASE h # g
      <4>1. h \in waiting
        BY <2>2, <3>2, <1>4
      <4>2. h \notin guards /\ gate[p] # h
        BY <2>1, <2>2, <4>1 DEF Claims
      <4> QED BY <3>2, <4>2, <1>2, <1>4
    <3> QED BY <3>1, <3>2
  <2>3. u \notin covered
    BY <2>1, <1>3 DEF Claims
  <2>4. ASSUME NEW v \in covered', ProcU(v) = p
        PROVE /\ op'[v] # "none"
              /\ <<v, "use">> \in guards' /\ gate'[p] # <<v, "use">>
              /\ <<v, "op">> \notin guards' /\ gate'[p] # <<v, "op">> /\ <<v, "op">> \notin waiting'
    <3>1. v \in covered /\ v # u
      BY <2>3, <2>4, <1>2
    <3>2. op'[v] = op[v] /\ <<v, "op">> # g
      BY <3>1, <2>1, <1>2
    <3> QED BY <3>1, <3>2, <2>4, <2>1, <1>2, <1>4 DEF Claims
  <2> QED BY <2>2, <2>4 DEF Claims
<1>7. AtGate(p)'
  BY <1>1, <1>2, <1>3, <1>4, AtGateKept
<1>8. Holds(p)'
  BY <1>1, <1>2, <1>4, HoldsKept
<1> QED BY <1>1, <1>5, <1>6, <1>7, <1>8, OnlyKeeps

\* The end of a use, which may let the flock go: the invariant is kept.
LEMMA EndUseKeeps == ASSUME Exclusive, Types', NEW u \in Use, EndUse(u) PROVE Exclusive'
<1> DEFINE p == ProcU(u)  g == <<u, "use">>  G == guards \ {g}
<1>1. p \in Process /\ g \in Guard /\ ProcG(g) = p
  BY UseType
<1>2. UNCHANGED <<gate, at, dropped, fresh, dirty, io, covered, op, waiting>> /\ guards' = G
  BY DEF EndUse, gateVars, fileVars
<1>3. gate[p] # g /\ op[u] = "none"
  BY <1>1 DEF EndUse, Claimed
<1>4. /\ HeldOnly(p)
      /\ \/ held'[p] = held[p] /\ flock' = flock
         \/ /\ held[p] /\ ~held'[p] /\ Idle(p, G, dirty) /\ ~FilesInUse(p)
            /\ flock = p /\ ((~(at[p] = "write") /\ flock' = Nobody) \/ (at[p] = "write" /\ flock' = p))
  <2>1. ReleaseIfIdle(p, G, dirty, FilesInUse(p), at[p] = "write")
    BY DEF EndUse
  <2> QED BY <2>1, <1>1, ReleaseOnly
<1>5. Only(p)
  <2>1. UsesOnly(p)
    BY <1>1, <1>2 DEF UsesOnly
  <2> QED BY <2>1, <1>1, <1>2, <1>4, Unchanged DEF Only
<1>6. Claims(p)'
  <2>1. Claims(p)
    BY <1>1, Before
  <2>2. \A v \in covered : ProcU(v) = p => <<v, "use">> # g
    BY <2>1, <1>3 DEF Claims
  <2> QED BY <2>1, <2>2, <1>2 DEF Claims
<1>7. AtGate(p)' /\ Holds(p)'
  <2>1. Idle(p, G, dirty) /\ ~FilesInUse(p) =>
            /\ \A h \in guards' : ProcG(h) # p
            /\ \A s \in Store : ProcOf[s] = p => ~dirty'[s] /\ io'[s] = "none"
    BY <1>2 DEF Idle, FilesInUse
  <2> QED BY <2>1, <1>1, <1>2, <1>3, <1>4, LetGo
<1> QED BY <1>1, <1>5, <1>6, <1>7, OnlyKeeps

\* The end of an operation, which may let the flock go: the invariant is kept.
LEMMA EndOpKeeps == ASSUME Exclusive, Types', NEW u \in Use, EndOp(u) PROVE Exclusive'
<1> DEFINE p == ProcU(u)  g == <<u, "op">>  G == guards \ {g}
<1>1. p \in Process /\ g \in Guard /\ ProcG(g) = p
  BY UseType
<1>2. /\ UNCHANGED <<gate, at, dropped, fresh, dirty, io, waiting>> /\ guards' = G
      /\ op' = [op EXCEPT ![u] = "none"] /\ covered' = covered \ {u}
  BY DEF EndOp, gateVars, fileVars
<1>3. gate[p] # g
  BY <1>1, Before DEF EndOp, Running, Claims
<1>4. /\ HeldOnly(p)
      /\ \/ held'[p] = held[p] /\ flock' = flock
         \/ /\ held[p] /\ ~held'[p] /\ Idle(p, G, dirty) /\ ~FilesInUse(p)
            /\ flock = p /\ ((~(at[p] = "write") /\ flock' = Nobody) \/ (at[p] = "write" /\ flock' = p))
  <2>1. CASE u \in covered
    BY <2>1, <1>1, Unchanged DEF EndOp, stateVars
  <2>2. CASE u \notin covered
    <3>1. ReleaseIfIdle(p, G, dirty, FilesInUse(p), at[p] = "write")
      BY <2>2 DEF EndOp
    <3> QED BY <3>1, <1>1, ReleaseOnly
  <2> QED BY <2>1, <2>2
<1>5. Only(p)
  <2>1. UsesOnly(p)
    BY <1>1, <1>2, Before DEF UsesOnly
  <2> QED BY <2>1, <1>1, <1>2, <1>4, Unchanged DEF Only
<1>6. Claims(p)'
  <2>1. Claims(p) /\ covered \subseteq Use /\ op \in [Use -> {"none", "read", "write"}]
    BY <1>1, Before
  <2>2. \A v \in covered' : v \in covered /\ op'[v] = op[v] /\ <<v, "use">> # g
    BY <2>1, <1>2
  <2> QED BY <2>1, <2>2, <1>2 DEF Claims
<1>7. AtGate(p)' /\ Holds(p)'
  <2>1. Idle(p, G, dirty) /\ ~FilesInUse(p) =>
            /\ \A h \in guards' : ProcG(h) # p
            /\ \A s \in Store : ProcOf[s] = p => ~dirty'[s] /\ io'[s] = "none"
    BY <1>2 DEF Idle, FilesInUse
  <2> QED BY <2>1, <1>1, <1>2, <1>3, <1>4, LetGo
<1> QED BY <1>1, <1>5, <1>6, <1>7, OnlyKeeps


\* Changing files, flushing and sweeping happen under the flock.
LEMMA FileStepsKeep == ASSUME Exclusive, Types', NEW u \in Use, Modify(u) \/ StartFlush(u) \/ SweepWrite(u)
    PROVE Exclusive'
<1> DEFINE p == ProcU(u)  s == StoreOf[u]
<1>1. p \in Process /\ s \in Store /\ ProcOf[s] = p
  BY UseType DEF ProcU
<1>2. Running(u) /\ UNCHANGED <<gate, at, dropped, fresh, held, flock, guards, waiting, covered, op>>
  <2>1. CASE Modify(u)
    BY <2>1 DEF Modify, gateVars, stateVars, useVars
  <2>2. CASE StartFlush(u)
    BY <2>2 DEF StartFlush, gateVars, stateVars, useVars
  <2>3. CASE SweepWrite(u)
    BY <2>3 DEF SweepWrite, gateVars, stateVars, useVars
  <2> QED BY <2>1, <2>2, <2>3
<1>3. held[p]
  <2>1. <<u, "op">> \in guards \/ <<u, "use">> \in guards
    BY <1>1, <1>2, Before DEF Running, Claims
  <2>2. Holds(p) /\ ProcG(<<u, "op">>) = p /\ ProcG(<<u, "use">>) = p
    BY <1>1, Before, UseType
  <2> QED BY <2>1, <2>2 DEF Holds
<1>4. \A t \in Store : t # s => dirty'[t] = dirty[t] /\ io'[t] = io[t]
  BY <1>1 DEF Modify, StartFlush, SweepWrite, Exclusive, Types, TypeFile
<1>5. FilesOnly(p)
  BY <1>1, <1>4 DEF FilesOnly
<1> QED BY <1>1, <1>2, <1>3, <1>5, Idles

\* So do the steps of a flush.
LEMMA FlushStepsKeep == ASSUME Exclusive, Types', NEW s \in Store, ClaimFlag(s) \/ Land(s) \/ LandFails(s)
    PROVE Exclusive'
<1> DEFINE p == ProcOf[s]
<1>1. p \in Process
  BY ConstantsAssumption
<1>2. /\ UNCHANGED <<gate, at, dropped, fresh, held, flock, guards, waiting, covered, op>>
      /\ io[s] # "none"
  BY DEF ClaimFlag, Land, LandFails, EndWrite, gateVars, stateVars, useVars
<1>3. held[p]
  BY <1>1, <1>2, Before DEF Holds
<1>4. \A t \in Store : t # s => dirty'[t] = dirty[t] /\ io'[t] = io[t]
  BY DEF ClaimFlag, Land, LandFails, EndWrite, Exclusive, Types, TypeFile
<1>5. FilesOnly(p)
  BY <1>1, <1>4 DEF FilesOnly
<1> QED BY <1>1, <1>2, <1>3, <1>5, Idles

\* The end of a flush, which may let the flock go: the invariant is kept.
LEMMA EndFlushKeeps == ASSUME Exclusive, Types', NEW s \in Store, EndFlush(s) PROVE Exclusive'
<1> DEFINE p == ProcOf[s]  inUse == \E t \in Store : t # s /\ ProcOf[t] = p /\ io[t] # "none"
<1>1. p \in Process
  BY ConstantsAssumption
<1>2. /\ UNCHANGED <<gate, at, dropped, fresh, dirty, guards, waiting, covered, op>>
      /\ io[s] = "share" /\ io' = [io EXCEPT ![s] = "none"] /\ io \in [Store -> {"none", "share", "write", "lone"}]
  BY DEF EndFlush, gateVars, useVars, Exclusive, Types, TypeFile
<1>3. /\ HeldOnly(p)
      /\ \/ held'[p] = held[p] /\ flock' = flock
         \/ /\ held[p] /\ ~held'[p] /\ Idle(p, guards, dirty) /\ ~inUse
            /\ flock = p /\ ((~(at[p] = "write") /\ flock' = Nobody) \/ (at[p] = "write" /\ flock' = p))
  <2>1. ReleaseIfIdle(p, guards, dirty, inUse, at[p] = "write")
    BY DEF EndFlush
  <2> QED BY <2>1, <1>1, ReleaseOnly
<1>4. /\ \A t \in Store : dirty'[t] \/ io'[t] # "none" => dirty[t] \/ io[t] # "none"
      /\ FilesOnly(p)
  BY <1>2 DEF FilesOnly
<1>5. Only(p)
  BY <1>1, <1>2, <1>3, <1>4, Unchanged DEF Only
<1>6. Claims(p)'
  BY <1>1, <1>2, ClaimsKept
<1>7. AtGate(p)' /\ Holds(p)'
  <2>1. Idle(p, guards, dirty) /\ ~inUse =>
            /\ \A h \in guards' : ProcG(h) # p
            /\ \A t \in Store : ProcOf[t] = p => ~dirty'[t] /\ io'[t] = "none"
    BY <1>2 DEF Idle
  <2> QED BY <2>1, <1>1, <1>2, <1>3, <1>4, LetGo
<1> QED BY <1>1, <1>5, <1>6, <1>7, OnlyKeeps

\* A release tried again: the invariant is kept.
LEMMA RetryReleaseKeeps == ASSUME Exclusive, Types', NEW p \in Process, RetryRelease(p) PROVE Exclusive'
<1>2. UNCHANGED <<gate, at, dropped, fresh, dirty, io, guards, waiting, covered, op>>
  BY DEF RetryRelease, gateVars, useVars, fileVars
<1>3. /\ HeldOnly(p)
      /\ \/ held'[p] = held[p] /\ flock' = flock
         \/ /\ held[p] /\ ~held'[p] /\ Idle(p, guards, dirty) /\ ~FilesInUse(p)
            /\ flock = p /\ ((~(at[p] = "write") /\ flock' = Nobody) \/ (at[p] = "write" /\ flock' = p))
  <2>1. TypeState /\ (held[p] => flock = p)
    BY Before DEF Exclusive, Types, Holds
  <2>2. CASE ~Idle(p, guards, dirty)
    BY <2>2, Unchanged DEF RetryRelease
  <2>3. CASE Idle(p, guards, dirty)
    <3>1. /\ held' = [held EXCEPT ![p] = FALSE] /\ ~(held[p] /\ FilesInUse(p))
          /\ flock' = IF held[p] /\ at[p] # "write" THEN Nobody ELSE flock
      BY <2>3 DEF RetryRelease
    <3>2. HeldOnly(p)
      BY <3>1, <2>1 DEF TypeState, HeldOnly
    <3> QED BY <3>1, <3>2, <2>1, <2>3 DEF TypeState
  <2> QED BY <2>2, <2>3
<1>5. Only(p)
  BY <1>2, <1>3, Unchanged DEF Only
<1>6. Claims(p)'
  BY <1>2, ClaimsKept
<1>7. AtGate(p)' /\ Holds(p)'
  <2>1. Idle(p, guards, dirty) /\ ~FilesInUse(p) =>
            /\ \A h \in guards' : ProcG(h) # p
            /\ \A s \in Store : ProcOf[s] = p => ~dirty'[s] /\ io'[s] = "none"
    BY <1>2 DEF Idle, FilesInUse
  <2> QED BY <2>1, <1>2, <1>3, LetGo
<1> QED BY <1>5, <1>6, <1>7, OnlyKeeps

\* A waiting acquisition that finds it can join: the invariant is kept.
LEMMA JoinAtGateKeeps == ASSUME Exclusive, Types', NEW g \in Guard, JoinAtGate(g) PROVE Exclusive'
<1> DEFINE p == ProcG(g)
<1>1. p \in Process
  BY GuardType
<1>2. /\ UNCHANGED <<gate, at, dropped, fresh, held, flock, dirty, io, covered, op>>
      /\ guards' = guards \cup {g} /\ waiting' = waiting \ {g}
      /\ g \in waiting /\ gate[p] = NoGuard
  BY DEF JoinAtGate, Join, gateVars, stateVars, fileVars
<1>3. held[p]
  BY DEF JoinAtGate, TryJoin, StoreG, ProcG
<1>4. Only(p)
  <2>1. UsesOnly(p)
    BY <1>2 DEF UsesOnly
  <2> QED BY <2>1, <1>1, <1>2, Unchanged DEF Only
<1>5. Claims(p)'
  <2>1. Claims(p)
    BY <1>1, Before
  <2>2. \A u \in covered : ProcU(u) = p => <<u, "op">> # g
    BY <2>1, <1>2 DEF Claims
  <2> QED BY <2>1, <2>2, <1>2 DEF Claims
<1>6. AtGate(p)'
  BY <1>1, <1>2, AtGateKept, GuardType
<1>7. Holds(p)'
  BY <1>1, <1>2, <1>3, HoldsKept
<1> QED BY <1>1, <1>4, <1>5, <1>6, <1>7, OnlyKeeps

\* An acquisition that joins a hold it is stale in, or must advance the epoch of: the invariant
\* is kept.
LEMMA JoinBehindKeeps == ASSUME Exclusive, Types', NEW g \in Guard, JoinBehind(g) PROVE Exclusive'
<1> DEFINE p == ProcG(g)
<1>1. p \in Process /\ g # NoGuard
  BY GuardType
<1>2. /\ UNCHANGED <<held, flock, dirty, io, covered, op>>
      /\ guards' = guards \cup {g} /\ waiting' = waiting \ {g}
      /\ g \in waiting /\ gate[p] = NoGuard /\ held[p]
  BY DEF JoinBehind, stateVars, fileVars
<1>3. /\ GateOnly(p) /\ gate'[p] = g /\ dropped'[p] = FALSE /\ fresh'[p] = FALSE
      /\ at'[p] \in {"files", "write", "reload"}
  <2>1. PICK phase, b, e : InGate(p, g, phase, b, FALSE, e) /\ phase \in {"files", "write", "reload"}
    BY DEF JoinBehind, FirstPhase
  <2> QED BY <2>1, <1>1, Before, InGateOnly
<1>4. Only(p)
  <2>1. UsesOnly(p)
    BY <1>2 DEF UsesOnly
  <2> QED BY <2>1, <1>1, <1>2, <1>3, Unchanged DEF Only
<1>5. Claims(p)'
  <2>1. Claims(p) /\ waiting \subseteq Guard /\ covered \subseteq Use
    BY <1>1, Before
  <2>2. ASSUME NEW h \in waiting', ProcG(h) = p PROVE h \notin guards' /\ gate'[p] # h
    BY <2>1, <2>2, <1>2, <1>3 DEF Claims
  <2>3. \A u \in covered : ProcU(u) = p => <<u, "use">> # g /\ <<u, "op">> # g
    BY <2>1, <1>2 DEF Claims
  <2> QED BY <2>1, <2>2, <2>3, <1>2, <1>3 DEF Claims
<1>6. AtGate(p)'
  BY <1>1, <1>2, <1>3, Before DEF AtGate, Holds
<1>7. Holds(p)'
  BY <1>1, <1>2, HoldsKept
<1> QED BY <1>1, <1>4, <1>5, <1>6, <1>7, OnlyKeeps

\* An acquisition that enters the gate without a hold: the invariant is kept.
LEMMA TurnToFlockKeeps == ASSUME Exclusive, Types', NEW g \in Guard, TurnToFlock(g) PROVE Exclusive'
<1> DEFINE p == ProcG(g)
<1>1. p \in Process /\ g # NoGuard
  BY GuardType
<1>2. /\ UNCHANGED <<held, flock, dirty, io, covered, op, guards>>
      /\ waiting' = waiting \ {g}
      /\ g \in waiting /\ gate[p] = NoGuard /\ ~held[p]
  BY DEF TurnToFlock, stateVars, fileVars
<1>3. /\ GateOnly(p) /\ gate'[p] = g /\ dropped'[p] = FALSE /\ at'[p] = "flock"
  BY <1>1, Before, InGateOnly DEF TurnToFlock
<1>4. Only(p)
  <2>1. UsesOnly(p)
    BY <1>2 DEF UsesOnly
  <2> QED BY <2>1, <1>1, <1>2, <1>3, Unchanged DEF Only
<1>5. Claims(p)'
  <2>1. Claims(p) /\ waiting \subseteq Guard /\ covered \subseteq Use
    BY <1>1, Before
  <2>2. ASSUME NEW h \in waiting', ProcG(h) = p PROVE h \notin guards' /\ gate'[p] # h
    BY <2>1, <2>2, <1>2, <1>3 DEF Claims
  <2>3. \A u \in covered : ProcU(u) = p => <<u, "use">> # g /\ <<u, "op">> # g
    BY <2>1, <1>2 DEF Claims
  <2> QED BY <2>1, <2>2, <2>3, <1>2, <1>3 DEF Claims
<1>6. AtGate(p)'
  BY <1>1, <1>2, <1>3, Before DEF AtGate, Claims
<1>7. Holds(p)'
  BY <1>1, <1>2, HoldsKept
<1> QED BY <1>1, <1>4, <1>5, <1>6, <1>7, OnlyKeeps

\* Withdrawing a claim ends only the operation it is for.
LEMMA WithdrawOnly == ASSUME Exclusive, NEW g \in Guard, NEW b, Withdraw(g, b)
    PROVE \A u \in Use : op'[u] = op[u] \/ (~b /\ g = <<u, "op">> /\ ProcU(u) = ProcG(g))
<1>1. PICK v \in Use, k \in {"use", "op"} : g = <<v, k>>
  BY SMT DEF Guard
<1>2. op \in [Use -> {"none", "read", "write"}]
  BY DEF Exclusive, Types, TypeUse
<1> QED BY <1>1, <1>2, UseType DEF Withdraw

\* An acquisition dropped while it waits for the gate: the invariant is kept.
LEMMA CancelWaitingKeeps == ASSUME Exclusive, Types', NEW g \in Guard, CancelWaiting(g) PROVE Exclusive'
<1> DEFINE p == ProcG(g)
<1>1. p \in Process
  BY GuardType
<1>2. /\ UNCHANGED <<gate, at, dropped, fresh, held, flock, dirty, io, covered, guards>>
      /\ waiting' = waiting \ {g} /\ g \in waiting
  BY DEF CancelWaiting, gateVars, stateVars, fileVars
<1>3. \A u \in Use : op'[u] = op[u] \/ (g = <<u, "op">> /\ ProcU(u) = p)
  <2>1. Withdraw(g, FALSE)
    BY DEF CancelWaiting
  <2> QED BY <2>1, WithdrawOnly
<1>4. Only(p)
  <2>1. UsesOnly(p)
    BY <1>2, <1>3 DEF UsesOnly
  <2> QED BY <2>1, <1>1, <1>2, Unchanged DEF Only
<1>5. Claims(p)'
  <2>1. Claims(p) /\ covered \subseteq Use
    BY <1>1, Before
  <2>2. \A u \in covered : ProcU(u) = p => op'[u] = op[u]
    BY <2>1, <1>2, <1>3 DEF Claims
  <2> QED BY <2>1, <2>2, <1>2 DEF Claims
<1>6. AtGate(p)'
  BY <1>1, <1>2, AtGateKept
<1>7. Holds(p)'
  BY <1>1, <1>2, HoldsKept
<1> QED BY <1>1, <1>4, <1>5, <1>6, <1>7, OnlyKeeps


\* An acquisition that found the files idle: the invariant is kept.
LEMMA FilesIdleKeeps == ASSUME Exclusive, Types', NEW p \in Process, FilesIdle(p) PROVE Exclusive'
<1>1. UNCHANGED <<gate, dropped, fresh, held, flock, dirty, io, guards, waiting, covered, op>>
  BY DEF FilesIdle, stateVars, useVars, fileVars
<1>2. at[p] = "files" /\ at'[p] \in {"write", "reload"} /\ GateOnly(p)
  BY <1>1 DEF FilesIdle, Exclusive, Types, TypeGate, GateOnly
<1>3. Only(p)
  BY <1>1, <1>2, Unchanged DEF Only
<1>4. Claims(p)'
  BY <1>1, ClaimsKept
<1>5. gate[p] \in guards /\ ~dropped[p] /\ held[p] /\ flock = p /\ ~fresh[p]
  BY <1>2, Before DEF AtGate, Holds
<1>6. AtGate(p)'
  BY <1>1, <1>2, <1>5 DEF AtGate
<1>7. Holds(p)'
  BY <1>1, HoldsKept
<1> QED BY <1>3, <1>4, <1>6, <1>7, OnlyKeeps

\* The flock taken: the invariant is kept.
LEMMA TakeFlockKeeps == ASSUME Exclusive, Types', NEW p \in Process, TakeFlock(p) PROVE Exclusive'
<1>1. UNCHANGED <<gate, dropped, fresh, held, dirty, io, guards, waiting, covered, op>>
  BY DEF TakeFlock, useVars, fileVars
<1>2. /\ at[p] = "flock" /\ at'[p] \in {"read", "readRecreated"} /\ GateOnly(p)
      /\ flock = Nobody /\ flock' = p
  BY <1>1 DEF TakeFlock, Exclusive, Types, TypeGate, GateOnly
<1>3. Only(p)
  <2>1. HeldOnly(p)
    BY <1>1, <1>2, ConstantsAssumption DEF HeldOnly
  <2> QED BY <2>1, <1>1, <1>2, Unchanged DEF Only
<1>4. Claims(p)'
  BY <1>1, ClaimsKept
<1>5. AtGate(p)'
  BY <1>1, <1>2, Before DEF AtGate
<1>6. Holds(p)'
  BY <1>1, <1>2, Before DEF Holds
<1> QED BY <1>3, <1>4, <1>5, <1>6, OnlyKeeps

\* The epoch read under a new flock, and what follows from it: the invariant is kept.
LEMMA BeginHoldKeeps == ASSUME Exclusive, Types', NEW p \in Process, BeginHold(p) PROVE Exclusive'
<1> DEFINE g == gate[p]
<1>1. PICK onDisk \in ReadEpoch : BeginHoldAt(p, onDisk)
  BY DEF BeginHold
<1>2. /\ at[p] \in {"read", "readRecreated"} /\ g \in Guard /\ ProcG(g) = p
      /\ ~held[p] /\ flock = p /\ g \notin guards
  BY <1>1, Before DEF BeginHoldAt, AtGate
<1>3. UNCHANGED <<waiting, op, covered, dirty, io, flock>>
  BY <1>1 DEF BeginHoldAt, stateVars, fileVars
<1>4. CASE Intent(g) = "write" \/ at[p] = "readRecreated"
  <2>1. UNCHANGED <<held, guards>>
    BY <1>1, <1>4 DEF BeginHoldAt, stateVars
  <2>2. GateOnly(p) /\ gate'[p] = g /\ at'[p] = "write" /\ dropped'[p] = FALSE /\ fresh'[p] = TRUE
    <3>1. PICK b, e : InGate(p, g, "write", b, TRUE, e)
      BY <1>1, <1>4 DEF BeginHoldAt
    <3>2. TypeGate
      BY Before
    <3> HIDE DEF g
    <3> QED BY <3>1, <3>2, InGateOnly
  <2>3. Only(p)
    BY <1>3, <2>1, <2>2, Unchanged DEF Only
  <2>4. Claims(p)'
    BY <1>3, <2>1, <2>2, ClaimsKept
  <2>5. AtGate(p)'
    BY <1>2, <1>3, <2>1, <2>2 DEF AtGate
  <2>6. Holds(p)'
    BY <1>3, <2>1, HoldsKept
  <2> QED BY <2>3, <2>4, <2>5, <2>6, OnlyKeeps
<1>5. CASE ~(Intent(g) = "write" \/ at[p] = "readRecreated")
  <2>1. held' = [held EXCEPT ![p] = TRUE] /\ guards' = guards \cup {g}
    BY <1>1, <1>5 DEF BeginHoldAt
  <2>2. held'[p] /\ HeldOnly(p)
    BY <1>3, <2>1 DEF Exclusive, Types, TypeState, HeldOnly
  <2>3. /\ GateOnly(p) /\ dropped'[p] = FALSE
        /\ (gate'[p] = g /\ at'[p] = "reload") \/ (gate'[p] = NoGuard /\ at'[p] = "idle")
    <3>1. InGate(p, g, "reload", TRUE, TRUE, NoEpoch) \/ InGate(p, NoGuard, "idle", FALSE, FALSE, NoEpoch)
      BY <1>1, <1>5 DEF BeginHoldAt, LeaveGate
    <3>2. TypeGate
      BY Before
    <3>3. CASE InGate(p, g, "reload", TRUE, TRUE, NoEpoch)
      BY <3>2, <3>3, InGateOnly
    <3>4. CASE InGate(p, NoGuard, "idle", FALSE, FALSE, NoEpoch)
      BY <3>2, <3>4, InGateOnly
    <3> QED BY <3>1, <3>3, <3>4
  <2>4. Only(p)
    <3>1. UsesOnly(p)
      BY <1>2, <1>3, <2>1 DEF UsesOnly
    <3> QED BY <3>1, <1>3, <2>2, <2>3, Unchanged DEF Only
  <2>5. Claims(p)'
    <3>1. Claims(p) /\ waiting \subseteq Guard /\ covered \subseteq Use
      BY Before
    <3>2. \A h \in Guard : h # g => h # gate'[p] /\ (h \in guards' <=> h \in guards)
      BY <2>1, <2>3, GuardType
    <3> QED BY <3>1, <3>2, <1>2, <1>3, UseType DEF Claims
  <2>6. AtGate(p)'
    BY <1>2, <2>1, <2>3 DEF AtGate
  <2>7. Holds(p)'
    BY <1>2, <1>3, <2>2 DEF Holds
  <2> QED BY <2>4, <2>5, <2>6, <2>7, OnlyKeeps
<1> QED BY <1>4, <1>5

\* An epoch that lands on disk: the invariant is kept.
LEMMA WriteEpochKeeps == ASSUME Exclusive, Types', NEW p \in Process, WriteEpoch(p) PROVE Exclusive'
<1>1. UNCHANGED <<gate, dropped, fresh, held, dirty, io, guards, waiting, covered, op>>
  BY DEF WriteEpoch, useVars, fileVars
<1>2. /\ at[p] = "write" /\ at'[p] = "record" /\ GateOnly(p)
      /\ flock' = IF dropped[p] /\ ~held[p] /\ flock = p THEN Nobody ELSE flock
  BY <1>1 DEF WriteEpoch, Exclusive, Types, TypeGate, GateOnly
<1>3. Only(p)
  <2>1. HeldOnly(p)
    BY <1>1, <1>2 DEF HeldOnly
  <2> QED BY <2>1, <1>1, <1>2, Unchanged DEF Only
<1>4. Claims(p)'
  BY <1>1, ClaimsKept
<1>5. AtGate(p)'
  BY <1>1, <1>2, Before DEF AtGate
<1>6. Holds(p)'
  BY <1>1, <1>2, Before DEF Holds
<1> QED BY <1>3, <1>4, <1>5, <1>6, OnlyKeeps

\* The task that records an advance, which may outlive its acquisition: the invariant is kept.
LEMMA RecordAdvanceKeeps == ASSUME Exclusive, Types', NEW p \in Process, RecordAdvance(p) PROVE Exclusive'
<1> DEFINE g == gate[p]
<1>1. UNCHANGED <<held, flock, dirty, io, guards, waiting, covered, op>>
  BY DEF RecordAdvance, useVars, fileVars
<1>2. at[p] = "record"
  BY DEF RecordAdvance
<1>3. /\ GateOnly(p) /\ dropped'[p] = FALSE
      /\ \/ gate'[p] = NoGuard /\ at'[p] = "idle"
         \/ gate'[p] = g /\ at'[p] = "install" /\ ~dropped[p] /\ fresh[p]
         \/ gate'[p] = g /\ at'[p] = "reload" /\ ~dropped[p] /\ ~fresh[p]
  <2>1. dropped[p] \in BOOLEAN /\ fresh[p] \in BOOLEAN /\ stale[p] \in BOOLEAN
    BY DEF Exclusive, Types, TypeGate
  <2>2. \/ InGate(p, NoGuard, "idle", FALSE, FALSE, NoEpoch)
        \/ ~dropped[p] /\ fresh[p] /\ InGate(p, g, "install", stale[p], TRUE, stamp[p])
        \/ ~dropped[p] /\ ~fresh[p] /\ InGate(p, g, "reload", TRUE, FALSE, NoEpoch)
    BY <2>1 DEF RecordAdvance, LeaveGate
  <2>3. TypeGate
    BY Before
  <2> QED BY <2>2, <2>3, InGateOnly
<1>4. Only(p)
  BY <1>1, <1>3, Unchanged DEF Only
<1>5. Claims(p)'
  BY <1>1, <1>3, ClaimsKept
<1>6. AtGate(p)'
  BY <1>1, <1>2, <1>3, Before DEF AtGate, Holds
<1>7. Holds(p)'
  BY <1>1, HoldsKept
<1> QED BY <1>4, <1>5, <1>6, <1>7, OnlyKeeps

\* A hold installed: the invariant is kept.
LEMMA InstallHoldKeeps == ASSUME Exclusive, Types', NEW p \in Process, InstallHold(p) PROVE Exclusive'
<1> DEFINE g == gate[p]
<1>1. /\ UNCHANGED <<flock, dirty, io, waiting, covered, op>>
      /\ held' = [held EXCEPT ![p] = TRUE] /\ guards' = guards \cup {g}
  BY DEF InstallHold, fileVars
<1>2. at[p] = "install" /\ g \in Guard /\ ProcG(g) = p /\ flock = p /\ g \notin guards
  BY Before DEF InstallHold, AtGate
<1>3. held'[p] /\ HeldOnly(p)
  BY <1>1 DEF Exclusive, Types, TypeState, HeldOnly
<1>4. /\ GateOnly(p) /\ dropped'[p] = FALSE
      /\ (gate'[p] = g /\ at'[p] = "reload") \/ (gate'[p] = NoGuard /\ at'[p] = "idle")
  <2>1. InGate(p, g, "reload", TRUE, TRUE, NoEpoch) \/ InGate(p, NoGuard, "idle", FALSE, FALSE, NoEpoch)
    BY DEF InstallHold, LeaveGate
  <2>2. TypeGate
    BY Before
  <2>3. CASE InGate(p, g, "reload", TRUE, TRUE, NoEpoch)
    BY <2>2, <2>3, InGateOnly
  <2>4. CASE InGate(p, NoGuard, "idle", FALSE, FALSE, NoEpoch)
    BY <2>2, <2>4, InGateOnly
  <2> QED BY <2>1, <2>3, <2>4
<1>5. Only(p)
  <2>1. UsesOnly(p)
    BY <1>1, <1>2 DEF UsesOnly
  <2> QED BY <2>1, <1>1, <1>3, <1>4, Unchanged DEF Only
<1>6. Claims(p)'
  <2>1. Claims(p) /\ waiting \subseteq Guard /\ covered \subseteq Use
    BY Before
  <2>2. \A h \in Guard : h # g => h # gate'[p] /\ (h \in guards' <=> h \in guards)
    BY <1>1, <1>4, GuardType
  <2> QED BY <2>1, <2>2, <1>1, UseType DEF Claims
<1>7. AtGate(p)'
  BY <1>2, <1>1, <1>4 DEF AtGate
<1>8. Holds(p)'
  BY <1>1, <1>2, <1>3 DEF Holds
<1> QED BY <1>5, <1>6, <1>7, <1>8, OnlyKeeps

\* A store that drops its state and reads the directory: the invariant is kept.
LEMMA ReloadKeeps == ASSUME Exclusive, Types', NEW p \in Process, Reload(p) PROVE Exclusive'
<1> DEFINE s == StoreG(gate[p])
<1>1. UNCHANGED <<gate, dropped, fresh, held, flock, io, guards, waiting, covered, op>>
  BY DEF Reload, stateVars, useVars
<1>2. at[p] = "reload" /\ at'[p] = "refreshed" /\ GateOnly(p)
  BY <1>1 DEF Reload, Exclusive, Types, TypeGate, GateOnly
<1>3. dirty' = [dirty EXCEPT ![s] = FALSE] /\ s \in Store /\ ProcOf[s] = p
  BY <1>2, Before, GuardType DEF Reload, StoreG, ProcG
<1>4. FilesOnly(p) /\ \A t \in Store : dirty'[t] => dirty[t]
  BY <1>1, <1>3 DEF FilesOnly, Exclusive, Types, TypeFile
<1>5. Only(p)
  BY <1>1, <1>2, <1>4, Unchanged DEF Only
<1>6. Claims(p)'
  BY <1>1, ClaimsKept
<1>7. AtGate(p)'
  BY <1>1, <1>2, Before DEF AtGate
<1>8. Holds(p)'
  BY <1>1, <1>4, HoldsKept
<1> QED BY <1>5, <1>6, <1>7, <1>8, OnlyKeeps

\* A reload acknowledged: the epoch is adopted: the invariant is kept.
LEMMA NoteRefreshedKeeps == ASSUME Exclusive, Types', NEW p \in Process, NoteRefreshed(p) PROVE Exclusive'
<1>1. UNCHANGED <<held, flock, dirty, io, guards, waiting, covered, op>>
  BY DEF NoteRefreshed, stateVars, useVars, fileVars
<1>2. GateOnly(p) /\ gate'[p] = NoGuard /\ at'[p] = "idle"
  BY Before, InGateOnly DEF NoteRefreshed, LeaveGate
<1>3. Only(p)
  BY <1>1, <1>2, Unchanged DEF Only
<1>4. Claims(p)'
  BY <1>1, <1>2, ClaimsKept
<1>5. AtGate(p)'
  BY <1>2 DEF AtGate
<1>6. Holds(p)'
  BY <1>1, HoldsKept
<1> QED BY <1>3, <1>4, <1>5, <1>6, OnlyKeeps


\* An epoch write that fails: the invariant is kept.
LEMMA WriteEpochFailsKeeps == ASSUME Exclusive, Types', NEW p \in Process, WriteEpochFails(p) PROVE Exclusive'
<1> DEFINE g == gate[p]  G == IF dropped[p] THEN guards ELSE guards \ {g}
<1>1. UNCHANGED <<dirty, io, waiting, covered>> /\ guards' = G
  BY DEF WriteEpochFails, fileVars
<1>2. at[p] = "write" /\ g \in Guard /\ ProcG(g) = p /\ flock = p
  BY Before DEF WriteEpochFails, AtGate
<1>3. \A u \in Use : op'[u] = op[u] \/ (~dropped[p] /\ g = <<u, "op">> /\ ProcU(u) = p)
  <2>1. Withdraw(g, dropped[p])
    BY DEF WriteEpochFails
  <2> QED BY <2>1, <1>2, WithdrawOnly
<1>4. GateOnly(p) /\ gate'[p] = NoGuard /\ at'[p] = "idle"
  <2>1. TypeGate /\ InGate(p, NoGuard, "idle", FALSE, FALSE, NoEpoch)
    BY Before DEF WriteEpochFails, LeaveGate
  <2> QED BY <2>1, InGateOnly
<1>5. /\ HeldOnly(p)
      /\ \/ held'[p] = held[p] /\ flock' = flock
         \/ ~held'[p] /\ Idle(p, G, dirty) /\ ~FilesInUse(p)
         \/ ~held'[p] /\ ~held[p]
  <2>1. CASE ~held[p]
    <3>1. held' = held /\ flock' = Nobody
      BY <2>1 DEF WriteEpochFails
    <3> QED BY <3>1, <2>1, <1>2 DEF HeldOnly
  <2>2. CASE held[p] /\ dropped[p]
    <3>1. UNCHANGED <<held, flock>>
      BY <2>2 DEF WriteEpochFails, stateVars
    <3> QED BY <3>1, Unchanged
  <2>3. CASE held[p] /\ ~dropped[p]
    <3>1. ReleaseIfIdle(p, G, dirty, FilesInUse(p), FALSE)
      BY <2>3 DEF WriteEpochFails
    <3> QED BY <3>1, ReleaseOnly
  <2> QED BY <2>1, <2>2, <2>3
<1>6. Only(p)
  <2>1. UsesOnly(p)
    BY <1>1, <1>2, <1>3 DEF UsesOnly
  <2> QED BY <2>1, <1>1, <1>4, <1>5, Unchanged DEF Only
<1>7. Claims(p)'
  <2>1. Claims(p) /\ waiting \subseteq Guard /\ covered \subseteq Use
    BY Before
  <2>2. \A h \in Guard : h # gate'[p]
    BY <1>4, GuardType
  <2>3. \A u \in covered : ProcU(u) = p => <<u, "use">> # g /\ <<u, "op">> # g
    BY <2>1 DEF Claims
  <2> QED BY <2>1, <2>2, <2>3, <1>1, <1>3, UseType DEF Claims
<1>8. AtGate(p)'
  BY <1>4 DEF AtGate
<1>9. Holds(p)'
  <2>1. CASE held'[p] = held[p] /\ flock' = flock
    BY <2>1, <1>1, HoldsKept
  <2>2. CASE ~held'[p] /\ Idle(p, G, dirty) /\ ~FilesInUse(p)
    BY <2>2, <1>1 DEF Holds, Idle, FilesInUse
  <2>3. CASE ~held'[p] /\ ~held[p]
    BY <2>3, <1>1, Before DEF Holds
  <2> QED BY <2>1, <2>2, <2>3, <1>5
<1> QED BY <1>6, <1>7, <1>8, <1>9, OnlyKeeps

\* An acquisition dropped in the gate, at any of its awaits: the invariant is kept.
LEMMA CancelAtGateKeeps == ASSUME Exclusive, Types', NEW p \in Process, CancelAtGate(p) PROVE Exclusive'
<1> DEFINE g == gate[p]  G == guards \ {g}
<1>1. UNCHANGED <<dirty, io, waiting, covered>> /\ guards' = G
  BY DEF CancelAtGate, fileVars
<1>2. at[p] # "idle" /\ g \in Guard /\ ProcG(g) = p /\ ~dropped[p] /\ at[p] \in Phase
  BY Before DEF CancelAtGate, TypeGate
<1>3. \A u \in Use : op'[u] = op[u] \/ (g = <<u, "op">> /\ ProcU(u) = p)
  <2>1. Withdraw(g, FALSE)
    BY DEF CancelAtGate
  <2> QED BY <2>1, <1>2, WithdrawOnly
<1>4. /\ GateOnly(p)
      /\ \/ /\ at[p] \in {"write", "record"}
            /\ gate'[p] = g /\ at'[p] = at[p] /\ fresh'[p] = fresh[p] /\ dropped'[p] = TRUE
         \/ at[p] \notin {"write", "record"} /\ gate'[p] = NoGuard /\ at'[p] = "idle"
  <2>1. CASE at[p] \in {"write", "record"}
    BY <2>1 DEF CancelAtGate, Exclusive, Types, TypeGate, GateOnly
  <2>2. CASE at[p] \notin {"write", "record"}
    <3>1. InGate(p, NoGuard, "idle", FALSE, FALSE, NoEpoch)
      BY <2>2 DEF CancelAtGate, LeaveGate
    <3> QED BY <3>1, <2>2, Before, InGateOnly
  <2> QED BY <2>1, <2>2
<1>5. /\ HeldOnly(p)
      /\ \/ held'[p] = held[p] /\ flock' = flock
         \/ ~held'[p] /\ ~held[p] /\ at[p] # "write" /\ flock' = Nobody
         \/ /\ held[p] /\ ~held'[p] /\ Idle(p, G, dirty) /\ ~FilesInUse(p)
            /\ flock = p /\ ((~(at[p] = "write") /\ flock' = Nobody) \/ (at[p] = "write" /\ flock' = p))
  <2>1. CASE g \in guards
    <3>1. ReleaseIfIdle(p, G, dirty, FilesInUse(p), at[p] = "write")
      BY <2>1 DEF CancelAtGate
    <3> QED BY <3>1, ReleaseOnly
  <2>2. CASE g \notin guards
    <3>1. held' = held /\ flock' = IF at[p] \in {"flock", "write"} THEN flock ELSE Nobody
      BY <2>2 DEF CancelAtGate
    <3>2. ~held[p] /\ (at[p] \notin {"flock", "write"} => flock = p)
      BY <1>2, <2>2, Before DEF AtGate, Phase
    <3> QED BY <3>1, <3>2 DEF HeldOnly
  <2> QED BY <2>1, <2>2
<1>6. Only(p)
  <2>1. UsesOnly(p)
    BY <1>1, <1>2, <1>3 DEF UsesOnly
  <2> QED BY <2>1, <1>1, <1>4, <1>5, Unchanged DEF Only
<1>7. Claims(p)'
  <2>1. Claims(p) /\ waiting \subseteq Guard /\ covered \subseteq Use
    BY Before
  <2>2. \A h \in Guard : h # g => h # gate'[p]
    BY <1>4, GuardType
  <2>3. /\ \A h \in waiting : ProcG(h) = p => h # g
        /\ \A u \in covered : ProcU(u) = p => <<u, "use">> # g /\ <<u, "op">> # g
    BY <2>1 DEF Claims
  <2> QED BY <2>1, <2>2, <2>3, <1>1, <1>3, UseType DEF Claims
<1>8. AtGate(p)'
  <2>1. CASE at[p] \notin {"write", "record"}
    BY <2>1, <1>4 DEF AtGate
  <2>2. CASE at[p] \in {"write", "record"}
    <3>1. /\ gate'[p] = g /\ at'[p] = at[p] /\ fresh'[p] = fresh[p] /\ dropped'[p] /\ g \notin guards'
          /\ (at[p] = "write" => flock' = p)
      BY <2>2, <1>1, <1>4, <1>5, Before DEF AtGate
    <3> QED BY <3>1, <2>2, <1>5, Before DEF AtGate
  <2> QED BY <2>1, <2>2
<1>9. Holds(p)'
  <2>1. CASE held'[p] = held[p] /\ flock' = flock
    BY <2>1, <1>1, HoldsKept
  <2>2. CASE ~held'[p] /\ Idle(p, G, dirty) /\ ~FilesInUse(p)
    BY <2>2, <1>1 DEF Holds, Idle, FilesInUse
  <2>3. CASE ~held'[p] /\ ~held[p]
    BY <2>3, <1>1, Before DEF Holds
  <2> QED BY <2>1, <2>2, <2>3, <1>5
<1> QED BY <1>6, <1>7, <1>8, <1>9, OnlyKeeps

\* The end of a process, at any step: the invariant is kept.
LEMMA CrashKeeps == ASSUME Exclusive, Types', NEW p \in Process, Crash(p) PROVE Exclusive'
<1>1. /\ flock' = IF flock = p THEN Nobody ELSE flock
      /\ held' = [held EXCEPT ![p] = FALSE]
      /\ waiting' = {g \in waiting : ProcG(g) # p} /\ guards' = {g \in guards : ProcG(g) # p}
      /\ covered' = {u \in covered : ProcU(u) # p}
      /\ \A u \in Use : ProcU(u) # p => op'[u] = op[u]
      /\ \A s \in Store : /\ ProcOf[s] = p => ~dirty'[s] /\ io'[s] = "none"
                          /\ ProcOf[s] # p => dirty'[s] = dirty[s] /\ io'[s] = io[s]
  BY DEF Crash
<1>2. GateOnly(p) /\ at'[p] = "idle"
  BY Before, InGateOnly DEF Crash, LeaveGate
<1>3. ~held'[p] /\ HeldOnly(p)
  BY <1>1 DEF HeldOnly, Exclusive, Types, TypeState
<1>4. Only(p)
  BY <1>1, <1>2, <1>3 DEF Only, UsesOnly, FilesOnly
<1>5. Claims(p)'
  BY <1>1 DEF Claims
<1>6. AtGate(p)'
  BY <1>2 DEF AtGate
<1>7. Holds(p)'
  BY <1>1, <1>3 DEF Holds
<1> QED BY <1>4, <1>5, <1>6, <1>7, OnlyKeeps

\* A step that changes none of the variables of the invariant keeps it.
LEMMA QuietKeeps == ASSUME Exclusive, Types',
        UNCHANGED <<gate, at, dropped, fresh, held, flock, dirty, io, guards, waiting, covered, op>>
    PROVE Exclusive'
BY DEF Exclusive, Claims, AtGate, Holds

\* Every step keeps the invariant.
LEMMA ExclusiveStep == ASSUME Exclusive, Types', [Next]_vars PROVE Exclusive'
<1>1. ASSUME NEW u \in Use, UseStep(u) PROVE Exclusive'
  <2>1. CASE IntoSpan(u)
    BY <2>1, QuietKeeps DEF IntoSpan, gateVars, stateVars, fileVars
  <2> QED BY <1>1, <2>1, BeginUseKeeps, BeginOpKeeps, BeginSweepKeeps, EndOpKeeps, EndUseKeeps, FileStepsKeep
        DEF UseStep
<1>2. ASSUME NEW g \in Guard, GuardStep(g) PROVE Exclusive'
  BY <1>2, JoinAtGateKeeps, JoinBehindKeeps, TurnToFlockKeeps DEF GuardStep
<1>3. ASSUME NEW p \in Process, GateStep(p) PROVE Exclusive'
  BY <1>3, FilesIdleKeeps, TakeFlockKeeps, BeginHoldKeeps, WriteEpochKeeps, RecordAdvanceKeeps,
     InstallHoldKeeps, ReloadKeeps, NoteRefreshedKeeps DEF GateStep
<1>4. ASSUME NEW s \in Store, FlushStep(s) PROVE Exclusive'
  BY <1>4, FlushStepsKeep, EndFlushKeeps DEF FlushStep
<1>5. CASE Failure
  <2>1. CASE Delete
    BY <2>1, QuietKeeps DEF Delete, gateVars, stateVars, useVars, fileVars
  <2> QED BY <1>5, <2>1, CancelWaitingKeeps, WriteEpochFailsKeeps, CancelAtGateKeeps, CrashKeeps,
             FlushStepsKeep DEF Failure
<1>6. ASSUME NEW s \in Store, Reopen(s) PROVE Exclusive'
  BY <1>6, QuietKeeps DEF Reopen, gateVars, stateVars, useVars, fileVars
<1>7. CASE UNCHANGED vars
  BY <1>7, QuietKeeps DEF vars, gateVars, stateVars, useVars, fileVars
<1> QED BY <1>1, <1>2, <1>3, <1>4, <1>5, <1>6, <1>7, RetryReleaseKeeps DEF Next

\* The lock keeps every acquisition at its gate, and every claim, where the invariant has it.
THEOREM LockInvariant == Spec => []Exclusive
<1>1. Init => Exclusive
  <2> SUFFICES ASSUME Init PROVE Exclusive
    OBVIOUS
  <2>1. Types
    BY EpochType DEF Init, Types, TypeDisk, TypeState, TypeEpoch, TypeGate, TypeUse, TypeAdopt, TypeFile, GateOK, Phase
  <2>2. \A p \in Process : Claims(p) /\ AtGate(p) /\ Holds(p)
    BY ConstantsAssumption DEF Init, Claims, AtGate, Holds
  <2> QED BY <2>1, <2>2 DEF Exclusive
<1>2. Exclusive /\ [Next]_vars => Exclusive'
  BY TypeStep, ExclusiveStep DEF Exclusive
<1> QED BY <1>1, <1>2, PTL DEF Spec

\* Guards, operations on a span's cover, flagged buckets and flushes in flight all stay under the
\* flock, whatever releases, drops, failures and crashes come between (release_unless_in_use).
THEOREM FlockExclusive == Spec => []NothingWithoutFlock
<1>1. Exclusive => NothingWithoutFlock
  <2> SUFFICES ASSUME Exclusive PROVE NothingWithoutFlock
    OBVIOUS
  <2>1. \A g \in guards : held[ProcG(g)]
    BY GuardType DEF Exclusive, Types, TypeUse, Holds
  <2>2. \A u \in covered : held[ProcU(u)]
    <3>1. ASSUME NEW u \in covered PROVE held[ProcU(u)]
      <4>1. u \in Use
        BY DEF Exclusive, Types, TypeUse
      <4>2. ProcU(u) \in Process /\ ProcG(<<u, "use">>) = ProcU(u)
        BY <4>1, UseType
      <4>3. <<u, "use">> \in guards
        BY <4>2 DEF Exclusive, Claims
      <4> QED BY <4>2, <4>3 DEF Exclusive, Holds
    <3> QED BY <3>1
  <2>3. \A s \in Store : dirty[s] \/ io[s] # "none" => held[ProcOf[s]]
    BY ConstantsAssumption DEF Exclusive, Holds
  <2> QED BY <2>1, <2>2, <2>3 DEF Exclusive, Holds, NothingWithoutFlock
<1> QED BY <1>1, LockInvariant, PTL

-----------------------------------------------------------------------------
(***************************************************************************)
(* The epoch tells every process which of its state is out of date.        *)
(*                                                                         *)
(* What a store observed, or an acquisition is about to record, may be     *)
(* older than the epoch on disk and never newer (Ordered).  Who has the    *)
(* flock knows the epoch on disk, and a stamp it is going to write is      *)
(* above all that anybody observed (Knows).  An epoch advanced under a     *)
(* hold is one that no other process observed (Announced), whatever is     *)
(* changed is changed under such a hold (Writes), and so a store that      *)
(* observed what is on disk is not behind (Believes, Trusts).              *)
(***************************************************************************)

\* e is of a lifetime of the directory that has begun.
Begun(e) == e.kind = "at" => e.nonce < nonces

\* e is not ahead of what is on disk.
Within(e) ==
    /\ Begun(e)
    /\ e.kind = "at" /\ epoch.kind = "at" /\ e.nonce = epoch.nonce => e.count <= epoch.count

\* f is of another lifetime than e, or further in it.
Above(f, e) == e.kind = "at" /\ e.nonce = f.nonce => e.count < f.count

\* f is above all that is on disk, observed, or about to be.
Unseen(f) ==
    /\ Above(f, epoch)
    /\ \A s \in Store : Above(f, observed[s])
    /\ \A p \in Process : at[p] = "record" => Above(f, stamp[p])

Ordered ==
    /\ epoch.kind \in {"absent", "at"} /\ Begun(epoch)
    /\ \A s \in Store : Within(observed[s])
    /\ \A p \in Process : at[p] = "record" => Within(stamp[p])

\* What p knows of the epoch on disk, by phase of the acquisition at its gate.
Knows(p) ==
    /\ held[p] /\ at[p] # "record" => current[p] \in {epoch, Unreadable}
    /\ at[p] = "record" /\ flock = p => epoch = stamp[p]
    /\ at[p] = "install" => current[p] = epoch
    /\ at[p] \in {"write", "record"} => stamp[p].kind = "at"
    /\ at[p] \in {"files", "write"} /\ stamp[p] # NoEpoch =>
           stamp[p].kind = "at" /\ Begun(stamp[p]) /\ Unseen(stamp[p])

\* The epoch on disk is one that p wrote.
Ahead(p) ==
    \/ held[p] /\ advanced[p]
    \/ at[p] = "install"
    \/ at[p] = "record" /\ flock = p

\* Such an epoch nobody else observed, or is about to.
Announced(p) == Ahead(p) =>
    /\ \A s \in Store : ProcOf[s] # p => observed[s] # epoch
    /\ \A q \in Process : q # p /\ at[q] = "record" => stamp[q] # epoch

\* The acquisition at p's gate gets its guard without an advance.
AsItIs(p) == at[p] \in {"reload", "refreshed"} \/ (at[p] = "files" /\ stamp[p] = NoEpoch)

\* What changes p's stores does so once the epoch was advanced.
Writes(p) ==
    /\ \A u \in Use : ProcU(u) = p /\ Running(u) /\ op[u] = "write" => advanced[p]
    /\ \A s \in Store : ProcOf[s] = p /\ (dirty[s] \/ io[s] # "none") => advanced[p]
    /\ AsItIs(p) /\ Intent(gate[p]) = "write" => advanced[p]

\* No other process changed the directory since the store read it.
Clean(s) == behind[s] \cap {"process", "deleted"} = {}

\* A store that observed what is on disk has it.
Believes(s) == ~IsStale(observed[s], epoch) => Clean(s)

\* The acquisition at p's gate takes its store to be up to date.
Vouched(p) ==
    \/ at[p] = "refreshed"
    \/ /\ ~stale[p]
       /\ at[p] \in {"files", "write", "install"} \/ (at[p] = "record" /\ stamp[p] = epoch)

\* What p takes to be up to date is.
Trusts(p) ==
    /\ \A s \in Store : ProcOf[s] = p =>
          /\ observedGen[s] <= generation[p]
          /\ (held[p] \/ at[p] = "install") /\ observedGen[s] = generation[p] => Clean(s)
          /\ held[p] /\ ~IsStale(observed[s], current[p]) => Clean(s)
    /\ \A u \in Use : ProcU(u) = p /\ Running(u) => Clean(StoreOf[u])
    /\ Vouched(p) => Clean(StoreG(gate[p]))

Epochs ==
    /\ Ordered
    /\ \A p \in Process : Knows(p) /\ Announced(p) /\ Writes(p) /\ Trusts(p)
    /\ \A s \in Store : Believes(s)

-----------------------------------------------------------------------------
\* The kinds of epoch, told apart by their fields.
LEMMA RecordFields ==
    /\ NoEpoch.kind = "none" /\ Absent.kind = "absent" /\ Unreadable.kind = "unreadable"
    /\ \A n, c : At(n, c).kind = "at" /\ At(n, c).nonce = n /\ At(n, c).count = c
BY DEF NoEpoch, Absent, Unreadable, At

\* Nothing is observed, held or about to be recorded at first.
LEMMA EpochsInit == ASSUME Init PROVE Epochs
<1>1. epoch \in {Absent, At(0, 1)} /\ nonces = 1
  BY DEF Init
<1>2. /\ \A s \in Store : observed[s] = NoEpoch /\ observedGen[s] = NeverAdopted /\ ~dirty[s]
                          /\ io[s] = "none" /\ behind[s] = {}
      /\ \A p \in Process : ~held[p] /\ at[p] = "idle" /\ generation[p] = 0
      /\ \A u \in Use : op[u] = "none"
  BY DEF Init
<1>3. Ordered
  BY <1>1, <1>2, RecordFields, SMT DEF Ordered, Within, Begun
<1>4. \A p \in Process : Knows(p)
  BY <1>2 DEF Knows
<1>5. \A p \in Process : Announced(p)
  BY <1>2 DEF Announced, Ahead
<1>6. \A p \in Process : Writes(p)
  BY <1>2 DEF Writes, Running, AsItIs
<1>7. \A s \in Store : Clean(s)
  BY <1>2 DEF Clean
<1>8. \A p \in Process : Trusts(p)
  <2> SUFFICES ASSUME NEW p \in Process PROVE Trusts(p)
    OBVIOUS
  <2>1. \A s \in Store : observedGen[s] <= generation[p]
    BY <1>2, SMT DEF NeverAdopted
  <2>2. \A u \in Use : ~Running(u)
    BY <1>2 DEF Running
  <2>3. ~Vouched(p)
    BY <1>2 DEF Vouched
  <2> QED
    BY <1>7, <2>1, <2>2, <2>3 DEF Trusts
<1> QED
  BY <1>3, <1>4, <1>5, <1>6, <1>7, <1>8 DEF Epochs, Believes

-----------------------------------------------------------------------------
(***************************************************************************)
(* What a step of one process leaves alone.                                *)
(***************************************************************************)

\* What having the flock goes with.
LEMMA Flocked == ASSUME Exclusive, NEW p \in Process
    PROVE /\ p # Nobody /\ (held[p] => flock = p)
          /\ at[p] \in {"files", "reload", "refreshed"} => held[p] /\ gate[p] \in guards
          /\ at[p] \in {"read", "readRecreated", "write", "install"} => flock = p
          /\ Ahead(p) => flock = p
          /\ \A u \in Use : ProcU(u) = p /\ Running(u) => held[p]
<1>1. /\ AtGate(p) /\ Holds(p) /\ Claims(p)
      /\ at[p] = "idle" <=> gate[p] = NoGuard
      /\ gate[p] # NoGuard => gate[p] \in Guard /\ ProcG(gate[p]) = p
  BY Before
<1>2. p # Nobody /\ (held[p] => flock = p)
  BY <1>1, ConstantsAssumption DEF Holds
<1>3. at[p] \in {"files", "reload", "refreshed"} => held[p] /\ gate[p] \in guards
  BY <1>1 DEF AtGate, Holds
<1>4. at[p] \in {"read", "readRecreated", "write", "install"} => flock = p
  BY <1>1 DEF AtGate
<1>5. Ahead(p) => flock = p
  BY <1>2, <1>4 DEF Ahead
<1>6. ASSUME NEW u \in Use, ProcU(u) = p, Running(u) PROVE held[p]
  BY <1>1, <1>6, UseType DEF Running, Claims, Holds
<1> QED
  BY <1>2, <1>3, <1>4, <1>5, <1>6

\* A process that holds nothing changes nothing.
LEMMA Unheld == ASSUME Exclusive', NEW p \in Process, ~held'[p]
    PROVE Writes(p)' /\ \A u \in Use : ProcU(u) = p => ~Running(u)'
<1>1. /\ AtGate(p)' /\ Holds(p)' /\ Claims(p)'
      /\ at'[p] = "idle" <=> gate'[p] = NoGuard
      /\ gate'[p] # NoGuard => gate'[p] \in Guard /\ ProcG(gate'[p]) = p
  BY DEF Exclusive, Types, TypeGate, GateOK
<1>2. ASSUME NEW u \in Use, ProcU(u) = p PROVE ~Running(u)'
  BY <1>1, <1>2, UseType DEF Running, Claims, Holds
<1>3. \A s \in Store : ProcOf[s] = p => ~(dirty'[s] \/ io'[s] # "none")
  BY <1>1 DEF Holds
<1>4. at'[p] \notin {"files", "reload", "refreshed"}
  BY <1>1 DEF AtGate, Holds
<1> QED
  BY <1>2, <1>3, <1>4 DEF Writes, AsItIs

\* What is of the other processes, and a step of p leaves alone.
Aside(p) ==
    /\ \A q \in Process : q # p =>
          /\ gate'[q] = gate[q] /\ at'[q] = at[q] /\ stale'[q] = stale[q] /\ stamp'[q] = stamp[q]
          /\ held'[q] = held[q] /\ advanced'[q] = advanced[q]
          /\ current'[q] = current[q] /\ generation'[q] = generation[q]
          /\ flock' = q => flock = q
    /\ UsesOnly(p) /\ FilesOnly(p)
    /\ \A s \in Store : ProcOf[s] # p =>
          observed'[s] = observed[s] /\ observedGen'[s] = observedGen[s] /\ behind'[s] = behind[s]

\* A step of one process leaves the operations of the others running as they were.
LEMMA RunsAside == ASSUME NEW p \in Process, Aside(p), NEW u \in Use, ProcU(u) # p
    PROVE (Running(u)' <=> Running(u)) /\ op'[u] = op[u]
<1>1. /\ ProcU(u) \in Process /\ <<u, "op">> \in Guard /\ ProcG(<<u, "op">>) = ProcU(u)
  BY UseType
<1>2. /\ u \in covered' <=> u \in covered
      /\ op'[u] = op[u] /\ gate'[ProcU(u)] = gate[ProcU(u)]
      /\ <<u, "op">> \in guards' <=> <<u, "op">> \in guards
  BY <1>1 DEF Aside, UsesOnly
<1> QED
  BY <1>2 DEF Running

\* What a step of p may observe anew: what is on disk, while it has the flock, or what it
\* was about to record.
Observes(p) == \A s \in Store : ProcOf[s] = p =>
    \/ observed'[s] \in {observed[s], NoEpoch}
    \/ observed'[s] \in {epoch, Unreadable} /\ flock = p
    \/ at[p] = "record" /\ observed'[s] = stamp[p]

\* A stamp above every epoch stays above them: nothing new is observed but what was there.
LEMMA UnseenStays == ASSUME NEW p \in Process, Aside(p), Observes(p), epoch' = epoch,
        at'[p] = "record" => at[p] = "record" /\ stamp'[p] = stamp[p], NEW f, Unseen(f)
    PROVE /\ Above(f, epoch')
          /\ \A s \in Store : Above(f, observed'[s])
          /\ \A q \in Process : at'[q] = "record" => Above(f, stamp'[q])
<1>1. Above(f, epoch) /\ Above(f, NoEpoch) /\ Above(f, Unreadable)
  BY RecordFields DEF Unseen, Above
<1>2. ASSUME NEW s \in Store PROVE Above(f, observed'[s])
  <2>1. CASE ProcOf[s] # p
    BY <2>1 DEF Aside, Unseen
  <2>2. CASE ProcOf[s] = p
    BY <1>1, <2>2 DEF Observes, Unseen
  <2> QED
    BY <2>1, <2>2
<1>3. ASSUME NEW q \in Process, at'[q] = "record" PROVE Above(f, stamp'[q])
  <2>1. at[q] = "record" /\ stamp'[q] = stamp[q]
    BY <1>3 DEF Aside
  <2> QED
    BY <2>1 DEF Unseen
<1> QED
  BY <1>1, <1>2, <1>3

\* What another process knows, has announced and trusts it still does.
LEMMA OthersKeep == ASSUME Exclusive, Epochs, NEW p \in Process, Aside(p), Observes(p),
        epoch' = epoch, nonces \in Nat, nonces' \in Nat, nonces <= nonces',
        at'[p] = "record" => at[p] = "record" /\ stamp'[p] = stamp[p],
        Knows(p)', Announced(p)', Writes(p)', Trusts(p)',
        \A s \in Store : ProcOf[s] = p => Believes(s)'
    PROVE Epochs'
<1>1. /\ Ordered /\ \A q \in Process : Knows(q) /\ Announced(q) /\ Writes(q) /\ Trusts(q)
      /\ \A s \in Store : Believes(s)
  BY DEF Epochs
<1>2. Ordered'
  <2>1. ASSUME NEW e \in Epoch, Within(e)
        PROVE  /\ e.kind = "at" => e.nonce < nonces'
               /\ e.kind = "at" /\ epoch'.kind = "at" /\ e.nonce = epoch'.nonce => e.count <= epoch'.count
    BY <2>1, SMT DEF Within, Begun, Epoch
  <2>2. epoch \in Epoch /\ epoch.kind \in {"absent", "at"} /\ Within(epoch)
    BY <1>1, SMT DEF Exclusive, Types, TypeDisk, Ordered, Within, Epoch
  <2>3. Within(NoEpoch) /\ Within(Unreadable)
    BY RecordFields DEF Within, Begun
  <2>4. ASSUME NEW s \in Store PROVE observed'[s] \in Epoch /\ Within(observed'[s])
    <3>1. observed[s] \in Epoch /\ Within(observed[s])
      BY <1>1 DEF Ordered, Exclusive, Types, TypeAdopt
    <3>2. CASE ProcOf[s] # p
      BY <3>1, <3>2 DEF Aside
    <3>3. CASE ProcOf[s] = p
      <4>1. at[p] = "record" => stamp[p] \in Epoch /\ Within(stamp[p])
        BY <1>1 DEF Ordered, Exclusive, Types, TypeGate
      <4> QED
        BY <2>2, <2>3, <3>1, <3>3, <4>1, EpochType DEF Observes
    <3> QED
      BY <3>2, <3>3
  <2>5. ASSUME NEW q \in Process, at'[q] = "record" PROVE stamp'[q] \in Epoch /\ Within(stamp'[q])
    <3>1. at[q] = "record" /\ stamp'[q] = stamp[q]
      BY <2>5 DEF Aside
    <3> QED
      BY <1>1, <3>1 DEF Ordered, Exclusive, Types, TypeGate
  <2>6. ASSUME NEW s \in Store PROVE Within(observed[s])'
    BY <2>1, <2>4 DEF Within, Begun
  <2>7. ASSUME NEW q \in Process, at'[q] = "record" PROVE Within(stamp[q])'
    BY <2>1, <2>5, <2>7 DEF Within, Begun
  <2>8. Begun(epoch)'
    BY <2>1, <2>2 DEF Begun
  <2> QED
    BY <2>2, <2>6, <2>7, <2>8 DEF Ordered
<1>3. ASSUME NEW q \in Process, q # p PROVE Knows(q)' /\ Announced(q)' /\ Writes(q)' /\ Trusts(q)'
  <2>1. /\ gate'[q] = gate[q] /\ at'[q] = at[q] /\ stale'[q] = stale[q] /\ stamp'[q] = stamp[q]
        /\ held'[q] = held[q] /\ advanced'[q] = advanced[q]
        /\ current'[q] = current[q] /\ generation'[q] = generation[q]
        /\ flock' = q => flock = q
    BY <1>3 DEF Aside
  <2>2. Knows(q)'
    <3>1. Begun(stamp[q]) => Begun(stamp[q])'
      BY <2>1, SMT DEF Begun, Exclusive, Types, TypeGate, Epoch
    <3>2. Unseen(stamp[q]) => Unseen(stamp[q])'
      BY <2>1, UnseenStays DEF Unseen
    <3> QED
      BY <1>1, <2>1, <3>1, <3>2 DEF Knows
  <2>3. Announced(q)'
    <3>1. SUFFICES ASSUME Ahead(q)'
                   PROVE  /\ \A s \in Store : ProcOf[s] # q => observed'[s] # epoch'
                          /\ \A r \in Process : r # q /\ at'[r] = "record" => stamp'[r] # epoch'
      BY DEF Announced
    <3>2. Ahead(q) /\ flock = q
      BY <2>1, <3>1, Flocked DEF Ahead
    <3>3. /\ \A s \in Store : ProcOf[s] # q => observed[s] # epoch
          /\ \A r \in Process : r # q /\ at[r] = "record" => stamp[r] # epoch
      BY <1>1, <3>2 DEF Announced
    <3>4. epoch # NoEpoch /\ epoch # Unreadable
      BY <1>1, RecordFields DEF Ordered
    <3>5. ASSUME NEW s \in Store, ProcOf[s] # q PROVE observed'[s] # epoch'
      <4>1. CASE ProcOf[s] # p
        BY <3>3, <3>5, <4>1 DEF Aside
      <4>2. CASE ProcOf[s] = p
        BY <1>3, <3>2, <3>3, <3>4, <3>5, <4>2 DEF Observes
      <4> QED
        BY <4>1, <4>2
    <3>6. ASSUME NEW r \in Process, r # q, at'[r] = "record" PROVE stamp'[r] # epoch'
      <4>1. at[r] = "record" /\ stamp'[r] = stamp[r]
        BY <3>6 DEF Aside
      <4> QED
        BY <3>3, <3>6, <4>1
    <3> QED
      BY <3>5, <3>6
  <2>4. \A u \in Use : ProcU(u) = q => (Running(u)' <=> Running(u)) /\ op'[u] = op[u]
    BY <1>3, RunsAside
  <2>5. Writes(q)'
    <3>1. \A s \in Store : ProcOf[s] = q => dirty'[s] = dirty[s] /\ io'[s] = io[s]
      BY <1>3 DEF Aside, FilesOnly
    <3>2. AsItIs(q)' => AsItIs(q)
      BY <2>1 DEF AsItIs
    <3>3. AsItIs(q) => Intent(gate[q])' = Intent(gate[q])
      <4>1. AsItIs(q) => gate[q] \in Guard /\ ProcG(gate[q]) = q
        BY Before DEF AsItIs
      <4>2. AsItIs(q) => gate[q][1] \in Use /\ ProcU(gate[q][1]) = q
        BY <4>1, GuardType DEF ProcG, ProcU
      <4> QED
        BY <2>1, <2>4, <4>2 DEF Intent
    <3> QED
      BY <1>1, <2>1, <2>4, <3>1, <3>2, <3>3 DEF Writes
  <2>6. Trusts(q)'
    <3>1. \A s \in Store : ProcOf[s] = q =>
             /\ observed'[s] = observed[s] /\ observedGen'[s] = observedGen[s]
             /\ Clean(s) => Clean(s)'
      BY <1>3 DEF Aside, Clean
    <3>2. Vouched(q)' => Vouched(q)
      BY <2>1 DEF Vouched
    <3>3. \A u \in Use : ProcU(u) = q => StoreOf[u] \in Store /\ ProcOf[StoreOf[u]] = q
      BY UseType DEF ProcU
    <3>4. Vouched(q) => StoreG(gate[q]) \in Store /\ ProcOf[StoreG(gate[q])] = q
      <4>1. Vouched(q) => gate[q] \in Guard /\ ProcG(gate[q]) = q
        BY Before DEF Vouched
      <4> QED
        BY <4>1, GuardType DEF ProcG, StoreG
    <3>5. StoreG(gate[q])' = StoreG(gate[q])
      BY <2>1 DEF StoreG
    <3>6. Trusts(q)
      BY <1>1
    <3>7. ASSUME NEW s \in Store, ProcOf[s] = q
          PROVE  /\ observedGen'[s] <= generation'[q]
                 /\ (held'[q] \/ at'[q] = "install") /\ observedGen'[s] = generation'[q] => Clean(s)'
                 /\ held'[q] /\ ~IsStale(observed'[s], current'[q]) => Clean(s)'
      BY <2>1, <3>1, <3>6, <3>7 DEF Trusts
    <3>8. ASSUME NEW u \in Use, ProcU(u) = q, Running(u)' PROVE Clean(StoreOf[u])'
      BY <2>4, <3>1, <3>3, <3>6, <3>8 DEF Trusts
    <3>9. Vouched(q)' => Clean(StoreG(gate[q]))'
      BY <3>1, <3>2, <3>4, <3>5, <3>6 DEF Trusts, Clean
    <3> QED
      BY <3>7, <3>8, <3>9 DEF Trusts, IsStale
  <2> QED
    BY <2>2, <2>3, <2>5, <2>6
<1>4. ASSUME NEW s \in Store, ProcOf[s] # p PROVE Believes(s)'
  BY <1>1, <1>4 DEF Aside, Believes, Clean
<1> QED
  BY <1>2, <1>3, <1>4 DEF Epochs

-----------------------------------------------------------------------------
(***************************************************************************)
(* Steps of a process that are not at its gate.                            *)
(***************************************************************************)

\* A store that IsCurrent takes for current is.
LEMMA CurrentClean == ASSUME Epochs, NEW s \in Store, ProcOf[s] \in Process, held[ProcOf[s]], IsCurrent(s)
    PROVE Clean(s)
BY DEF Epochs, Trusts, IsCurrent, IsStaleAgainst

\* A step of p beside its gate: nothing is written or observed, what it holds it goes on
\* holding or lets go of, a store is adopted into the hold only when it is current, and an
\* operation begins only on such a store, to write only once the epoch was advanced.
Beside(p) ==
    /\ UNCHANGED <<diskVars, epochVars, gateVars, observed, behind>>
    /\ UsesOnly(p) /\ FilesOnly(p)
    /\ \A q \in Process : q # p => held'[q] = held[q] /\ advanced'[q] = advanced[q]
    /\ flock' \in {flock, Nobody}
    /\ ~held'[p] \/ (held'[p] = held[p] /\ advanced'[p] = advanced[p])
    /\ \A s \in Store : \/ observedGen'[s] = observedGen[s]
                        \/ /\ ProcOf[s] = p /\ held[p] /\ IsCurrent(s)
                           /\ observedGen'[s] = generation[p]
    /\ \A u \in Use : ProcU(u) = p /\ Running(u)' =>
          \/ Running(u) /\ op'[u] = op[u]
          \/ held[p] /\ IsCurrent(StoreOf[u]) /\ (op'[u] = "write" => advanced[p])
    /\ \A s \in Store : ProcOf[s] = p /\ (dirty'[s] \/ io'[s] # "none") =>
          dirty[s] \/ io[s] # "none" \/ advanced[p]
    /\ AsItIs(p) => Intent(gate[p])' = Intent(gate[p])

\* A step beside the gate keeps the invariant.
LEMMA BesideKeeps == ASSUME Exclusive, Exclusive', Epochs, NEW p \in Process, Beside(p)
    PROVE Epochs'
<1>1. Ordered /\ Knows(p) /\ Announced(p) /\ Writes(p) /\ Trusts(p) /\ \A s \in Store : Believes(s)
  BY DEF Epochs
<1>2. /\ epoch' = epoch /\ nonces' = nonces /\ gate' = gate /\ at' = at /\ stale' = stale /\ stamp' = stamp
      /\ current' = current /\ generation' = generation /\ observed' = observed /\ behind' = behind
  BY DEF Beside, diskVars, epochVars, gateVars
<1>3. p # Nobody /\ \A q \in Process : flock' = q => flock = q
  BY ConstantsAssumption DEF Beside
<1>4. Aside(p)
  <2>1. \A q \in Process : q # p => held'[q] = held[q] /\ advanced'[q] = advanced[q]
    BY DEF Beside
  <2>2. \A s \in Store : ProcOf[s] # p => observedGen'[s] = observedGen[s]
    BY DEF Beside
  <2> QED
    BY <1>2, <1>3, <2>1, <2>2 DEF Aside, Beside
<1>5. Observes(p)
  BY <1>2 DEF Observes
<1>6. nonces \in Nat /\ nonces' \in Nat /\ nonces <= nonces'
  BY <1>2, SMT DEF Exclusive, Types, TypeDisk
<1>7. held'[p] => held[p] /\ advanced'[p] = advanced[p]
  BY DEF Beside
<1>8. Knows(p)'
  <2>1. Begun(stamp[p])' <=> Begun(stamp[p])
    BY <1>2 DEF Begun
  <2>2. Unseen(stamp[p])' <=> Unseen(stamp[p])
    BY <1>2 DEF Unseen, Above
  <2> QED
    BY <1>1, <1>2, <1>3, <1>7, <2>1, <2>2 DEF Knows
<1>9. Announced(p)'
  <2>1. Ahead(p)' => Ahead(p)
    BY <1>2, <1>3, <1>7 DEF Ahead
  <2> QED
    BY <1>1, <1>2, <2>1 DEF Announced
<1>10. Writes(p)'
  <2>1. CASE ~held'[p]
    BY <2>1, Unheld
  <2>2. CASE held'[p]
    <3>1. advanced'[p] = advanced[p]
      BY <1>7, <2>2
    <3>2. ASSUME NEW u \in Use, ProcU(u) = p, Running(u)', op'[u] = "write" PROVE advanced[p]
      BY <1>1, <3>2 DEF Beside, Writes
    <3>3. ASSUME NEW s \in Store, ProcOf[s] = p, dirty'[s] \/ io'[s] # "none" PROVE advanced[p]
      BY <1>1, <3>3 DEF Beside, Writes
    <3>4. AsItIs(p)' => AsItIs(p)
      BY <1>2 DEF AsItIs
    <3>5. AsItIs(p) => Intent(gate[p])' = Intent(gate[p])
      BY DEF Beside
    <3> QED
      BY <1>1, <3>1, <3>2, <3>3, <3>4, <3>5 DEF Writes
  <2> QED
    BY <2>1, <2>2
<1>11. \A s \in Store : Clean(s)' <=> Clean(s)
  BY <1>2 DEF Clean
<1>12. Trusts(p)'
  <2>1. ASSUME NEW s \in Store, ProcOf[s] = p
        PROVE  /\ observedGen'[s] <= generation[p]
               /\ (held'[p] \/ at[p] = "install") /\ observedGen'[s] = generation[p] => Clean(s)
               /\ held'[p] /\ ~IsStale(observed[s], current[p]) => Clean(s)
    <3>1. CASE observedGen'[s] = observedGen[s]
      BY <1>1, <1>7, <2>1, <3>1 DEF Trusts
    <3>2. CASE held[p] /\ IsCurrent(s) /\ observedGen'[s] = generation[p]
      <4>1. Clean(s)
        BY <2>1, <3>2, CurrentClean
      <4>2. observedGen'[s] <= generation[p]
        BY <3>2, SMT DEF Exclusive, Types, TypeEpoch
      <4> QED
        BY <4>1, <4>2
    <3> QED
      BY <2>1, <3>1, <3>2 DEF Beside
  <2>2. ASSUME NEW u \in Use, ProcU(u) = p, Running(u)' PROVE Clean(StoreOf[u])'
    <3>1. StoreOf[u] \in Store /\ ProcOf[StoreOf[u]] = p
      BY <2>2, UseType DEF ProcU
    <3>2. CASE Running(u)
      BY <1>1, <1>11, <2>2, <3>1, <3>2 DEF Trusts
    <3>3. CASE held[p] /\ IsCurrent(StoreOf[u])
      BY <1>11, <3>1, <3>3, CurrentClean
    <3> QED
      BY <2>2, <3>2, <3>3 DEF Beside
  <2>3. Vouched(p)' => Clean(StoreG(gate[p]))'
    <3>1. Vouched(p)' <=> Vouched(p)
      BY <1>2 DEF Vouched
    <3>2. Clean(StoreG(gate[p]))' <=> Clean(StoreG(gate[p]))
      BY <1>2 DEF Clean, StoreG
    <3> QED
      BY <1>1, <3>1, <3>2 DEF Trusts
  <2> QED
    BY <1>2, <1>11, <2>1, <2>2, <2>3 DEF Trusts, IsStale
<1>13. \A s \in Store : Believes(s)'
  BY <1>1, <1>2, <1>11 DEF Believes, IsStale
<1> QED
  BY <1>2, <1>4, <1>5, <1>6, <1>8, <1>9, <1>10, <1>12, <1>13, OthersKeep

\* A guard is that of a use or of an operation.
LEMMA GuardPair == ASSUME NEW g \in Guard PROVE g = <<g[1], "use">> \/ g = <<g[1], "op">>
BY SMT DEF Guard

\* The guards of uses and operations are apart.
LEMMA GuardsDiffer == ASSUME NEW u, NEW v
    PROVE <<u, "use">> # <<v, "op">> /\ (<<u, "op">> = <<v, "op">> => u = v)
BY SMT

\* The intent at a gate changes only with the operation whose guard is there.
LEMMA IntentStays == ASSUME Exclusive, NEW p \in Process, gate'[p] = gate[p],
        \A v \in Use : gate[p] = <<v, "op">> => op'[v] = op[v]
    PROVE AsItIs(p) => Intent(gate[p])' = Intent(gate[p])
<1> SUFFICES ASSUME AsItIs(p) PROVE Intent(gate[p])' = Intent(gate[p])
  OBVIOUS
<1>1. gate[p] \in Guard
  BY Before DEF AsItIs
<1>2. gate[p][1] \in Use /\ gate[p][2] \in {"use", "op"}
  BY <1>1, GuardType
<1>3. CASE gate[p][2] = "use"
  BY <1>3 DEF Intent
<1>4. CASE gate[p][2] = "op"
  <2>1. gate[p] = <<gate[p][1], "op">>
    BY <1>1, <1>4, SMT DEF Guard
  <2> QED
    BY <1>2, <1>4, <2>1 DEF Intent
<1> QED
  BY <1>2, <1>3, <1>4

\* Operations keep running, and begin only where their guard is counted in.
LEMMA RunsStay == ASSUME NEW u \in Use, gate' = gate, op'[u] \in {op[u], "none"},
        u \in covered' => u \in covered, <<u, "op">> \in guards' => <<u, "op">> \in guards
    PROVE Running(u)' => Running(u) /\ op'[u] = op[u]
BY DEF Running

\* A release gives up the hold of one process and grants nothing.
LEMMA ReleaseBeside == ASSUME Exclusive, NEW p \in Process, NEW G, NEW D, NEW b, NEW c,
        ReleaseIfIdle(p, G, D, b, c)
    PROVE /\ \A q \in Process : q # p => held'[q] = held[q] /\ advanced'[q] = advanced[q]
          /\ flock' \in {flock, Nobody}
          /\ ~held'[p] \/ (held'[p] = held[p] /\ advanced'[p] = advanced[p])
<1>1. held \in [Process -> BOOLEAN] /\ advanced \in [Process -> BOOLEAN]
  BY DEF Exclusive, Types, TypeState
<1>2. \/ UNCHANGED <<held, advanced, flock>>
      \/ /\ held' = [held EXCEPT ![p] = FALSE] /\ advanced' = [advanced EXCEPT ![p] = FALSE]
         /\ flock' \in {flock, Nobody}
  BY DEF ReleaseIfIdle, Release, stateVars
<1> QED
  BY <1>1, <1>2

\* An acquisition's first step counts it in only where its store is current.
LEMMA AcquireBeside == ASSUME NEW g \in Guard, NEW i, Acquire(g, i), ProcG(g) \in Process,
        observedGen \in [Store -> Nat \cup {NeverAdopted}]
    PROVE /\ \A h : h # g => (h \in guards' <=> h \in guards) /\ (h \in waiting' <=> h \in waiting)
          /\ g \in guards' => \/ g \in guards
                              \/ /\ held[ProcG(g)] /\ IsCurrent(StoreG(g))
                                 /\ i = "write" => advanced[ProcG(g)]
          /\ \A s \in Store : \/ observedGen'[s] = observedGen[s]
                              \/ /\ ProcOf[s] = ProcG(g) /\ held[ProcG(g)] /\ IsCurrent(s)
                                 /\ observedGen'[s] = generation[ProcG(g)]
<1>1. ProcOf[StoreG(g)] = ProcG(g)
  BY DEF StoreG, ProcG
<1>2. CASE TryJoin(StoreG(g), i) /\ Join(g)
  <2>1. held[ProcG(g)] /\ IsCurrent(StoreG(g)) /\ (i = "write" => advanced[ProcG(g)])
    BY <1>1, <1>2 DEF TryJoin
  <2>2. guards' = guards \cup {g} /\ observedGen' = [observedGen EXCEPT ![StoreG(g)] = generation[ProcG(g)]]
    BY <1>2 DEF Join
  <2>3. waiting' = waiting
    BY <1>2 DEF Acquire
  <2> QED
    BY <1>1, <2>1, <2>2, <2>3
<1>3. CASE ~TryJoin(StoreG(g), i)
  BY <1>3 DEF Acquire
<1> QED
  BY <1>2, <1>3 DEF Acquire

\* What the lemmas of the actions use of the invariants.
LEMMA Given == ASSUME Exclusive, Epochs, NEW p \in Process
    PROVE /\ Ordered /\ Knows(p) /\ Announced(p) /\ Writes(p) /\ Trusts(p)
          /\ TypeGate /\ TypeState /\ TypeEpoch /\ TypeAdopt /\ TypeDisk /\ TypeUse /\ TypeFile
BY DEF Exclusive, Epochs, Types

\* A step that claims, or ends a claim, for a use of p.
LEMMA ClaimsBeside == ASSUME Exclusive, NEW p \in Process,
        UNCHANGED <<diskVars, epochVars, gateVars, observed, fileVars>>,
        \A h \in Guard : ProcG(h) # p => (h \in guards' <=> h \in guards) /\ (h \in waiting' <=> h \in waiting),
        \A v \in Use : ProcU(v) # p => (v \in covered' <=> v \in covered) /\ op'[v] = op[v],
        \A q \in Process : q # p => held'[q] = held[q] /\ advanced'[q] = advanced[q],
        flock' \in {flock, Nobody},
        ~held'[p] \/ (held'[p] = held[p] /\ advanced'[p] = advanced[p]),
        \A s \in Store : \/ observedGen'[s] = observedGen[s]
                         \/ /\ ProcOf[s] = p /\ held[p] /\ IsCurrent(s)
                            /\ observedGen'[s] = generation[p],
        \A v \in Use : ProcU(v) = p /\ Running(v)' =>
           \/ Running(v) /\ op'[v] = op[v]
           \/ held[p] /\ IsCurrent(StoreOf[v]) /\ (op'[v] = "write" => advanced[p]),
        \A v \in Use : gate[p] = <<v, "op">> => op'[v] = op[v]
    PROVE Beside(p)
<1>1. gate' = gate /\ behind' = behind /\ dirty' = dirty /\ io' = io
  BY DEF gateVars, fileVars
<1>2. UsesOnly(p) /\ FilesOnly(p)
  BY <1>1 DEF UsesOnly, FilesOnly
<1>3. AsItIs(p) => Intent(gate[p])' = Intent(gate[p])
  BY <1>1, IntentStays
<1> QED
  BY <1>1, <1>2, <1>3 DEF Beside

\* A use that claims the store: a step beside the gate.
LEMMA BeginUseEpochs == ASSUME Exclusive, Epochs, NEW u \in Use, BeginUse(u) PROVE Beside(ProcU(u))
<1> DEFINE p == ProcU(u)
           g == <<u, "use">>
<1>1. p \in Process /\ g \in Guard /\ ProcG(g) = p
  BY UseType
<1>2. Acquire(g, "read") /\ gate' = gate /\ op' = op /\ covered' = covered
      /\ UNCHANGED <<diskVars, epochVars, gateVars, observed, fileVars, held, advanced, flock>>
  BY DEF BeginUse, gateVars, stateVars
<1>3. /\ \A h : h # g => (h \in guards' <=> h \in guards) /\ (h \in waiting' <=> h \in waiting)
      /\ \A s \in Store : \/ observedGen'[s] = observedGen[s]
                          \/ /\ ProcOf[s] = p /\ held[p] /\ IsCurrent(s)
                             /\ observedGen'[s] = generation[p]
  BY <1>1, <1>2, AcquireBeside DEF Exclusive, Types, TypeAdopt
<1>4. \A v \in Use : Running(v)' => Running(v) /\ op'[v] = op[v]
  BY <1>2, <1>3, RunsStay, GuardsDiffer
<1>5. \A h \in Guard : ProcG(h) # p => (h \in guards' <=> h \in guards) /\ (h \in waiting' <=> h \in waiting)
  BY <1>1, <1>3
<1> QED
  BY <1>1, <1>2, <1>3, <1>4, <1>5, ClaimsBeside

\* A guard that becomes a span: a step beside the gate.
LEMMA IntoSpanEpochs == ASSUME Exclusive, Epochs, NEW u \in Use, IntoSpan(u) PROVE Beside(ProcU(u))
<1>1. /\ UNCHANGED <<diskVars, epochVars, gateVars, observed, fileVars, held, advanced, flock>>
      /\ UNCHANGED <<gate, op, covered, guards, waiting, observedGen>>
  BY DEF IntoSpan, gateVars, stateVars, adoptVars
<1>2. \A v \in Use : Running(v)' => Running(v) /\ op'[v] = op[v]
  BY <1>1, RunsStay
<1> QED
  BY <1>1, <1>2, UseType, ClaimsBeside

\* An operation that joins the hold or turns to the gate: a step beside the gate.
LEMMA BeginOpEpochs == ASSUME Exclusive, Epochs, NEW u \in Use, NEW intent, BeginOp(u, intent) PROVE Beside(ProcU(u))
<1> DEFINE p == ProcU(u)
           g == <<u, "op">>
<1>1. /\ p \in Process /\ g \in Guard /\ ProcG(g) = p /\ StoreG(g) = StoreOf[u] /\ ProcOf[StoreOf[u]] = p
  BY UseType DEF ProcU
<1>2. /\ op' = [op EXCEPT ![u] = intent] /\ op \in [Use -> {"none", "read", "write"}]
      /\ UNCHANGED <<diskVars, epochVars, gateVars, observed, fileVars, held, advanced, flock, gate>>
      /\ gate[p] # g /\ g \notin guards /\ op[u] = "none"
  BY <1>1 DEF BeginOp, gateVars, stateVars, Unclaimed, Exclusive, Types, TypeUse
<1>3. /\ op'[u] = intent /\ \A v \in Use : v # u => op'[v] = op[v]
  BY <1>2
<1>4. \A v \in Use : ProcU(v) # p => v # u
  OBVIOUS
<1>5. \A v \in Use : gate[p] = <<v, "op">> => op'[v] = op[v]
  BY <1>2, <1>3
<1>6. CASE Covers(StoreOf[u], intent)
  <2>1. /\ covered' = covered \cup {u} /\ UNCHANGED <<waiting, guards, observedGen>>
    BY <1>6 DEF BeginOp
  <2>2. held[p] /\ IsCurrent(StoreOf[u]) /\ (intent = "write" => advanced[p])
    BY <1>1, <1>6 DEF Covers, Live, IsCurrent
  <2>3. \A v \in Use : v # u => (Running(v)' => Running(v) /\ op'[v] = op[v])
    BY <1>2, <1>3, <2>1, RunsStay
  <2>4. \A v \in Use : ProcU(v) # p => (v \in covered' <=> v \in covered) /\ op'[v] = op[v]
    BY <1>3, <2>1
  <2>5. \A v \in Use : ProcU(v) = p /\ Running(v)' =>
           \/ Running(v) /\ op'[v] = op[v]
           \/ held[p] /\ IsCurrent(StoreOf[v]) /\ (op'[v] = "write" => advanced[p])
    BY <1>3, <2>2, <2>3
  <2> QED
    BY <1>1, <1>2, <1>5, <2>1, <2>4, <2>5, ClaimsBeside
<1>7. CASE ~Covers(StoreOf[u], intent)
  <2>1. Acquire(g, intent) /\ covered' = covered
    BY <1>7 DEF BeginOp
  <2>2. /\ \A h : h # g => (h \in guards' <=> h \in guards) /\ (h \in waiting' <=> h \in waiting)
        /\ g \in guards' => held[p] /\ IsCurrent(StoreOf[u]) /\ (intent = "write" => advanced[p])
        /\ \A s \in Store : \/ observedGen'[s] = observedGen[s]
                            \/ /\ ProcOf[s] = p /\ held[p] /\ IsCurrent(s)
                               /\ observedGen'[s] = generation[p]
    BY <1>1, <1>2, <2>1, AcquireBeside DEF Exclusive, Types, TypeAdopt
  <2>3. \A v \in Use : v # u => (Running(v)' => Running(v) /\ op'[v] = op[v])
    BY <1>2, <1>3, <2>1, <2>2, RunsStay, GuardsDiffer
  <2>4. u \notin covered
    BY <1>1, <1>2, Before DEF Claims
  <2>5. Running(u)' => held[p] /\ IsCurrent(StoreOf[u]) /\ (op'[u] = "write" => advanced[p])
    BY <1>3, <2>1, <2>2, <2>4 DEF Running
  <2>6. \A v \in Use : ProcU(v) # p => (v \in covered' <=> v \in covered) /\ op'[v] = op[v]
    BY <1>3, <2>1
  <2>7. \A v \in Use : ProcU(v) = p /\ Running(v)' =>
           \/ Running(v) /\ op'[v] = op[v]
           \/ held[p] /\ IsCurrent(StoreOf[v]) /\ (op'[v] = "write" => advanced[p])
    BY <2>3, <2>5
  <2>8. \A h \in Guard : ProcG(h) # p => (h \in guards' <=> h \in guards) /\ (h \in waiting' <=> h \in waiting)
    BY <1>1, <2>2
  <2> QED
    BY <1>1, <1>2, <1>5, <2>2, <2>6, <2>7, <2>8, ClaimsBeside
<1> QED
  BY <1>6, <1>7

\* A delayed flush that begins, outside any use: a step beside the gate.
LEMMA BeginSweepEpochs == ASSUME Exclusive, Epochs, NEW u \in Use, BeginSweep(u) PROVE Beside(ProcU(u))
<1> DEFINE p == ProcU(u)
           g == <<u, "op">>
<1>1. /\ p \in Process /\ g \in Guard /\ ProcG(g) = p /\ StoreG(g) = StoreOf[u]
  BY UseType
<1>2. /\ op' = [op EXCEPT ![u] = "write"] /\ op \in [Use -> {"none", "read", "write"}]
      /\ UNCHANGED <<diskVars, epochVars, gateVars, observed, fileVars, held, advanced, flock, gate, covered>>
      /\ gate[p] # g /\ g \notin guards /\ op[u] = "none" /\ Acquire(g, "write")
  BY <1>1 DEF BeginSweep, gateVars, stateVars, Unclaimed, Exclusive, Types, TypeUse
<1>3. /\ op'[u] = "write" /\ \A v \in Use : v # u => op'[v] = op[v]
  BY <1>2
<1>4. /\ \A h : h # g => (h \in guards' <=> h \in guards) /\ (h \in waiting' <=> h \in waiting)
      /\ g \in guards' => held[p] /\ IsCurrent(StoreOf[u]) /\ advanced[p]
      /\ \A s \in Store : \/ observedGen'[s] = observedGen[s]
                          \/ /\ ProcOf[s] = p /\ held[p] /\ IsCurrent(s)
                             /\ observedGen'[s] = generation[p]
  BY <1>1, <1>2, AcquireBeside DEF Exclusive, Types, TypeAdopt
<1>5. u \notin covered
  BY <1>1, <1>2, Before DEF Claims
<1>6. \A v \in Use : v # u => (Running(v)' => Running(v) /\ op'[v] = op[v])
  BY <1>2, <1>3, <1>4, RunsStay, GuardsDiffer
<1>7. Running(u)' => held[p] /\ IsCurrent(StoreOf[u]) /\ advanced[p]
  BY <1>2, <1>4, <1>5 DEF Running
<1>8. \A v \in Use : ProcU(v) = p /\ Running(v)' =>
         \/ Running(v) /\ op'[v] = op[v]
         \/ held[p] /\ IsCurrent(StoreOf[v]) /\ (op'[v] = "write" => advanced[p])
  BY <1>6, <1>7
<1>9. \A v \in Use : gate[p] = <<v, "op">> => op'[v] = op[v]
  BY <1>2, <1>3
<1>10. \A v \in Use : ProcU(v) # p => op'[v] = op[v]
  BY <1>3
<1>11. \A h \in Guard : ProcG(h) # p => (h \in guards' <=> h \in guards) /\ (h \in waiting' <=> h \in waiting)
  BY <1>1, <1>4
<1> QED
  BY <1>1, <1>2, <1>4, <1>8, <1>9, <1>10, <1>11, ClaimsBeside

\* The end of a use, which may let the flock go: a step beside the gate.
LEMMA EndUseEpochs == ASSUME Exclusive, Epochs, NEW u \in Use, EndUse(u) PROVE Beside(ProcU(u))
<1> DEFINE p == ProcU(u)
<1>1. p \in Process /\ <<u, "use">> \in Guard /\ ProcG(<<u, "use">>) = p
  BY UseType
<1>2. /\ guards' = guards \ {<<u, "use">>}
      /\ UNCHANGED <<diskVars, epochVars, gateVars, observed, observedGen, fileVars, gate, op, covered, waiting>>
  BY DEF EndUse, gateVars, adoptVars
<1>3. /\ \A q \in Process : q # p => held'[q] = held[q] /\ advanced'[q] = advanced[q]
      /\ flock' \in {flock, Nobody}
      /\ ~held'[p] \/ (held'[p] = held[p] /\ advanced'[p] = advanced[p])
  BY <1>1, ReleaseBeside DEF EndUse
<1>4. \A v \in Use : Running(v)' => Running(v) /\ op'[v] = op[v]
  BY <1>2, RunsStay
<1>5. \A h \in Guard : ProcG(h) # p => (h \in guards' <=> h \in guards) /\ (h \in waiting' <=> h \in waiting)
  BY <1>1, <1>2
<1> QED
  BY <1>1, <1>2, <1>3, <1>4, <1>5, ClaimsBeside

\* The end of an operation, which may let the flock go: a step beside the gate.
LEMMA EndOpEpochs == ASSUME Exclusive, Epochs, NEW u \in Use, EndOp(u) PROVE Beside(ProcU(u))
<1> DEFINE p == ProcU(u)
<1>1. p \in Process /\ <<u, "op">> \in Guard /\ ProcG(<<u, "op">>) = p
  BY UseType
<1>2. /\ guards' = guards \ {<<u, "op">>} /\ covered' = covered \ {u}
      /\ op' = [op EXCEPT ![u] = "none"] /\ op \in [Use -> {"none", "read", "write"}] /\ Running(u)
      /\ UNCHANGED <<diskVars, epochVars, gateVars, observed, observedGen, fileVars, gate, waiting>>
  BY DEF EndOp, gateVars, adoptVars, Exclusive, Types, TypeUse
<1>3. /\ \A q \in Process : q # p => held'[q] = held[q] /\ advanced'[q] = advanced[q]
      /\ flock' \in {flock, Nobody}
      /\ ~held'[p] \/ (held'[p] = held[p] /\ advanced'[p] = advanced[p])
  <2>1. CASE u \in covered
    BY <2>1 DEF EndOp, stateVars
  <2>2. CASE u \notin covered
    BY <1>1, <2>2, ReleaseBeside DEF EndOp
  <2> QED
    BY <2>1, <2>2
<1>4. \A v \in Use : op'[v] \in {op[v], "none"} /\ (v # u => op'[v] = op[v])
  BY <1>2
<1>5. \A v \in Use : Running(v)' => Running(v) /\ op'[v] = op[v]
  BY <1>2, <1>4, RunsStay
<1>6. gate[p] # <<u, "op">>
  BY <1>1, <1>2, Before DEF Running, Claims
<1>7. \A v \in Use : gate[p] = <<v, "op">> => op'[v] = op[v]
  BY <1>4, <1>6
<1>8. \A v \in Use : ProcU(v) # p => (v \in covered' <=> v \in covered) /\ op'[v] = op[v]
  BY <1>2, <1>4
<1>9. \A h \in Guard : ProcG(h) # p => (h \in guards' <=> h \in guards) /\ (h \in waiting' <=> h \in waiting)
  BY <1>1, <1>2
<1> QED
  BY <1>1, <1>2, <1>3, <1>5, <1>7, <1>8, <1>9, ClaimsBeside

\* A step of p on the files of a store s of its.
LEMMA FilesBeside == ASSUME Exclusive, NEW s \in Store, ProcOf[s] \in Process,
        UNCHANGED <<diskVars, epochVars, gateVars, useVars, adoptVars, behind>>,
        \A q \in Process : q # ProcOf[s] => held'[q] = held[q] /\ advanced'[q] = advanced[q],
        flock' \in {flock, Nobody},
        ~held'[ProcOf[s]] \/ (held'[ProcOf[s]] = held[ProcOf[s]] /\ advanced'[ProcOf[s]] = advanced[ProcOf[s]]),
        \A t \in Store : t # s => dirty'[t] = dirty[t] /\ io'[t] = io[t],
        dirty'[s] \/ io'[s] # "none" => dirty[s] \/ io[s] # "none" \/ advanced[ProcOf[s]]
    PROVE Beside(ProcOf[s])
<1>1. /\ UNCHANGED <<gate, guards, waiting, covered, op, observed, observedGen>>
  BY DEF gateVars, useVars, adoptVars
<1>2. UsesOnly(ProcOf[s]) /\ FilesOnly(ProcOf[s])
  BY <1>1 DEF UsesOnly, FilesOnly
<1>3. AsItIs(ProcOf[s]) => Intent(gate[ProcOf[s]])' = Intent(gate[ProcOf[s]])
  BY <1>1, IntentStays
<1>4. \A v \in Use : Running(v)' => Running(v) /\ op'[v] = op[v]
  BY <1>1, RunsStay
<1>5. \A t \in Store : dirty'[t] \/ io'[t] # "none" => dirty[t] \/ io[t] # "none" \/ advanced[ProcOf[s]]
  OBVIOUS
<1> QED
  BY <1>1, <1>2, <1>3, <1>4, <1>5 DEF Beside

\* Changing files, flushing and sweeping are steps beside the gate.
LEMMA FileStepsEpochs == ASSUME Exclusive, Epochs, NEW u \in Use, Modify(u) \/ StartFlush(u) \/ SweepWrite(u)
    PROVE Beside(ProcU(u))
<1> DEFINE s == StoreOf[u]
<1>1. s \in Store /\ ProcOf[s] = ProcU(u) /\ ProcU(u) \in Process
  BY UseType DEF ProcU
<1>2. dirty \in [Store -> BOOLEAN] /\ io \in [Store -> {"none", "share", "write", "lone"}]
  BY DEF Exclusive, Types, TypeFile
<1>3. advanced[ProcU(u)]
  <2>1. Running(u) /\ op[u] = "write"
    BY DEF Modify, StartFlush, SweepWrite
  <2> QED
    BY <1>1, <2>1 DEF Epochs, Writes
<1>4. /\ UNCHANGED <<diskVars, epochVars, gateVars, useVars, adoptVars, behind, held, advanced, flock>>
      /\ dirty' \in {dirty, [dirty EXCEPT ![s] = TRUE], [dirty EXCEPT ![s] = FALSE]}
      /\ io' \in {io, [io EXCEPT ![s] = "share"], [io EXCEPT ![s] = "lone"]}
  BY DEF Modify, StartFlush, SweepWrite, stateVars
<1>5. \A t \in Store : t # s => dirty'[t] = dirty[t] /\ io'[t] = io[t]
  BY <1>2, <1>4
<1> QED
  BY <1>1, <1>3, <1>4, <1>5, FilesBeside

\* So are a bucket claimed by a flush, and a write that fails.
LEMMA FlushStepsEpochs == ASSUME Exclusive, Epochs, NEW s \in Store, ClaimFlag(s) \/ LandFails(s)
    PROVE Beside(ProcOf[s])
<1>1. ProcOf[s] \in Process
  BY ConstantsAssumption
<1>2. dirty \in [Store -> BOOLEAN] /\ io \in [Store -> {"none", "share", "write", "lone"}]
  BY DEF Exclusive, Types, TypeFile
<1>3. UNCHANGED <<diskVars, epochVars, gateVars, useVars, adoptVars, behind, held, advanced, flock>>
  BY DEF ClaimFlag, LandFails, stateVars
<1>4. io[s] # "none" /\ \A t \in Store : t # s => dirty'[t] = dirty[t] /\ io'[t] = io[t]
  BY <1>2 DEF ClaimFlag, LandFails, EndWrite
<1> QED
  BY <1>1, <1>3, <1>4, FilesBeside

\* The end of a flush, which may let the flock go: a step beside the gate.
LEMMA EndFlushEpochs == ASSUME Exclusive, Epochs, NEW s \in Store, EndFlush(s) PROVE Beside(ProcOf[s])
<1>1. ProcOf[s] \in Process
  BY ConstantsAssumption
<1>2. io \in [Store -> {"none", "share", "write", "lone"}]
  BY DEF Exclusive, Types, TypeFile
<1>3. UNCHANGED <<diskVars, epochVars, gateVars, useVars, adoptVars, behind, dirty>>
  BY DEF EndFlush
<1>4. \A t \in Store : dirty'[t] = dirty[t] /\ (t # s => io'[t] = io[t]) /\ io[s] # "none"
  BY <1>2, <1>3 DEF EndFlush
<1>5. /\ \A q \in Process : q # ProcOf[s] => held'[q] = held[q] /\ advanced'[q] = advanced[q]
      /\ flock' \in {flock, Nobody}
      /\ ~held'[ProcOf[s]] \/ (held'[ProcOf[s]] = held[ProcOf[s]] /\ advanced'[ProcOf[s]] = advanced[ProcOf[s]])
  BY <1>1, ReleaseBeside DEF EndFlush
<1> QED
  BY <1>1, <1>3, <1>4, <1>5, FilesBeside

\* A release tried again: a step beside the gate.
LEMMA RetryReleaseEpochs == ASSUME Exclusive, Epochs, NEW p \in Process, RetryRelease(p) PROVE Beside(p)
<1>1. held \in [Process -> BOOLEAN] /\ advanced \in [Process -> BOOLEAN]
  BY DEF Exclusive, Types, TypeState
<1>2. /\ UNCHANGED <<diskVars, epochVars, gateVars, observed, fileVars>>
      /\ UNCHANGED <<gate, op, covered, guards, waiting, observedGen>>
  BY DEF RetryRelease, gateVars, useVars, adoptVars
<1>3. \/ UNCHANGED <<held, advanced, flock>>
      \/ /\ held' = [held EXCEPT ![p] = FALSE] /\ advanced' = [advanced EXCEPT ![p] = FALSE]
         /\ flock' \in {flock, Nobody}
  BY DEF RetryRelease
<1>4. /\ \A q \in Process : q # p => held'[q] = held[q] /\ advanced'[q] = advanced[q]
      /\ flock' \in {flock, Nobody}
      /\ ~held'[p] \/ (held'[p] = held[p] /\ advanced'[p] = advanced[p])
  BY <1>1, <1>3
<1>5. \A v \in Use : Running(v)' => Running(v) /\ op'[v] = op[v]
  BY <1>2, RunsStay
<1> QED
  BY <1>2, <1>4, <1>5, ClaimsBeside

\* A waiting acquisition that finds it can join: a step beside the gate.
LEMMA JoinAtGateEpochs == ASSUME Exclusive, Epochs, NEW g \in Guard, JoinAtGate(g) PROVE Beside(ProcG(g))
<1> DEFINE p == ProcG(g)
<1>1. p \in Process /\ StoreG(g) \in Store /\ ProcOf[StoreG(g)] = p /\ g[1] \in Use /\ ProcU(g[1]) = p
      /\ StoreOf[g[1]] = StoreG(g)
  BY GuardType DEF ProcG, StoreG, ProcU
<1>2. /\ UNCHANGED <<diskVars, epochVars, gateVars, observed, fileVars, held, advanced, flock>>
      /\ UNCHANGED <<gate, op, covered>> /\ gate[p] = NoGuard
      /\ waiting' = waiting \ {g} /\ guards' = guards \cup {g}
      /\ observedGen' = [observedGen EXCEPT ![StoreG(g)] = generation[p]]
      /\ observedGen \in [Store -> Nat \cup {NeverAdopted}]
  BY DEF JoinAtGate, Join, gateVars, stateVars, Exclusive, Types, TypeAdopt
<1>3. held[p] /\ IsCurrent(StoreG(g)) /\ (Intent(g) = "write" => advanced[p])
  BY <1>1 DEF JoinAtGate, TryJoin
<1>4. \A s \in Store : \/ observedGen'[s] = observedGen[s]
                       \/ ProcOf[s] = p /\ held[p] /\ IsCurrent(s) /\ observedGen'[s] = generation[p]
  BY <1>1, <1>2, <1>3
<1>5. \A v \in Use : ProcU(v) = p /\ Running(v)' =>
         \/ Running(v) /\ op'[v] = op[v]
         \/ held[p] /\ IsCurrent(StoreOf[v]) /\ (op'[v] = "write" => advanced[p])
  <2> SUFFICES ASSUME NEW v \in Use, ProcU(v) = p, Running(v)'
               PROVE  \/ Running(v) /\ op'[v] = op[v]
                      \/ held[p] /\ IsCurrent(StoreOf[v]) /\ (op'[v] = "write" => advanced[p])
    OBVIOUS
  <2>1. CASE g = <<v, "op">>
    <3>1. g[1] = v /\ g[2] = "op"
      BY <2>1
    <3>2. Intent(g) = op[v]
      BY <3>1 DEF Intent
    <3> QED
      BY <1>1, <1>2, <1>3, <3>1, <3>2
  <2>2. CASE g # <<v, "op">>
    BY <1>2, <2>2, RunsStay
  <2> QED
    BY <2>1, <2>2
<1>6. \A h \in Guard : ProcG(h) # p => (h \in guards' <=> h \in guards) /\ (h \in waiting' <=> h \in waiting)
  BY <1>2
<1> QED
  BY <1>1, <1>2, <1>4, <1>5, <1>6, ClaimsBeside

\* An acquisition dropped while it waits for the gate: a step beside the gate.
LEMMA CancelWaitingEpochs == ASSUME Exclusive, Epochs, NEW g \in Guard, CancelWaiting(g) PROVE Beside(ProcG(g))
<1> DEFINE p == ProcG(g)
<1>1. p \in Process /\ g[1] \in Use /\ ProcU(g[1]) = p
  BY GuardType DEF ProcG, ProcU
<1>2. /\ UNCHANGED <<diskVars, epochVars, gateVars, observed, fileVars, held, advanced, flock>>
      /\ UNCHANGED <<gate, covered, guards, observedGen>> /\ waiting' = waiting \ {g} /\ g \in waiting
      /\ op \in [Use -> {"none", "read", "write"}]
  BY DEF CancelWaiting, gateVars, stateVars, adoptVars, Exclusive, Types, TypeUse
<1>3. op' = op \/ (g[2] = "op" /\ op' = [op EXCEPT ![g[1]] = "none"])
  BY DEF CancelWaiting, Withdraw
<1>4. \A v \in Use : op'[v] \in {op[v], "none"} /\ (v # g[1] \/ g[2] # "op" => op'[v] = op[v])
  BY <1>2, <1>3
<1>5. \A v \in Use : Running(v)' => Running(v) /\ op'[v] = op[v]
  BY <1>2, <1>4, RunsStay
<1>6. gate[p] # g
  BY <1>1, <1>2, Before DEF Claims
<1>7. \A v \in Use : gate[p] = <<v, "op">> => op'[v] = op[v]
  <2>1. g[2] = "op" => g = <<g[1], "op">>
    BY SMT DEF Guard
  <2> QED
    BY <1>4, <1>6, <2>1
<1>8. \A v \in Use : ProcU(v) # p => op'[v] = op[v]
  BY <1>1, <1>4
<1>9. \A h \in Guard : ProcG(h) # p => (h \in guards' <=> h \in guards) /\ (h \in waiting' <=> h \in waiting)
  BY <1>2
<1> QED
  BY <1>1, <1>2, <1>5, <1>7, <1>8, <1>9, ClaimsBeside

-----------------------------------------------------------------------------
(***************************************************************************)
(* Steps of a process at its gate.                                         *)
(***************************************************************************)

\* The epoch written next is of a lifetime that has begun by then, and nobody has seen it.
LEMMA NextUnseen == ASSUME Exclusive, Epochs, NEW e \in {epoch, Unreadable}
    PROVE /\ NextEpoch(e).kind = "at" /\ NextEpoch(e) # NoEpoch
          /\ NextEpoch(e).nonce < NoncesAfter(e) /\ Unseen(NextEpoch(e))
          /\ nonces <= NoncesAfter(e) /\ NoncesAfter(e) \in Nat
<1>1. /\ nonces \in Nat /\ epoch \in Epoch /\ Begun(epoch)
      /\ \A s \in Store : observed[s] \in Epoch /\ Within(observed[s])
      /\ \A q \in Process : at[q] = "record" => stamp[q] \in Epoch /\ Within(stamp[q])
  BY DEF Epochs, Ordered, Exclusive, Types, TypeDisk, TypeAdopt, TypeGate
<1>2. CASE e.kind = "at"
  <2>1. e = epoch /\ epoch.kind = "at"
    BY <1>2, RecordFields
  <2>2. NextEpoch(e) = At(epoch.nonce, epoch.count + 1) /\ NoncesAfter(e) = nonces
    BY <2>1 DEF NextEpoch, NoncesAfter
  <2> DEFINE f == At(epoch.nonce, epoch.count + 1)
  <2>3. f.kind = "at" /\ f.nonce = epoch.nonce /\ f.count = epoch.count + 1
    BY RecordFields
  <2> HIDE DEF f
  <2>4. ASSUME NEW d \in Epoch, Within(d) PROVE Above(f, d)
    BY <1>1, <2>1, <2>3, <2>4, SMT DEF Above, Within, Epoch
  <2>5. Within(epoch)
    BY <1>1, SMT DEF Within, Epoch
  <2>6. Unseen(f)
    BY <1>1, <2>4, <2>5 DEF Unseen
  <2>7. epoch.nonce < nonces /\ nonces <= nonces
    BY <1>1, <2>1, SMT DEF Begun
  <2> QED
    BY <1>1, <2>2, <2>3, <2>6, <2>7, RecordFields DEF f
<1>3. CASE e.kind # "at"
  <2>1. NextEpoch(e) = At(nonces, 1) /\ NoncesAfter(e) = nonces + 1
    BY <1>3 DEF NextEpoch, NoncesAfter
  <2> DEFINE f == At(nonces, 1)
  <2>2. f.kind = "at" /\ f.nonce = nonces
    BY RecordFields
  <2> HIDE DEF f
  <2>3. ASSUME NEW d \in Epoch, Begun(d) PROVE Above(f, d)
    BY <1>1, <2>2, <2>3, SMT DEF Above, Begun, Epoch
  <2>4. Unseen(f)
    BY <1>1, <2>3 DEF Unseen, Within
  <2>5. nonces < nonces + 1 /\ nonces <= nonces + 1 /\ nonces + 1 \in Nat
    BY <1>1, SMT
  <2> QED
    BY <2>1, <2>2, <2>4, <2>5, RecordFields DEF f
<1> QED
  BY <1>2, <1>3

\* Where an acquisition stands after a step in the gate.
LEMMA InGateAt == ASSUME TypeGate, NEW p \in Process, NEW g, NEW phase, NEW b, NEW c, NEW e,
        InGate(p, g, phase, b, c, e)
    PROVE /\ gate'[p] = g /\ at'[p] = phase /\ stale'[p] = b /\ stamp'[p] = e
          /\ \A q \in Process : q # p =>
                gate'[q] = gate[q] /\ at'[q] = at[q] /\ stale'[q] = stale[q] /\ stamp'[q] = stamp[q]
BY DEF InGate, TypeGate

\* A gate that was left is free.
LEMMA LeaveGateAt == ASSUME TypeGate, NEW p \in Process, LeaveGate(p)
    PROVE /\ gate'[p] = NoGuard /\ at'[p] = "idle"
          /\ \A q \in Process : q # p =>
                gate'[q] = gate[q] /\ at'[q] = at[q] /\ stale'[q] = stale[q] /\ stamp'[q] = stamp[q]
BY DEF LeaveGate, InGate, TypeGate

\* An operation begins to run as its guard leaves the gate.
LEMMA GateRuns == ASSUME Exclusive, NEW p \in Process, NEW u \in Use, ProcU(u) = p, Running(u)',
        covered' = covered, op'[u] \in {op[u], "none"},
        \/ gate'[p] \in {gate[p], NoGuard} /\ guards' \subseteq guards \cup {gate[p]}
        \/ guards' \subseteq guards \cup {gate'[p]} /\ gate[p] = NoGuard
    PROVE /\ op'[u] = op[u]
          /\ \/ Running(u)
             \/ /\ gate[p] = <<u, "op">> /\ gate'[p] = NoGuard /\ gate[p] \in guards'
                /\ StoreG(gate[p]) = StoreOf[u] /\ Intent(gate[p]) = op[u]
<1>1. <<u, "op">> # NoGuard
  BY UseType, GuardType
<1>2. op'[u] # "none" /\ op'[u] = op[u]
  BY DEF Running
<1>3. CASE u \in covered
  BY <1>2, <1>3 DEF Running
<1>4. CASE u \notin covered
  <2>1. <<u, "op">> \in guards' /\ gate'[p] # <<u, "op">>
    BY <1>4 DEF Running
  <2>2. CASE gate[p] = <<u, "op">>
    <3>1. StoreG(gate[p]) = StoreOf[u] /\ Intent(gate[p]) = op[u]
      BY <2>2, SMT DEF StoreG, Intent
    <3> QED
      BY <1>1, <1>2, <2>1, <2>2, <3>1
  <2>3. CASE gate[p] # <<u, "op">>
    BY <1>2, <2>1, <2>3 DEF Running
  <2> QED
    BY <2>2, <2>3
<1> QED
  BY <1>3, <1>4

\* A step at p's gate that writes no epoch.
LEMMA GateKeeps == ASSUME Exclusive, Exclusive', Epochs, NEW p \in Process, Aside(p), Observes(p),
        epoch' = epoch, nonces' \in Nat, nonces <= nonces',
        at'[p] = "record" => at[p] = "record" /\ stamp'[p] = stamp[p],
        Ahead(p)' => Ahead(p), Knows(p)', held'[p] => Writes(p)', Trusts(p)',
        \A s \in Store : ProcOf[s] = p => Believes(s)'
    PROVE Epochs'
<1>1. Announced(p)'
  <2>1. Announced(p)
    BY DEF Epochs
  <2>2. /\ \A s \in Store : ProcOf[s] # p => observed'[s] = observed[s]
        /\ \A q \in Process : q # p => at'[q] = at[q] /\ stamp'[q] = stamp[q]
    BY DEF Aside
  <2> QED
    BY <2>1, <2>2 DEF Announced
<1>2. Writes(p)'
  BY Unheld
<1>3. nonces \in Nat
  BY DEF Exclusive, Types, TypeDisk
<1> QED
  BY <1>1, <1>2, <1>3, OthersKeep

\* One that observes nothing, and after which no more operations run.
LEMMA TrustsStays == ASSUME Epochs, NEW p \in Process, epoch' = epoch,
        UNCHANGED <<observed, observedGen, current, generation, behind>>,
        held'[p] => held[p], at'[p] = "install" => at[p] = "install",
        \A u \in Use : ProcU(u) = p /\ Running(u)' => Running(u),
        Vouched(p)' => Clean(StoreG(gate'[p]))
    PROVE Trusts(p)' /\ \A s \in Store : Believes(s)'
<1>1. Trusts(p) /\ \A s \in Store : Believes(s)
  BY DEF Epochs
<1>2. \A s : Clean(s)' <=> Clean(s)
  BY DEF Clean
<1>3. \A s \in Store : Believes(s)'
  BY <1>1, <1>2 DEF Believes, IsStale
<1>4. ASSUME NEW s \in Store, ProcOf[s] = p
      PROVE  /\ observedGen'[s] <= generation'[p]
             /\ (held'[p] \/ at'[p] = "install") /\ observedGen'[s] = generation'[p] => Clean(s)'
             /\ held'[p] /\ ~IsStale(observed'[s], current'[p]) => Clean(s)'
  BY <1>1, <1>2, <1>4 DEF Trusts
<1>5. ASSUME NEW u \in Use, ProcU(u) = p, Running(u)' PROVE Clean(StoreOf[u])'
  BY <1>1, <1>2, <1>5 DEF Trusts
<1>6. Vouched(p)' => Clean(StoreG(gate[p]))'
  BY DEF Clean, StoreG
<1> QED
  BY <1>3, <1>4, <1>5, <1>6 DEF Trusts, IsStale

\* An acquisition that found the files idle: the invariant is kept.
LEMMA FilesIdleEpochs == ASSUME Exclusive, Exclusive', Epochs, NEW p \in Process, FilesIdle(p) PROVE Epochs'
<1>1. /\ Knows(p) /\ Announced(p) /\ Writes(p) /\ Trusts(p) /\ TypeGate /\ nonces \in Nat
  BY Given DEF TypeDisk
<1>2. /\ UNCHANGED <<epoch, nonces, held, advanced, flock, current, generation, gate, stale, stamp>>
      /\ UNCHANGED <<waiting, guards, op, covered, observed, observedGen, dirty, io, behind>>
  BY DEF FilesIdle, diskVars, stateVars, epochVars, useVars, adoptVars, fileVars
<1>3. /\ at[p] = "files" /\ held[p]
      /\ at'[p] = IF stamp[p] = NoEpoch THEN "reload" ELSE "write"
      /\ \A q \in Process : q # p => at'[q] = at[q]
  BY <1>1, Flocked DEF FilesIdle, TypeGate
<1>4. Aside(p)
  BY <1>2, <1>3 DEF Aside, UsesOnly, FilesOnly
<1>5. Observes(p)
  BY <1>2 DEF Observes
<1>6. at'[p] \in {"reload", "write"} /\ at'[p] # "record" /\ at'[p] # "install"
  BY <1>3
<1>7. Ahead(p)' => Ahead(p)
  BY <1>2, <1>6 DEF Ahead
<1>8. Knows(p)'
  <2>1. at'[p] # "files" /\ (at'[p] = "write" => stamp[p] # NoEpoch)
    BY <1>3
  <2>2. stamp[p] # NoEpoch => stamp[p].kind = "at" /\ Begun(stamp[p]) /\ Unseen(stamp[p])
    BY <1>1, <1>3 DEF Knows
  <2>3. Begun(stamp[p]) => Begun(stamp[p])'
    BY <1>2 DEF Begun
  <2>4. Unseen(stamp[p]) => Unseen(stamp[p])'
    BY <1>2, <1>4, <1>5, <1>6, UnseenStays DEF Unseen
  <2> QED
    BY <1>1, <1>2, <1>3, <1>6, <2>1, <2>2, <2>3, <2>4 DEF Knows
<1>9. \A u \in Use : (Running(u)' <=> Running(u)) /\ op'[u] = op[u]
  BY <1>2 DEF Running
<1>10. Writes(p)'
  <2>1. AsItIs(p)' => AsItIs(p)
    BY <1>2, <1>3 DEF AsItIs
  <2>2. Intent(gate[p])' = Intent(gate[p])
    BY <1>2 DEF Intent
  <2> QED
    BY <1>1, <1>2, <1>9, <2>1, <2>2 DEF Writes
<1>11. Vouched(p)' => Clean(StoreG(gate'[p]))
  <2>1. Vouched(p)' => Vouched(p)
    BY <1>2, <1>3 DEF Vouched
  <2> QED
    BY <1>1, <1>2, <2>1 DEF Trusts
<1>12. Trusts(p)' /\ \A s \in Store : Believes(s)'
  BY <1>2, <1>6, <1>9, <1>11, TrustsStays
<1>13. nonces' \in Nat /\ nonces <= nonces'
  BY <1>1, <1>2, SMT
<1> QED
  BY <1>2, <1>4, <1>5, <1>6, <1>7, <1>8, <1>10, <1>12, <1>13, GateKeeps

\* An acquisition that enters the gate without a hold: the invariant is kept.
LEMMA TurnToFlockEpochs == ASSUME Exclusive, Exclusive', Epochs, NEW g \in Guard, TurnToFlock(g) PROVE Epochs'
<1> DEFINE p == ProcG(g)
<1>1. p \in Process
  BY GuardType
<1>2. TypeGate /\ nonces \in Nat
  BY <1>1, Given DEF TypeDisk
<1>3. /\ UNCHANGED <<epoch, nonces, held, advanced, flock, current, generation, guards, op, covered>>
      /\ UNCHANGED <<observed, observedGen, dirty, io, behind>>
      /\ ~held[p] /\ waiting' = waiting \ {g}
  BY DEF TurnToFlock, diskVars, stateVars, epochVars, adoptVars, fileVars
<1>4. /\ at'[p] = "flock"
      /\ \A q \in Process : q # p => gate'[q] = gate[q] /\ at'[q] = at[q] /\ stale'[q] = stale[q] /\ stamp'[q] = stamp[q]
  BY <1>1, <1>2 DEF TurnToFlock, InGate, TypeGate
<1>5. \A h \in Guard : ProcG(h) # p => (h \in waiting' <=> h \in waiting)
  BY <1>3
<1>6. Aside(p)
  BY <1>3, <1>4, <1>5 DEF Aside, UsesOnly, FilesOnly
<1>7. Observes(p)
  BY <1>3 DEF Observes
<1>8. ~Ahead(p)' /\ Knows(p)' /\ ~Vouched(p)'
  BY <1>3, <1>4 DEF Ahead, Knows, Vouched
<1>9. \A u \in Use : ProcU(u) = p => ~Running(u)'
  BY <1>1, <1>3, Unheld
<1>10. Trusts(p)' /\ \A s \in Store : Believes(s)'
  BY <1>1, <1>3, <1>4, <1>8, <1>9, TrustsStays
<1>11. nonces' \in Nat /\ nonces <= nonces'
  BY <1>2, <1>3, SMT
<1> QED
  BY <1>1, <1>3, <1>4, <1>6, <1>7, <1>8, <1>10, <1>11, GateKeeps

\* The flock taken: the invariant is kept.
LEMMA TakeFlockEpochs == ASSUME Exclusive, Exclusive', Epochs, NEW p \in Process, TakeFlock(p) PROVE Epochs'
<1>1. TypeGate /\ nonces \in Nat
  BY Given DEF TypeDisk
<1>2. /\ UNCHANGED <<epoch, nonces, held, advanced, current, generation, gate, stale, stamp>>
      /\ UNCHANGED <<waiting, guards, op, covered, observed, observedGen, dirty, io, behind>>
      /\ flock' = p /\ at[p] = "flock"
  BY DEF TakeFlock, epochVars, useVars, adoptVars, fileVars
<1>3. /\ ~held[p] /\ at'[p] \in {"read", "readRecreated"}
      /\ \A q \in Process : q # p => at'[q] = at[q]
  BY <1>1, <1>2, Before DEF TakeFlock, TypeGate, AtGate
<1>4. at'[p] # "record" /\ at'[p] # "install"
  BY <1>3
<1>5. Aside(p)
  BY <1>2, <1>3 DEF Aside, UsesOnly, FilesOnly
<1>6. Observes(p)
  BY <1>2 DEF Observes
<1>7. ~Ahead(p)' /\ Knows(p)' /\ ~Vouched(p)'
  BY <1>2, <1>3 DEF Ahead, Knows, Vouched
<1>8. \A u \in Use : ProcU(u) = p => ~Running(u)'
  BY <1>2, <1>3, Unheld
<1>9. Trusts(p)' /\ \A s \in Store : Believes(s)'
  BY <1>2, <1>4, <1>7, <1>8, TrustsStays
<1>10. nonces' \in Nat /\ nonces <= nonces'
  BY <1>1, <1>2, SMT
<1> QED
  BY <1>2, <1>3, <1>4, <1>5, <1>6, <1>7, <1>9, <1>10, GateKeeps

\* An acquisition that joins a hold it is stale in, or must advance the epoch of: the invariant
\* is kept.
LEMMA JoinBehindEpochs == ASSUME Exclusive, Exclusive', Epochs, NEW g \in Guard, JoinBehind(g) PROVE Epochs'
<1> DEFINE p == ProcG(g)
           s == StoreG(g)
           advance == Intent(g) = "write" /\ ~advanced[p]
<1>1. p \in Process /\ s \in Store /\ ProcOf[s] = p /\ g # NoGuard
  BY GuardType DEF ProcG, StoreG
<1>2. Knows(p) /\ Writes(p) /\ Trusts(p) /\ TypeGate /\ TypeEpoch /\ TypeAdopt /\ nonces \in Nat
  BY <1>1, Given DEF TypeDisk
<1>3. /\ UNCHANGED <<epoch, held, advanced, flock, current, generation, op, covered, observed, dirty, io, behind>>
      /\ held[p] /\ gate[p] = NoGuard /\ waiting' = waiting \ {g} /\ guards' = guards \cup {g}
      /\ observedGen' = IF IsCurrent(s) THEN [observedGen EXCEPT ![s] = generation[p]] ELSE observedGen
      /\ nonces' = IF advance THEN NoncesAfter(current[p]) ELSE nonces
  BY DEF JoinBehind, stateVars, epochVars, fileVars
<1>4. /\ gate'[p] = g /\ at'[p] = FirstPhase(p, ~IsCurrent(s), advance) /\ stale'[p] = ~IsCurrent(s)
      /\ stamp'[p] = IF advance THEN NextEpoch(current[p]) ELSE NoEpoch
      /\ \A q \in Process : q # p => gate'[q] = gate[q] /\ at'[q] = at[q] /\ stale'[q] = stale[q] /\ stamp'[q] = stamp[q]
  BY <1>1, <1>2 DEF JoinBehind, InGate, TypeGate
<1>5. at'[p] \in {"files", "write", "reload"} /\ (at'[p] = "write" => advance) /\ (at'[p] = "reload" => ~advance)
  BY <1>4 DEF FirstPhase
<1>6. at[p] = "idle" /\ flock = p
  BY <1>1, <1>3, Before, Flocked
<1>7. current[p] \in {epoch, Unreadable}
  BY <1>2, <1>3, <1>6 DEF Knows
<1>8. /\ advance => /\ stamp'[p].kind = "at" /\ stamp'[p] # NoEpoch /\ stamp'[p].nonce < nonces'
                    /\ Unseen(stamp'[p])
      /\ ~advance => stamp'[p] = NoEpoch
      /\ nonces' \in Nat /\ nonces <= nonces'
  <2>1. CASE advance
    BY <1>3, <1>4, <1>7, <2>1, NextUnseen
  <2>2. CASE ~advance
    <3>1. nonces' = nonces /\ nonces <= nonces
      BY <1>2, <1>3, <2>2, SMT
    <3> QED
      BY <1>2, <1>4, <2>2, <3>1
  <2> QED
    BY <2>1, <2>2
<1>9. \A t \in Store : observedGen'[t] = observedGen[t]
                       \/ (t = s /\ IsCurrent(s) /\ observedGen'[t] = generation[p])
  BY <1>2, <1>3 DEF TypeAdopt
<1> HIDE DEF advance
<1>10. Aside(p)
  <2>1. \A t \in Store : ProcOf[t] # p => observedGen'[t] = observedGen[t]
    BY <1>1, <1>9
  <2>2. \A h \in Guard : ProcG(h) # p => (h \in guards' <=> h \in guards) /\ (h \in waiting' <=> h \in waiting)
    BY <1>3
  <2> QED
    BY <1>3, <1>4, <2>1, <2>2 DEF Aside, UsesOnly, FilesOnly
<1>11. Observes(p)
  BY <1>3 DEF Observes
<1>12. at'[p] # "record" /\ at'[p] # "install" /\ (Ahead(p)' => Ahead(p))
  BY <1>3, <1>5 DEF Ahead
<1>13. Knows(p)'
  <2>1. advance => Begun(stamp[p])' /\ Unseen(stamp[p])'
    <3>1. advance => Unseen(stamp[p])'
      BY <1>1, <1>3, <1>8, <1>10, <1>11, <1>12, UnseenStays DEF Unseen
    <3> QED
      BY <1>8, <3>1 DEF Begun
  <2> QED
    BY <1>3, <1>5, <1>7, <1>8, <1>12, <2>1 DEF Knows
<1>14. \A u \in Use : ProcU(u) = p /\ Running(u)' => Running(u) /\ op'[u] = op[u]
  BY <1>1, <1>3, <1>4, GateRuns
<1>15. Writes(p)'
  <2>1. AsItIs(p)' => ~advance
    BY <1>5, <1>8 DEF AsItIs
  <2>2. Intent(gate[p])' = Intent(g)
    BY <1>3, <1>4 DEF Intent
  <2>3. AsItIs(p)' /\ Intent(g) = "write" => advanced[p]
    BY <2>1 DEF advance
  <2> QED
    BY <1>2, <1>3, <1>14, <2>2, <2>3 DEF Writes
<1>16. \A t : Clean(t)' <=> Clean(t)
  BY <1>3 DEF Clean
<1>17. IsCurrent(s) => Clean(s)
  BY <1>1, <1>3, CurrentClean
<1>18. Trusts(p)'
  <2>1. ASSUME NEW t \in Store, ProcOf[t] = p
        PROVE  /\ observedGen'[t] <= generation[p]
               /\ observedGen'[t] = generation[p] => Clean(t)
               /\ ~IsStale(observed[t], current[p]) => Clean(t)
    <3>1. CASE observedGen'[t] = observedGen[t]
      BY <1>2, <1>3, <2>1, <3>1 DEF Trusts
    <3>2. CASE t = s /\ IsCurrent(s) /\ observedGen'[t] = generation[p]
      <4>1. generation[p] <= generation[p]
        BY <1>1, <1>2, SMT DEF TypeEpoch
      <4> QED
        BY <1>17, <3>2, <4>1
    <3> QED
      BY <1>9, <3>1, <3>2
  <2>2. ASSUME NEW u \in Use, ProcU(u) = p, Running(u)' PROVE Clean(StoreOf[u])
    BY <1>2, <1>14, <2>2 DEF Trusts
  <2>3. Vouched(p)' => Clean(StoreG(gate[p]))'
    <3>1. Vouched(p)' => IsCurrent(s)
      BY <1>4, <1>5 DEF Vouched
    <3>2. StoreG(gate[p])' = s
      BY <1>4 DEF StoreG
    <3> QED
      BY <1>3, <1>17, <3>1, <3>2 DEF Clean
  <2> QED
    BY <1>3, <1>16, <2>1, <2>2, <2>3 DEF Trusts, IsStale
<1>19. \A t \in Store : Believes(t)'
  BY <1>3, <1>16 DEF Epochs, Believes, IsStale
<1> QED
  BY <1>1, <1>3, <1>8, <1>10, <1>11, <1>12, <1>13, <1>15, <1>18, <1>19, GateKeeps

\* The epoch read under a new flock, and what follows from it: the invariant is kept.
LEMMA BeginHoldEpochs == ASSUME Exclusive, Exclusive', Epochs, NEW p \in Process, BeginHold(p) PROVE Epochs'
<1> DEFINE g == gate[p]
           s == StoreG(g)
           recreated == at[p] = "readRecreated"
<1>1. PICK onDisk \in {epoch, Unreadable} : BeginHoldAt(p, onDisk)
  BY DEF BeginHold, ReadEpoch
<1> DEFINE isStale == recreated \/ IsStaleAgainst(s, onDisk)
<1>2. /\ Knows(p) /\ Trusts(p) /\ TypeGate /\ TypeState /\ TypeEpoch /\ TypeAdopt /\ nonces \in Nat
  BY Given DEF TypeDisk
<1>3. at[p] \in {"read", "readRecreated"} /\ ~held[p] /\ flock = p
  BY <1>1, Before, Flocked DEF BeginHoldAt, AtGate
<1>4. g \in Guard /\ ProcG(g) = p /\ s \in Store /\ ProcOf[s] = p /\ g # NoGuard
  <2>1. g # NoGuard /\ g \in Guard /\ ProcG(g) = p
    BY <1>3, Before
  <2> QED
    BY <2>1, GuardType DEF ProcG, StoreG
<1>5. UNCHANGED <<epoch, waiting, op, covered, dirty, io, behind>>
  BY <1>1 DEF BeginHoldAt, fileVars
<1>6. \A t : Clean(t)' <=> Clean(t)
  BY <1>5 DEF Clean
<1>7. \A t \in Store : ~IsStale(observed[t], onDisk) => Clean(t)
  <2>1. \A t \in Store : Believes(t)
    BY DEF Epochs
  <2>2. \A t \in Store : ~IsStale(observed[t], onDisk) => onDisk # Unreadable
    BY RecordFields DEF IsStale
  <2> QED
    BY <1>1, <2>1, <2>2 DEF Believes
<1>8. ~isStale => Clean(s)
  BY <1>4, <1>7 DEF IsStaleAgainst
<1> HIDE DEF isStale
<1>9. CASE Intent(g) = "write" \/ recreated
  <2>1. /\ InGate(p, g, "write", isStale, TRUE, NextEpoch(onDisk)) /\ nonces' = NoncesAfter(onDisk)
        /\ UNCHANGED <<held, advanced, flock, current, generation, guards, observed, observedGen>>
    BY <1>1, <1>9 DEF BeginHoldAt, isStale, stateVars, epochVars, adoptVars
  <2>2. /\ gate'[p] = g /\ at'[p] = "write" /\ stale'[p] = isStale /\ stamp'[p] = NextEpoch(onDisk)
        /\ \A q \in Process : q # p => gate'[q] = gate[q] /\ at'[q] = at[q] /\ stale'[q] = stale[q] /\ stamp'[q] = stamp[q]
    BY <1>2, <2>1 DEF InGate, TypeGate
  <2>3. /\ stamp'[p].kind = "at" /\ stamp'[p] # NoEpoch /\ stamp'[p].nonce < nonces' /\ Unseen(stamp'[p])
        /\ nonces' \in Nat /\ nonces <= nonces'
    BY <2>1, <2>2, NextUnseen
  <2>4. Aside(p)
    BY <1>5, <2>1, <2>2 DEF Aside, UsesOnly, FilesOnly
  <2>5. Observes(p)
    BY <2>1 DEF Observes
  <2>6. Unseen(stamp[p])'
    BY <1>5, <2>2, <2>3, <2>4, <2>5, UnseenStays DEF Unseen
  <2>7. Knows(p)'
    BY <1>3, <2>1, <2>2, <2>3, <2>6 DEF Knows, Begun
  <2>8. ~Ahead(p)' /\ ~held'[p]
    BY <1>3, <2>1, <2>2 DEF Ahead
  <2>9. \A u \in Use : ProcU(u) = p => ~Running(u)'
    BY <2>8, Unheld
  <2>10. Vouched(p)' => Clean(StoreG(gate'[p]))
    BY <1>8, <2>2 DEF Vouched
  <2>11. Trusts(p)' /\ \A t \in Store : Believes(t)'
    BY <1>5, <2>1, <2>2, <2>8, <2>9, <2>10, TrustsStays
  <2> QED
    BY <1>5, <2>2, <2>3, <2>4, <2>5, <2>7, <2>8, <2>11, GateKeeps
<1>10. CASE ~(Intent(g) = "write" \/ recreated)
  <2>1. /\ held' = [held EXCEPT ![p] = TRUE] /\ advanced' = [advanced EXCEPT ![p] = FALSE]
        /\ SetCurrent(p, onDisk)
        /\ IF isStale THEN UNCHANGED adoptVars ELSE Adopt(s, onDisk, generation'[p])
        /\ guards' = guards \cup {g}
        /\ IF isStale THEN InGate(p, g, "reload", TRUE, TRUE, NoEpoch) ELSE LeaveGate(p)
        /\ UNCHANGED <<nonces, flock>>
    BY <1>1, <1>10 DEF BeginHoldAt, isStale
  <2>2. /\ held'[p] /\ ~advanced'[p]
        /\ current'[p] = onDisk /\ generation'[p] = generation[p] + 1
        /\ \A q \in Process : q # p => /\ held'[q] = held[q] /\ advanced'[q] = advanced[q]
                                       /\ current'[q] = current[q] /\ generation'[q] = generation[q]
    BY <1>2, <2>1 DEF SetCurrent, TypeState, TypeEpoch
  <2>3. /\ isStale => gate'[p] = g /\ at'[p] = "reload"
        /\ ~isStale => gate'[p] = NoGuard /\ at'[p] = "idle"
        /\ \A q \in Process : q # p => gate'[q] = gate[q] /\ at'[q] = at[q] /\ stale'[q] = stale[q] /\ stamp'[q] = stamp[q]
    <3>1. CASE isStale
      <4>1. InGate(p, g, "reload", TRUE, TRUE, NoEpoch)
        BY <2>1, <3>1
      <4>2. /\ gate'[p] = g /\ at'[p] = "reload"
            /\ \A q \in Process : q # p =>
                  gate'[q] = gate[q] /\ at'[q] = at[q] /\ stale'[q] = stale[q] /\ stamp'[q] = stamp[q]
        BY <1>2, <4>1 DEF InGate, TypeGate
      <4> QED
        BY <3>1, <4>2
    <3>2. CASE ~isStale
      BY <1>2, <2>1, <3>2, LeaveGateAt
    <3> QED
      BY <3>1, <3>2
  <2>4. \A t \in Store : \/ observed'[t] = observed[t] /\ observedGen'[t] = observedGen[t]
                         \/ t = s /\ ~isStale /\ observed'[t] = onDisk /\ observedGen'[t] = generation'[p]
    BY <1>2, <2>1 DEF Adopt, adoptVars, TypeAdopt
  <2>5. Aside(p)
    <3>1. \A t \in Store : ProcOf[t] # p => observed'[t] = observed[t] /\ observedGen'[t] = observedGen[t]
      BY <1>4, <2>4
    <3>2. \A h \in Guard : ProcG(h) # p => (h \in guards' <=> h \in guards)
      BY <1>4, <2>1
    <3> QED
      BY <1>5, <2>1, <2>2, <2>3, <3>1, <3>2 DEF Aside, UsesOnly, FilesOnly
  <2>6. Observes(p)
    BY <1>1, <1>3, <2>4 DEF Observes
  <2>7. at'[p] \in {"reload", "idle"}
    BY <2>3
  <2>8. ~Ahead(p)' /\ Knows(p)' /\ ~Vouched(p)'
    <3>1. current'[p] \in {epoch', Unreadable}
      BY <1>5, <2>2
    <3> QED
      BY <2>2, <2>7, <3>1 DEF Ahead, Knows, Vouched, AsItIs
  <2>9. ASSUME NEW u \in Use, ProcU(u) = p, Running(u)'
        PROVE  op'[u] # "write" /\ ~isStale /\ StoreOf[u] = s
    <3>1. ~Running(u)
      BY <1>3, <2>9, Flocked
    <3>2. gate[p] = <<u, "op">> /\ gate'[p] = NoGuard /\ op'[u] = Intent(g) /\ s = StoreOf[u]
      BY <1>5, <2>1, <2>3, <2>9, <3>1, GateRuns
    <3> QED
      BY <1>4, <1>10, <2>3, <3>2
  <2>10. Writes(p)'
    <3>1. \A t \in Store : ProcOf[t] = p => ~(dirty'[t] \/ io'[t] # "none")
      BY <1>3, <1>5, Before DEF Holds
    <3>2. AsItIs(p)' => Intent(gate[p])' # "write"
      <4>1. AsItIs(p)' => gate'[p] = gate[p]
        BY <2>3 DEF AsItIs
      <4> QED
        BY <1>5, <1>10, <4>1 DEF Intent
    <3> QED
      BY <2>9, <3>1, <3>2 DEF Writes
  <2>11. Trusts(p)'
    <3>1. ASSUME NEW t \in Store, ProcOf[t] = p
          PROVE  /\ observedGen'[t] <= generation'[p]
                 /\ observedGen'[t] = generation'[p] => Clean(t)
                 /\ ~IsStale(observed'[t], current'[p]) => Clean(t)
      <4>1. CASE observed'[t] = observed[t] /\ observedGen'[t] = observedGen[t]
        <5>1. observedGen[t] <= generation[p] /\ observedGen[t] \in Nat \cup {NeverAdopted} /\ generation[p] \in Nat
          BY <1>2, <3>1 DEF Trusts, TypeAdopt, TypeEpoch
        <5>2. observedGen'[t] <= generation'[p] /\ observedGen'[t] # generation'[p]
          BY <2>2, <4>1, <5>1, SMT DEF NeverAdopted
        <5> QED
          BY <1>7, <2>2, <4>1, <5>2
      <4>2. CASE t = s /\ ~isStale /\ observedGen'[t] = generation'[p]
        <5>1. observedGen'[t] <= generation'[p]
          BY <1>2, <2>2, <4>2, SMT DEF TypeEpoch
        <5> QED
          BY <1>8, <4>2, <5>1
      <4> QED
        BY <2>4, <4>1, <4>2
    <3>2. ASSUME NEW u \in Use, ProcU(u) = p, Running(u)' PROVE Clean(StoreOf[u])
      BY <1>8, <2>9, <3>2
    <3> QED
      BY <1>6, <2>8, <3>1, <3>2 DEF Trusts, IsStale
  <2>12. \A t \in Store : Believes(t)'
    <3>1. \A t \in Store : Believes(t)
      BY DEF Epochs
    <3>2. ASSUME NEW t \in Store, ~IsStale(observed'[t], epoch) PROVE Clean(t)
      BY <1>8, <2>4, <3>1, <3>2 DEF Believes
    <3> QED
      BY <1>5, <1>6, <3>2 DEF Believes, IsStale
  <2>13. nonces' \in Nat /\ nonces <= nonces'
    BY <1>2, <2>1, SMT
  <2> QED
    BY <1>5, <2>5, <2>6, <2>7, <2>8, <2>10, <2>11, <2>12, <2>13, GateKeeps
<1> QED
  BY <1>9, <1>10

\* The task that records an advance, which may outlive its acquisition: the invariant is kept.
LEMMA RecordAdvanceEpochs == ASSUME Exclusive, Exclusive', Epochs, NEW p \in Process, RecordAdvance(p) PROVE Epochs'
<1> DEFINE g == gate[p]
           s == StoreG(g)
<1>1. /\ Knows(p) /\ Trusts(p) /\ TypeGate /\ TypeState /\ TypeEpoch /\ TypeAdopt /\ nonces \in Nat
      /\ \A t \in Store : Believes(t)
  BY Given DEF TypeDisk, Epochs
<1>2. /\ UNCHANGED <<epoch, nonces, held, flock, waiting, guards, op, covered, dirty, io, behind>>
      /\ at[p] = "record" /\ advanced' = [advanced EXCEPT ![p] = held[p]] /\ SetCurrent(p, stamp[p])
      /\ IF stale[p] THEN UNCHANGED adoptVars ELSE Adopt(s, stamp[p], generation'[p])
  BY DEF RecordAdvance, diskVars, useVars, fileVars
<1>3. /\ advanced'[p] = held[p] /\ current'[p] = stamp[p] /\ generation'[p] = generation[p] + 1
      /\ \A q \in Process : q # p => /\ advanced'[q] = advanced[q]
                                     /\ current'[q] = current[q] /\ generation'[q] = generation[q]
  BY <1>1, <1>2 DEF SetCurrent, TypeState, TypeEpoch
<1>4. /\ g \in Guard /\ ProcG(g) = p /\ s \in Store /\ ProcOf[s] = p /\ g # NoGuard
      /\ fresh[p] /\ ~dropped[p] => flock = p
      /\ held[p] => flock = p
      /\ g \in guards => ~fresh[p] /\ ~dropped[p] /\ held[p]
  <2>1. g # NoGuard /\ g \in Guard /\ ProcG(g) = p /\ AtGate(p) /\ Holds(p)
    BY <1>2, Before
  <2>2. s \in Store /\ ProcOf[s] = p
    BY <2>1, GuardType DEF ProcG, StoreG
  <2> QED
    BY <1>2, <2>1, <2>2 DEF AtGate, Holds
<1>5. flock = p => epoch = stamp[p]
  BY <1>1, <1>2 DEF Knows
<1>6. ~stale[p] /\ epoch = stamp[p] => Clean(s)
  BY <1>1, <1>2 DEF Trusts, Vouched
<1>7. /\ dropped[p] => LeaveGate(p)
      /\ ~dropped[p] /\ fresh[p] => InGate(p, g, "install", stale[p], TRUE, stamp[p])
      /\ ~dropped[p] /\ ~fresh[p] /\ stale[p] => InGate(p, g, "reload", TRUE, FALSE, NoEpoch)
      /\ ~dropped[p] /\ ~fresh[p] /\ ~stale[p] => LeaveGate(p)
  BY DEF RecordAdvance
<1>8. /\ \/ gate'[p] = NoGuard /\ at'[p] = "idle" /\ (dropped[p] \/ ~stale[p])
         \/ ~dropped[p] /\ fresh[p] /\ gate'[p] = g /\ at'[p] = "install" /\ stale'[p] = stale[p]
         \/ gate'[p] = g /\ at'[p] = "reload"
      /\ \A q \in Process : q # p => gate'[q] = gate[q] /\ at'[q] = at[q] /\ stale'[q] = stale[q] /\ stamp'[q] = stamp[q]
  <2>1. CASE dropped[p] \/ (~dropped[p] /\ ~fresh[p] /\ ~stale[p])
    BY <1>1, <1>7, <2>1, LeaveGateAt
  <2>2. CASE ~dropped[p] /\ fresh[p]
    BY <1>1, <1>7, <2>2, InGateAt
  <2>3. CASE ~dropped[p] /\ ~fresh[p] /\ stale[p]
    BY <1>1, <1>7, <2>3, InGateAt
  <2> QED
    BY <2>1, <2>2, <2>3
<1>9. \A t \in Store : \/ observed'[t] = observed[t] /\ observedGen'[t] = observedGen[t]
                       \/ t = s /\ ~stale[p] /\ observed'[t] = stamp[p] /\ observedGen'[t] = generation'[p]
  BY <1>1, <1>2 DEF Adopt, adoptVars, TypeAdopt
<1>10. Aside(p)
  <2>1. \A t \in Store : ProcOf[t] # p => observed'[t] = observed[t] /\ observedGen'[t] = observedGen[t]
    BY <1>4, <1>9
  <2> QED
    BY <1>2, <1>3, <1>8, <2>1 DEF Aside, UsesOnly, FilesOnly
<1>11. Observes(p)
  BY <1>2, <1>9 DEF Observes
<1>12. at'[p] \in {"idle", "install", "reload"} /\ (at'[p] = "install" => flock = p)
  BY <1>4, <1>8
<1>13. at'[p] # "record" /\ (Ahead(p)' => Ahead(p))
  <2>1. Ahead(p)' => flock = p
    BY <1>2, <1>4, <1>12 DEF Ahead
  <2> QED
    BY <1>2, <1>12, <2>1 DEF Ahead
<1>14. Knows(p)'
  <2>1. held[p] \/ at'[p] = "install" => current'[p] = epoch'
    BY <1>2, <1>3, <1>4, <1>5, <1>12
  <2> QED
    BY <1>2, <1>12, <2>1 DEF Knows
<1>15. held'[p] => Writes(p)'
  BY <1>2, <1>3 DEF Writes
<1>16. \A t : Clean(t)' <=> Clean(t)
  BY <1>2 DEF Clean
<1>17. Trusts(p)'
  <2>1. ASSUME NEW t \in Store, ProcOf[t] = p
        PROVE  /\ observedGen'[t] <= generation'[p]
               /\ (held'[p] \/ at'[p] = "install") /\ observedGen'[t] = generation'[p] => Clean(t)
               /\ held'[p] /\ ~IsStale(observed'[t], current'[p]) => Clean(t)
    <3>1. CASE observed'[t] = observed[t] /\ observedGen'[t] = observedGen[t]
      <4>1. observedGen[t] <= generation[p] /\ observedGen[t] \in Nat \cup {NeverAdopted} /\ generation[p] \in Nat
        BY <1>1, <2>1 DEF Trusts, TypeAdopt, TypeEpoch
      <4>2. observedGen'[t] <= generation'[p] /\ observedGen'[t] # generation'[p]
        BY <1>3, <3>1, <4>1, SMT DEF NeverAdopted
      <4>3. held'[p] => current'[p] = epoch
        BY <1>2, <1>3, <1>4, <1>5
      <4> QED
        BY <1>1, <3>1, <4>2, <4>3 DEF Believes
    <3>2. CASE t = s /\ ~stale[p] /\ observedGen'[t] = generation'[p]
      <4>1. observedGen'[t] <= generation'[p]
        BY <1>1, <1>3, <3>2, SMT DEF TypeEpoch
      <4>2. held'[p] \/ at'[p] = "install" => Clean(t)
        BY <1>2, <1>4, <1>5, <1>6, <1>12, <3>2
      <4> QED
        BY <4>1, <4>2
    <3> QED
      BY <1>9, <3>1, <3>2
  <2>2. ASSUME NEW u \in Use, ProcU(u) = p, Running(u)' PROVE Clean(StoreOf[u])
    <3>1. \/ Running(u)
          \/ gate'[p] = NoGuard /\ g \in guards /\ s = StoreOf[u]
      BY <1>2, <1>8, <2>2, GateRuns
    <3>2. CASE Running(u)
      BY <1>1, <2>2, <3>2 DEF Trusts
    <3>3. CASE gate'[p] = NoGuard /\ g \in guards /\ s = StoreOf[u]
      <4>1. ~stale[p] /\ epoch = stamp[p]
        BY <1>4, <1>5, <1>8, <3>3
      <4> QED
        BY <1>6, <3>3, <4>1
    <3> QED
      BY <3>1, <3>2, <3>3
  <2>3. Vouched(p)' => Clean(StoreG(gate[p]))'
    <3>1. Vouched(p)' => at'[p] = "install" /\ ~stale[p] /\ gate'[p] = g
      BY <1>8 DEF Vouched
    <3>2. Vouched(p)' => Clean(s) /\ StoreG(gate[p])' = s
      BY <1>5, <1>6, <1>12, <3>1 DEF StoreG
    <3> QED
      BY <1>2, <3>2 DEF Clean
  <2> QED
    BY <1>16, <2>1, <2>2, <2>3 DEF Trusts, IsStale
<1>18. \A t \in Store : Believes(t)'
  <2> SUFFICES ASSUME NEW t \in Store, ~IsStale(observed'[t], epoch) PROVE Clean(t)
    BY <1>2, <1>16 DEF Believes, IsStale
  <2>1. CASE observed'[t] = observed[t]
    BY <1>1, <2>1 DEF Believes
  <2>2. CASE t = s /\ ~stale[p] /\ observed'[t] = stamp[p]
    <3>1. epoch = stamp[p]
      BY <2>2 DEF IsStale
    <3> QED
      BY <1>6, <2>2, <3>1
  <2> QED
    BY <1>9, <2>1, <2>2
<1>19. nonces' \in Nat /\ nonces <= nonces'
  BY <1>1, <1>2, SMT
<1> QED
  BY <1>2, <1>10, <1>11, <1>13, <1>14, <1>15, <1>17, <1>18, <1>19, GateKeeps

\* A hold installed: the invariant is kept.
LEMMA InstallHoldEpochs == ASSUME Exclusive, Exclusive', Epochs, NEW p \in Process, InstallHold(p) PROVE Epochs'
<1> DEFINE g == gate[p]
<1>1. /\ Knows(p) /\ Trusts(p) /\ TypeGate /\ TypeState /\ nonces \in Nat
      /\ \A t \in Store : Believes(t)
  BY Given DEF TypeDisk, Epochs
<1>2. /\ UNCHANGED <<epoch, nonces, flock, current, generation, waiting, op, covered>>
      /\ UNCHANGED <<observed, observedGen, dirty, io, behind>>
      /\ at[p] = "install" /\ guards' = guards \cup {g}
      /\ held' = [held EXCEPT ![p] = TRUE] /\ advanced' = [advanced EXCEPT ![p] = TRUE]
      /\ IF stale[p] THEN InGate(p, g, "reload", TRUE, TRUE, NoEpoch) ELSE LeaveGate(p)
  BY DEF InstallHold, diskVars, epochVars, adoptVars, fileVars
<1>3. /\ held'[p] /\ advanced'[p]
      /\ \A q \in Process : q # p => held'[q] = held[q] /\ advanced'[q] = advanced[q]
  BY <1>1, <1>2 DEF TypeState
<1>4. /\ \/ gate'[p] = NoGuard /\ at'[p] = "idle" /\ ~stale[p]
         \/ gate'[p] = g /\ at'[p] = "reload"
      /\ \A q \in Process : q # p => gate'[q] = gate[q] /\ at'[q] = at[q] /\ stale'[q] = stale[q] /\ stamp'[q] = stamp[q]
  <2>1. CASE stale[p]
    BY <1>1, <1>2, <2>1, InGateAt
  <2>2. CASE ~stale[p]
    BY <1>1, <1>2, <2>2, LeaveGateAt
  <2> QED
    BY <2>1, <2>2
<1>5. g # NoGuard /\ g \in Guard /\ ProcG(g) = p /\ ~held[p]
  BY <1>2, Before DEF AtGate
<1>6. Aside(p)
  <2>1. \A h \in Guard : ProcG(h) # p => (h \in guards' <=> h \in guards)
    BY <1>2, <1>5
  <2> QED
    BY <1>2, <1>3, <1>4, <2>1 DEF Aside, UsesOnly, FilesOnly
<1>7. Observes(p)
  BY <1>2 DEF Observes
<1>8. at'[p] \in {"idle", "reload"} /\ at'[p] # "record" /\ (Ahead(p)' => Ahead(p))
  BY <1>2, <1>4 DEF Ahead
<1>9. current[p] = epoch
  BY <1>1, <1>2 DEF Knows
<1>10. Knows(p)' /\ Writes(p)' /\ ~Vouched(p)'
  <2>1. current'[p] = epoch'
    BY <1>2, <1>9
  <2> QED
    BY <1>3, <1>8, <2>1 DEF Knows, Writes, Vouched
<1>11. \A t : Clean(t)' <=> Clean(t)
  BY <1>2 DEF Clean
<1>12. Trusts(p)'
  <2>1. ASSUME NEW t \in Store, ProcOf[t] = p
        PROVE  /\ observedGen[t] <= generation[p]
               /\ observedGen[t] = generation[p] => Clean(t)
               /\ ~IsStale(observed[t], current[p]) => Clean(t)
    BY <1>1, <1>2, <1>9, <2>1 DEF Trusts, Believes
  <2>2. ASSUME NEW u \in Use, ProcU(u) = p, Running(u)' PROVE Clean(StoreOf[u])
    <3>1. ~Running(u)
      BY <1>5, <2>2, Flocked
    <3>2. gate'[p] = NoGuard /\ StoreG(g) = StoreOf[u]
      BY <1>2, <1>4, <2>2, <3>1, GateRuns
    <3>3. Vouched(p)
      BY <1>2, <1>4, <1>5, <3>2 DEF Vouched
    <3> QED
      BY <1>1, <3>2, <3>3 DEF Trusts
  <2> QED
    BY <1>2, <1>10, <1>11, <2>1, <2>2 DEF Trusts, IsStale
<1>13. \A t \in Store : Believes(t)'
  BY <1>1, <1>2, <1>11 DEF Believes, IsStale
<1>14. nonces' \in Nat /\ nonces <= nonces'
  BY <1>1, <1>2, SMT
<1> QED
  BY <1>2, <1>6, <1>7, <1>8, <1>10, <1>12, <1>13, <1>14, GateKeeps

\* A store that drops its state and reads the directory: the invariant is kept.
LEMMA ReloadEpochs == ASSUME Exclusive, Exclusive', Epochs, NEW p \in Process, Reload(p) PROVE Epochs'
<1> DEFINE s == StoreG(gate[p])
<1>1. /\ Knows(p) /\ Writes(p) /\ Trusts(p) /\ TypeGate /\ TypeFile /\ nonces \in Nat
      /\ \A t \in Store : Believes(t)
  BY Given DEF TypeDisk, Epochs
<1>2. /\ UNCHANGED <<epoch, nonces, held, advanced, flock, current, generation, gate, stale, stamp>>
      /\ UNCHANGED <<waiting, guards, op, covered, observed, observedGen, io>>
      /\ at[p] = "reload" /\ behind' = [behind EXCEPT ![s] = {}] /\ dirty' = [dirty EXCEPT ![s] = FALSE]
      /\ at' = [at EXCEPT ![p] = "refreshed"]
  BY DEF Reload, diskVars, stateVars, epochVars, useVars, adoptVars
<1>3. at'[p] = "refreshed" /\ \A q \in Process : q # p => at'[q] = at[q]
  BY <1>1, <1>2 DEF TypeGate
<1>4. s \in Store /\ ProcOf[s] = p
  <2>1. gate[p] \in Guard /\ ProcG(gate[p]) = p
    BY <1>2, Before
  <2> QED
    BY <2>1, GuardType DEF ProcG, StoreG
<1>5. /\ \A t \in Store : t # s => behind'[t] = behind[t] /\ dirty'[t] = dirty[t]
      /\ behind'[s] = {} /\ ~dirty'[s]
  BY <1>1, <1>2, <1>4 DEF TypeFile
<1>6. Aside(p)
  BY <1>2, <1>3, <1>4, <1>5 DEF Aside, UsesOnly, FilesOnly
<1>7. Observes(p)
  BY <1>2 DEF Observes
<1>8. at'[p] # "record" /\ at'[p] # "install" /\ (Ahead(p)' => Ahead(p))
  BY <1>2, <1>3 DEF Ahead
<1>9. Knows(p)'
  BY <1>1, <1>2, <1>3 DEF Knows
<1>10. \A u \in Use : (Running(u)' <=> Running(u)) /\ op'[u] = op[u]
  BY <1>2 DEF Running
<1>11. Writes(p)'
  <2>1. AsItIs(p) /\ Intent(gate[p])' = Intent(gate[p])
    BY <1>2 DEF AsItIs, Intent
  <2>2. \A t \in Store : dirty'[t] \/ io'[t] # "none" => dirty[t] \/ io[t] # "none"
    BY <1>2, <1>5
  <2> QED
    BY <1>1, <1>2, <1>10, <2>1, <2>2 DEF Writes
<1>12. \A t \in Store : Clean(t) => Clean(t)'
  BY <1>5 DEF Clean
<1>13. Trusts(p)'
  <2>1. ASSUME NEW t \in Store, ProcOf[t] = p
        PROVE  /\ observedGen'[t] <= generation'[p]
               /\ held'[p] /\ observedGen'[t] = generation'[p] => Clean(t)'
               /\ held'[p] /\ ~IsStale(observed'[t], current'[p]) => Clean(t)'
    BY <1>1, <1>2, <1>12, <2>1 DEF Trusts
  <2>2. ASSUME NEW u \in Use, ProcU(u) = p, Running(u)' PROVE Clean(StoreOf[u])'
    BY <1>1, <1>10, <1>12, <2>2, UseType DEF Trusts
  <2>3. Clean(StoreG(gate[p]))'
    BY <1>2, <1>5 DEF Clean, StoreG
  <2> QED
    BY <1>8, <2>1, <2>2, <2>3 DEF Trusts, IsStale
<1>14. \A t \in Store : Believes(t)'
  BY <1>1, <1>2, <1>12 DEF Believes, IsStale
<1>15. nonces' \in Nat /\ nonces <= nonces'
  BY <1>1, <1>2, SMT
<1> QED
  BY <1>2, <1>6, <1>7, <1>8, <1>9, <1>11, <1>13, <1>14, <1>15, GateKeeps

\* A reload acknowledged: the epoch is adopted: the invariant is kept.
LEMMA NoteRefreshedEpochs == ASSUME Exclusive, Exclusive', Epochs, NEW p \in Process, NoteRefreshed(p) PROVE Epochs'
<1> DEFINE g == gate[p]
           s == StoreG(g)
<1>1. /\ Knows(p) /\ Writes(p) /\ Trusts(p) /\ TypeGate /\ TypeEpoch /\ TypeAdopt /\ nonces \in Nat
      /\ \A t \in Store : Believes(t)
  BY Given DEF TypeDisk, Epochs
<1>2. /\ UNCHANGED <<epoch, nonces, held, advanced, flock, current, generation>>
      /\ UNCHANGED <<waiting, guards, op, covered, dirty, io, behind>>
      /\ at[p] = "refreshed" /\ Adopt(s, current[p], generation[p]) /\ LeaveGate(p)
  BY DEF NoteRefreshed, diskVars, stateVars, epochVars, useVars, fileVars
<1>3. /\ gate'[p] = NoGuard /\ at'[p] = "idle"
      /\ \A q \in Process : q # p => gate'[q] = gate[q] /\ at'[q] = at[q] /\ stale'[q] = stale[q] /\ stamp'[q] = stamp[q]
  BY <1>1, <1>2, LeaveGateAt
<1>4. s \in Store /\ ProcOf[s] = p /\ held[p] /\ flock = p
  <2>1. gate[p] \in Guard /\ ProcG(gate[p]) = p
    BY <1>2, Before
  <2> QED
    BY <1>2, <2>1, GuardType, Flocked DEF ProcG, StoreG
<1>5. \A t \in Store : \/ observed'[t] = observed[t] /\ observedGen'[t] = observedGen[t]
                       \/ t = s /\ observed'[t] = current[p] /\ observedGen'[t] = generation[p]
  BY <1>1, <1>2 DEF Adopt, TypeAdopt
<1>6. Aside(p)
  <2>1. \A t \in Store : ProcOf[t] # p => observed'[t] = observed[t] /\ observedGen'[t] = observedGen[t]
    BY <1>4, <1>5
  <2> QED
    BY <1>2, <1>3, <2>1 DEF Aside, UsesOnly, FilesOnly
<1>7. current[p] \in {epoch, Unreadable}
  BY <1>1, <1>2, <1>4 DEF Knows
<1>8. Observes(p)
  BY <1>4, <1>5, <1>7 DEF Observes
<1>9. at'[p] # "record" /\ at'[p] # "install" /\ (Ahead(p)' => Ahead(p))
  BY <1>2, <1>3 DEF Ahead
<1>10. Knows(p)' /\ ~Vouched(p)'
  BY <1>2, <1>3, <1>7 DEF Knows, Vouched
<1>11. ASSUME NEW u \in Use, ProcU(u) = p, Running(u)'
       PROVE  op'[u] = op[u] /\ (Running(u) \/ (op[u] = Intent(g) /\ s = StoreOf[u]))
  BY <1>2, <1>3, <1>11, GateRuns
<1>12. Writes(p)'
  <2>1. ~AsItIs(p)' /\ AsItIs(p)
    BY <1>2, <1>3 DEF AsItIs
  <2> QED
    BY <1>1, <1>2, <1>11, <2>1 DEF Writes
<1>13. \A t : Clean(t)' <=> Clean(t)
  BY <1>2 DEF Clean
<1>14. Clean(s)
  BY <1>1, <1>2 DEF Trusts, Vouched
<1>15. Trusts(p)'
  <2>1. ASSUME NEW t \in Store, ProcOf[t] = p
        PROVE  /\ observedGen'[t] <= generation[p]
               /\ observedGen'[t] = generation[p] => Clean(t)
               /\ ~IsStale(observed'[t], current[p]) => Clean(t)
    <3>1. CASE observed'[t] = observed[t] /\ observedGen'[t] = observedGen[t]
      BY <1>1, <1>4, <2>1, <3>1 DEF Trusts
    <3>2. CASE t = s /\ observedGen'[t] = generation[p]
      <4>1. generation[p] <= generation[p]
        BY <1>1, SMT DEF TypeEpoch
      <4> QED
        BY <1>14, <3>2, <4>1
    <3> QED
      BY <1>5, <3>1, <3>2
  <2>2. ASSUME NEW u \in Use, ProcU(u) = p, Running(u)' PROVE Clean(StoreOf[u])
    BY <1>1, <1>11, <1>14, <2>2 DEF Trusts
  <2> QED
    BY <1>2, <1>10, <1>13, <2>1, <2>2 DEF Trusts, IsStale
<1>16. \A t \in Store : Believes(t)'
  <2>1. ASSUME NEW t \in Store, ~IsStale(observed'[t], epoch) PROVE Clean(t)
    <3>1. CASE observed'[t] = observed[t]
      BY <1>1, <2>1, <3>1 DEF Believes
    <3>2. CASE t = s
      BY <1>14, <3>2
    <3> QED
      BY <1>5, <3>1, <3>2
  <2> QED
    BY <1>2, <1>13, <2>1 DEF Believes, IsStale
<1>17. nonces' \in Nat /\ nonces <= nonces'
  BY <1>1, <1>2, SMT
<1> QED
  BY <1>2, <1>6, <1>8, <1>9, <1>10, <1>12, <1>15, <1>16, <1>17, GateKeeps

\* An epoch write that fails: the invariant is kept.
LEMMA WriteEpochFailsEpochs == ASSUME Exclusive, Exclusive', Epochs, NEW p \in Process, WriteEpochFails(p) PROVE Epochs'
<1> DEFINE g == gate[p]
<1>1. /\ Knows(p) /\ Writes(p) /\ Trusts(p) /\ TypeGate /\ TypeState /\ nonces \in Nat
  BY Given DEF TypeDisk
<1>2. /\ UNCHANGED <<epoch, nonces, current, generation, waiting, covered>>
      /\ UNCHANGED <<observed, observedGen, dirty, io, behind>>
      /\ at[p] = "write" /\ LeaveGate(p) /\ Withdraw(g, dropped[p])
      /\ guards' = IF dropped[p] THEN guards ELSE guards \ {g}
  BY DEF WriteEpochFails, diskVars, epochVars, adoptVars, fileVars
<1>3. /\ gate'[p] = NoGuard /\ at'[p] = "idle"
      /\ \A q \in Process : q # p => gate'[q] = gate[q] /\ at'[q] = at[q] /\ stale'[q] = stale[q] /\ stamp'[q] = stamp[q]
  BY <1>1, <1>2, LeaveGateAt
<1>4. /\ g # NoGuard /\ g \in Guard /\ ProcG(g) = p
      /\ dropped[p] => g \notin guards
  BY <1>2, Before DEF AtGate
<1>5. /\ \A q \in Process : q # p => held'[q] = held[q] /\ advanced'[q] = advanced[q]
      /\ flock' \in {flock, Nobody}
      /\ ~held'[p] \/ (held'[p] = held[p] /\ advanced'[p] = advanced[p])
  <2>1. CASE ~held[p]
    BY <2>1 DEF WriteEpochFails
  <2>2. CASE held[p] /\ dropped[p]
    BY <2>2 DEF WriteEpochFails, stateVars
  <2>3. CASE held[p] /\ ~dropped[p]
    <3>1. ReleaseIfIdle(p, guards \ {g}, dirty, FilesInUse(p), FALSE)
      BY <2>3 DEF WriteEpochFails
    <3> QED
      BY <3>1, ReleaseBeside
  <2> QED
    BY <2>1, <2>2, <2>3
<1>6. \A q \in Process : flock' = q => flock = q
  BY <1>5, ConstantsAssumption
<1>7. op \in [Use -> {"none", "read", "write"}] /\ (op' = op \/ (g[2] = "op" /\ op' = [op EXCEPT ![g[1]] = "none"]))
  BY <1>2, Before DEF Withdraw
<1>8. \A u \in Use : op'[u] \in {op[u], "none"} /\ (ProcU(u) # p => op'[u] = op[u])
  <2>1. g[1] \in Use /\ ProcU(g[1]) = p
    BY <1>4, GuardType DEF ProcG, ProcU
  <2> QED
    BY <1>7, <2>1
<1>9. Aside(p)
  <2>1. \A h \in Guard : ProcG(h) # p => (h \in guards' <=> h \in guards)
    BY <1>2, <1>4
  <2> QED
    BY <1>2, <1>3, <1>5, <1>6, <1>8, <2>1 DEF Aside, UsesOnly, FilesOnly
<1>10. Observes(p)
  BY <1>2 DEF Observes
<1>11. at'[p] # "record" /\ at'[p] # "install" /\ (Ahead(p)' => Ahead(p))
  BY <1>3, <1>5 DEF Ahead
<1>12. Knows(p)' /\ ~Vouched(p)'
  BY <1>1, <1>2, <1>3, <1>5 DEF Knows, Vouched
<1>13. ASSUME NEW u \in Use, ProcU(u) = p, Running(u)' PROVE Running(u) /\ op'[u] = op[u]
  <2>1. g \notin guards'
    BY <1>2, <1>4
  <2>2. guards' \subseteq guards \cup {g}
    BY <1>2
  <2> QED
    BY <1>2, <1>3, <1>8, <1>13, <2>1, <2>2, GateRuns
<1>14. held'[p] => Writes(p)'
  <2>1. ~AsItIs(p)'
    BY <1>3 DEF AsItIs
  <2> QED
    BY <1>1, <1>2, <1>5, <1>13, <2>1 DEF Writes
<1>15. Trusts(p)' /\ \A t \in Store : Believes(t)'
  BY <1>2, <1>5, <1>11, <1>12, <1>13, TrustsStays
<1>16. nonces' \in Nat /\ nonces <= nonces'
  BY <1>1, <1>2, SMT
<1> QED
  BY <1>2, <1>9, <1>10, <1>11, <1>12, <1>14, <1>15, <1>16, GateKeeps

\* An acquisition dropped in the gate, at any of its awaits: the invariant is kept.
LEMMA CancelAtGateEpochs == ASSUME Exclusive, Exclusive', Epochs, NEW p \in Process, CancelAtGate(p) PROVE Epochs'
<1> DEFINE g == gate[p]
<1>1. /\ Knows(p) /\ Writes(p) /\ Trusts(p) /\ TypeGate /\ TypeState /\ nonces \in Nat
  BY Given DEF TypeDisk
<1>2. /\ UNCHANGED <<epoch, nonces, current, generation, waiting, covered>>
      /\ UNCHANGED <<observed, observedGen, dirty, io, behind>>
      /\ g # NoGuard /\ Withdraw(g, FALSE) /\ guards' = guards \ {g}
  BY DEF CancelAtGate, diskVars, epochVars, adoptVars, fileVars
<1>3. /\ \/ gate'[p] = NoGuard /\ at'[p] = "idle"
         \/ /\ at[p] \in {"write", "record"}
            /\ gate'[p] = g /\ at'[p] = at[p] /\ stale'[p] = stale[p] /\ stamp'[p] = stamp[p]
      /\ \A q \in Process : q # p => gate'[q] = gate[q] /\ at'[q] = at[q] /\ stale'[q] = stale[q] /\ stamp'[q] = stamp[q]
  <2>1. CASE at[p] \in {"write", "record"}
    BY <2>1 DEF CancelAtGate
  <2>2. CASE at[p] \notin {"write", "record"}
    <3>1. LeaveGate(p)
      BY <2>2 DEF CancelAtGate
    <3> QED
      BY <1>1, <3>1, LeaveGateAt
  <2> QED
    BY <2>1, <2>2
<1>4. g \in Guard /\ ProcG(g) = p
  BY <1>2, Before
<1>5. /\ \A q \in Process : q # p => held'[q] = held[q] /\ advanced'[q] = advanced[q]
      /\ flock' \in {flock, Nobody}
      /\ ~held'[p] \/ (held'[p] = held[p] /\ advanced'[p] = advanced[p])
  <2>1. CASE g \in guards
    <3>1. ReleaseIfIdle(p, guards \ {g}, dirty, FilesInUse(p), at[p] = "write")
      BY <2>1 DEF CancelAtGate
    <3> QED
      BY <3>1, ReleaseBeside
  <2>2. CASE g \notin guards
    BY <2>2 DEF CancelAtGate
  <2> QED
    BY <2>1, <2>2
<1>6. \A q \in Process : flock' = q => flock = q
  BY <1>5, ConstantsAssumption
<1>7. op \in [Use -> {"none", "read", "write"}] /\ (op' = op \/ (g[2] = "op" /\ op' = [op EXCEPT ![g[1]] = "none"]))
  BY <1>2, Before DEF Withdraw
<1>8. \A u \in Use : op'[u] \in {op[u], "none"} /\ (ProcU(u) # p => op'[u] = op[u])
  <2>1. g[1] \in Use /\ ProcU(g[1]) = p
    BY <1>4, GuardType DEF ProcG, ProcU
  <2> QED
    BY <1>7, <2>1
<1>9. Aside(p)
  <2>1. \A h \in Guard : ProcG(h) # p => (h \in guards' <=> h \in guards)
    BY <1>2, <1>4
  <2> QED
    BY <1>2, <1>3, <1>5, <1>6, <1>8, <2>1 DEF Aside, UsesOnly, FilesOnly
<1>10. Observes(p)
  BY <1>2 DEF Observes
<1>11. /\ at'[p] = "record" => at[p] = "record" /\ stamp'[p] = stamp[p]
       /\ at'[p] # "install" /\ (Ahead(p)' => Ahead(p))
  <2>1. /\ at'[p] = "record" => at[p] = "record" /\ stamp'[p] = stamp[p]
        /\ at'[p] # "install"
    BY <1>3
  <2>2. held'[p] => held[p] /\ advanced'[p] = advanced[p]
    BY <1>5
  <2> QED
    BY <1>6, <2>1, <2>2 DEF Ahead
<1>12. Knows(p)'
  <2>1. /\ at'[p] \in {"idle", "write", "record"}
        /\ at'[p] # "idle" => at'[p] = at[p] /\ stamp'[p] = stamp[p]
        /\ held'[p] => held[p] /\ (at'[p] # "record" => at[p] # "record" \/ at'[p] = "idle")
    BY <1>3, <1>5
  <2>2. at'[p] = "idle" /\ at[p] = "record" /\ held[p] => FALSE
    BY <1>3 DEF CancelAtGate
  <2>3. Begun(stamp[p]) /\ stamp'[p] = stamp[p] => Begun(stamp[p])'
    BY <1>2 DEF Begun
  <2>4. Unseen(stamp[p]) /\ stamp'[p] = stamp[p] => Unseen(stamp[p])'
    BY <1>2, <1>9, <1>10, <1>11, UnseenStays DEF Unseen
  <2>5. held'[p] /\ at'[p] # "record" => current'[p] \in {epoch', Unreadable}
    BY <1>1, <1>2, <2>1, <2>2 DEF Knows
  <2>6. at'[p] = "record" /\ flock' = p => epoch' = stamp'[p]
    BY <1>1, <1>2, <1>6, <1>11 DEF Knows
  <2>7. at'[p] \in {"write", "record"} => stamp'[p].kind = "at"
    BY <1>1, <2>1 DEF Knows
  <2>8. at'[p] = "write" /\ stamp'[p] # NoEpoch => stamp'[p].kind = "at" /\ Begun(stamp[p])' /\ Unseen(stamp[p])'
    BY <1>1, <2>1, <2>3, <2>4 DEF Knows
  <2> QED
    BY <2>1, <2>5, <2>6, <2>7, <2>8 DEF Knows
<1>13. ASSUME NEW u \in Use, ProcU(u) = p, Running(u)' PROVE Running(u) /\ op'[u] = op[u]
  <2>1. g \notin guards' /\ guards' \subseteq guards \cup {g} /\ gate'[p] \in {g, NoGuard}
    BY <1>2, <1>3
  <2> QED
    BY <1>2, <1>8, <1>13, <2>1, GateRuns
<1>14. held'[p] => Writes(p)'
  <2>1. ~AsItIs(p)'
    BY <1>3 DEF AsItIs
  <2> QED
    BY <1>1, <1>2, <1>5, <1>13, <2>1 DEF Writes
<1>15. Vouched(p)' => Clean(StoreG(gate'[p]))
  <2>1. Vouched(p)' => Vouched(p) /\ gate'[p] = gate[p]
    BY <1>2, <1>3 DEF Vouched
  <2> QED
    BY <1>1, <2>1 DEF Trusts
<1>16. Trusts(p)' /\ \A t \in Store : Believes(t)'
  BY <1>2, <1>5, <1>11, <1>13, <1>15, TrustsStays
<1>17. nonces' \in Nat /\ nonces <= nonces'
  BY <1>1, <1>2, SMT
<1> QED
  BY <1>2, <1>9, <1>10, <1>11, <1>12, <1>14, <1>16, <1>17, GateKeeps

\* A store object dropped and opened again: the invariant is kept.
LEMMA ReopenEpochs == ASSUME Exclusive, Exclusive', Epochs, NEW s \in Store, Reopen(s) PROVE Epochs'
<1> DEFINE p == ProcOf[s]
<1>1. p \in Process
  BY ConstantsAssumption
<1>2. /\ Knows(p) /\ Writes(p) /\ Trusts(p) /\ TypeAdopt /\ TypeEpoch /\ nonces \in Nat
      /\ \A t \in Store : Believes(t)
  BY <1>1, Given DEF TypeDisk, Epochs
<1>3. /\ UNCHANGED <<epoch, nonces, held, advanced, flock, current, generation, gate, at, stale, stamp>>
      /\ UNCHANGED <<waiting, guards, op, covered, dirty, io, behind>>
      /\ observed' = [observed EXCEPT ![s] = NoEpoch]
      /\ observedGen' = [observedGen EXCEPT ![s] = NeverAdopted]
  BY DEF Reopen, diskVars, stateVars, epochVars, gateVars, useVars
<1>4. /\ \A t \in Store : t # s => observed'[t] = observed[t] /\ observedGen'[t] = observedGen[t]
      /\ observed'[s] = NoEpoch /\ observedGen'[s] = NeverAdopted
  BY <1>2, <1>3 DEF TypeAdopt
<1>5. Aside(p)
  BY <1>3, <1>4 DEF Aside, UsesOnly, FilesOnly
<1>6. Observes(p)
  BY <1>4 DEF Observes
<1>7. Ahead(p)' => Ahead(p)
  BY <1>3 DEF Ahead
<1>8. Knows(p)'
  <2>1. Begun(stamp[p]) => Begun(stamp[p])'
    BY <1>3 DEF Begun
  <2>2. Unseen(stamp[p]) => Unseen(stamp[p])'
    BY <1>1, <1>3, <1>5, <1>6, UnseenStays DEF Unseen
  <2> QED
    BY <1>2, <1>3, <2>1, <2>2 DEF Knows
<1>9. \A u \in Use : (Running(u)' <=> Running(u)) /\ op'[u] = op[u]
  BY <1>3 DEF Running
<1>10. Writes(p)'
  BY <1>2, <1>3, <1>9 DEF Writes, AsItIs, Intent
<1>11. \A t : Clean(t)' <=> Clean(t)
  BY <1>3 DEF Clean
<1>12. IsStale(NoEpoch, current[p]) /\ IsStale(NoEpoch, epoch)
  BY RecordFields DEF IsStale
<1>13. Trusts(p)'
  <2>1. ASSUME NEW t \in Store, ProcOf[t] = p
        PROVE  /\ observedGen'[t] <= generation[p]
               /\ (held[p] \/ at[p] = "install") /\ observedGen'[t] = generation[p] => Clean(t)
               /\ held[p] /\ ~IsStale(observed'[t], current[p]) => Clean(t)
    <3>1. CASE t # s
      BY <1>2, <1>4, <2>1, <3>1 DEF Trusts
    <3>2. CASE t = s
      <4>1. NeverAdopted <= generation[p] /\ NeverAdopted # generation[p]
        BY <1>1, <1>2, SMT DEF TypeEpoch, NeverAdopted
      <4> QED
        BY <1>4, <1>12, <3>2, <4>1
    <3> QED
      BY <3>1, <3>2
  <2>2. ASSUME NEW u \in Use, ProcU(u) = p, Running(u)' PROVE Clean(StoreOf[u])
    BY <1>2, <1>9, <2>2 DEF Trusts
  <2>3. Vouched(p)' => Clean(StoreG(gate[p]))'
    BY <1>2, <1>3 DEF Trusts, Vouched, Clean, StoreG
  <2> QED
    BY <1>3, <1>11, <2>1, <2>2, <2>3 DEF Trusts, IsStale
<1>14. \A t \in Store : Believes(t)'
  <2>1. ASSUME NEW t \in Store, ~IsStale(observed'[t], epoch) PROVE Clean(t)
    BY <1>2, <1>4, <1>12, <2>1 DEF Believes
  <2> QED
    BY <1>3, <1>11, <2>1 DEF Believes, IsStale
<1>15. nonces' \in Nat /\ nonces <= nonces'
  BY <1>2, <1>3, SMT
<1>16. at'[p] = "record" => at[p] = "record" /\ stamp'[p] = stamp[p]
  BY <1>3
<1> QED
  BY <1>1, <1>3, <1>5, <1>6, <1>7, <1>8, <1>10, <1>13, <1>14, <1>15, <1>16, GateKeeps

\* The end of a process, at any step: the invariant is kept.
LEMMA CrashEpochs == ASSUME Exclusive, Exclusive', Epochs, NEW p \in Process, Crash(p) PROVE Epochs'
<1>1. /\ TypeGate /\ TypeState /\ TypeEpoch /\ nonces \in Nat /\ \A t \in Store : Believes(t)
  BY Given DEF TypeDisk, Epochs
<1>2. /\ UNCHANGED <<epoch, nonces, behind>> /\ flock' = (IF flock = p THEN Nobody ELSE flock)
      /\ held' = [held EXCEPT ![p] = FALSE] /\ advanced' = [advanced EXCEPT ![p] = FALSE]
      /\ current' = [current EXCEPT ![p] = Absent] /\ generation' = [generation EXCEPT ![p] = 0]
      /\ LeaveGate(p)
  BY DEF Crash, diskVars
<1>3. /\ gate'[p] = NoGuard /\ at'[p] = "idle"
      /\ \A q \in Process : q # p => gate'[q] = gate[q] /\ at'[q] = at[q] /\ stale'[q] = stale[q] /\ stamp'[q] = stamp[q]
  BY <1>1, <1>2, LeaveGateAt
<1>4. /\ ~held'[p] /\ generation'[p] = 0
      /\ \A q \in Process : q # p => /\ held'[q] = held[q] /\ advanced'[q] = advanced[q]
                                     /\ current'[q] = current[q] /\ generation'[q] = generation[q]
                                     /\ flock' = q => flock = q
  BY <1>1, <1>2, ConstantsAssumption DEF TypeState, TypeEpoch
<1>5. \A t \in Store :
        /\ ProcOf[t] = p => observed'[t] = NoEpoch /\ observedGen'[t] = NeverAdopted
        /\ ProcOf[t] # p => /\ observed'[t] = observed[t] /\ observedGen'[t] = observedGen[t]
                            /\ dirty'[t] = dirty[t] /\ io'[t] = io[t]
  BY DEF Crash
<1>6. Aside(p)
  <2>1. UsesOnly(p)
    BY DEF Crash, UsesOnly
  <2> QED
    BY <1>2, <1>3, <1>4, <1>5, <2>1 DEF Aside, FilesOnly
<1>7. Observes(p)
  BY <1>5 DEF Observes
<1>8. at'[p] # "record" /\ ~Ahead(p)' /\ Knows(p)' /\ ~Vouched(p)'
  BY <1>3, <1>4 DEF Ahead, Knows, Vouched
<1>9. Trusts(p)'
  <2>1. \A t \in Store : ProcOf[t] = p => observedGen'[t] <= generation'[p]
    BY <1>4, <1>5, SMT DEF NeverAdopted
  <2>2. \A u \in Use : ProcU(u) = p => ~Running(u)'
    BY <1>4, Unheld
  <2> QED
    BY <1>3, <1>4, <1>8, <2>1, <2>2 DEF Trusts
<1>10. \A t \in Store : ProcOf[t] = p => Believes(t)'
  <2>1. IsStale(NoEpoch, epoch')
    BY RecordFields DEF IsStale
  <2> QED
    BY <1>5, <2>1 DEF Believes, IsStale
<1>11. nonces' \in Nat /\ nonces <= nonces'
  BY <1>1, <1>2, SMT
<1> QED
  BY <1>2, <1>4, <1>6, <1>7, <1>8, <1>9, <1>10, <1>11, GateKeeps

-----------------------------------------------------------------------------
(***************************************************************************)
(* Steps that change the directory under other processes.                  *)
(***************************************************************************)

\* A write lands in the directory: it parts the stores of other processes from it, which the
\* epoch tells them.
LEMMA LandEpochs == ASSUME Exclusive, Epochs, NEW s \in Store, Land(s) PROVE Epochs'
<1> DEFINE p == ProcOf[s]
<1>1. p \in Process
  BY ConstantsAssumption
<1>2. /\ Ordered /\ \A q \in Process : Knows(q) /\ Announced(q) /\ Writes(q) /\ Trusts(q)
      /\ \A t \in Store : Believes(t)
  BY DEF Epochs
<1>3. /\ UNCHANGED <<epoch, nonces, held, advanced, flock, current, generation, gate, at, stale, stamp>>
      /\ UNCHANGED <<waiting, guards, op, covered, observed, observedGen, dirty>>
      /\ io[s] # "none" /\ behind' = [t \in Store |-> behind[t] \cup Parts(s, t)]
  BY DEF Land, EndWrite, diskVars, stateVars, epochVars, gateVars, useVars, adoptVars
<1>4. held[p] /\ flock = p /\ Ahead(p)
  <2>1. held[p] /\ flock = p
    BY <1>1, <1>3, Before DEF Holds
  <2>2. advanced[p]
    BY <1>1, <1>2, <1>3 DEF Writes
  <2> QED
    BY <2>1, <2>2 DEF Ahead
<1>5. /\ \A t \in Store : ProcOf[t] # p => observed[t] # epoch
      /\ \A q \in Process : q # p /\ at[q] = "record" => stamp[q] # epoch
  BY <1>1, <1>2, <1>4 DEF Announced
<1>6. \A t \in Store : ProcOf[t] = p /\ Clean(t) => Clean(t)'
  BY <1>3 DEF Clean, Parts
<1>7. \A q \in Process : q # p => /\ ~held[q] /\ flock # q
                                  /\ at[q] \notin {"files", "reload", "refreshed", "write", "install"}
  BY <1>4, Flocked
<1>8. Ordered'
  BY <1>2, <1>3 DEF Ordered, Within, Begun
<1>9. \A u \in Use : (Running(u)' <=> Running(u)) /\ op'[u] = op[u]
  BY <1>3 DEF Running
<1>10. ASSUME NEW q \in Process PROVE Knows(q)' /\ Announced(q)' /\ Writes(q)'
  <2>1. Knows(q)'
    BY <1>2, <1>3 DEF Knows, Begun, Unseen, Above
  <2>2. Announced(q)'
    BY <1>2, <1>3 DEF Announced, Ahead
  <2>3. Writes(q)'
    <3>1. \A t \in Store : io'[t] # "none" => io[t] # "none"
      BY <1>3 DEF Land, EndWrite, Exclusive, Types, TypeFile
    <3> QED
      BY <1>2, <1>3, <1>9, <3>1 DEF Writes, AsItIs, Intent
  <2> QED
    BY <2>1, <2>2, <2>3
<1>11. ASSUME NEW q \in Process PROVE Trusts(q)'
  <2>1. CASE q # p
    <3>1. ~held[q] /\ at[q] # "install" /\ ~Vouched(q)
      BY <1>5, <1>7, <2>1 DEF Vouched
    <3>2. \A t \in Store : ProcOf[t] = q => observedGen[t] <= generation[q]
      BY <1>2 DEF Trusts
    <3>3. \A u \in Use : ProcU(u) = q => ~Running(u)'
      BY <1>9, <3>1, Flocked
    <3>4. ~Vouched(q)'
      BY <1>3, <3>1 DEF Vouched
    <3> QED
      BY <1>3, <3>1, <3>2, <3>3, <3>4 DEF Trusts
  <2>2. CASE q = p
    <3>1. ASSUME NEW t \in Store, ProcOf[t] = p
          PROVE  /\ observedGen[t] <= generation[p]
                 /\ (held[p] \/ at[p] = "install") /\ observedGen[t] = generation[p] => Clean(t)'
                 /\ held[p] /\ ~IsStale(observed[t], current[p]) => Clean(t)'
      BY <1>1, <1>2, <1>6, <3>1 DEF Trusts
    <3>2. ASSUME NEW u \in Use, ProcU(u) = p, Running(u)' PROVE Clean(StoreOf[u])'
      <4>1. StoreOf[u] \in Store /\ ProcOf[StoreOf[u]] = p
        BY <3>2, UseType DEF ProcU
      <4> QED
        BY <1>1, <1>2, <1>6, <1>9, <3>2, <4>1 DEF Trusts
    <3>3. Vouched(p)' => Clean(StoreG(gate[p]))'
      <4>1. Vouched(p)' => Vouched(p)
        BY <1>3 DEF Vouched
      <4>2. Vouched(p) => gate[p] \in Guard /\ ProcG(gate[p]) = p
        BY <1>1, Before DEF Vouched
      <4>3. Vouched(p) => StoreG(gate[p]) \in Store /\ ProcOf[StoreG(gate[p])] = p
        BY <4>2, GuardType DEF ProcG, StoreG
      <4>4. Vouched(p) => Clean(StoreG(gate[p]))
        BY <1>1, <1>2 DEF Trusts
      <4>5. StoreG(gate[p])' = StoreG(gate[p])
        BY <1>3 DEF StoreG
      <4> QED
        BY <1>6, <4>1, <4>3, <4>4, <4>5 DEF Clean
    <3> QED
      BY <1>3, <2>2, <3>1, <3>2, <3>3 DEF Trusts, IsStale
  <2> QED
    BY <2>1, <2>2
<1>12. ASSUME NEW t \in Store PROVE Believes(t)'
  <2>1. CASE ProcOf[t] = p
    BY <1>2, <1>3, <1>6, <2>1 DEF Believes, IsStale
  <2>2. CASE ProcOf[t] # p
    BY <1>3, <1>5, <2>2 DEF Believes, IsStale
  <2> QED
    BY <2>1, <2>2
<1> QED
  BY <1>8, <1>10, <1>11, <1>12 DEF Epochs

\* An advance lands: the epoch is one nobody has seen, and tells every store it is out of date.
LEMMA WriteEpochEpochs == ASSUME Exclusive, Epochs, NEW p \in Process, WriteEpoch(p) PROVE Epochs'
<1> DEFINE f == stamp[p]
<1>1. /\ Ordered /\ \A q \in Process : Knows(q) /\ Announced(q) /\ Writes(q) /\ Trusts(q)
      /\ \A t \in Store : Believes(t)
  BY DEF Epochs
<1>2. /\ UNCHANGED <<nonces, held, advanced, current, generation, gate, stale, stamp>>
      /\ UNCHANGED <<waiting, guards, op, covered, observed, observedGen, dirty, io, behind>>
      /\ at[p] = "write" /\ epoch' = f /\ flock' \in {flock, Nobody}
  BY DEF WriteEpoch, epochVars, useVars, adoptVars, fileVars
<1>3. at'[p] = "record" /\ \A q \in Process : q # p => at'[q] = at[q]
  BY DEF WriteEpoch, Exclusive, Types, TypeGate
<1>4. flock = p
  BY <1>2, Flocked
<1>5. f \in Epoch /\ f.kind = "at" /\ Begun(f) /\ Unseen(f)
  <2>1. f \in Epoch /\ f.kind = "at"
    BY <1>1, <1>2 DEF Knows, Exclusive, Types, TypeGate
  <2>2. f # NoEpoch
    BY <2>1, RecordFields
  <2> QED
    BY <1>1, <1>2, <2>1, <2>2 DEF Knows
<1> HIDE DEF f
<1>6. ASSUME NEW e, Above(f, e) PROVE e # f
  BY <1>5, <1>6, SMT DEF Above, Epoch
<1>7. \A t \in Store : observed[t] # f
  BY <1>5, <1>6 DEF Unseen
<1>8. \A q \in Process : q # p /\ at[q] = "record" => stamp[q] # f
  BY <1>5, <1>6 DEF Unseen
<1>9. \A q \in Process : q # p => /\ ~held[q] /\ flock' # q
                                  /\ at[q] \notin {"files", "reload", "refreshed", "write", "install"}
  BY <1>2, <1>4, Flocked, ConstantsAssumption
<1>10. Ordered'
  <2>1. ASSUME NEW e \in Epoch, Begun(e), Above(f, e)
        PROVE  /\ e.kind = "at" => e.nonce < nonces
               /\ e.kind = "at" /\ f.kind = "at" /\ e.nonce = f.nonce => e.count <= f.count
    BY <1>5, <2>1, SMT DEF Begun, Above, Epoch
  <2>2. \A t \in Store : observed[t] \in Epoch /\ Begun(observed[t]) /\ Above(f, observed[t])
    BY <1>1, <1>5 DEF Ordered, Within, Unseen, Exclusive, Types, TypeAdopt
  <2>3. \A q \in Process : at[q] = "record" => stamp[q] \in Epoch /\ Begun(stamp[q]) /\ Above(f, stamp[q])
    BY <1>1, <1>5 DEF Ordered, Within, Unseen, Exclusive, Types, TypeGate
  <2>4. \A t \in Store : Within(observed[t])'
    BY <1>2, <2>1, <2>2 DEF Within, Begun
  <2>5. ASSUME NEW q \in Process, at'[q] = "record" PROVE Within(stamp[q])'
    <3>1. CASE q # p
      BY <1>2, <1>3, <2>1, <2>3, <2>5, <3>1 DEF Within, Begun
    <3>2. CASE q = p
      <4>1. f.count <= f.count
        BY <1>5, SMT DEF Epoch
      <4>2. stamp'[q] = f /\ epoch' = f /\ (f.kind = "at" => f.nonce < nonces')
        BY <1>2, <1>5, <3>2 DEF f, Begun
      <4> QED
        BY <4>1, <4>2 DEF Within, Begun
    <3> QED
      BY <3>1, <3>2
  <2>6. epoch'.kind = "at" /\ Begun(epoch)'
    BY <1>2, <1>5 DEF Begun
  <2> QED
    BY <2>4, <2>5, <2>6 DEF Ordered
<1>11. \A u \in Use : (Running(u)' <=> Running(u)) /\ op'[u] = op[u]
  BY <1>2 DEF Running
<1>12. \A t : Clean(t)' <=> Clean(t)
  BY <1>2 DEF Clean
<1>13. ASSUME NEW q \in Process PROVE Knows(q)'
  <2>1. CASE q = p
    BY <1>2, <1>3, <1>5, <2>1 DEF Knows, f
  <2>2. CASE q # p
    BY <1>1, <1>2, <1>3, <1>9, <2>2 DEF Knows
  <2> QED
    BY <2>1, <2>2
<1>14. ASSUME NEW q \in Process PROVE Announced(q)'
  <2>1. CASE q = p
    BY <1>2, <1>3, <1>7, <1>8, <2>1 DEF Announced
  <2>2. CASE q # p
    <3>1. ~Ahead(q)'
      BY <1>2, <1>3, <1>9, <2>2 DEF Ahead
    <3> QED
      BY <3>1 DEF Announced
  <2> QED
    BY <2>1, <2>2
<1>15. ASSUME NEW q \in Process PROVE Writes(q)'
  <2>1. AsItIs(q)' => AsItIs(q)
    BY <1>2, <1>3 DEF AsItIs
  <2>2. Intent(gate[q])' = Intent(gate[q])
    BY <1>2 DEF Intent
  <2> QED
    BY <1>1, <1>2, <1>11, <2>1, <2>2 DEF Writes
<1>16. ASSUME NEW q \in Process PROVE Trusts(q)'
  <2>1. ASSUME NEW t \in Store, ProcOf[t] = q
        PROVE  /\ observedGen[t] <= generation[q]
               /\ (held[q] \/ at'[q] = "install") /\ observedGen[t] = generation[q] => Clean(t)
               /\ held[q] /\ ~IsStale(observed[t], current[q]) => Clean(t)
    <3>1. at'[q] = "install" => at[q] = "install"
      BY <1>3
    <3> QED
      BY <1>1, <2>1, <3>1 DEF Trusts
  <2>2. ASSUME NEW u \in Use, ProcU(u) = q, Running(u)' PROVE Clean(StoreOf[u])
    BY <1>1, <1>11, <2>2 DEF Trusts
  <2>3. Vouched(q)' => Clean(StoreG(gate[q]))'
    <3>1. Vouched(q)' => Vouched(q)
      <4>1. CASE q = p
        BY <1>2, <1>3, <4>1 DEF Vouched
      <4>2. CASE q # p
        <5>1. at'[q] = at[q] /\ (at[q] = "record" => stamp'[q] # epoch')
          BY <1>2, <1>3, <1>8, <4>2
        <5> QED
          BY <1>2, <5>1 DEF Vouched
      <4> QED
        BY <4>1, <4>2
    <3>2. Clean(StoreG(gate[q]))' <=> Clean(StoreG(gate[q]))
      BY <1>2 DEF Clean, StoreG
    <3> QED
      BY <1>1, <3>1, <3>2 DEF Trusts
  <2> QED
    BY <1>2, <1>12, <2>1, <2>2, <2>3 DEF Trusts, IsStale
<1>17. \A t \in Store : Believes(t)'
  BY <1>2, <1>7 DEF Believes, IsStale
<1> QED
  BY <1>10, <1>13, <1>14, <1>15, <1>16, <1>17 DEF Epochs

\* The directory deleted under everybody: the invariant is kept.
LEMMA DeleteEpochs == ASSUME Exclusive, Epochs, Delete PROVE Epochs'
<1>1. /\ Ordered /\ \A q \in Process : Knows(q) /\ Announced(q) /\ Writes(q) /\ Trusts(q)
  BY DEF Epochs
<1>2. /\ UNCHANGED <<nonces, held, advanced, flock, current, generation, gate, at, stale, stamp>>
      /\ UNCHANGED <<waiting, guards, op, covered, observed, observedGen, dirty, io>>
      /\ flock = Nobody /\ epoch' = Absent
      /\ \A t \in Store : behind'[t] = {IF observed[t] = Absent THEN "deletedUnmarked" ELSE "deleted"}
  BY DEF Delete, stateVars, epochVars, gateVars, useVars, adoptVars
<1>3. \A q \in Process : /\ ~held[q] /\ flock # q
                         /\ at[q] \notin {"files", "reload", "refreshed", "write", "install"}
  BY <1>2, Flocked
<1>4. Ordered'
  <2>1. epoch'.kind = "absent"
    BY <1>2, RecordFields
  <2> QED
    BY <1>1, <1>2, <2>1 DEF Ordered, Within, Begun
<1>5. \A u \in Use : ~Running(u)'
  <2>1. \A u \in Use : ~Running(u)
    BY <1>3, UseType, Flocked
  <2> QED
    BY <1>2, <2>1 DEF Running
<1>6. ASSUME NEW q \in Process PROVE Knows(q)' /\ Announced(q)' /\ Writes(q)' /\ Trusts(q)'
  <2>1. Knows(q)'
    BY <1>1, <1>2, <1>3 DEF Knows
  <2>2. Announced(q)'
    BY <1>2, <1>3 DEF Announced, Ahead
  <2>3. Writes(q)'
    <3>1. ~AsItIs(q)'
      BY <1>2, <1>3 DEF AsItIs
    <3> QED
      BY <1>1, <1>2, <1>5, <3>1 DEF Writes
  <2>4. ~Vouched(q)'
    <3>1. at[q] = "record" => stamp[q].kind = "at"
      BY <1>1 DEF Knows
    <3>2. at[q] = "record" => stamp[q] # Absent
      BY <3>1, RecordFields
    <3> QED
      BY <1>2, <1>3, <3>2 DEF Vouched
  <2>5. Trusts(q)'
    BY <1>1, <1>2, <1>3, <1>5, <2>4 DEF Trusts
  <2> QED
    BY <2>1, <2>2, <2>3, <2>5
<1>7. \A t \in Store : Believes(t)'
  <2> SUFFICES ASSUME NEW t \in Store, observed[t] = Absent PROVE Clean(t)'
    BY <1>2 DEF Believes, IsStale
  <2>1. behind'[t] = {"deletedUnmarked"}
    BY <1>2
  <2> QED
    BY <2>1 DEF Clean
<1> QED
  BY <1>4, <1>6, <1>7 DEF Epochs

\* A stuttering step keeps the invariant.
LEMMA QuietEpochs == ASSUME Epochs, UNCHANGED vars PROVE Epochs'
<1>1. /\ UNCHANGED <<epoch, nonces, held, advanced, flock, current, generation, gate, at, stale, stamp>>
      /\ UNCHANGED <<guards, op, covered, observed, observedGen, dirty, io, behind>>
  BY DEF vars, diskVars, stateVars, epochVars, gateVars, useVars, adoptVars, fileVars
<1>2. Ordered'
  BY <1>1 DEF Epochs, Ordered, Within, Begun
<1>3. \A p \in Process : Knows(p)' /\ Announced(p)'
  BY <1>1 DEF Epochs, Knows, Begun, Unseen, Above, Announced, Ahead
<1>4. \A u \in Use : Running(u)' <=> Running(u)
  BY <1>1 DEF Running
<1>5. \A p \in Process : Writes(p)'
  BY <1>1, <1>4 DEF Epochs, Writes, AsItIs, Intent
<1>6. \A s : Clean(s)' <=> Clean(s)
  BY <1>1 DEF Clean
<1>7. \A p \in Process : Trusts(p)'
  <2> SUFFICES ASSUME NEW p \in Process PROVE Trusts(p)'
    OBVIOUS
  <2>1. Trusts(p)
    BY DEF Epochs
  <2>2. Vouched(p)' => Clean(StoreG(gate[p]))'
    BY <1>1, <2>1 DEF Trusts, Vouched, Clean, StoreG
  <2> QED
    BY <1>1, <1>4, <1>6, <2>1, <2>2 DEF Trusts, IsStale
<1>8. \A s \in Store : Believes(s)'
  BY <1>1, <1>6 DEF Epochs, Believes, IsStale
<1> QED
  BY <1>2, <1>3, <1>5, <1>7, <1>8 DEF Epochs

-----------------------------------------------------------------------------
(***************************************************************************)
(* The invariant, and what it gives.                                       *)
(***************************************************************************)

\* Every step keeps the invariant.
LEMMA EpochsStep == ASSUME Exclusive, Exclusive', Epochs, [Next]_vars PROVE Epochs'
<1>1. ASSUME NEW u \in Use, UseStep(u) PROVE Epochs'
  <2>1. ProcU(u) \in Process
    BY UseType
  <2>2. Beside(ProcU(u))
    BY <1>1, BeginUseEpochs, IntoSpanEpochs, EndUseEpochs, BeginOpEpochs, BeginSweepEpochs, EndOpEpochs,
       FileStepsEpochs DEF UseStep
  <2> QED
    BY <2>1, <2>2, BesideKeeps
<1>2. ASSUME NEW g \in Guard, GuardStep(g) \/ CancelWaiting(g) PROVE Epochs'
  <2>1. ProcG(g) \in Process
    BY GuardType
  <2> QED
    BY <1>2, <2>1, JoinAtGateEpochs, CancelWaitingEpochs, BesideKeeps, JoinBehindEpochs, TurnToFlockEpochs
    DEF GuardStep
<1>3. ASSUME NEW p \in Process, GateStep(p) PROVE Epochs'
  BY <1>3, FilesIdleEpochs, TakeFlockEpochs, BeginHoldEpochs, WriteEpochEpochs, RecordAdvanceEpochs,
     InstallHoldEpochs, ReloadEpochs, NoteRefreshedEpochs DEF GateStep
<1>4. ASSUME NEW s \in Store, FlushStep(s) \/ Reopen(s) \/ LandFails(s) PROVE Epochs'
  <2>1. ProcOf[s] \in Process
    BY ConstantsAssumption
  <2> QED
    BY <1>4, <2>1, FlushStepsEpochs, EndFlushEpochs, BesideKeeps, LandEpochs, ReopenEpochs DEF FlushStep
<1>5. ASSUME NEW p \in Process, RetryRelease(p) \/ WriteEpochFails(p) \/ CancelAtGate(p) \/ Crash(p)
      PROVE  Epochs'
  BY <1>5, RetryReleaseEpochs, BesideKeeps, WriteEpochFailsEpochs, CancelAtGateEpochs, CrashEpochs
<1> QED
  BY <1>1, <1>2, <1>3, <1>4, <1>5, DeleteEpochs, QuietEpochs DEF Next, Failure

\* The epoch on disk, what the processes know of it and what their stores observed of it stay in
\* step, through advances, failed and abandoned writes, crashes and deletions of the directory.
THEOREM EpochInvariant == Spec => [](Exclusive /\ Epochs)
<1>1. Init => Epochs
  BY EpochsInit
<1>2. Exclusive /\ Exclusive' /\ Epochs /\ [Next]_vars => Epochs'
  BY EpochsStep
<1> QED
  BY <1>1, <1>2, LockInvariant, PTL DEF Spec

\* LockState::current is the epoch on disk while the flock is held, except between a write of the
\* epoch and record_advance.
THEOREM CurrentIsOnDisk == Spec => []CurrentAuthoritative
<1>1. Epochs => CurrentAuthoritative
  BY DEF Epochs, Knows, CurrentAuthoritative
<1> QED
  BY <1>1, EpochInvariant, PTL

\* No operation past its claim reads state that another process changed, or of a directory since
\* deleted: whatever is_stale and the generations let through is what the directory holds.
THEOREM ForeignStaleIsSeen == Spec => []NoForeignStale
<1>1. Exclusive /\ Epochs => NoForeignStale
  BY UseType DEF Epochs, Trusts, Clean, NoForeignStale
<1> QED
  BY <1>1, EpochInvariant, PTL

\* A bucket is flagged, and written, only once the epoch on disk is stale to every store of another
\* process.
THEOREM WritesAreAnnounced == Spec => []WriteAnnounced
<1>1. Exclusive /\ Epochs => WriteAnnounced
  <2> SUFFICES ASSUME Exclusive, Epochs, NEW s \in Store, NEW t \in Store,
                      dirty[s] \/ io[s] \in {"write", "lone"}, ProcOf[s] # ProcOf[t]
               PROVE  IsStaleAgainst(t, epoch)
    BY DEF WriteAnnounced
  <2>1. ProcOf[s] \in Process
    BY ConstantsAssumption
  <2>2. dirty[s] \/ io[s] # "none"
    OBVIOUS
  <2>3. held[ProcOf[s]] /\ advanced[ProcOf[s]]
    BY <2>1, <2>2, Before DEF Holds, Epochs, Writes
  <2>4. observed[t] # epoch
    BY <2>1, <2>3 DEF Epochs, Announced, Ahead
  <2> QED
    BY <2>4 DEF IsStaleAgainst, IsStale
<1> QED
  BY <1>1, EpochInvariant, PTL

\* An epoch written is one no store has observed: write_epoch never takes the directory back to an
\* epoch of before.
THEOREM EpochsAreNew == Spec => EpochNew
<1>1. ASSUME [Next]_vars
      PROVE  epoch' = epoch \/ epoch' = Absent \/ \E p \in Process : WriteEpoch(p)
  BY <1>1 DEF Next, UseStep, GuardStep, GateStep, FlushStep, Failure, vars, diskVars,
         BeginUse, IntoSpan, EndUse, BeginOp, BeginSweep, EndOp, Modify, StartFlush, SweepWrite,
         JoinAtGate, JoinBehind, TurnToFlock, FilesIdle, TakeFlock, BeginHold, BeginHoldAt,
         RecordAdvance, InstallHold, Reload, NoteRefreshed, ClaimFlag, Land, LandFails, EndFlush,
         RetryRelease, Reopen, WriteEpochFails, CancelAtGate, CancelWaiting, Crash, Delete
<1>2. ASSUME Exclusive, Epochs, NEW p \in Process, WriteEpoch(p), NEW s \in Store PROVE observed[s] # epoch'
  <2>1. at[p] = "write" /\ epoch' = stamp[p]
    BY <1>2 DEF WriteEpoch
  <2>2. stamp[p].kind = "at" /\ stamp[p] \in Epoch
    BY <1>2, <2>1 DEF Epochs, Knows, Exclusive, Types, TypeGate
  <2>3. stamp[p] # NoEpoch
    BY <2>2, RecordFields
  <2>4. Above(stamp[p], observed[s])
    BY <1>2, <2>1, <2>3 DEF Epochs, Knows, Unseen
  <2> QED
    BY <2>1, <2>2, <2>4, SMT DEF Above, Epoch
<1>3. Exclusive /\ Epochs /\ [Next]_vars =>
        [epoch' # epoch /\ epoch'.kind = "at" => \A s \in Store : observed[s] # epoch']_vars
  BY <1>1, <1>2, RecordFields
<1> QED
  BY <1>3, EpochInvariant, PTL DEF Spec, EpochNew

=============================================================================
