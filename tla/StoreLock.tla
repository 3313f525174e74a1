----------------------------- MODULE StoreLock -----------------------------
(***************************************************************************)
(* The cross-process lock of one on-disk store directory, and the epoch    *)
(* that tells a process whether the state it kept in memory still is what  *)
(* the directory holds (lore-storage/src/local/store_lock.rs, and the      *)
(* claims the stores take through it).                                     *)
(*                                                                         *)
(* Every process may have store objects on the directory; the uses of a    *)
(* store object (a command, a handle, a delayed flush) claim it.  A use    *)
(* holds up to two guards: its own, and one of the operation it runs.      *)
(* What the files of the directory contain is abstracted to `behind': who  *)
(* changed them since a store object last read them into memory.           *)
(***************************************************************************)
EXTENDS Integers

CONSTANTS
    Process,        \* the processes that open the directory
    Store,          \* the store objects, each in one process
    Use,            \* the uses of store objects
    ProcOf,         \* the process of a store object
    StoreOf,        \* the store object of a use
    Reuse,          \* StoreLock::reuse_state_across_holds, per store object
    Nobody,         \* no process holds the flock
    NoGuard,        \* no acquisition holds the gate
    MaxGeneration,  \* bound: generations a process goes through
    MaxNonce,       \* bound: lifetimes the directory goes through
    MaxCount        \* bound: epoch advances within a lifetime

ASSUME ConstantsAssumption ==
    /\ ProcOf \in [Store -> Process]
    /\ StoreOf \in [Use -> Store]
    /\ Reuse \in [Store -> BOOLEAN]
    /\ Nobody \notin Process
    /\ NoGuard \notin Use \X {"use", "op"}
    /\ MaxGeneration \in Nat /\ MaxNonce \in Nat /\ MaxCount \in Nat

VARIABLES
    dir,          \* whether the directory exists
    epoch,        \* what the epoch file records
    nonces,       \* how many nonces were drawn
    flock,        \* the process whose descriptor locks the lock file
    held,         \* LockState::held is some
    advanced,     \* LockState::advanced
    current,      \* LockState::current
    generation,   \* LockState::generation
    retrying,     \* LockState::retrying
    gate,         \* the acquisition inside PathLock::gate
    at,           \* how far that acquisition is
    dropped,      \* whether its future was dropped, leaving record_advance alone
    stale,        \* its locals: stale,
    fresh,        \* whether it takes the flock rather than joins a hold,
    stamp,        \* and the stamp it writes, or NoEpoch
    waiting,      \* the acquisitions queued at the gate
    guards,       \* the guards counted in LockState::active
    spans,        \* the uses whose guard is a span
    op,           \* the intent of the operation a use runs, or "none"
    covered,      \* the uses whose operation runs on a span's cover
    observed,     \* StoreLock::observed
    observedGen,  \* StoreLock::observed_generation
    dirty,        \* whether a bucket of the store is flagged and not written
    io,           \* the store's group flush: none, between writes, or in a write
    left,         \* whether that flush was left by a dropped store object
    behind        \* who changed the directory since the store last read it

diskVars  == <<dir, epoch, nonces>>
stateVars == <<held, advanced, flock, retrying>>
epochVars == <<current, generation>>
gateVars  == <<gate, at, dropped, stale, fresh, stamp>>
useVars   == <<waiting, guards, spans, op, covered>>
adoptVars == <<observed, observedGen>>
fileVars  == <<dirty, io, left, behind>>
vars == <<diskVars, stateVars, epochVars, gateVars, useVars, adoptVars, fileVars>>

Guard == Use \X {"use", "op"}
StoreG(g) == StoreOf[g[1]]
ProcG(g) == ProcOf[StoreOf[g[1]]]
ProcU(u) == ProcOf[StoreOf[u]]
Intent(g) == IF g[2] = "use" THEN "read" ELSE op[g[1]]

NoEpoch    == [kind |-> "none", nonce |-> 0, count |-> 0]
Absent     == [kind |-> "absent", nonce |-> 0, count |-> 0]
Unreadable == [kind |-> "unreadable", nonce |-> 0, count |-> 0]
At(n, c)   == [kind |-> "at", nonce |-> n, count |-> c]
Epoch == [kind : {"none", "absent", "unreadable", "at"}, nonce : Nat, count : Nat]

NeverAdopted == -1

-----------------------------------------------------------------------------
(***************************************************************************)
(* The judgements of the lock.                                             *)
(***************************************************************************)

\* Only two definite answers that match are fresh.
IsStale_UnreadableMatches(seen, now) == seen.kind = "none" \/ seen # now
IsStale(seen, now) == ~(seen.kind \in {"absent", "at"} /\ seen = now)

IsStaleAgainst(s, now) == ~Reuse[s] \/ IsStale(observed[s], now)

IsCurrent(s) ==
    \/ observedGen[s] = generation[ProcOf[s]]
    \/ ~IsStaleAgainst(s, current[ProcOf[s]])

\* The stamp a writer records next.  A drawn nonce differs from every earlier one.
NextEpoch_SameNonce(e) == IF e.kind = "at" THEN At(e.nonce, e.count + 1) ELSE At(0, 1)
NextEpoch(e) == IF e.kind = "at" THEN At(e.nonce, e.count + 1) ELSE At(nonces, 1)
NoncesAfter(e) == IF e.kind = "at" THEN nonces ELSE nonces + 1
InBounds(p) == generation[p] < MaxGeneration /\ nonces < MaxNonce /\ epoch.count < MaxCount

FilesInUse(p) == \E s \in Store : ProcOf[s] = p /\ io[s] # "none"

\* What LockState::publish makes of the state, and what StoreLock::covers reads of it.
Live(p) == held[p] /\ \E u \in spans : ProcU(u) = p
Covers_IgnoringAdvance(s, intent) ==
    /\ Live(ProcOf[s])
    /\ observedGen[s] = generation[ProcOf[s]]
Covers(s, intent) ==
    /\ Live(ProcOf[s])
    /\ observedGen[s] = generation[ProcOf[s]]
    /\ intent = "write" => advanced[ProcOf[s]]

TryJoin_DuringReload(s, intent) ==
    /\ held[ProcOf[s]]
    /\ intent = "write" => advanced[ProcOf[s]]
TryJoin(s, intent) ==
    /\ held[ProcOf[s]]
    /\ intent = "write" => advanced[ProcOf[s]]
    /\ IsCurrent(s)

\* An operation of the use is past its claim, and reads or changes the store.
Running(u) ==
    /\ op[u] # "none"
    /\ u \in covered \/ (<<u, "op">> \in guards /\ gate[ProcU(u)] # <<u, "op">>)

\* The guard is counted in and its caller has it to work with.
Claimed(g) == g \in guards /\ gate[ProcG(g)] # g

-----------------------------------------------------------------------------
(***************************************************************************)
(* PathLock::release_if_idle, run in the step that leaves guards G counted *)
(* and the stores in D with flagged buckets, the flushes io' in flight.    *)
(***************************************************************************)
Idle(p, G, D) ==
    /\ \A g \in G : ProcG(g) # p
    /\ \A s \in Store : ProcOf[s] = p => ~D[s]

Release_NotRetrying(p, inUse, writing) ==
    IF held[p] /\ inUse
    THEN UNCHANGED stateVars
    ELSE /\ held' = [held EXCEPT ![p] = FALSE]
         /\ advanced' = [advanced EXCEPT ![p] = FALSE]
         /\ flock' = IF held[p] /\ ~writing THEN Nobody ELSE flock
         /\ UNCHANGED retrying
Release(p, inUse, writing) ==
    IF held[p] /\ inUse
    THEN /\ retrying' = [retrying EXCEPT ![p] = TRUE]
         /\ UNCHANGED <<held, advanced, flock>>
    ELSE /\ held' = [held EXCEPT ![p] = FALSE]
         /\ advanced' = [advanced EXCEPT ![p] = FALSE]
         /\ flock' = IF held[p] /\ ~writing THEN Nobody ELSE flock
         /\ UNCHANGED retrying

ReleaseIfIdle_IgnoringUnflushed(p, G, D, inUse, writing) ==
    IF \A g \in G : ProcG(g) # p THEN Release(p, inUse, writing) ELSE UNCHANGED stateVars
ReleaseIfIdle_DuringEpochWrite(p, G, D, inUse, writing) ==
    IF Idle(p, G, D) THEN Release(p, inUse, FALSE) ELSE UNCHANGED stateVars
ReleaseIfIdle(p, G, D, inUse, writing) ==
    IF Idle(p, G, D) THEN Release(p, inUse, writing) ELSE UNCHANGED stateVars

\* The task that tries a release again which files in use kept back.
RetryRelease(p) ==
    /\ retrying[p]
    /\ ~(Idle(p, guards, dirty) /\ held[p] /\ FilesInUse(p))
    /\ retrying' = [retrying EXCEPT ![p] = FALSE]
    /\ IF Idle(p, guards, dirty)
       THEN /\ held' = [held EXCEPT ![p] = FALSE]
            /\ advanced' = [advanced EXCEPT ![p] = FALSE]
            /\ flock' = IF held[p] /\ at[p] # "write" THEN Nobody ELSE flock
       ELSE UNCHANGED <<held, advanced, flock>>
    /\ UNCHANGED <<diskVars, epochVars, gateVars, useVars, adoptVars, fileVars>>

-----------------------------------------------------------------------------
(***************************************************************************)
(* Acquisitions: StoreLock::acquire and acquire_at_gate.                   *)
(***************************************************************************)
Join(g) ==
    /\ guards' = guards \cup {g}
    /\ observedGen' = [observedGen EXCEPT ![StoreG(g)] = generation[ProcG(g)]]

\* The first step of an acquisition: it joins, or goes to the gate.
Acquire(g, intent) ==
    \/ /\ TryJoin(StoreG(g), intent)
       /\ Join(g)
       /\ UNCHANGED waiting
    \/ /\ ~TryJoin(StoreG(g), intent)
       /\ waiting' = waiting \cup {g}
       /\ UNCHANGED <<guards, observedGen>>

\* The caller of g gets no guard: for an operation's, the operation ends.
Withdraw(g, already) ==
    op' = IF g[2] = "op" /\ ~already THEN [op EXCEPT ![g[1]] = "none"] ELSE op

InGate(p, g, phase, isStale, takes, next) ==
    /\ gate' = [gate EXCEPT ![p] = g]
    /\ at' = [at EXCEPT ![p] = phase]
    /\ dropped' = [dropped EXCEPT ![p] = FALSE]
    /\ stale' = [stale EXCEPT ![p] = isStale]
    /\ fresh' = [fresh EXCEPT ![p] = takes]
    /\ stamp' = [stamp EXCEPT ![p] = next]

LeaveGate(p) == InGate(p, NoGuard, "idle", FALSE, FALSE, NoEpoch)

\* Past the gate, another task has done what this acquisition came for.
JoinAtGate(g) ==
    /\ g \in waiting
    /\ gate[ProcG(g)] = NoGuard
    /\ TryJoin(StoreG(g), Intent(g))
    /\ waiting' = waiting \ {g}
    /\ Join(g)
    /\ UNCHANGED <<diskVars, stateVars, epochVars, gateVars, spans, op, covered, observed, fileVars>>

\* Where an acquisition that joins behind goes on.
FirstPhase_NotAwaitingFiles(p, isStale, advance) == IF advance THEN "write" ELSE "reload"
FirstPhase(p, isStale, advance) ==
    IF isStale /\ FilesInUse(p) THEN "files" ELSE IF advance THEN "write" ELSE "reload"

\* It joins a hold it is stale in, or has to advance the epoch of.
JoinBehind(g) ==
    LET p == ProcG(g)
        s == StoreG(g)
        advance == Intent(g) = "write" /\ ~advanced[p]
    IN  /\ g \in waiting
        /\ gate[p] = NoGuard
        /\ held[p]
        /\ ~TryJoin(s, Intent(g))
        /\ advance => InBounds(p)
        /\ waiting' = waiting \ {g}
        /\ guards' = guards \cup {g}
        /\ observedGen' = IF IsCurrent(s) THEN [observedGen EXCEPT ![s] = generation[p]]
                                          ELSE observedGen
        /\ InGate(p, g, FirstPhase(p, ~IsCurrent(s), advance), ~IsCurrent(s), FALSE,
                  IF advance THEN NextEpoch(current[p]) ELSE NoEpoch)
        /\ nonces' = IF advance THEN NoncesAfter(current[p]) ELSE nonces
        /\ UNCHANGED <<dir, epoch, stateVars, epochVars, spans, op, covered, observed, fileVars>>

\* PathLock::await_files_idle has seen no files in use.
FilesIdle(p) ==
    /\ at[p] = "files"
    /\ ~FilesInUse(p)
    /\ at' = [at EXCEPT ![p] = IF stamp[p] = NoEpoch THEN "reload" ELSE "write"]
    /\ UNCHANGED <<diskVars, stateVars, epochVars, gate, dropped, stale, fresh, stamp, useVars, adoptVars, fileVars>>

\* It finds no hold to join, and turns to the flock.
TurnToFlock(g) ==
    /\ g \in waiting
    /\ gate[ProcG(g)] = NoGuard
    /\ ~held[ProcG(g)]
    /\ waiting' = waiting \ {g}
    /\ InGate(ProcG(g), g, "flock", FALSE, TRUE, NoEpoch)
    /\ UNCHANGED <<diskVars, stateVars, epochVars, guards, spans, op, covered, adoptVars, fileVars>>

\* PathLock::take_flock, which creates a directory deleted meanwhile again.
TakeFlock(p) ==
    /\ at[p] = "flock"
    /\ flock = Nobody
    /\ InBounds(p)
    /\ flock' = p
    /\ dir' = TRUE
    /\ at' = [at EXCEPT ![p] = IF dir THEN "read" ELSE "readRecreated"]
    /\ UNCHANGED <<epoch, nonces, held, advanced, retrying, epochVars, gate, dropped, stale, fresh, stamp, useVars, adoptVars, fileVars>>

\* read_epoch: what the file records, or a failure to read it.
ReadEpoch == {epoch, Unreadable}

SetCurrent(p, e) ==
    /\ current' = [current EXCEPT ![p] = e]
    /\ generation' = [generation EXCEPT ![p] = @ + 1]

Adopt(s, e, gen) ==
    /\ observed' = [observed EXCEPT ![s] = e]
    /\ observedGen' = [observedGen EXCEPT ![s] = gen]

\* The flock is taken.  A reader's hold begins; a writer's advances the epoch first.
BeginHoldAt(p, onDisk) ==
    LET g == gate[p]
        s == StoreG(g)
        recreated == at[p] = "readRecreated"
        isStale == recreated \/ IsStaleAgainst(s, onDisk)
    IN  /\ at[p] \in {"read", "readRecreated"}
        /\ IF Intent(g) = "write" \/ recreated
           THEN /\ InGate(p, g, "write", isStale, TRUE, NextEpoch(onDisk))
                /\ nonces' = NoncesAfter(onDisk)
                /\ UNCHANGED <<stateVars, epochVars, guards, adoptVars>>
           ELSE /\ held' = [held EXCEPT ![p] = TRUE]
                /\ advanced' = [advanced EXCEPT ![p] = FALSE]
                /\ SetCurrent(p, onDisk)
                /\ IF isStale THEN UNCHANGED adoptVars ELSE Adopt(s, onDisk, generation'[p])
                /\ guards' = guards \cup {g}
                /\ IF isStale THEN InGate(p, g, "reload", TRUE, TRUE, NoEpoch) ELSE LeaveGate(p)
                /\ UNCHANGED <<nonces, flock, retrying>>
        /\ UNCHANGED <<dir, epoch, waiting, spans, op, covered, fileVars>>

BeginHold(p) == \E onDisk \in ReadEpoch : BeginHoldAt(p, onDisk)

\* PathLock::write_epoch lands.  The write held the flock for an acquisition dropped meanwhile.
WriteEpoch(p) ==
    /\ at[p] = "write"
    /\ epoch' = stamp[p]
    /\ at' = [at EXCEPT ![p] = "record"]
    /\ flock' = IF dropped[p] /\ ~held[p] /\ flock = p THEN Nobody ELSE flock
    /\ UNCHANGED <<dir, nonces, held, advanced, retrying, epochVars, gate, dropped, stale, fresh, stamp, useVars, adoptVars, fileVars>>

\* record_advance, once the write has landed.
RecordAdvance(p) ==
    /\ at[p] = "record"
    /\ advanced' = [advanced EXCEPT ![p] = held[p]]
    /\ SetCurrent(p, stamp[p])
    /\ IF stale[p] THEN UNCHANGED adoptVars ELSE Adopt(StoreG(gate[p]), stamp[p], generation'[p])
    /\ CASE dropped[p] -> LeaveGate(p)
         [] ~dropped[p] /\ fresh[p] -> InGate(p, gate[p], "install", stale[p], TRUE, stamp[p])
         [] ~dropped[p] /\ ~fresh[p] /\ stale[p] -> InGate(p, gate[p], "reload", TRUE, FALSE, NoEpoch)
         [] ~dropped[p] /\ ~fresh[p] /\ ~stale[p] -> LeaveGate(p)
    /\ UNCHANGED <<diskVars, held, flock, retrying, useVars, fileVars>>

\* The hold of an acquisition that took the flock and advanced the epoch begins.
InstallHold(p) ==
    /\ at[p] = "install"
    /\ held' = [held EXCEPT ![p] = TRUE]
    /\ advanced' = [advanced EXCEPT ![p] = TRUE]
    /\ guards' = guards \cup {gate[p]}
    /\ IF stale[p] THEN InGate(p, gate[p], "reload", TRUE, TRUE, NoEpoch) ELSE LeaveGate(p)
    /\ UNCHANGED <<diskVars, flock, retrying, epochVars, waiting, spans, op, covered, adoptVars, fileVars>>

\* The store of a stale guard drops its state and reads the directory.
Reload(p) ==
    /\ at[p] = "reload"
    /\ behind' = [behind EXCEPT ![StoreG(gate[p])] = {}]
    /\ dirty' = [dirty EXCEPT ![StoreG(gate[p])] = FALSE]
    /\ at' = [at EXCEPT ![p] = "refreshed"]
    /\ UNCHANGED <<diskVars, stateVars, epochVars, gate, dropped, stale, fresh, stamp, useVars, adoptVars, io, left>>

\* StoreGuard::note_refreshed.
NoteRefreshed_KeepingGate(p) ==
    /\ at[p] = "refreshed"
    /\ Adopt(StoreG(gate[p]), current[p], generation[p])
    /\ UNCHANGED <<diskVars, stateVars, epochVars, gateVars, useVars, fileVars>>
NoteRefreshed(p) ==
    /\ at[p] = "refreshed"
    /\ Adopt(StoreG(gate[p]), current[p], generation[p])
    /\ LeaveGate(p)
    /\ UNCHANGED <<diskVars, stateVars, epochVars, useVars, fileVars>>

\* The epoch cannot be written: the acquisition fails.
WriteEpochFails(p) ==
    LET G == IF dropped[p] THEN guards ELSE guards \ {gate[p]}
    IN  /\ at[p] = "write"
        /\ guards' = G
        /\ Withdraw(gate[p], dropped[p])
        /\ CASE ~held[p] -> flock' = Nobody /\ UNCHANGED <<held, advanced, retrying>>
             [] held[p] /\ dropped[p] -> UNCHANGED stateVars
             [] held[p] /\ ~dropped[p] -> ReleaseIfIdle(p, G, dirty, FilesInUse(p), FALSE)
        /\ LeaveGate(p)
        /\ UNCHANGED <<diskVars, epochVars, waiting, spans, covered, adoptVars, fileVars>>

\* The future of an acquisition is dropped while it waits for the gate (for try_acquire,
\* whoever finds the gate or the flock taken),
CancelWaiting(g) ==
    /\ g \in waiting
    /\ waiting' = waiting \ {g}
    /\ Withdraw(g, FALSE)
    /\ UNCHANGED <<diskVars, stateVars, epochVars, gateVars, guards, spans, covered, adoptVars, fileVars>>

\* or past it; or its reload fails.  An advance begun goes on without it.
CancelAtGate(p) ==
    LET G == guards \ {gate[p]}
    IN  /\ gate[p] # NoGuard
        /\ ~dropped[p]
        /\ guards' = G
        /\ Withdraw(gate[p], FALSE)
        /\ IF gate[p] \in guards
           THEN ReleaseIfIdle(p, G, dirty, FilesInUse(p), at[p] = "write")
           ELSE /\ flock' = IF at[p] \in {"flock", "write"} THEN flock ELSE Nobody
                /\ UNCHANGED <<held, advanced, retrying>>
        /\ IF at[p] \in {"write", "record"}
           THEN /\ dropped' = [dropped EXCEPT ![p] = TRUE]
                /\ UNCHANGED <<gate, at, stale, fresh, stamp>>
           ELSE LeaveGate(p)
        /\ UNCHANGED <<diskVars, epochVars, waiting, spans, covered, adoptVars, fileVars>>

-----------------------------------------------------------------------------
(***************************************************************************)
(* Uses of a store and the operations they run.                            *)
(***************************************************************************)
Unclaimed(g) == g \notin guards \cup waiting /\ gate[ProcG(g)] # g

\* hold: a use of the store claims it.
BeginUse(u) ==
    /\ Unclaimed(<<u, "use">>)
    /\ op[u] = "none"
    /\ Acquire(<<u, "use">>, "read")
    /\ UNCHANGED <<diskVars, stateVars, epochVars, gateVars, spans, op, covered, observed, fileVars>>

\* hold_span: its guard becomes a span.
IntoSpan(u) ==
    /\ Claimed(<<u, "use">>)
    /\ u \notin spans
    /\ spans' = spans \cup {u}
    /\ UNCHANGED <<diskVars, stateVars, epochVars, gateVars, waiting, guards, op, covered, adoptVars, fileVars>>

\* claim: an operation of the use runs on the cover of a span, or claims for itself.
BeginOp(u, intent) ==
    /\ Claimed(<<u, "use">>)
    /\ op[u] = "none"
    /\ Unclaimed(<<u, "op">>)
    /\ op' = [op EXCEPT ![u] = intent]
    /\ IF Covers(StoreOf[u], intent)
       THEN covered' = covered \cup {u} /\ UNCHANGED <<waiting, guards, observedGen>>
       ELSE Acquire(<<u, "op">>, intent) /\ UNCHANGED covered
    /\ UNCHANGED <<diskVars, stateVars, epochVars, gateVars, spans, observed, fileVars>>

\* flush_delayed: a write outside any use of the store.
BeginSweep(u) ==
    /\ Unclaimed(<<u, "use">>)
    /\ op[u] = "none"
    /\ Unclaimed(<<u, "op">>)
    /\ dirty[StoreOf[u]]
    /\ op' = [op EXCEPT ![u] = "write"]
    /\ Acquire(<<u, "op">>, "write")
    /\ UNCHANGED <<diskVars, stateVars, epochVars, gateVars, spans, covered, observed, fileVars>>

\* The operation ends or is dropped; what it spawned goes on.
EndOp(u) ==
    LET G == guards \ {<<u, "op">>}
        p == ProcU(u)
    IN  /\ Running(u)
        /\ op' = [op EXCEPT ![u] = "none"]
        /\ covered' = covered \ {u}
        /\ guards' = G
        /\ IF u \in covered THEN UNCHANGED stateVars
                             ELSE ReleaseIfIdle(p, G, dirty, FilesInUse(p), at[p] = "write")
        /\ UNCHANGED <<diskVars, epochVars, gateVars, waiting, spans, adoptVars, fileVars>>

EndUse(u) ==
    LET G == guards \ {<<u, "use">>}
        p == ProcU(u)
    IN  /\ Claimed(<<u, "use">>)
        /\ op[u] = "none"
        /\ guards' = G
        /\ spans' = spans \ {u}
        /\ ReleaseIfIdle(p, G, dirty, FilesInUse(p), at[p] = "write")
        /\ UNCHANGED <<diskVars, epochVars, gateVars, waiting, op, covered, adoptVars, fileVars>>

-----------------------------------------------------------------------------
(***************************************************************************)
(* The files.  A write operation flags a bucket; a flush of the flagged    *)
(* buckets runs in a task of its own, which may outlive the operation, and *)
(* the store object.                                                       *)
(***************************************************************************)
Modify(u) ==
    /\ Running(u)
    /\ op[u] = "write"
    /\ dirty' = [dirty EXCEPT ![StoreOf[u]] = TRUE]
    /\ UNCHANGED <<diskVars, stateVars, epochVars, gateVars, useVars, adoptVars, io, left, behind>>

StartFlush(u) ==
    /\ Running(u)
    /\ op[u] = "write"
    /\ io[StoreOf[u]] = "none"
    /\ io' = [io EXCEPT ![StoreOf[u]] = "share"]
    /\ UNCHANGED <<diskVars, stateVars, epochVars, gateVars, useVars, adoptVars, dirty, left, behind>>

\* A delayed flush writes buckets itself; dropped, it leaves a write in flight.
SweepWrite(u) ==
    /\ Running(u)
    /\ op[u] = "write"
    /\ dirty[StoreOf[u]] /\ io[StoreOf[u]] = "none"
    /\ io' = [io EXCEPT ![StoreOf[u]] = "lone"]
    /\ dirty' = [dirty EXCEPT ![StoreOf[u]] = FALSE]
    /\ UNCHANGED <<diskVars, stateVars, epochVars, gateVars, useVars, adoptVars, left, behind>>

\* A bucket's flag is taken as its write begins.
ClaimFlag(s) ==
    /\ io[s] = "share"
    /\ dirty[s] /\ ~left[s]
    /\ io' = [io EXCEPT ![s] = "write"]
    /\ dirty' = [dirty EXCEPT ![s] = FALSE]
    /\ UNCHANGED <<diskVars, stateVars, epochVars, gateVars, useVars, adoptVars, left, behind>>

\* How the write of store s parts store t from the directory.
Parts(s, t) ==
    CASE ProcOf[t] # ProcOf[s] -> {"process"}
      [] t # s /\ ProcOf[t] = ProcOf[s] -> {"sibling"}
      [] t = s -> IF left[s] THEN {"orphan"} ELSE {}

EndWrite(s) ==
    /\ io[s] \in {"write", "lone"}
    /\ io' = [io EXCEPT ![s] = IF @ = "write" THEN "share" ELSE "none"]
    /\ left' = [left EXCEPT ![s] = @ /\ io[s] = "write"]

Land(s) ==
    /\ EndWrite(s)
    /\ behind' = [t \in Store |-> behind[t] \cup Parts(s, t)]
    /\ UNCHANGED <<diskVars, stateVars, epochVars, gateVars, useVars, adoptVars, dirty>>

\* SerializeFailureGuard and UnfinishedCommit flag the bucket again.
LandFails(s) ==
    /\ EndWrite(s)
    /\ dirty' = [dirty EXCEPT ![s] = @ \/ ~left[s]]
    /\ UNCHANGED <<diskVars, stateVars, epochVars, gateVars, useVars, adoptVars, behind>>

\* ReleasingOnceDone: the share goes, then release_if_clean.
EndFlush(s) ==
    LET p == ProcOf[s]
        inUse == \E t \in Store : t # s /\ ProcOf[t] = p /\ io[t] # "none"
    IN  /\ io[s] = "share"
        /\ io' = [io EXCEPT ![s] = "none"]
        /\ left' = [left EXCEPT ![s] = FALSE]
        /\ ReleaseIfIdle(p, guards, dirty, inUse, at[p] = "write")
        /\ UNCHANGED <<diskVars, epochVars, gateVars, useVars, adoptVars, dirty, behind>>

\* The store object is dropped and another opened in its place.
Reopen(s) ==
    /\ \A u \in Use, k \in {"use", "op"} : StoreOf[u] = s => Unclaimed(<<u, k>>) /\ op[u] = "none"
    /\ observed[s] # NoEpoch
    /\ ~dirty[s]
    /\ observed' = [observed EXCEPT ![s] = NoEpoch]
    /\ observedGen' = [observedGen EXCEPT ![s] = NeverAdopted]
    /\ left' = [left EXCEPT ![s] = io[s] # "none"]
    /\ UNCHANGED <<diskVars, stateVars, epochVars, gateVars, useVars, dirty, io, behind>>

-----------------------------------------------------------------------------
(***************************************************************************)
(* What happens to the processes and the directory.                        *)
(***************************************************************************)
Crash(p) ==
    LET mine == {s \in Store : ProcOf[s] = p}
        Lost(f, v) == [s \in Store |-> IF s \in mine THEN v ELSE f[s]]
    IN  /\ flock' = IF flock = p THEN Nobody ELSE flock
        /\ held' = [held EXCEPT ![p] = FALSE]
        /\ advanced' = [advanced EXCEPT ![p] = FALSE]
        /\ retrying' = [retrying EXCEPT ![p] = FALSE]
        /\ current' = [current EXCEPT ![p] = Absent]
        /\ generation' = [generation EXCEPT ![p] = 0]
        /\ LeaveGate(p)
        /\ waiting' = {g \in waiting : ProcG(g) # p}
        /\ guards' = {g \in guards : ProcG(g) # p}
        /\ spans' = {u \in spans : ProcU(u) # p}
        /\ covered' = {u \in covered : ProcU(u) # p}
        /\ op' = [u \in Use |-> IF ProcU(u) = p THEN "none" ELSE op[u]]
        /\ observed' = Lost(observed, NoEpoch)
        /\ observedGen' = Lost(observedGen, NeverAdopted)
        /\ dirty' = Lost(dirty, FALSE)
        /\ io' = Lost(io, "none")
        /\ left' = Lost(left, FALSE)
        /\ UNCHANGED <<diskVars, behind>>

\* The directory is deleted while no process uses it, under stores that adopted an epoch of it,
\* or adopted that it has none.
Delete ==
    /\ dir /\ flock = Nobody
    /\ dir' = FALSE
    /\ epoch' = Absent
    /\ behind' = [s \in Store |-> {IF observed[s] = Absent THEN "deletedUnmarked" ELSE "deleted"}]
    /\ UNCHANGED <<nonces, stateVars, epochVars, gateVars, useVars, adoptVars, dirty, io, left>>

-----------------------------------------------------------------------------
Init ==
    /\ dir = TRUE
    /\ epoch \in {Absent, At(0, 1)}
    /\ nonces = 1
    /\ flock = Nobody
    /\ held = [p \in Process |-> FALSE]
    /\ advanced = [p \in Process |-> FALSE]
    /\ current = [p \in Process |-> Absent]
    /\ generation = [p \in Process |-> 0]
    /\ retrying = [p \in Process |-> FALSE]
    /\ gate = [p \in Process |-> NoGuard]
    /\ at = [p \in Process |-> "idle"]
    /\ dropped = [p \in Process |-> FALSE]
    /\ stale = [p \in Process |-> FALSE]
    /\ fresh = [p \in Process |-> FALSE]
    /\ stamp = [p \in Process |-> NoEpoch]
    /\ waiting = {} /\ guards = {} /\ spans = {} /\ covered = {}
    /\ op = [u \in Use |-> "none"]
    /\ observed = [s \in Store |-> NoEpoch]
    /\ observedGen = [s \in Store |-> NeverAdopted]
    /\ dirty = [s \in Store |-> FALSE]
    /\ io = [s \in Store |-> "none"]
    /\ left = [s \in Store |-> FALSE]
    /\ behind = [s \in Store |-> {}]

UseStep(u) ==
    \/ BeginUse(u) \/ IntoSpan(u) \/ EndUse(u)
    \/ BeginOp(u, "read") \/ BeginOp(u, "write") \/ BeginSweep(u) \/ EndOp(u)
    \/ Modify(u) \/ StartFlush(u) \/ SweepWrite(u)

GuardStep(g) == JoinAtGate(g) \/ JoinBehind(g) \/ TurnToFlock(g)

GateStep(p) ==
    \/ FilesIdle(p) \/ TakeFlock(p) \/ BeginHold(p) \/ WriteEpoch(p) \/ RecordAdvance(p)
    \/ InstallHold(p) \/ Reload(p) \/ NoteRefreshed(p)

FlushStep(s) == ClaimFlag(s) \/ Land(s) \/ EndFlush(s)

\* What goes wrong, or is broken off.
Failure ==
    \/ \E p \in Process : WriteEpochFails(p) \/ CancelAtGate(p) \/ Crash(p)
    \/ \E g \in Guard : CancelWaiting(g)
    \/ \E s \in Store : LandFails(s)
    \/ Delete

Next ==
    \/ \E u \in Use : UseStep(u)
    \/ \E g \in Guard : GuardStep(g)
    \/ \E p \in Process : GateStep(p) \/ RetryRelease(p)
    \/ \E s \in Store : FlushStep(s) \/ Reopen(s)
    \/ Failure

Spec == Init /\ [][Next]_vars

\* Tasks the runtime polls to their end: an acquisition past the flock, the flushes, the
\* retried release.  Nothing says when an operation ends, or another process lets go.
Fairness ==
    /\ \A p \in Process : /\ WF_vars(RetryRelease(p))
                          /\ WF_vars(at[p] # "flock" /\ GateStep(p))
    /\ \A s \in Store : WF_vars(ClaimFlag(s) \/ Land(s)) /\ SF_vars(EndFlush(s))

FairSpec == Spec /\ Fairness

-----------------------------------------------------------------------------
Phase == {"idle", "files", "flock", "read", "readRecreated", "write", "record", "install",
          "reload", "refreshed"}

\* Every variable holds what its field of LockState, StoreLock or the stores can hold.
TypeOK ==
    /\ dir \in BOOLEAN
    /\ epoch \in Epoch
    /\ nonces \in Nat
    /\ flock \in Process \cup {Nobody}
    /\ held \in [Process -> BOOLEAN]
    /\ advanced \in [Process -> BOOLEAN]
    /\ current \in [Process -> Epoch]
    /\ generation \in [Process -> Nat]
    /\ retrying \in [Process -> BOOLEAN]
    /\ gate \in [Process -> Guard \cup {NoGuard}]
    /\ at \in [Process -> Phase]
    /\ dropped \in [Process -> BOOLEAN]
    /\ stale \in [Process -> BOOLEAN]
    /\ fresh \in [Process -> BOOLEAN]
    /\ stamp \in [Process -> Epoch]
    /\ waiting \subseteq Guard
    /\ guards \subseteq Guard
    /\ spans \subseteq Use
    /\ op \in [Use -> {"none", "read", "write"}]
    /\ covered \subseteq Use
    /\ observed \in [Store -> Epoch]
    /\ observedGen \in [Store -> Nat \cup {NeverAdopted}]
    /\ dirty \in [Store -> BOOLEAN]
    /\ io \in [Store -> {"none", "share", "write", "lone"}]
    /\ left \in [Store -> BOOLEAN]
    /\ behind \in [Store -> SUBSET {"process", "sibling", "orphan", "deleted", "deletedUnmarked"}]

\* Whoever has a guard, runs an operation on a span's cover, has a bucket to flush or a flush
\* in flight, holds the flock: release_unless_in_use lets it go from under none of them, and
\* no step of an acquisition dropped midway does.
NothingWithoutFlock ==
    /\ \A g \in guards : held[ProcG(g)]
    /\ \A u \in covered : held[ProcU(u)]
    /\ \A s \in Store : dirty[s] \/ io[s] # "none" => held[ProcOf[s]]
    /\ \A p \in Process : held[p] => flock = p

\* An operation past its claim reads state no other process changed since: is_stale judges
\* rightly whatever holds, advances, failures and crashes came before.  A directory deleted and
\* created again is seen too, by a store that had adopted an epoch of it ("deletedUnmarked" is
\* one that had adopted the absence of an epoch, and may take the new directory for the old).
NoForeignStale == \A u \in Use : Running(u) => behind[StoreOf[u]] \cap {"process", "deleted"} = {}

\* What is flagged or being written in one process is already announced to the others: the
\* epoch on disk is stale to every store of theirs, so a crash midway leaves none believing its
\* state.
WriteAnnounced == \A s, t \in Store :
    (dirty[s] \/ io[s] \in {"write", "lone"}) /\ ProcOf[s] # ProcOf[t] => IsStaleAgainst(t, epoch)

\* A store that drops its state to reload it has no operation reading it, nothing unflushed to
\* lose and no flush in flight: the gate, try_join and await_files_idle keep them apart.  Of a
\* process with one store object: a sibling's write may make a store reload beside an operation.
ReloadAlone == \A p \in Process : at[p] \in {"reload", "refreshed"} =>
    LET s == StoreG(gate[p])
    IN  /\ ~dirty[s] /\ io[s] = "none"
        /\ \A u \in Use : StoreOf[u] = s => ~Running(u)

\* A store object reloads only once a flush left by the object before it has landed.
NoOrphanStale == \A u \in Use : Running(u) => "orphan" \notin behind[StoreOf[u]]

\* "Two stores open on one directory therefore never block each other, and neither can serve
\* state the other invalidated" (store_lock.rs, StoreLock): no operation begins on state that a
\* flush of another store object of the process changed.
SiblingSeen == [][\A u \in Use : ~Running(u) /\ Running(u)' =>
                      "sibling" \notin behind'[StoreOf[u]]]_vars

\* LockState::current is the epoch on disk while the flock is held, which is what lets a
\* joining operation decide staleness without reading it.
CurrentAuthoritative == \A p \in Process :
    held[p] /\ at[p] # "record" => current[p] \in {epoch, Unreadable}

\* An epoch written is one no store has adopted before: it never goes back past an advance.
EpochNew == [][epoch' # epoch /\ epoch'.kind = "at" =>
                 \A s \in Store : observed[s] # epoch']_vars

\* A flock nobody needs goes, once the flushes in flight are done: the retried release, or the
\* end of a flush, lets it go.
FlockLetGo == \A p \in Process :
    (held[p] /\ Idle(p, guards, dirty)) ~> (~held[p] \/ ~Idle(p, guards, dirty))

\* An acquisition that has the flock, or joins a hold, leaves the gate: the wait for files in
\* use and the writes it makes end.
GateLetGo == \A p \in Process :
    (at[p] \notin {"idle", "flock"}) ~> (at[p] = "idle")

=============================================================================
