# A TLA+ verification of Lore

Lore is a version control system for large binary projects.  Its clients and servers keep content
in *local stores*: directories of a file system that several processes, and many tasks of each
process, use at once.  On the stores rest two protocols: clients move fragments of content between
their local store and a remote, sharing uploads and fetches among tasks; and servers keep
branches, whose heads pushes race for.  This project models the three layers: the lock of a store
directory, the mutable store (names and heads) and the immutable store (fragments), with the steps
of their flushes, fan-outs, evictions, compactions and obliterates interleaved at every await, and
a kill of the process between any two of them; the storing and loading of fragments; and the
branch service of a server with the data it keeps to find revisions by number.

Paths below are relative to `src/`; `store_lock.rs`, `mutable_store.rs`, `immutable_store.rs`,
`fan_out.rs` and `payload_gate.rs` are those of `lore-storage/src/local/`; `write.rs`, `read.rs`,
`read_flight.rs`, `write_tracker.rs` and `fragment_engine.rs` those of `lore-storage/src/`;
`branch_push.rs` is `lore-server/src/grpc/handlers/branch_push.rs` and `branch.rs`
`lore-revision/src/branch.rs`.

## The system

### Modelled

| part | state | operations | what makes it hard |
|---|---|---|---|
| store lock (`store_lock.rs`) | flock, epoch file, per-process count of guards, per-object observed epoch | acquire, join, cover, advance, reload, release, retry of a release | other processes, store objects that share a process, dropped futures, kills, the directory deleted meanwhile |
| mutable store (`mutable_store.rs`, `fan_out.rs`) | buckets in memory with a flag each, bucket files, level markers | store, load, compare-and-swap, list, flush, delayed sweep, fan-out, open | a bucket's contents move while an operation waits for it; the two-phase commit of a fan-out stops half way |
| payload gate (`payload_gate.rs`) | an epoch, two counters, a mutex, a `Notify` | hold, release, drain | lock-free: every atomic access may be overtaken |
| immutable store and packfiles (`immutable_store.rs`, `packstore.rs`) | index in memory and on disk, packfiles, the payload gate, the compaction permit | put, get, copy, obliterate, flush, evict, compact | payloads are moved, zeroed and truncated under readers and writers that located them before |
| fragment stores and loads (`write.rs`, `read.rs`, `read_flight.rs`, `write_tracker.rs`, `fragment_engine.rs`) | addresses being stored, a count of stores landed, fetches in flight, trackers of spawned writes | store inline or dispatched, copy, upload, publish, load, fetch, heal, await_all | a task follows another that may fail, be dropped or serve another context; answers of the remote get lost; eviction takes what was just found |
| branch service (`branch_push.rs`, `branch_create.rs`, `branch_delete.rs`, `branch_metadata_set.rs`, `branch.rs`) | head, metadata and name of each branch, a key each | push, create, delete, protect, change of metadata | one request is many reads and writes of separate keys; only the head is swapped atomically |
| revision list acceleration (`lore-server/src/cache/revision.rs`, `revision_list.rs`) | sealed step keys, cached segments of the history | seal, cache, backfill, look up | written after the head moved, by pushes and by lookups |

How they interact: an operation of a store claims its directory through the store lock, and a
stale claim makes the store drop and reload its state.  Flagged buckets keep the lock held
(`has_unflushed`), as do writes in flight.  The immutable store shares the fan-out and flush code
with the mutable store, and adds packfiles, whose locations its entries record.  Readers and
writers of payloads hold the payload gate; compaction and obliterates drain it before they
destroy bytes.

Fragments are stored into the immutable store's index, of which `FragmentStore` keeps what a store or
load can see: payload, durability, and that an entry is found and stored in two steps.  Heads,
names, step keys and cached lists are keys of the mutable store, whose compare-and-swap and last
value `MutableGroup` checks and `BranchService` relies on.

### Not modelled

| part | where | why |
|---|---|---|
| lock service | `lore-server/src/lock/store.rs`, `lore-aws/src/store/lock_store.rs` | all-or-nothing locks with roll-back; touches none of the modelled state, next in the plan |
| single flight | `lore-aws/src/store/single_flight.rs` | sharing of reads with invalidation; in the plan |
| transport | `lore-transport/src/{connection,session}.rs`, `grpc/mod.rs`, `quic/client.rs` | one reconnect on behalf of many calls; in the plan |
| replicated and composite stores | `lore-server/src/store/`, `lore-revision/src/store/composite.rs` | in the plan with the reconnects |
| notifications | `lore-server/src/notification/local.rs` | a lossy broadcast that no state depends on |
| credentials, instances, shared stores | `lore-credential`, `lore-revision/src/{instance,shared_store}.rs` | file locks taken in several directories; in the plan as `LockOrder` |
| trees, staging, commit, diff and merge in a working copy | `lore-revision/src/` | sequential code over large data; only what a push needs of it is modelled |
| I/O driver, mounts, command line, C API, telemetry, generated code | | no protocol of their own to check |

`PROJECT.json` lists every part, and every hazard at its line.

## Modules

| module | models |
|---|---|
| `StoreLock` | the lock of one directory, the processes, store objects and uses that claim it |
| `StoreLockProofs` | proofs: types; nothing is in use without the flock; the epoch tells every process which of its state is out of date |
| `DurableMap` | abstract: a map whose durable value of a key never goes back, nor ahead of what was stored |
| `MutableGroup` | one group of the mutable store, shown to implement `DurableMap` |
| `MutableGroupInvariant` | proofs: the inductive invariant of the group, and the steps outside a commit up to the choice of a bucket to write |
| `MutableGroupProofs` | proofs: bucket writes, the choice of a level and the commit, the properties, and that `DurableMap` is implemented |
| `DrainGate` | abstract: a drain returns once every hold taken before it is dropped |
| `PayloadGate` | the lock-free gate, shown to implement `DrainGate` |
| `PayloadGateProofs` | proofs: drains wait, and the gate implements `DrainGate` |
| `ImmutableGroup` | one group of the immutable store and its packfiles, composed with `DrainGate` |
| `FragmentStore` | stores and loads of fragments by the tasks of one client, its local store and a remote |
| `FragmentStoreProofs` | proofs: what tasks take to be on the remote is there, fetches are checked, loads miss no store |
| `BranchHistory` | pure: revisions, their line, boundaries, sealed steps, cached segments, three-way merge |
| `BranchService` | the requests of a server on the keys of its branches, over `BranchHistory` |
| `BranchHistoryProofs` | proofs: what lines, boundaries and segments are in any history |
| `BranchServiceProofs` | proofs: pushes keep updates, names map to described branches; the invariant about lines, and that lookups keep it |
| `BranchLineProofs` | proofs: pushes keep it; numbers grow, pushes verify what they put on a line, acknowledged pushes stay, keys and lookups agree with the line |
| `MC...` | instances for TLC |

### `StoreLock`

`flock`, `epoch` and `dir` are the directory; `held`, `advanced`, `current`, `generation` and
`retrying` are the fields of `LockState`, per process; `observed` and `observedGen` those of a
store object; `gate` and `at` say which acquisition is in the gate and how far
`acquire_at_gate` is.  File contents are abstracted to `behind`: who changed them since a store
object last read them.  An acquisition may be dropped at each await, fail to write the epoch, or
die with its process; the epoch write goes on without it, as `record_advance` is a task of its
own.  The directory may be deleted.

Abstractions: the creation of the directory at open is merged with its re-creation by an
acquisition; `try_acquire` takes the steps of a join or of a dropped acquisition, and is not an
action; generation and count do not wrap; an operation is covered only by its own use's span;
enclosing locks are not modelled.

### `MutableGroup`

`file`, `new`, `marker` and `pendingFile` are the files of the group, the rest its buckets, flags
and locks.  A value is the number of times its key was changed.  Every file operation is a step
and may fail; the process may stop between any two, and the next open rolls a pending commit
forward.  `LevelFor` is the code's `level_for` over a shorter ladder (1, 2, 4 for 1, 32, 64, 128,
256), and skips levels as the code's does.

Abstractions: a compare-and-swap or store that changes nothing is a load; staging files and
corrupt files are left out; a stop is a kill of the process, not power loss, which is also what
`scripts/store-stress/README.md` holds the stores to; claims are always granted, as they are
`StoreLock`'s; a reload happens only when nothing is flagged and nobody is at work, which `ReloadAlone` shows of
a process with one store object on the directory.  A sweep that
sleeps is the flag `scheduled`; a scene with no `sweeps` is a store with `flush_delay_seconds` 0.

### `PayloadGate`

Each load, add, subtract and notification is a step.  All are `SeqCst` in the code, so
interleaving them is exact.  A drain may be cancelled at its two awaits.  The epoch does not
wrap; `MaxEpoch` caps the drains.

### `ImmutableGroup`

An entry is `<<file, slot>>`; a payload takes one slot and its content is its hash, so "this
entry points at its own bytes" can be said directly.  `act` holds what each actor is doing, `pass` what
a compaction pass has found, `gone` is a history of obliterates.  The binary search of `lookup` is
translated step by step, as one property depends on where it stops.

Abstractions: payloads of one size; durability flags and access times are left out, so eviction
takes any entry; the steps of a bucket file or a commit are one step here, since `MutableGroup`
models that shared code; taking a hold is merged with the lookup or reservation that follows it,
which only lets drains return sooner; eviction writes its buckets one after the other.

A pass decides what to rewrite as `reclaimable_packfiles` does: sizes, a drain, the bucket count read
once, then the references of one bucket at a time under its read lock (`CountBucket`), with stores,
obliterates and fan-outs between two buckets.  `ReclaimsGarbage` leaves out the two cases in which a
packfile without garbage is chosen: a fan-out during the count, which the comment at
`immutable_store.rs:4703` names, and a write that fails after its bytes were counted as stored.

### `FragmentStore`

`inFlight` is `STORE_IN_FLIGHT`, `landed` one bucket of `STORES_LANDED`, `flights` is
`READ_IN_FLIGHT`, `tracker` the `SharedState` of each `WriteTracker` with the call of `await_all`;
`local`, `remote` and `keys` are the stores.  A task runs one job, a store or a load, and its `pc`
names the await it is at.  The drop of a guard is two steps, count and removal, as the order of the
two is what a load relies on.  A call may be dropped at each await; a remote command may fail, or
take effect with its answer lost; a local put may fail; entries that are durable may be evicted, by
age or by count.

Abstractions: one partition, of a store that does not isolate partitions; a payload is "whole",
"wrong" (its hash does not match) or "broken" (its size does not), so that a check on receipt can be
said to see one and not the other: sizes are always checked, the hash of a payload from a trusted
remote is not, and a wrong payload of such a remote may pass or fail to expand; compression, permits, statistics, observers and cache priority
are left out.  A put is a lookup step and a store step, each atomic, as `ImmutableGroup` models what
happens inside.  Which entries share one payload is left open for eviction.  The chunks of a list
are dropped with their list.  Publishing lists have no tracker, as in the code; the retraction of a
key by an empty buffer is left out.  Damaged local payloads appear only under loads.

### `BranchHistory` and `BranchService`

A revision is an index into `states`, the serialized revisions; serializing an equal state gives
the index it has, as content addressing does.  Its tree says for each file who wrote it last, which
is what the conflict rule and a lost update are about.  Its `upload` says what of it the server's
immutable store has: nothing, its state without every fragment it adds (`part`), or all of it.  A
client may commit on, or merge, any revision there is, that of another request included, and create a
branch at any of the first or at none.  `latest`, `meta`, `names`, `steps` and
`lists` are the five kinds of keys.  A request is a sequence of steps, one per read or write of a
key, with what it read in `call`: a push reads metadata and head in either order, checks access,
reads and perhaps restores the name, decides, verifies, renumbers, swaps, decides again or merges if the swap
failed, then seals steps and caches segments one by one.  `End` ends a request at any await, for a
store that refuses, a hook that refuses, a client that leaves or a server that stops.  `Misreads`
is a read that failed where the code goes on as if the key were absent, or a write that failed where
it goes on without: heads and names in pushes and creations, and every key of a lookup.

A push verifies the revision it was sent (`Verified`): its state and both its parents can be read and
what it adds to them is there.  A creation verifies nothing, and neither does a push of what lies below
the parents.  So `LineWhole` says of each revision on a line that it was verified, or is at or
below one that a client named (`Named`): the point of a creation, or the base of a forced push.

A lookup goes through segment, backfill, step key and walk.  A failed read of the first three sends it
on to the next; one of the walk ends it, and the code answers that there is no such revision (status
`unread`), which `FindsOnLine` leaves out.

Abstractions: lookups are on a branch without a parent branch, for one number; every caller may
write, and `privileged` ones may push to a protected branch; hooks, notifications, the personal category,
fallback ids, linked branches and layers are left out; what clients upload while requests run is
left out; numbers clients give are never too low; blobs of cached lists are their sets of
revisions.

## Runs

| run | instance | shows |
|---|---|---|
| `lock_apart` | two processes, an object and a use each | neither process serves state the other changed; the epoch is authoritative and always new; nothing is used without the flock |
| `lock_shared` | one object, two uses, fair | a reload has the object to itself; an orphaned flush is waited for; the flock and the gate are let go |
| `lock_siblings` | two objects in one process | *violated*: the second write of a hold goes unseen by the sibling |
| `group_flush` | three keys, three levels, one failure, one stop | no key is lost or goes back, loads see the last value, and `DurableMap` is implemented |
| `group_sweep` | two keys, a sweep beside a flush, two failures, also a store from before fan-out; a list beside a fan-out | a bucket that is not flagged is on disk; a list sends every key once |
| `group_live` | a sweep and a flush, fair | flagged buckets get written |
| `group_settle` | the same with one failure | *violated*: an emptied bucket stays flagged after a flush that succeeded |
| `gate_drain` | two holders, two drains, fair | drains wait for earlier holds only, and return |
| `pack_compact` | fifteen scenes of up to three actors | no entry in memory or on disk points at bytes that are not its payload; located reads succeed; durable obliterates stay; what a pass rewrites has garbage; nobody is stuck |
| `pack_shared` | three puts | *violated*: associations of one hash end with different payloads, or one with none |
| `fragment_flights` | twelve scenes of up to four tasks, with failures, drops, evictions, fair | durable flags are true of the remote; what a store or tracker reported can be read; published keys name whole content; shared fetches are checked and fail only for their own; a load sees what landed; every call returns |
| `branch_push` | 34 scenes of three requests, one of which may end or misread, fair | acknowledged revisions stay; no file change is overwritten unseen; numbers grow; what a push puts on a line was verified; sealed steps, cached segments and lookups agree with the line; mapped names have metadata; every request is answered |

The three violations are disagreements between the code and its own comments; `PROJECT.json` quotes
both sides of each.

Four more disagreements were met and have no run of their own:

* A directory that is deleted and created again before an epoch lands looks unchanged to a store
  that knew none (`store_lock.rs:1099`); `NoForeignStale` leaves that case out.
* A forced push leaves the sealed steps and cached segments of the old line, and lookups answer
  from them, where `cache/revision.rs:535` says that an unusable entry "costs time rather than
  correctness"; `StepsOnLine` and `FindsOnLine` leave out branches with a forced push.
* An inline store that waited for another which then failed or was dropped returns Ok with nothing
  stored (`write.rs:842`), where `write.rs:766` says it "returns only after the terminal store entry
  is written"; `WrittenHeld` names this as its one exception.
* A failed read of the branch a name maps to is taken for a stale mapping (`branch_push.rs:1148`),
  where `branch_push.rs:1137` says "A store that cannot answer is reported rather than read as a
  mismatch"; `Misreads` models it.

### What no property covers

Beside the hazards `PROJECT.json` notes as open, these were met and are left uncovered:

* two creations of one name both find it free (`branch.rs:1617`), a deletion erases a mapping it
  checked a step earlier (`branch.rs:2147`), and protecting a branch stores metadata back without a
  swap (`branch.rs:2228`): all three are modelled, and the code promises nothing about the outcome;
* a re-sent push is declined though it landed, once renumbering gave it another address
  (`branch_push.rs:1308`), and a push that read the metadata before the branch was protected still
  moves the head (`branch_push.rs:1060`): both are modelled, nothing rules them out;
* a lookup whose walk cannot read a revision answers `NOT_FOUND` (`revision_list.rs:368`), as it does
  for a number the branch does not have: modelled, and the one exception of `FindsOnLine`;
* a sweep that fails leaves its buckets flagged and nothing scheduled (`mutable_store.rs:1446`),
  as documented there: `FlagsSettle` is checked without failures;
* zeroing that fails after the tombstone is durable is never tried again
  (`immutable_store.rs:3393`), and a tombstone beside other references is only scheduled for flush
  (`immutable_store.rs:3367`);
* count eviction with a fan-out between its cutoff and its removals (`immutable_store.rs:4119`),
  verify with heal beside a fan-out (`immutable_store.rs:6401`) and the repair after power loss
  (`immutable_store.rs:1540`): not modelled;
* a damaged local payload that is stored over without force (`write.rs:1213`): stores start from
  whole payloads.

### Bounds

* Store lock: two uses are what it takes for one to release while the other acquires.  Two
  nonces and generations with counts up to three allow a directory to be deleted and created again, and
  written before and after.
* Mutable group: three keys with threshold 1 take a group up all three levels, by single steps and
  by a jump.  Two keys suffice where only one fan-out matters.  One failure with one stop reaches
  every interrupted commit.
* Gate: with `MaxEpoch` 3 each parity is used again after it was closed.
* Immutable group: two associations of one hash and one of another; packfiles of two slots.  Each
  scene of `MCImmutableGroup` names its contents, actors, and how many puts, passes, evictions,
  faults and stops it allows.  All mixes of all actors at once are out of TLC's reach.
* Fragments: one content in two contexts and another, the root of a list.  Two stores and a load of
  one address cover leader, follower and reader; a scene names how many mishaps it allows, one or
  two, and one eviction.
* Branches: `Step` 2 with numbers up to `MaxBoundary` 8 and a merged line of four revisions closes
  no, one or two segments with a push, and skips numbers.  Three requests let two race while
  the third re-sends, looks up or renames; one of them may end early, misread or fail to write a key
  (`MaxEnds` 1).  Of the four first revisions one was not uploaded and one in part (`FirstUploads`); scenes
  create branches at them, push on them, merge them, and do the same with what another request sent.

`CHECK_DEADLOCK FALSE` is set for the store lock, whose bounded epochs and generations run out, and for
`FragmentStore` and `BranchService`, whose calls end; there `EveryCallReturns` and
`EveryRequestAnswered` say that nobody is stuck.  In `ImmutableGroup` the only idle stutter (`Rest`) needs every actor to be at rest, so an actor
stuck at a lock, a drain or a permit is a deadlock that TLC reports.

### Fairness

Tasks the runtime polls go on: an acquisition past the flock, flushes, sweeps, retried releases,
holders inside `hold` and `release`.  Nothing makes an operation begin or end, or another process
let the flock go.  Strong fairness is assumed in three places: where a task waits in the queue of
a tokio `Mutex` or `RwLock`, which grant in order of arrival (`LockDraining`, `FlushLock`,
`FanOutMove` and the like); for a sweep that contends with flushes; and for `EndFlush`, a task that
needs only a short mutex.  A hold of an earlier epoch is dropped in time; one of the current epoch
need not be.  `FragmentStore` and `BranchService` assume only that some call that can go on does
(one weak fairness over all steps): no call is favoured, and failures, drops and evictions are never
owed.

## Proofs

For every value of the constants, from the named assumptions of the modules:

* `StoreLockProofs!TypeCorrect`: `StoreLock` is well typed.  `TypeOK` alone is not inductive: the
  strengthening `GateOK` says that an acquisition under way is one of its own process.
* `StoreLockProofs!FlockExclusive`: every guard, covered operation, flagged bucket and flush in
  flight is under a flock its process has.  The invariant `Exclusive` adds, per process, where an
  acquisition stands in each phase (`AtGate`) and that the claims of one use are apart (`Claims`):
  a release says nothing about an acquisition that has the flock and no guard yet.  Each step is
  one process's (`Only`), so each action is argued for that process alone.
* `StoreLockProofs!CurrentIsOnDisk`, `ForeignStaleIsSeen`, `WritesAreAnnounced`: what a process that
  has the flock takes to be the epoch is the one on disk, or unreadable, except between writing an
  advance and recording it; no operation reads state that another process changed, or of a directory
  since deleted; files change only once the epoch is stale to every store of another process.
* `StoreLockProofs!EpochsAreNew`, an action property: an epoch written differs from what every store
  has observed.
* `PayloadGateProofs!DrainsWait`: a drain that returned awaits nobody.  The invariant says that
  each counter is the number of holders counted in it, and for each drain which parity the holds it
  awaits were counted under in each phase.
* `PayloadGateProofs!GateImplemented`: the gate implements `DrainGate`, which is what
  `ImmutableGroup` is composed with.
* `MutableGroupProofs!LatestHeld`, `LatestLoaded`, `FlagsSuffice`, `FlushedStays`: no fan-out, lazy
  read, failed write or commit loses the last value of a key; a load answers it; while nobody holds
  the flush lock, a bucket that is not flagged is on disk; what a flush covered stays there.  All follow from `Inv` of
  `MutableGroupInvariant` (below).
* `MutableGroupProofs!MapImplemented`: the group implements `DurableMap`.  A store is a step of the
  map, a stop its crash, and every other step leaves the last values and takes no key on disk back
  (`Grows`).
* `FragmentStoreProofs!FlagsAreTrue`, `KeysAreWhole`, `FetchesAreChecked`, `LoadsFailOnTheirOwn`:
  durable flags and published keys are true of the remote; a load that does not trust the remote
  gets no wrong or broken payload from a fetch, its own or a shared one; a load fails only where a
  fetch of its address did.
* `FragmentStoreProofs!LandedIsSeen`, an action property: a load gives up on the local store only
  when no store that has dropped its guard left its payload there.
* `BranchServiceProofs!PushesKeepUpdates`: a push that is not forced changes only files that are as
  it based them on, whatever other requests did between its reads and its swap.
* `BranchServiceProofs!NamesDescribed`: a name maps only to a branch with metadata.
* `BranchLineProofs!NumbersOnLinesGrow`, `LinesAreWhole`, `AcknowledgedStays`: down every line the
  numbers get smaller; a revision on it was verified, parents included, or is at or below one a
  client named without a check; a push that was answered is and stays on the line, unless a push
  was forced.
* `BranchLineProofs!KeysAreOnLine`, `LookupsAreRight`: on a branch without a forced push, step keys
  and cached segments say what the line says, and lookups find what is on it and find nothing only
  where their line has nothing, though reads and writes of keys fail on the way.

### The arguments

*Epochs.*  That an operation reads nothing stale follows from what its claim compared, perhaps long
before: an epoch, or a generation.  `Epochs` says of every epoch that a store observed, or that a
task is about to record, that it is not ahead of the disk (`Ordered`), and of a stamp about to be
written that it is above all of them (`Knows`, `Unseen`), so that after an advance no other process has
the epoch on disk (`Announced`).  Whatever is changed is changed under such an advance (`Writes`).
So a store whose epoch is the one on disk has what is there (`Believes`), and what a process takes
to be up to date is, by phase of the acquisition at its gate (`Trusts`).  The task that records an advance
may outlive its acquisition and its flock: then another process may have written since, and what it
records must not be taken for the epoch on disk.  A step beside the gate changes none of this
(`Beside`); three steps change it for other processes: a write that lands, an epoch that lands, and
a deletion of the directory.

*The mutable group.*  That the last value is held is not inductive: while a commit is under way it
is in memory, in a `.new` file or in the old file, depending on how far the commit is and which
files failed.  `Inv` says, step by step of whoever holds the flush lock, what the files are
(`Disk`), what the process knows of the levels (`Levels`), which buckets are in memory (`Buckets`)
and what the commit has written (`Commit`); and for each key that the disk is between what was
flushed and what was stored (`Durable`), that a load would find the last value (`Held`), that a
bucket that must still be written is flagged or being written (`Flagged`), and that what a write or
a commit is about to put on disk is not older than what is there nor than what its flush covers
(`Chosen`, `InFlight`, by `Fit`).  The point of a commit is the appearance of the file
`level.pending`: before it the disk is read through the old files, after it through the renamed ones.
Clients and waiting tasks change none of that, so a lemma each covers them (`UserKeeps`,
`TaskKeeps`, `QuietKeeps`, `EndKeeps`).

*Fragments.*  A flag is set by a task that learned earlier that the remote has the payload, so
`Claims` says it of everything a task has in hand: its own flags, what a query showed it, what it
reported, and for a list what it knows of the chunks.  As the remote loses nothing, a claim stays
true.  `Loading` follows a fetch from the leader through the channel to its followers; `Guarded` and
`Counted` are the order of the two halves of a guard's drop: once it is gone, the count has moved
past what the load read.

*Branches.*  `Shaped` says what a request asks for and which fields its call has; each step changes
the call of one request (`Calls`), so an action is argued for that request alone, and one lemma
carries it over to the others.  `Kept` says that heads, and what requests hold on to, are revisions of the
store, and that a push about to store a revision read the head it is based on (`Based`).  Revisions
are only added (`Extends`), so this stays true until the swap, which fails when the head moved; a
merge is made on the head it swaps.  `Described` adds what a request that is going to map a name
read or wrote of the metadata (`Knows`), which nobody takes away: a deletion unmaps the name and
leaves the metadata.  `LineInv` adds that every revision is numbered above its parents (`Stored`), that what a call
has in hand is sound and on the line (`Fits`, `Reaches`), and that every key is what the line says
(`Keyed`).  A step moves a head only up its
line, so what was on it stays on it, and a boundary that was closed stays closed with the same
segment (`Advances`).  `WholeInv` adds what a call has verified (`Checks`): a push that stores or merges,
the revision it was sent, whose base the renumbered revision keeps.  So what a move puts on a line is
verified, a merge of such a revision on a head that was read, or at or below what a creation or a
forced push named (`Covers`), and lines only grow above that.  Lookups need one more thing: on the
default branch everything can be read, unless a push was forced (`Intact`), so that a walk that finds
nothing has seen the whole line.

*Lines.*  `Line` is a recursive function.  The induction theorems of the library take an operator
that the provers cannot instantiate, so the lemmas about lines (and the one about `LevelFor`) argue
by least counterexample: every non-empty set of naturals has a least element, which the library
has as a fact about a well-founded relation.  First, `LineUnfolds` shows that the
function the definition asks for exists, as parents have smaller addresses.

### The assumptions

Named, in the modules that declare the constants, and evaluated by TLC on the instances:

* `MutableGroup!ConstantsAssumption`: the ladder is a set of positive levels, 1 and the initial level among
  them, with a highest that every level divides; the keys are finitely many and each has its byte; at
  least one value can be stored; absent files and holders are told apart from real ones.
* `FragmentStore!ScenesAssumption`: a scene starts as earlier calls left the stores (a durable entry
  is on the remote, one that is not has its payload), and the address of a list says which
  chunks it has.
* `BranchService!BranchAssumption` and `ScenesAssumption`: absent values are told apart from real
  ones, the default branch starts with revisions uploaded in full, and requests are of the kinds the
  service has, a lookup asking for a number whose boundary the bounds include.

Each inductive invariant was first checked by TLC on the instances of the runs (`Epochs` on
`lock_shared`, `lock_siblings` and `lock_apart`, 85,095, 1,257,389 and 550,913 states; `Inv` of the
group on `group_flush` and `group_sweep`, 618,761 and 1,664,023 states; `Inv` of the fragments on
`fragment_flights`, 204,200; `LineInv` and `WholeInv` on
`branch_push`, 178,050).

### Only model-checked

* All liveness (`FlockLetGo`, `GateLetGo`, `FlagsSettle`, `DrainReturns`, `EveryCallReturns`,
  `EveryRequestAnswered`): beyond the prover.
* `ImmutableGroup`: its invariant would have to say of every location that an actor has in hand
  what compaction, zeroing and truncation may still do to it.
* `ReloadAlone` and `NoOrphanStale` of `StoreLock`, which `lock_shared` checks for a process with one
  store object.  `ReloadAlone` is not a theorem: TLC finds that with a sibling object in the process
  it fails.  While one operation runs on a store, a write of the sibling advances the epoch, so the next
  operation on the store is not current, goes to the gate and reloads under the first; `try_join`
  only keeps operations from starting during a reload.
* `WrittenHeld` and `TypeOK` of `FragmentStore`: the first depends on which scenes allow an eviction,
  the second counts the tasks of a tracker, a cardinality that changes with each of them.
* `ListComplete` of `MutableGroup`.

## Plan

1. `LockService`: all-or-nothing locks and the roll-back of a failed request.
2. `SingleFlight`: no follower gets a value older than its join or than an invalidation.
3. `Reconnect`: gRPC and QUIC reconnects, the client container of the replicated store.
4. `LockOrder`: the order in which nested and sibling stores are claimed.
5. Immutable store: verify and heal, power loss with recorded sizes; liveness of passes and
   obliterates.
6. Branches: lookups that cross into a parent branch, paging, notifications.
7. Proofs: `EntriesWhole` of `ImmutableGroup` from an invariant about locations and the gate;
   `ListComplete`.
8. The mutable group and fragments with a reload beside a running operation, which a sibling object
   brings about (`ReloadAlone` above).

## Checking

`tlc -config X.cfg M` with the modules and configurations `PROJECT.json` names; `tlapm M.tla` for
the eight proof modules.  From nothing they take up to half an hour each.
