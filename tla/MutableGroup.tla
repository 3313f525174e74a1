---------------------------- MODULE MutableGroup ----------------------------
(***************************************************************************)
(* One group of the local mutable store: its buckets in memory, the files  *)
(* they are written to, and the fan-out that spreads the group over more   *)
(* buckets (lore-storage/src/local/mutable_store.rs and fan_out.rs).       *)
(*                                                                         *)
(* Clients load, store, compare-and-swap and list keys; explicit flushes   *)
(* and delayed sweeps write the buckets out, one at a time under the       *)
(* group's flush lock; the process may stop between any two steps, and the *)
(* next open rolls an interrupted fan-out commit forward.  Every access to *)
(* a file is a step of its own and may fail.                               *)
(*                                                                         *)
(* A key's value is the number of times it was changed, 0 for a key never  *)
(* stored.  A key is reduced to the byte of its hash that picks a bucket.  *)
(***************************************************************************)
EXTENDS Integers, FiniteSets

CONSTANTS
    Key,            \* the keys of the group
    Byte,           \* the second byte of a key's hash, scaled to LevelMax
    Ladder,         \* LEVEL_LADDER
    InitialLevel,   \* MutableStoreSettings::initial_fan_out_level
    Threshold,      \* MutableStoreSettings::fan_out_threshold
    Scenes,         \* what a behaviour may hold: the store was written at
                    \* TypedItems (legacy), sweeps run, lists run
    Client,         \* tasks that load and store keys
    Flush,          \* tasks that flush the store
    Sweep,          \* delayed flushes of the group that run
    Opener,         \* the task that opens or reloads the store
    Nobody,         \* no task holds the flush lock
    NoFile,         \* the content of a file that is not there
    MaxValue,       \* bound: changes of a key
    MaxFaults,      \* bound: file operations that fail
    MaxStops        \* bound: times the process stops

LevelMax == CHOOSE m \in Ladder : \A n \in Ladder : n <= m
Bucket == 0 .. LevelMax - 1
Value == 0 .. MaxValue
Contents == [Key -> Value]
Empty == [k \in Key |-> 0]

ASSUME ConstantsAssumption ==
    /\ IsFiniteSet(Key)
    /\ Ladder \subseteq Nat \ {0}
    /\ 1 \in Ladder /\ InitialLevel \in Ladder
    /\ \E m \in Ladder : \A n \in Ladder : n <= m /\ m % n = 0
    /\ Byte \in [Key -> Bucket]
    /\ Threshold \in Nat \ {0}
    /\ Scenes \subseteq [legacy : BOOLEAN, sweeps : BOOLEAN, lists : BOOLEAN]
    /\ Nobody \notin Flush \cup Sweep \cup {Opener}
    /\ Opener \notin Flush \cup Sweep
    /\ Flush \cap Sweep = {}
    /\ NoFile \notin Contents
    /\ MaxValue \in Nat \ {0} /\ MaxFaults \in Nat /\ MaxStops \in Nat

VARIABLES
    file,            \* the bucket files index_<bb>
    new,             \* their twins index_<bb>.new
    marker,          \* the level marker, or 0
    pendingFile,     \* level.pending, or 0
    dir,             \* whether the group's directory exists
    scene,           \* which of Scenes the behaviour is
    status,          \* the process: "down", "opening", "reloading" or "up"
    entry,           \* MutableStoreBucket::entry
    deserialized,    \* MutableStoreBucket::deserialized
    dirty,           \* MutableStoreGroup::dirty
    bucketCount,     \* MutableStoreGroup::bucket_count
    committedLevel,  \* MutableStoreGroup::committed_level
    pendingLevel,    \* MutableStoreGroup::pending_level
    fanOutAware,     \* MutableStoreGroup::serialize_version is LazyFanOut
    scheduled,       \* MutableStoreGroup::scheduled
    client,          \* what each client does
    list,            \* what a list of the group does
    pc,              \* where each flush and each sweep is
    sweepAt,         \* the bucket a sweep is at
    holder,          \* the task that holds the flush lock
    step,            \* where that task is in its work
    at,              \* the bucket it is at
    written,         \* UnfinishedCommit::wrote_new
    target,          \* the level it fans out to
    failed,          \* first_err is some
    gathered,        \* the content of the write in flight
    latest,          \* history: the value last given to a key that was not lost
    since,           \* history: `latest' when a flush was called
    flushed,         \* history: what flushes that returned Ok covered
    faults,          \* how many file operations failed
    stops            \* how many times the process stopped

diskVars   == <<file, new, marker, pendingFile, dir, scene>>
bucketVars == <<entry, deserialized>>
levelVars  == <<bucketCount, committedLevel, pendingLevel, fanOutAware>>
memVars    == <<bucketVars, dirty, levelVars, scheduled>>
userVars   == <<client, list>>
workVars   == <<step, at, written, target, failed, gathered>>
taskVars   == <<pc, sweepAt, holder, workVars>>
ghostVars  == <<latest, since, flushed>>
boundVars  == <<faults, stops>>
vars == <<diskVars, status, memVars, userVars, taskVars, ghostVars, boundVars>>

-----------------------------------------------------------------------------
(***************************************************************************)
(* The layout arithmetic of fan_out.rs                                     *)
(***************************************************************************)

\* The high bits of the byte: 256 / bucket_count is a power of two, by which
\* the code divides with a shift.
BucketIndexFor(k, count) ==
    IF count <= 1 THEN 0 ELSE Byte[k] \div (LevelMax \div count)

LevelFor(level, most, threshold) ==
    LET required == (level * most + threshold - 1) \div threshold
        fitting == {m \in Ladder : m >= required}
    IN  IF fitting = {} THEN LevelMax
        ELSE CHOOSE m \in fitting : \A n \in fitting : m <= n

Keys(content) == {k \in Key : content[k] # 0}
Len(i) == Cardinality(Keys(entry[i]))
ContentOf(f) == IF f = NoFile THEN Empty ELSE f

\* What the next open would find: recover_level_transition first, then the
\* marker, and every bucket where there is none (read_group_level).
RecoveredLevel == IF pendingFile # 0 THEN pendingFile
                  ELSE IF marker # 0 THEN marker ELSE LevelMax
RecoveredFile(i) == IF i < pendingFile /\ new[i] # NoFile THEN new[i] ELSE file[i]
OnDisk(k) == ContentOf(RecoveredFile(BucketIndexFor(k, RecoveredLevel)))[k]

\* What a load finds: the bucket in memory, or the file it would read.
InMemory(k) ==
    LET i == BucketIndexFor(k, bucketCount)
    IN  IF deserialized[i] THEN entry[i][k] ELSE ContentOf(file[i])[k]

\* The bucket, read from its file unless it was before (deserialize).
Loaded(i) == IF deserialized[i] THEN entry[i] ELSE ContentOf(file[i])

Fault == faults < MaxFaults /\ faults' = faults + 1 /\ UNCHANGED stops

NoClient == [pc |-> "idle", key |-> CHOOSE k \in Key : TRUE, count |-> 0]
NoList == [pc |-> "idle", count |-> 0, at |-> 0, began |-> {}, sent |-> Empty]

Init ==
    /\ scene \in Scenes
    /\ file \in {[i \in Bucket |-> NoFile]} \cup
                (IF scene.legacy
                 THEN {[i \in Bucket |-> IF \E k \in Key : Byte[k] = i
                                         THEN [k \in Key |-> IF Byte[k] = i THEN 1 ELSE 0]
                                         ELSE NoFile]}
                 ELSE {})
    /\ dir \in BOOLEAN
    /\ dir => scene.legacy
    /\ (\E i \in Bucket : file[i] # NoFile) => dir
    /\ new = [i \in Bucket |-> NoFile]
    /\ marker = 0
    /\ pendingFile = 0
    /\ status = "down"
    /\ entry = [i \in Bucket |-> Empty]
    /\ deserialized = [i \in Bucket |-> FALSE]
    /\ dirty = [i \in Bucket |-> FALSE]
    /\ bucketCount = 1
    /\ committedLevel = 0
    /\ pendingLevel = 0
    /\ fanOutAware = TRUE
    /\ scheduled = FALSE
    /\ client = [c \in Client |-> NoClient]
    /\ list = NoList
    /\ pc = [t \in Flush \cup Sweep |-> "idle"]
    /\ sweepAt = [s \in Sweep |-> 0]
    /\ holder = Nobody
    /\ step = "none"
    /\ at = 0
    /\ written = {}
    /\ target = 0
    /\ failed = FALSE
    /\ gathered = Empty
    /\ latest = [k \in Key |-> OnDisk(k)]
    /\ since = [f \in Flush |-> Empty]
    /\ flushed = Empty
    /\ faults = 0
    /\ stops = 0

-----------------------------------------------------------------------------
(***************************************************************************)
(* The task that holds the flush lock                                      *)
(***************************************************************************)

\* A task takes the lock, once no write of an earlier holder is in flight,
\* and goes to its first step.
Take(t, first) ==
    /\ holder = Nobody
    /\ holder' = t
    /\ step' = first
    /\ at' = 0
    /\ written' = {}
    /\ target' = 0
    /\ failed' = FALSE
    /\ gathered' = Empty

\* It lets go, and its locals go with it.
LetGo ==
    /\ holder' = Nobody
    /\ step' = "none"
    /\ at' = 0
    /\ written' = {}
    /\ target' = 0
    /\ failed' = FALSE
    /\ gathered' = Empty

Goto(next) ==
    /\ step' = next
    /\ at' = 0
    /\ UNCHANGED <<holder, written, target, failed, gathered, pc, sweepAt>>

\* A flush returns.  One that returns Ok covers what was stored when it was
\* called.
Return(f, ok) ==
    /\ pc' = [pc EXCEPT ![f] = IF ok THEN "ok" ELSE "idle"]
    /\ flushed' = IF ok THEN [k \in Key |-> IF since[f][k] > flushed[k]
                                            THEN since[f][k] ELSE flushed[k]]
                  ELSE flushed
    /\ since' = [since EXCEPT ![f] = Empty]
    /\ UNCHANGED <<latest, sweepAt>>

\* The holder's work ends: a flush returns, a sweep goes to its next bucket
\* or gives up.
EndWork(ok) ==
    /\ LetGo
    /\ \/ holder \in Flush /\ Return(holder, ok)
       \/ /\ holder \in Sweep
          /\ pc' = [pc EXCEPT ![holder] = IF ok THEN "next" ELSE "idle"]
          /\ sweepAt' = [sweepAt EXCEPT ![holder] = IF ok THEN @ + 1 ELSE 0]
          /\ UNCHANGED ghostVars

\* A commit that does not complete flags the buckets it wrote again
\* (UnfinishedCommit::drop).
Abandon ==
    /\ dirty' = [i \in Bucket |-> dirty[i] \/ i \in written]
    /\ EndWork(FALSE)

FanOutUncommitted ==
    \/ pendingLevel # 0
    \/ committedLevel # 0 /\ committedLevel # bucketCount

NothingToFlush == ~FanOutUncommitted /\ \A i \in Bucket : ~dirty[i]

-----------------------------------------------------------------------------
(***************************************************************************)
(* recover_level_transition, run by an open, by a reload, and by a flush   *)
(* or a sweep after a commit that failed                                   *)
(***************************************************************************)

\* After the roll forward the opener reads the levels; a flush or a sweep
\* records the level as committed and goes on (roll_pending_commit_forward).
AfterRoll(t) == IF t = Opener THEN "survey" ELSE IF t \in Flush THEN "recheck" ELSE "initial"

RollFails ==
    /\ Fault
    /\ \/ /\ holder = Opener
          /\ LetGo
          /\ status' = IF status = "opening" THEN "down" ELSE "up"
          /\ UNCHANGED <<pc, sweepAt, ghostVars>>
       \/ holder # Opener /\ EndWork(FALSE) /\ UNCHANGED status

RollRename ==
    /\ step = "roll"
    /\ \/ /\ at < pendingFile
          /\ file' = [file EXCEPT ![at] = IF new[at] = NoFile THEN @ ELSE new[at]]
          /\ new' = [new EXCEPT ![at] = NoFile]
          /\ at' = at + 1
          /\ UNCHANGED <<step, holder, written, target, failed, gathered, pc, sweepAt>>
          /\ UNCHANGED <<status, ghostVars, boundVars>>
       \/ /\ at = pendingFile
          /\ Goto("rollMarker")
          /\ UNCHANGED <<file, new, status, ghostVars, boundVars>>
       \/ at < pendingFile /\ RollFails /\ UNCHANGED <<file, new>>
    /\ UNCHANGED <<marker, pendingFile, dir, scene, memVars, userVars>>

RollMarker ==
    /\ step = "rollMarker"
    /\ \/ /\ marker' = pendingFile
          /\ Goto("rollDelete")
          /\ UNCHANGED <<status, ghostVars, boundVars>>
       \/ RollFails /\ UNCHANGED marker
    /\ UNCHANGED <<file, new, pendingFile, dir, scene, memVars, userVars>>

RollDelete ==
    /\ step = "rollDelete"
    /\ \/ /\ pendingFile' = 0
          /\ Goto(AfterRoll(holder))
          /\ committedLevel' = IF holder = Opener THEN committedLevel ELSE pendingLevel
          /\ pendingLevel' = IF holder = Opener THEN pendingLevel ELSE 0
          /\ UNCHANGED <<status, ghostVars, boundVars>>
       \/ RollFails /\ UNCHANGED <<pendingFile, committedLevel, pendingLevel>>
    /\ UNCHANGED <<file, new, marker, dir, scene, userVars>>
    /\ UNCHANGED <<bucketVars, dirty, bucketCount, fanOutAware, scheduled>>

-----------------------------------------------------------------------------
(***************************************************************************)
(* Opening, reloading and stopping                                         *)
(***************************************************************************)

\* new_claimed: the store is opened under a claim, so nothing else of any
\* process is at its files.
Open ==
    /\ status = "down"
    /\ status' = "opening"
    /\ Take(Opener, IF pendingFile # 0 THEN "roll" ELSE "survey")
    /\ UNCHANGED <<diskVars, memVars, userVars, pc, sweepAt, ghostVars, boundVars>>

\* refresh, by a claim that found the epoch changed: the process kept nothing
\* unflushed and runs no operation.
Reload ==
    /\ status = "up"
    /\ \A c \in Client : client[c].pc = "idle"
    /\ \A t \in Flush \cup Sweep : pc[t] \in {"idle", "ok"}
    /\ list.pc = "idle"
    /\ \A i \in Bucket : ~dirty[i]
    /\ status' = "reloading"
    /\ Take(Opener, IF pendingFile # 0 THEN "roll" ELSE "survey")
    /\ UNCHANGED <<diskVars, memVars, userVars, pc, sweepAt, ghostVars, boundVars>>

\* The level a group starts at that holds no bucket file and no marker.
UnwrittenGroupLevel(aware) == IF aware THEN InitialLevel ELSE LevelMax

\* What read_group_level finds: a marker, bucket files that never fanned out,
\* or neither.
GroupLevel(aware) ==
    IF marker # 0 THEN marker
    ELSE IF \E i \in Bucket : file[i] # NoFile THEN LevelMax
    ELSE UnwrittenGroupLevel(aware)

\* The rest of survey_groups, then build_groups or invalidate.
Survey ==
    LET aware == ~dir \/ marker # 0 \/ ~scene.legacy IN
        /\ step = "survey"
        /\ LetGo
        /\ status' = "up"
        /\ entry' = [i \in Bucket |-> Empty]
        /\ deserialized' = [i \in Bucket |-> FALSE]
        /\ dirty' = [i \in Bucket |-> FALSE]
        /\ bucketCount' = GroupLevel(aware)
        /\ committedLevel' = marker
        /\ pendingLevel' = 0
        /\ fanOutAware' = aware
        /\ UNCHANGED <<diskVars, scheduled, userVars, pc, sweepAt, ghostVars, boundVars>>

\* The process stops: everything in memory is lost, and a write in flight
\* leaves the file as it was.
Stop ==
    /\ status # "down"
    /\ stops < MaxStops
    /\ stops' = stops + 1
    /\ status' = "down"
    /\ dirty' = [i \in Bucket |-> FALSE]
    /\ entry' = [i \in Bucket |-> Empty]
    /\ deserialized' = [i \in Bucket |-> FALSE]
    /\ scheduled' = FALSE
    /\ client' = [c \in Client |-> NoClient]
    /\ list' = NoList
    /\ pc' = [t \in Flush \cup Sweep |-> "idle"]
    /\ sweepAt' = [s \in Sweep |-> 0]
    /\ LetGo
    /\ latest' = [k \in Key |-> OnDisk(k)]
    /\ since' = [f \in Flush |-> Empty]
    /\ UNCHANGED <<diskVars, levelVars, flushed, faults>>

-----------------------------------------------------------------------------
(***************************************************************************)
(* Loads, stores and swaps                                                 *)
(***************************************************************************)

ClientOnly == UNCHANGED <<diskVars, status, levelVars, list, taskVars, since, flushed>>

\* An operation reads bucket_count and picks the bucket to lock.
Resolve(c, k) ==
    /\ status = "up"
    /\ client[c].pc = "idle"
    /\ client' = [client EXCEPT ![c] = [pc |-> "resolved", key |-> k, count |-> bucketCount]]
    /\ UNCHANGED <<bucketVars, dirty, scheduled, latest, boundVars>>
    /\ ClientOnly

\* Holding the bucket, it finds that a fan-out changed the layout meanwhile.
Retry(c) ==
    /\ client[c].pc = "resolved"
    /\ client[c].count # bucketCount
    /\ client' = [client EXCEPT ![c].count = bucketCount]
    /\ UNCHANGED <<bucketVars, dirty, scheduled, latest, boundVars>>
    /\ ClientOnly

\* The bucket an operation holds, once the layout is the one it resolved by.
At(c) == BucketIndexFor(client[c].key, client[c].count)
Reached_AnyLayout(c) == client[c].pc = "resolved"
Reached(c) == client[c].pc = "resolved" /\ client[c].count = bucketCount

\* Reading the bucket's file fails, and with it the operation.
Unreadable(c) ==
    /\ Reached(c)
    /\ ~deserialized[At(c)]
    /\ Fault
    /\ client' = [client EXCEPT ![c] = NoClient]
    /\ UNCHANGED <<bucketVars, dirty, scheduled, latest>>
    /\ ClientOnly

\* A load, a store of the value the key has, or a swap that finds a value it
\* did not expect: the bucket is read and not changed, and the value in it
\* answered.
Answer(c) == Loaded(At(c))[client[c].key]
Load(c) ==
    /\ Reached(c)
    /\ entry' = [entry EXCEPT ![At(c)] = Loaded(At(c))]
    /\ deserialized' = [deserialized EXCEPT ![At(c)] = TRUE]
    /\ client' = [client EXCEPT ![c] = NoClient]
    /\ UNCHANGED <<dirty, scheduled, latest, boundVars>>
    /\ ClientOnly

\* A store or a swap that changes the key, and flags its bucket while it
\* still holds the bucket's write lock.  With no delayed flush to schedule the
\* store returns.
Store(c) ==
    LET k == client[c].key IN
    /\ Reached(c)
    /\ Loaded(At(c))[k] < MaxValue
    /\ entry' = [entry EXCEPT ![At(c)] = [Loaded(At(c)) EXCEPT ![k] = @ + 1]]
    /\ deserialized' = [deserialized EXCEPT ![At(c)] = TRUE]
    /\ dirty' = [dirty EXCEPT ![At(c)] = TRUE]
    /\ latest' = [latest EXCEPT ![k] = Loaded(At(c))[k] + 1]
    /\ client' = [client EXCEPT ![c] = IF ~scene.sweeps THEN NoClient ELSE [@ EXCEPT !.pc = "flagged"]]
    /\ UNCHANGED <<scheduled, boundVars>>
    /\ ClientOnly

\* schedule_flush, after the bucket was unlocked; then the store returns.  A
\* sweep that is due and sleeps is `scheduled' itself.
ScheduleFlush(c) ==
    /\ client[c].pc = "flagged"
    /\ scheduled' = TRUE
    /\ client' = [client EXCEPT ![c] = NoClient]
    /\ UNCHANGED <<bucketVars, dirty, latest, boundVars>>
    /\ ClientOnly

-----------------------------------------------------------------------------
(***************************************************************************)
(* list: loads the group's buckets, then sends them under its layout       *)
(***************************************************************************)

ListOnly == UNCHANGED <<diskVars, status, dirty, levelVars, scheduled, client, taskVars, ghostVars>>

ListBegin ==
    /\ scene.lists
    /\ status = "up"
    /\ list.pc = "idle"
    /\ list' = [pc |-> "loading", count |-> bucketCount, at |-> 0,
                began |-> Keys(latest), sent |-> Empty]
    /\ UNCHANGED <<bucketVars, boundVars>>
    /\ ListOnly

\* load_group_buckets, one bucket.
ListLoad ==
    /\ list.pc = "loading"
    /\ list.at < list.count
    /\ \/ /\ entry' = [entry EXCEPT ![list.at] = Loaded(list.at)]
          /\ deserialized' = [deserialized EXCEPT ![list.at] = TRUE]
          /\ list' = [list EXCEPT !.at = @ + 1]
          /\ UNCHANGED boundVars
       \/ /\ ~deserialized[list.at]
          /\ Fault
          /\ list' = NoList
          /\ UNCHANGED bucketVars
    /\ ListOnly

\* send_group takes the layout for read and reads bucket_count under it.
ListLayout ==
    /\ list.pc = "loading"
    /\ list.at = list.count
    /\ list' = [list EXCEPT !.pc = "sending", !.count = bucketCount, !.at = 0]
    /\ UNCHANGED <<bucketVars, boundVars>>
    /\ ListOnly

ListSend ==
    /\ list.pc = "sending"
    /\ list.at < list.count
    /\ list' = [list EXCEPT !.at = @ + 1,
                            !.sent = [k \in Key |-> IF entry[list.at][k] # 0
                                                    THEN @[k] + 1 ELSE @[k]]]
    /\ UNCHANGED <<bucketVars, boundVars>>
    /\ ListOnly

ListEnd ==
    /\ list.pc = "sending"
    /\ list.at = list.count
    /\ list' = NoList
    /\ UNCHANGED <<bucketVars, boundVars>>
    /\ ListOnly

-----------------------------------------------------------------------------
(***************************************************************************)
(* flush, up to the lock                                                   *)
(***************************************************************************)

FlushCall(f) ==
    /\ status = "up"
    /\ pc[f] \in {"idle", "ok"}
    /\ pc' = [pc EXCEPT ![f] = "called"]
    /\ since' = [since EXCEPT ![f] = latest]
    /\ UNCHANGED <<diskVars, status, memVars, userVars, sweepAt, holder, workVars>>
    /\ UNCHANGED <<latest, flushed, boundVars>>

\* await_bucket_write: flags are read once no bucket write is in flight.
AwaitBucketWrite_Unlocked == TRUE
AwaitBucketWrite == holder = Nobody

\* Reads the flags under the lock (await_bucket_write), and claims the store
\* to write when one is set.
FlushCheck(f) ==
    /\ pc[f] = "called"
    /\ AwaitBucketWrite
    /\ \/ /\ \A i \in Bucket : ~dirty[i]
          /\ Return(f, TRUE)
          /\ UNCHANGED boundVars
       \/ /\ \E i \in Bucket : dirty[i]
          /\ pc' = [pc EXCEPT ![f] = "claimed"]
          /\ UNCHANGED <<sweepAt, ghostVars, boundVars>>
       \/ /\ \E i \in Bucket : dirty[i]
          /\ Fault
          /\ Return(f, FALSE)
    /\ UNCHANGED <<diskVars, status, memVars, userVars, holder, workVars>>

\* flush_all looks at the group, without waiting for its lock.
FlushScan(f) ==
    /\ pc[f] = "claimed"
    /\ \/ /\ holder = Nobody /\ NothingToFlush
          /\ Return(f, TRUE)
       \/ /\ ~(holder = Nobody /\ NothingToFlush)
          /\ pc' = [pc EXCEPT ![f] = "waiting"]
          /\ UNCHANGED <<sweepAt, ghostVars>>
    /\ UNCHANGED <<diskVars, status, memVars, userVars, holder, workVars, boundVars>>

FlushLock(f) ==
    /\ pc[f] = "waiting"
    /\ Take(f, IF pendingLevel # 0 THEN "roll" ELSE "recheck")
    /\ pc' = [pc EXCEPT ![f] = "working"]
    /\ UNCHANGED <<diskVars, status, memVars, userVars, sweepAt, ghostVars, boundVars>>

\* Another flusher may have drained the group.
FlushRecheck ==
    /\ step = "recheck"
    /\ IF (\A i \in Bucket : ~dirty[i]) /\ committedLevel = bucketCount
       THEN EndWork(TRUE)
       ELSE Goto("fanOut") /\ UNCHANGED ghostVars
    /\ UNCHANGED <<diskVars, status, memVars, userVars, boundVars>>

-----------------------------------------------------------------------------
(***************************************************************************)
(* maybe_fan_out_mutable_group                                             *)
(***************************************************************************)

\* Which way the buckets are written, once the level is settled.
WritePath == IF fanOutAware /\ committedLevel # bucketCount THEN "commit" ELSE "write"

\* The largest flagged bucket decides whether the group fans out.
FanOutScan ==
    LET sizes == {Len(i) : i \in {j \in 0 .. bucketCount - 1 : dirty[j]}} \cup {0}
        most == CHOOSE m \in sizes : \A n \in sizes : n <= m
        level == LevelFor(bucketCount, most, Threshold)
    IN  /\ step = "fanOut"
        /\ IF bucketCount < LevelMax /\ most > Threshold /\ level > bucketCount
           THEN /\ step' = "move"
                /\ target' = level
           ELSE /\ step' = WritePath
                /\ UNCHANGED target
        /\ at' = 0
        /\ UNCHANGED <<holder, written, failed, gathered, pc, sweepAt>>
        /\ UNCHANGED <<diskVars, status, memVars, userVars, ghostVars, boundVars>>

\* The bucket at a new level takes its entries from the buckets of the old,
\* those still on disk included.
Moved_InMemoryOnly(i, level) ==
    [k \in Key |-> IF BucketIndexFor(k, level) = i
                   THEN entry[BucketIndexFor(k, bucketCount)][k] ELSE 0]
Moved(i, level) ==
    [k \in Key |-> IF BucketIndexFor(k, level) = i
                   THEN Loaded(BucketIndexFor(k, bucketCount))[k] ELSE 0]

\* A list that sends holds the group's layout, which a fan-out waits for.
LayoutFree_Untaken == TRUE
LayoutFree == list.pc # "sending"

\* Under the layout and every bucket's lock: the buckets still on disk are
\* read, and every entry goes to its bucket at the new level.
FanOutMove ==
    LET to == 0 .. target - 1 IN
        /\ step = "move"
        /\ LayoutFree
        /\ entry' = [i \in Bucket |-> IF i \in to THEN Moved(i, target) ELSE entry[i]]
        /\ deserialized' = [i \in Bucket |-> deserialized[i] \/ i \in to]
        /\ dirty' = [i \in Bucket |-> dirty[i] \/ (i \in to /\ Moved(i, target) # Empty)]
        /\ bucketCount' = target
        /\ step' = IF fanOutAware /\ committedLevel # target THEN "commit" ELSE "write"
        /\ at' = 0
        /\ target' = 0
        /\ UNCHANGED <<holder, written, failed, gathered, pc, sweepAt>>
        /\ UNCHANGED <<committedLevel, pendingLevel, fanOutAware, scheduled>>
        /\ UNCHANGED <<diskVars, status, userVars, ghostVars, boundVars>>

\* A bucket that cannot be read fails the fan-out and the flush; the ones
\* before it were read.
FanOutFails ==
    /\ step = "move"
    /\ LayoutFree
    /\ \E j \in 0 .. bucketCount - 1 :
        /\ ~deserialized[j]
        /\ entry' = [i \in Bucket |-> IF i < j THEN Loaded(i) ELSE entry[i]]
        /\ deserialized' = [i \in Bucket |-> deserialized[i] \/ i < j]
    /\ Fault
    /\ EndWork(FALSE)
    /\ UNCHANGED <<diskVars, status, dirty, levelVars, scheduled, userVars>>

-----------------------------------------------------------------------------
(***************************************************************************)
(* The two-phase commit of flush_all                                       *)
(***************************************************************************)

\* A bucket write that fails flags its bucket again (SerializeFailureGuard),
\* and is the error the flush returns.
WriteFails == Fault /\ failed' = TRUE /\ dirty' = [dirty EXCEPT ![at] = TRUE]

CommitDir ==
    /\ step = "commit"
    /\ \/ /\ dir' = TRUE
          /\ Goto("new")
          /\ UNCHANGED <<dirty, ghostVars, boundVars>>
       \/ Fault /\ Abandon /\ UNCHANGED dir
    /\ UNCHANGED <<file, new, marker, pendingFile, scene, status>>
    /\ UNCHANGED <<bucketVars, levelVars, scheduled, userVars>>

\* One bucket: passed over, its flag settled, or its content claimed for its
\* .new file (serialize_to_new, up to the write).
NewBucket ==
    LET mustOverwriteOld == at < committedLevel IN
    /\ step = "new"
    /\ at < bucketCount
    /\ dirty' = [dirty EXCEPT ![at] = FALSE]
    /\ IF (~mustOverwriteOld /\ ~dirty[at]) \/ (entry[at] = Empty /\ ~mustOverwriteOld)
       THEN at' = at + 1 /\ UNCHANGED <<step, gathered>>
       ELSE step' = "newWrite" /\ gathered' = entry[at] /\ UNCHANGED at
    /\ UNCHANGED <<holder, written, target, failed, pc, sweepAt>>
    /\ UNCHANGED <<diskVars, status, bucketVars, levelVars, scheduled, userVars>>
    /\ UNCHANGED <<ghostVars, boundVars>>

\* The write lands, or fails and flags the bucket again; the loop goes on.
NewLands ==
    /\ step = "newWrite"
    /\ \/ /\ new' = [new EXCEPT ![at] = gathered]
          /\ written' = written \cup {at}
          /\ UNCHANGED <<dirty, failed, boundVars>>
       \/ WriteFails /\ UNCHANGED <<new, written>>
    /\ step' = "new"
    /\ at' = at + 1
    /\ gathered' = Empty
    /\ UNCHANGED <<holder, target, pc, sweepAt>>
    /\ UNCHANGED <<file, marker, pendingFile, dir, scene, status>>
    /\ UNCHANGED <<bucketVars, levelVars, scheduled, userVars, ghostVars>>

\* With .new files on disk the commit goes on to its commit point.
AfterNew_NoCommitPoint == IF written = {} THEN "onlyMarker" ELSE "rename"
AfterNew == IF written = {} THEN "onlyMarker" ELSE "stale"

NewDone ==
    /\ step = "new"
    /\ at = bucketCount
    /\ \/ failed /\ Abandon
       \/ /\ ~failed
          /\ Goto(AfterNew)
          /\ UNCHANGED <<dirty, ghostVars>>
    /\ UNCHANGED <<diskVars, status, bucketVars, levelVars, scheduled, userVars, boundVars>>

\* No .new file was written, so there is nothing for recovery to roll
\* forward, and the marker alone is written.
OnlyMarker ==
    /\ step = "onlyMarker"
    /\ \/ /\ marker' = bucketCount
          /\ committedLevel' = bucketCount
          /\ EndWork(TRUE)
          /\ UNCHANGED boundVars
       \/ Fault /\ EndWork(FALSE) /\ UNCHANGED <<marker, committedLevel>>
    /\ UNCHANGED <<file, new, pendingFile, dir, scene, status>>
    /\ UNCHANGED <<bucketVars, dirty, bucketCount, pendingLevel, fanOutAware, scheduled, userVars>>

\* remove_stale_files, which may stop part way.
RemoveStale ==
    /\ step = "stale"
    /\ \/ /\ new' = [i \in Bucket |-> IF i \in written THEN new[i] ELSE NoFile]
          /\ Goto("pending")
          /\ UNCHANGED <<dirty, ghostVars, boundVars>>
       \/ /\ Fault
          /\ \E gone \in SUBSET {i \in Bucket \ written : new[i] # NoFile} :
                new' = [i \in Bucket |-> IF i \in gone THEN NoFile ELSE new[i]]
          /\ Abandon
    /\ UNCHANGED <<file, marker, pendingFile, dir, scene, status>>
    /\ UNCHANGED <<bucketVars, levelVars, scheduled, userVars>>

\* The commit point.
CommitPending ==
    /\ step = "pending"
    /\ \/ /\ pendingFile' = bucketCount
          /\ pendingLevel' = bucketCount
          /\ Goto("rename")
          /\ UNCHANGED <<dirty, ghostVars, boundVars>>
       \/ Fault /\ Abandon /\ UNCHANGED <<pendingFile, pendingLevel>>
    /\ UNCHANGED <<file, new, marker, dir, scene, status>>
    /\ UNCHANGED <<bucketVars, bucketCount, committedLevel, fanOutAware, scheduled, userVars>>

\* Each .new file is renamed over its bucket file; a failed rename leaves
\* the others to be tried.
CommitRename ==
    /\ step = "rename"
    /\ at < bucketCount
    /\ \/ /\ at \in written
          /\ file' = [file EXCEPT ![at] = new[at]]
          /\ new' = [new EXCEPT ![at] = NoFile]
          /\ UNCHANGED <<failed, boundVars>>
       \/ at \notin written /\ UNCHANGED <<file, new, failed, boundVars>>
       \/ at \in written /\ Fault /\ failed' = TRUE /\ UNCHANGED <<file, new>>
    /\ at' = at + 1
    /\ UNCHANGED <<step, holder, written, target, gathered, pc, sweepAt>>
    /\ UNCHANGED <<marker, pendingFile, dir, scene, status, memVars, userVars, ghostVars>>

CommitRenamed ==
    /\ step = "rename"
    /\ at = bucketCount
    /\ \/ failed /\ Abandon
       \/ ~failed /\ Goto("marker") /\ UNCHANGED <<dirty, ghostVars>>
    /\ UNCHANGED <<diskVars, status, bucketVars, levelVars, scheduled, userVars, boundVars>>

CommitMarker ==
    /\ step = "marker"
    /\ \/ /\ marker' = bucketCount
          /\ Goto("delete")
          /\ UNCHANGED <<dirty, ghostVars, boundVars>>
       \/ Fault /\ Abandon /\ UNCHANGED marker
    /\ UNCHANGED <<file, new, pendingFile, dir, scene, status>>
    /\ UNCHANGED <<bucketVars, levelVars, scheduled, userVars>>

CommitDone ==
    /\ step = "delete"
    /\ \/ /\ pendingFile' = 0
          /\ committedLevel' = bucketCount
          /\ pendingLevel' = 0
          /\ EndWork(TRUE)
          /\ UNCHANGED <<dirty, boundVars>>
       \/ Fault /\ Abandon /\ UNCHANGED <<pendingFile, committedLevel, pendingLevel>>
    /\ UNCHANGED <<file, new, marker, dir, scene, status>>
    /\ UNCHANGED <<bucketVars, bucketCount, fanOutAware, scheduled, userVars>>

-----------------------------------------------------------------------------
(***************************************************************************)
(* serialize, by the regular flush and by a sweep                          *)
(***************************************************************************)

\* serialize leaves an empty bucket as it is and refuses one of a layout no
\* commit recorded; otherwise it claims the flag and the content.
Serialize(i, skipped, refused) ==
    \/ /\ entry[i] = Empty \/ ~dirty[i]
       /\ skipped
       /\ UNCHANGED dirty
    \/ /\ entry[i] # Empty /\ dirty[i] /\ FanOutUncommitted
       /\ refused
       /\ UNCHANGED dirty
    \/ /\ entry[i] # Empty /\ dirty[i] /\ ~FanOutUncommitted
       /\ dirty' = [dirty EXCEPT ![i] = FALSE]
       /\ step' = "writing"
       /\ at' = i
       /\ gathered' = entry[i]
       /\ UNCHANGED <<holder, written, target, failed, pc, sweepAt, ghostVars>>

\* The regular flush goes from bucket to bucket.
PassOver(refused) ==
    /\ step' = "write"
    /\ at' = at + 1
    /\ failed' = (failed \/ refused)
    /\ UNCHANGED <<holder, written, target, gathered, pc, sweepAt, ghostVars>>

WriteBucket ==
    /\ step = "write"
    /\ \/ at < bucketCount /\ Serialize(at, PassOver(FALSE), PassOver(TRUE))
       \/ at = bucketCount /\ EndWork(~failed) /\ UNCHANGED dirty
    /\ UNCHANGED <<diskVars, status, bucketVars, levelVars, scheduled, userVars, boundVars>>

\* The temporary file is renamed over the bucket file, or the write fails and
\* the bucket is flagged again (SerializeFailureGuard).  The directory is
\* created on the way.
WriteLands ==
    /\ step = "writing"
    /\ dir' = TRUE
    /\ \/ /\ file' = [file EXCEPT ![at] = gathered]
          /\ UNCHANGED <<dirty, failed, boundVars>>
       \/ WriteFails /\ UNCHANGED file
    /\ step' = IF holder \in Flush THEN "write" ELSE "swept"
    /\ at' = at + 1
    /\ gathered' = Empty
    /\ UNCHANGED <<holder, written, target, pc, sweepAt>>
    /\ UNCHANGED <<new, marker, pendingFile, scene, status>>
    /\ UNCHANGED <<bucketVars, levelVars, scheduled, userVars, ghostVars>>

-----------------------------------------------------------------------------
(***************************************************************************)
(* flush_delayed                                                           *)
(***************************************************************************)

\* A sweep wakes: the next one may be scheduled before it reads a flag.  With
\* no bucket flagged, or no claim, it ends.
SweepWake(s) ==
    /\ status = "up"
    /\ scheduled
    /\ pc[s] = "idle"
    /\ scheduled' = FALSE
    /\ pc' = [pc EXCEPT ![s] = "woken"]
    /\ sweepAt' = [sweepAt EXCEPT ![s] = 0]
    /\ UNCHANGED <<diskVars, status, bucketVars, dirty, levelVars, userVars, holder, workVars>>
    /\ UNCHANGED <<ghostVars, boundVars>>

SweepClaim(s) ==
    /\ pc[s] = "woken"
    /\ \/ /\ pc' = [pc EXCEPT ![s] = IF \E i \in Bucket : dirty[i] THEN "next" ELSE "idle"]
          /\ UNCHANGED boundVars
       \/ /\ \E i \in Bucket : dirty[i]
          /\ Fault
          /\ pc' = [pc EXCEPT ![s] = "idle"]
    /\ UNCHANGED <<diskVars, status, memVars, userVars, sweepAt, holder, workVars, ghostVars>>

SweepNext_ClearsAtEnd(s) ==
    /\ pc[s] = "next"
    /\ \/ /\ sweepAt[s] = LevelMax
          /\ pc' = [pc EXCEPT ![s] = "idle"]
          /\ sweepAt' = [sweepAt EXCEPT ![s] = 0]
          /\ scheduled' = FALSE
       \/ /\ sweepAt[s] < LevelMax
          /\ IF dirty[sweepAt[s]]
             THEN pc' = [pc EXCEPT ![s] = "waiting"] /\ UNCHANGED sweepAt
             ELSE sweepAt' = [sweepAt EXCEPT ![s] = @ + 1] /\ UNCHANGED pc
          /\ UNCHANGED scheduled
    /\ UNCHANGED <<diskVars, status, bucketVars, dirty, levelVars, userVars>>
    /\ UNCHANGED <<holder, workVars, ghostVars, boundVars>>

\* From bucket to bucket, waiting for the lock at a flagged one.
SweepNext(s) ==
    /\ pc[s] = "next"
    /\ \/ /\ sweepAt[s] = LevelMax
          /\ pc' = [pc EXCEPT ![s] = "idle"]
          /\ sweepAt' = [sweepAt EXCEPT ![s] = 0]
       \/ /\ sweepAt[s] < LevelMax
          /\ IF dirty[sweepAt[s]]
             THEN pc' = [pc EXCEPT ![s] = "waiting"] /\ UNCHANGED sweepAt
             ELSE sweepAt' = [sweepAt EXCEPT ![s] = @ + 1] /\ UNCHANGED pc
    /\ UNCHANGED <<diskVars, status, memVars, userVars, holder, workVars, ghostVars, boundVars>>

\* Under the lock the flag is read again.
SweepLock(s) ==
    /\ pc[s] = "waiting"
    /\ Take(s, IF ~dirty[sweepAt[s]] THEN "swept"
               ELSE IF pendingLevel # 0 THEN "roll" ELSE "initial")
    /\ pc' = [pc EXCEPT ![s] = "working"]
    /\ UNCHANGED <<diskVars, status, memVars, userVars, sweepAt, ghostVars, boundVars>>

NeedsMarker_Never == FALSE
NeedsMarker == committedLevel = 0 /\ pendingLevel = 0 /\ bucketCount # LevelMax

\* commit_if_initial_level: a group without a marker gets one before any
\* bucket file is written.
SweepMarker ==
    /\ step = "initial"
    /\ \/ /\ ~NeedsMarker
          /\ Goto("serialize")
          /\ UNCHANGED <<marker, dir, committedLevel, ghostVars, boundVars>>
       \/ /\ NeedsMarker
          /\ dir' = TRUE
          /\ \/ /\ marker' = bucketCount
                /\ committedLevel' = bucketCount
                /\ Goto("serialize")
                /\ UNCHANGED <<ghostVars, boundVars>>
             \/ Fault /\ EndWork(FALSE) /\ UNCHANGED <<marker, committedLevel>>
    /\ UNCHANGED <<file, new, pendingFile, scene, status>>
    /\ UNCHANGED <<bucketVars, dirty, bucketCount, pendingLevel, fanOutAware, scheduled, userVars>>

SweepSerialize ==
    /\ step = "serialize"
    /\ Serialize(sweepAt[holder], EndWork(TRUE), EndWork(TRUE))
    /\ UNCHANGED <<diskVars, status, bucketVars, levelVars, scheduled, userVars, boundVars>>

\* What serialize returned is ignored.
SweepEnd ==
    /\ step = "swept"
    /\ EndWork(TRUE)
    /\ UNCHANGED <<diskVars, status, memVars, userVars, boundVars>>

-----------------------------------------------------------------------------
Rolling == RollRename \/ RollMarker \/ RollDelete
Opening == Open \/ Survey
FanningOut == FanOutScan \/ FanOutMove \/ FanOutFails
Committing ==
    \/ CommitDir \/ NewBucket \/ NewLands \/ NewDone \/ OnlyMarker \/ RemoveStale
    \/ CommitPending \/ CommitRename \/ CommitRenamed \/ CommitMarker \/ CommitDone
Writing == WriteBucket \/ WriteLands
Using(c) ==
    \/ \E k \in Key : Resolve(c, k)
    \/ Retry(c) \/ Unreadable(c) \/ Load(c) \/ Store(c) \/ ScheduleFlush(c)
Listing == ListBegin \/ ListLoad \/ ListLayout \/ ListSend \/ ListEnd
Flushing(f) == FlushCall(f) \/ FlushCheck(f) \/ FlushScan(f) \/ FlushLock(f)
Sweeping(s) == SweepWake(s) \/ SweepClaim(s) \/ SweepNext(s) \/ SweepLock(s)
SweepWork == SweepMarker \/ SweepSerialize \/ SweepEnd

Next ==
    \/ Opening \/ Reload \/ Stop
    \/ Rolling \/ FlushRecheck \/ FanningOut \/ Committing \/ Writing \/ SweepWork
    \/ \E c \in Client : Using(c)
    \/ \E f \in Flush : Flushing(f)
    \/ \E s \in Sweep : Sweeping(s)
    \/ Listing

Spec == Init /\ [][Next]_vars

-----------------------------------------------------------------------------
(***************************************************************************)
(* Properties                                                              *)
(***************************************************************************)

\* Whatever loads, stores, flushes, fan-outs and reopens run, the bucket a key
\* is looked up in holds the value last stored, in memory or in the file that
\* is read first: a fan-out loses no entry, also none of a bucket it found on
\* disk only, and no lazy read replaces a newer entry by a file
\* (maybe_fan_out_mutable_group, deserialize, survey_groups).
HoldsLatest ==
    status = "up" => \A k \in Key : InMemory(k) = latest[k]

\* A load answers the value last stored, however a fan-out moved the key while
\* the load waited for a bucket (the retry loop of load).
LoadsLatest ==
    \A c \in Client : Reached(c) => Answer(c) = latest[client[c].key]

\* The flags are enough to decide whether the store may be let go of: when no
\* flush is at work, a bucket that is not flagged has what it holds on disk,
\* where an open finds it (has_unflushed, SerializeFailureGuard,
\* UnfinishedCommit).
UnflaggedIsOnDisk ==
    status = "up" /\ holder = Nobody =>
        \A k \in Key : dirty[BucketIndexFor(k, bucketCount)] \/ OnDisk(k) = latest[k]

\* A flush that returns Ok has put on disk everything that was stored when it
\* was called, whoever wrote it out, and no later flush, fan-out, failure or
\* stop of the process takes it back (flush, await_bucket_write).
FlushedIsDurable == \A k \in Key : OnDisk(k) >= flushed[k]

\* A flush that returns Ok with nothing stored since it was called leaves no
\* bucket flagged, so that nothing keeps the store claimed (flush: "What a
\* failed flush could not write stays flagged, and keeps the store claimed").
FlushSettles ==
    [][\A f \in Flush :
        pc[f] # "ok" /\ pc'[f] = "ok" /\ since[f] = latest
            => \A i \in Bucket : ~dirty'[i]]_vars

\* A list sends every key that was there when it was called exactly once, and
\* no key twice, whatever fan-out runs between its loading of the buckets and
\* its sending of them (list, load_group_buckets, send_group).
ListComplete ==
    [][list.pc = "sending" /\ list'.pc = "idle" /\ status' = "up"
        => \A k \in Key : /\ list.sent[k] <= 1
                          /\ k \in list.began => list.sent[k] = 1]_vars

\* The group implements the durable map: the disk never goes back to an older
\* value of a key, nor ahead of what was stored, through every interleaving of
\* flushes, failed writes and stops, a commit stopped half way included.
Map == INSTANCE DurableMap WITH durable <- [k \in Key |-> OnDisk(k)]
ImplementsMap == Map!Spec

\* The tasks of the runtime go on, the process opens the store, and a
\* scheduled sweep wakes.  Nothing makes a client or a list start.
Fairness ==
    /\ WF_vars(Opening)
    /\ WF_vars(Rolling \/ FlushRecheck \/ FanningOut \/ Committing \/ Writing \/ SweepWork)
    /\ \A c \in Client : WF_vars(ScheduleFlush(c))
    /\ \A f \in Flush : SF_vars(FlushCheck(f)) /\ SF_vars(FlushScan(f)) /\ SF_vars(FlushLock(f))
    /\ \A s \in Sweep : SF_vars(Sweeping(s))
    /\ SF_vars(FanOutMove)
    /\ WF_vars(ListSend \/ ListEnd)

FairSpec == Spec /\ Fairness

\* A flagged bucket does not stay flagged: the sweep its writer scheduled, or
\* one that is scheduled after it, writes it out (schedule_flush: the flag of
\* the group is set after the bucket's, and cleared before a sweep reads any).
FlagsSettle == (\E i \in Bucket : dirty[i]) ~> (\A i \in Bucket : ~dirty[i])

=============================================================================
