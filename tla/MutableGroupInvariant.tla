----------------------- MODULE MutableGroupInvariant -----------------------
(***************************************************************************)
(* The inductive invariant of a group of the local mutable store, for      *)
(* every number of keys, clients, flushes and sweeps, every ladder of      *)
(* levels and every bound, and the steps outside a commit: those of        *)
(* clients and waiting tasks, the flush lock, the fan-out, a roll forward, *)
(* an open, a stop, and the choice of buckets to write in place.           *)
(***************************************************************************)
EXTENDS MutableGroup, TLAPS

\* The prover of a leaf that names none.
USE ZenonT(30)

-----------------------------------------------------------------------------
(***************************************************************************)
(* The inductive invariant                                                 *)
(***************************************************************************)

\* A level of the group, or none recorded.
Level == Ladder \cup {0}

\* What a bucket file or a .new file is.
Image == Contents \cup {NoFile}

\* The tasks that may hold the flush lock of the group.
Task == Flush \cup Sweep

\* The bucket of k under the layout in memory.
Idx(k) == BucketIndexFor(k, bucketCount)

\* The types, by part of the state.
TypeDisk ==
    /\ file \in [Bucket -> Image]
    /\ new \in [Bucket -> Image]
    /\ marker \in Level
    /\ pendingFile \in Level

TypeMemory ==
    /\ entry \in [Bucket -> Contents]
    /\ deserialized \in [Bucket -> BOOLEAN]
    /\ dirty \in [Bucket -> BOOLEAN]
    /\ bucketCount \in Ladder
    /\ committedLevel \in Level
    /\ pendingLevel \in Level
    /\ fanOutAware \in BOOLEAN

TypeUsers ==
    /\ client \in [Client -> [pc : {"idle", "resolved", "flagged"},
                              key : Key \cup {NoClient.key}, count : Level]]
    /\ \A c \in Client : client[c].pc # "idle" => client[c].key \in Key

\* Where a flush or a sweep is.
Places == {"idle", "ok", "called", "claimed", "waiting", "working", "woken", "next"}

TypeTasks ==
    /\ pc \in [Task -> Places]
    /\ sweepAt \in [Sweep -> Nat]
    /\ at \in Nat
    /\ written \in SUBSET Bucket
    /\ failed \in BOOLEAN
    /\ gathered \in Contents

TypeHistory ==
    /\ latest \in Contents
    /\ since \in [Flush -> Contents]
    /\ flushed \in Contents

Types == TypeDisk /\ TypeMemory /\ TypeUsers /\ TypeTasks /\ TypeHistory

\* The steps of a task that holds the flush lock.
RollSteps == {"roll", "rollMarker", "rollDelete"}

\* A commit before its commit point.
NewSteps == {"new", "newWrite", "stale", "pending", "onlyMarker"}

\* A commit past its commit point.
RenameSteps == {"rename", "marker", "delete"}

\* The steps of a flush, and of a sweep, past a roll forward.
FlushSteps ==
    {"recheck", "fanOut", "move", "commit", "write", "writing"} \cup NewSteps \cup RenameSteps
SweepSteps == {"initial", "serialize", "writing", "swept"}

\* Who holds the flush lock, where it may be, and what runs while the store is
\* not up.
Tasks ==
    /\ status \in {"down", "opening", "reloading", "up"}
    /\ holder \in Task \cup {Opener, Nobody}
    /\ status = "down" => holder = Nobody
    /\ status = "up" => holder # Opener
    /\ status \in {"opening", "reloading"} => holder = Opener
    /\ status = "reloading" => step = "survey"
    /\ holder = Nobody => step = "none"
    /\ holder = Opener => step \in RollSteps \cup {"survey"}
    /\ holder \in Flush => step \in RollSteps \cup FlushSteps
    /\ holder \in Sweep => step \in RollSteps \cup SweepSteps
    /\ holder \in Task => pc[holder] = "working"
    /\ \A s \in Sweep : pc[s] \in {"waiting", "working"} => sweepAt[s] \in Bucket
    /\ step \in RollSteps \cup {"recheck", "fanOut", "move", "commit"} => written = {}
    /\ status # "up" => /\ \A c \in Client : client[c].pc = "idle"
                        /\ list.pc = "idle"
                        /\ \A t \in Task : pc[t] \in {"idle", "ok"}

\* The buckets below n have no .new file.
NoNew(n) == \A i \in Bucket : i < n => new[i] = NoFile

\* What the files are at each step: no file lies past the level the next open
\* finds; level.pending is there while a commit is rolled forward or renamed,
\* and not while buckets are written; what is passed was renamed.
Disk ==
    /\ \A i \in Bucket : i >= RecoveredLevel => file[i] = NoFile
    /\ step \in RollSteps \cup RenameSteps => pendingFile # 0
    /\ step = "roll" => at <= pendingFile /\ NoNew(at)
    /\ step \in {"rollMarker", "rollDelete", "marker", "delete"} => NoNew(pendingFile)
    /\ step \in {"rollDelete", "delete"} => marker = pendingFile
    /\ step \in (FlushSteps \ RenameSteps) \cup {"survey", "initial", "serialize", "writing"}
          => pendingFile = 0
    /\ step = "rename" => /\ \A i \in Bucket : new[i] # NoFile => i \in written
                          /\ \A i \in written : i >= at => new[i] # NoFile
                          /\ ~failed => NoNew(at)

\* What the process knows of the levels: pending_level and committed_level
\* are what the files say, and a group without a marker has files at the top
\* level or none.
Levels ==
    /\ pendingLevel = pendingFile
    /\ pendingFile = 0 => committedLevel = marker
    /\ pendingFile # 0 => bucketCount = pendingFile /\ fanOutAware
    /\ committedLevel <= bucketCount
    /\ ~fanOutAware => bucketCount = LevelMax /\ committedLevel = 0
    /\ committedLevel = 0 /\ pendingFile = 0 /\ bucketCount # LevelMax
          => \A i \in Bucket : file[i] = NoFile
    /\ step = "move" => target \in Ladder /\ target > bucketCount
    /\ step \in {"commit"} \cup NewSteps => fanOutAware /\ committedLevel # bucketCount
    /\ step \in {"write", "writing"} => \/ committedLevel = bucketCount
                                        \/ committedLevel = 0 /\ bucketCount = LevelMax
    /\ step = "serialize" => committedLevel # 0 \/ bucketCount = LevelMax

\* Which buckets are in memory: every one of a layout that is not committed,
\* every flagged one, and every one a commit rewrites.
Buckets ==
    /\ committedLevel \notin {0, bucketCount} =>
          \A i \in Bucket : i < bucketCount => deserialized[i]
    /\ \A i \in Bucket : dirty[i] => i < bucketCount /\ deserialized[i]
    /\ \A i \in Bucket : i < pendingFile /\ new[i] # NoFile => deserialized[i]
    /\ pendingFile # 0 => (\E i \in Bucket : dirty[i]) \/ step \in RenameSteps
    /\ step \in NewSteps \cup RenameSteps => \A i \in written : i < bucketCount /\ deserialized[i]
    /\ step \in {"stale", "pending"} \cup RenameSteps => written # {}
    /\ step \in {"newWrite", "writing"} => at < bucketCount /\ deserialized[at]

\* The commit's loop has passed bucket i.
Past(i) == step \in {"new", "newWrite"} => i < at

\* What the commit has written so far, and that it passed over no bucket whose
\* old file must be replaced.
Commit ==
    /\ step \in NewSteps =>
          /\ \A i \in written : new[i] # NoFile /\ Past(i)
          /\ ~failed => \A i \in Bucket : i < committedLevel /\ Past(i) => i \in written
    /\ step = "new" => at <= bucketCount
    /\ step \in {"stale", "pending", "onlyMarker"} => ~failed
    /\ step = "onlyMarker" => written = {} /\ committedLevel = 0
    /\ step = "pending" => \A i \in Bucket : new[i] # NoFile => i \in written

\* The disk is never ahead of what was stored, nor behind what a flush
\* covered.
Durable(k) ==
    /\ flushed[k] <= OnDisk(k)
    /\ OnDisk(k) <= latest[k]
    /\ \A f \in Flush : since[f][k] <= latest[k]
    /\ status # "up" => OnDisk(k) = latest[k]

\* A load of k would answer the value last stored.
Held(k) == InMemory(k) = latest[k]

\* A write of bucket i is under way, which flags the bucket again if it fails.
InProgress(i) ==
    \/ step \in NewSteps /\ i \in written
    \/ step \in {"newWrite", "writing"} /\ i = at

\* A key whose value the disk has, also after a commit that passes its bucket
\* over.
Settled(k) ==
    /\ OnDisk(k) = latest[k]
    /\ pendingFile = 0 /\ committedLevel \notin {0, bucketCount} /\ Idx(k) >= committedLevel
          => latest[k] = 0

\* A key is settled, or something is left that will write its bucket.
Flagged(k) == dirty[Idx(k)] \/ InProgress(Idx(k)) \/ Settled(k)

\* v may replace the value of k on disk.
Fit(k, v) ==
    /\ OnDisk(k) <= v
    /\ v <= latest[k]
    /\ holder \in Flush => since[holder][k] <= v

\* What bucket i is once the commit is done.
Candidate(i) == IF i \in written THEN new[i] ELSE ContentOf(file[i])

\* What the commit puts in place of a bucket it has passed is fit for each key,
\* and is the latest value unless a store flagged the bucket since.
Chosen(k) ==
    step \in NewSteps /\ Past(Idx(k)) =>
        /\ ~failed => Fit(k, Candidate(Idx(k))[k])
        /\ Idx(k) \in written /\ ~dirty[Idx(k)] => new[Idx(k)][k] = latest[k]

\* The write in flight, and what the flush has covered so far.
InFlight(k) ==
    /\ step \in {"newWrite", "writing"} /\ Idx(k) = at =>
          /\ Fit(k, gathered[k])
          /\ ~dirty[at] => gathered[k] = latest[k]
    /\ step \in {"write", "writing"} /\ holder \in Flush /\ ~failed /\ Idx(k) < at
          => since[holder][k] <= OnDisk(k)
    /\ step \in RenameSteps => since[holder][k] <= OnDisk(k)

\* The part of the invariant that is about a store that is open.
UpInv ==
    /\ Levels /\ Buckets /\ Commit
    /\ \A k \in Key : Held(k) /\ Flagged(k) /\ Chosen(k) /\ InFlight(k)

\* The inductive invariant.
Inv ==
    /\ Types /\ Tasks /\ Disk
    /\ \A k \in Key : Durable(k)
    /\ status = "up" => UpInv

-----------------------------------------------------------------------------
(***************************************************************************)
(* The layout arithmetic, and what the files say                           *)
(***************************************************************************)

\* The ladder has a highest level, which every level divides.
LEMMA LevelMaxType ==
    /\ LevelMax \in Ladder
    /\ LevelMax \in Nat \ {0}
    /\ \A n \in Ladder : n \in Nat \ {0} /\ n <= LevelMax /\ LevelMax % n = 0
<1>1. PICK m \in Ladder : \A n \in Ladder : n <= m /\ m % n = 0
  BY ConstantsAssumption
<1>2. \A n \in Ladder : n \in Nat \ {0}
  BY ConstantsAssumption
<1>3. LevelMax \in Ladder /\ \A n \in Ladder : n <= LevelMax
  BY <1>1 DEF LevelMax
<1>4. LevelMax = m
  BY <1>1, <1>2, <1>3, SMT
<1> QED BY <1>1, <1>2, <1>3, <1>4

\* The division of bucket_index_for stays below the number of buckets.
LEMMA Quotient ==
    ASSUME NEW l \in Nat \ {0}, NEW c \in Nat \ {0}, c <= l, l % c = 0, NEW b \in 0 .. l - 1
    PROVE  b \div (l \div c) \in 0 .. c - 1
<1> DEFINE q == l \div c
<1>1. q \in Nat /\ l = q * c
  BY SMT
<1>2. q # 0
  BY <1>1, SMT
<1> DEFINE d == b \div q
<1>3. d \in Nat /\ q * d <= b
  BY <1>1, <1>2, SMT
<1> HIDE DEF q, d
<1>4. ASSUME d >= c PROVE FALSE
  <2>1. q * c <= q * d
    BY <1>1, <1>3, <1>4, SMT
  <2> QED BY <1>1, <1>3, <2>1, SMT
<1> QED BY <1>3, <1>4, SMT DEF q, d

\* bucket_index_for names a bucket of the level it is given.
LEMMA IndexType ==
    ASSUME NEW k \in Key, NEW c \in Ladder
    PROVE  BucketIndexFor(k, c) \in Bucket /\ BucketIndexFor(k, c) < c /\ BucketIndexFor(k, c) \in Nat
<1>1. c \in Nat \ {0} /\ c <= LevelMax /\ LevelMax % c = 0 /\ LevelMax \in Nat \ {0}
  BY LevelMaxType
<1>2. Byte[k] \in 0 .. LevelMax - 1
  BY ConstantsAssumption DEF Bucket
<1>3. CASE c <= 1
  BY <1>1, <1>3, SMT DEF BucketIndexFor, Bucket
<1>4. CASE ~(c <= 1)
  <2>1. Byte[k] \div (LevelMax \div c) \in 0 .. c - 1
    BY <1>1, <1>2, Quotient
  <2>2. BucketIndexFor(k, c) \in 0 .. c - 1
    BY <1>4, <2>1 DEF BucketIndexFor
  <2> QED BY <1>1, <2>2, SMT DEF Bucket
<1> QED BY <1>3, <1>4

\* While the files stay, so does what an open would find.
LEMMA DiskKept ==
    ASSUME UNCHANGED <<file, new, marker, pendingFile>>
    PROVE  /\ UNCHANGED RecoveredLevel
           /\ \A k : OnDisk(k)' = OnDisk(k)
           /\ \A i : RecoveredFile(i)' = RecoveredFile(i)
<1>1. UNCHANGED RecoveredLevel
  BY DEF RecoveredLevel
<1>2. \A i : RecoveredFile(i)' = RecoveredFile(i)
  BY DEF RecoveredFile
<1> QED BY <1>1, <1>2 DEF OnDisk

\* While the layout stays, so does the bucket of each key.
LEMMA IdxKept ==
    ASSUME UNCHANGED bucketCount
    PROVE  \A k : Idx(k)' = Idx(k)
BY DEF Idx

\* An open finds a level of the ladder and a value of each key.
LEMMA OnDiskType ==
    ASSUME TypeDisk, NEW k \in Key
    PROVE  /\ RecoveredLevel \in Ladder
           /\ OnDisk(k) \in Nat
           /\ OnDisk(k) \in Value
<1>1. RecoveredLevel \in Ladder
  BY LevelMaxType DEF TypeDisk, Level, RecoveredLevel
<1>2. BucketIndexFor(k, RecoveredLevel) \in Bucket
  BY <1>1, IndexType
<1>3. \A i \in Bucket : RecoveredFile(i) \in Image
  BY DEF TypeDisk, RecoveredFile
<1>4. \A f \in Image : ContentOf(f) \in Contents
  BY ConstantsAssumption, SMT DEF Image, ContentOf, Contents, Empty, Value
<1>5. ContentOf(RecoveredFile(BucketIndexFor(k, RecoveredLevel))) \in Contents
  BY <1>2, <1>3, <1>4
<1>6. OnDisk(k) \in Value
  BY <1>5 DEF OnDisk, Contents
<1> QED BY <1>1, <1>6, ConstantsAssumption, SMT DEF Value

\* The same of the next state.
LEMMA OnDiskTypeNext ==
    ASSUME TypeDisk', NEW k \in Key
    PROVE  /\ RecoveredLevel' \in Ladder
           /\ OnDisk(k)' \in Nat
           /\ OnDisk(k)' \in Value
<1>1. RecoveredLevel' \in Ladder
  BY LevelMaxType DEF TypeDisk, Level, RecoveredLevel
<1>2. BucketIndexFor(k, RecoveredLevel') \in Bucket
  BY <1>1, IndexType
<1>3. \A i \in Bucket : RecoveredFile(i)' \in Image
  BY DEF TypeDisk, RecoveredFile
<1>4. \A f \in Image : ContentOf(f) \in Contents
  BY ConstantsAssumption, SMT DEF Image, ContentOf, Contents, Empty, Value
<1>5. ContentOf(RecoveredFile(BucketIndexFor(k, RecoveredLevel))') \in Contents
  BY <1>2, <1>3, <1>4
<1>6. OnDisk(k)' \in Value
  BY <1>5 DEF OnDisk, Contents
<1> QED BY <1>1, <1>6, ConstantsAssumption, SMT DEF Value

-----------------------------------------------------------------------------
(***************************************************************************)
(* Loads, stores and lists                                                 *)
(***************************************************************************)

\* A step that changes no file, no bucket, no level and nothing of the holder
\* keeps the invariant but for the types and the tasks.
LEMMA CoreKept ==
    ASSUME Inv, UNCHANGED <<file, new, marker, pendingFile, status, bucketVars, dirty, levelVars,
                            holder, workVars, ghostVars>>
    PROVE  Disk' /\ (\A k \in Key : Durable(k)') /\ (status' = "up" => UpInv')
<1>1. /\ UNCHANGED <<file, new, marker, pendingFile, status, entry, deserialized, dirty>>
      /\ UNCHANGED <<bucketCount, committedLevel, pendingLevel, fanOutAware>>
      /\ UNCHANGED <<holder, step, at, written, target, failed, gathered, latest, since, flushed>>
  BY DEF bucketVars, levelVars, workVars, ghostVars
<1>2. /\ RecoveredLevel' = RecoveredLevel
      /\ \A k : OnDisk(k)' = OnDisk(k)
      /\ \A k : Idx(k)' = Idx(k)
  BY <1>1, DiskKept, IdxKept
<1>3. Disk'
  BY <1>1, <1>2 DEF Inv, Disk, NoNew
<1>4. \A k \in Key : Durable(k)'
  BY <1>1, <1>2 DEF Inv, Durable
<1>5. ASSUME status = "up" PROVE UpInv'
  <2>1. UpInv
    BY <1>5 DEF Inv
  <2>2. Levels'
    BY <1>1, <2>1 DEF UpInv, Levels
  <2>3. Buckets'
    BY <1>1, <2>1 DEF UpInv, Buckets
  <2>4. Commit'
    BY <1>1, <2>1 DEF UpInv, Commit, Past
  <2>5. ASSUME NEW k \in Key PROVE Held(k)' /\ Flagged(k)' /\ Chosen(k)' /\ InFlight(k)'
    <3>1. Held(k)'
      BY <1>1, <2>1 DEF UpInv, Held, InMemory
    <3>2. Flagged(k)'
      BY <1>1, <1>2, <2>1 DEF UpInv, Flagged, InProgress, Settled
    <3>3. Chosen(k)'
      BY <1>1, <1>2, <2>1 DEF UpInv, Chosen, Past, Candidate, Fit
    <3>4. InFlight(k)'
      BY <1>1, <1>2, <2>1 DEF UpInv, InFlight, Fit
    <3> QED BY <3>1, <3>2, <3>3, <3>4
  <2> QED BY <2>2, <2>3, <2>4, <2>5 DEF UpInv
<1> QED BY <1>1, <1>3, <1>4, <1>5

\* A step of a client or a list that only moves the client or the list.
LEMMA UserKeeps ==
    ASSUME Inv, status = "up", TypeUsers',
           UNCHANGED <<file, new, marker, pendingFile, status, bucketVars, dirty, levelVars,
                       taskVars, ghostVars>>
    PROVE  Inv'
<1>1. /\ UNCHANGED <<file, new, marker, pendingFile, status, entry, deserialized, dirty>>
      /\ UNCHANGED <<bucketCount, committedLevel, pendingLevel, fanOutAware>>
      /\ UNCHANGED <<holder, step, at, written, target, failed, gathered, latest, since, flushed>>
      /\ UNCHANGED <<pc, sweepAt>>
  BY DEF bucketVars, levelVars, taskVars, workVars, ghostVars
<1>2. Disk' /\ (\A k \in Key : Durable(k)') /\ (status' = "up" => UpInv')
  BY <1>1, CoreKept DEF bucketVars, levelVars, workVars, ghostVars
<1>3. Types'
  BY <1>1 DEF Inv, Types, TypeDisk, TypeMemory, TypeTasks, TypeHistory
<1>4. Tasks'
  BY <1>1 DEF Inv, Tasks
<1> QED BY <1>2, <1>3, <1>4 DEF Inv

\* Clients and lists run only on an open store.
LEMMA UsersUp ==
    ASSUME Inv
    PROVE  /\ \A c \in Client : client[c].pc # "idle" => status = "up" /\ client[c].key \in Key
           /\ list.pc # "idle" => status = "up"
           /\ \A t \in Task : pc[t] \notin {"idle", "ok"} => status = "up"
BY DEF Inv, Tasks, Types, TypeUsers

\* load, store and compare_and_swap, up to the bucket.
LEMMA ResolveKeeps ==
    ASSUME Inv, NEW c \in Client, NEW k \in Key, Resolve(c, k)
    PROVE  Inv'
<1>1. TypeUsers'
  BY DEF Inv, Types, TypeUsers, TypeMemory, Level, Resolve
<1> QED BY <1>1, UserKeeps DEF Resolve, ClientOnly, diskVars, ghostVars

\* The retry after a fan-out changed the layout.
LEMMA RetryKeeps ==
    ASSUME Inv, NEW c \in Client, Retry(c)
    PROVE  Inv'
<1>1. TypeUsers'
  BY DEF Inv, Types, TypeUsers, TypeMemory, Level, Retry
<1> QED BY <1>1, UserKeeps, UsersUp DEF Retry, ClientOnly, diskVars, ghostVars

\* A client that is done has a type.
LEMMA NoClientType ==
    NoClient \in [pc : {"idle", "resolved", "flagged"}, key : Key \cup {NoClient.key}, count : Level]
BY DEF NoClient, Level

\* A client that is done leaves the others as they were.
LEMMA ClientEnds ==
    ASSUME Inv, NEW c \in Client, client' = [client EXCEPT ![c] = NoClient]
    PROVE  TypeUsers'
<1>1. NoClient.pc = "idle"
  BY DEF NoClient
<1> QED BY <1>1, NoClientType DEF Inv, Types, TypeUsers

\* A bucket file that cannot be read fails the operation alone.
LEMMA UnreadableKeeps ==
    ASSUME Inv, NEW c \in Client, Unreadable(c)
    PROVE  Inv'
<1>1. TypeUsers'
  BY ClientEnds DEF Unreadable
<1> QED BY <1>1, UserKeeps, UsersUp DEF Unreadable, Reached, ClientOnly, diskVars, ghostVars

\* schedule_flush keeps the invariant.
LEMMA ScheduleFlushKeeps ==
    ASSUME Inv, NEW c \in Client, ScheduleFlush(c)
    PROVE  Inv'
<1>1. TypeUsers'
  BY ClientEnds DEF ScheduleFlush
<1> QED BY <1>1, UserKeeps, UsersUp DEF ScheduleFlush, ClientOnly, diskVars, ghostVars

\* The steps of list that read no bucket file keep the invariant.
LEMMA ListStepsKeep ==
    ASSUME Inv, ListBegin \/ ListLayout \/ ListSend \/ ListEnd
    PROVE  Inv'
<1>1. status = "up"
  BY UsersUp DEF ListBegin, ListLayout, ListSend, ListEnd
<1>2. ListOnly /\ UNCHANGED bucketVars
  BY DEF ListBegin, ListLayout, ListSend, ListEnd
<1>3. TypeUsers'
  BY <1>2 DEF Inv, Types, TypeUsers, ListOnly
<1> QED BY <1>1, <1>2, <1>3, UserKeeps DEF ListOnly, diskVars

\* Buckets may be read from their files: what a bucket held in memory stays.
Reads ==
    /\ entry' \in [Bucket -> Contents]
    /\ deserialized' \in [Bucket -> BOOLEAN]
    /\ \A i \in Bucket : \/ entry'[i] = entry[i] /\ deserialized'[i] = deserialized[i]
                         \/ entry'[i] = Loaded(i) /\ deserialized'[i] = TRUE

\* A lazy read keeps what a load would answer, and no bucket goes back to disk.
LEMMA ReadKept ==
    ASSUME Inv, Reads, UNCHANGED <<file, bucketCount>>
    PROVE  /\ \A i \in Bucket : deserialized[i] => deserialized'[i]
           /\ \A k \in Key : InMemory(k)' = InMemory(k)
<1>1. \A i \in Bucket : deserialized[i] => deserialized'[i] /\ entry'[i] = entry[i]
  BY DEF Reads, Loaded
<1>2. ASSUME NEW k \in Key PROVE InMemory(k)' = InMemory(k)
  <2>1. BucketIndexFor(k, bucketCount) \in Bucket
    BY IndexType DEF Inv, Types, TypeMemory
  <2>2. BucketIndexFor(k, bucketCount)' = BucketIndexFor(k, bucketCount)
    OBVIOUS
  <2> QED BY <1>1, <2>1, <2>2 DEF Reads, Loaded, InMemory
<1> QED BY <1>1, <1>2

\* A step that at most reads buckets keeps the invariant.
LEMMA ReadKeeps ==
    ASSUME Inv, status = "up", TypeUsers', Reads,
           UNCHANGED <<file, new, marker, pendingFile, status, dirty, levelVars, taskVars, ghostVars>>
    PROVE  Inv'
<1>1. /\ UNCHANGED <<file, new, marker, pendingFile, status, dirty>>
      /\ UNCHANGED <<bucketCount, committedLevel, pendingLevel, fanOutAware>>
      /\ UNCHANGED <<holder, step, at, written, target, failed, gathered, latest, since, flushed>>
      /\ UNCHANGED <<pc, sweepAt>>
  BY DEF levelVars, taskVars, workVars, ghostVars
<1>2. /\ RecoveredLevel' = RecoveredLevel
      /\ \A k : OnDisk(k)' = OnDisk(k)
      /\ \A k : Idx(k)' = Idx(k)
  BY <1>1, DiskKept, IdxKept
<1>3. /\ \A i \in Bucket : deserialized[i] => deserialized'[i]
      /\ \A k \in Key : InMemory(k)' = InMemory(k)
  BY <1>1, ReadKept
<1>4. Types'
  BY <1>1 DEF Inv, Types, TypeDisk, TypeMemory, TypeTasks, TypeHistory, Reads
<1>5. Tasks'
  BY <1>1 DEF Inv, Tasks
<1>6. Disk'
  BY <1>1, <1>2 DEF Inv, Disk, NoNew
<1>7. \A k \in Key : Durable(k)'
  BY <1>1, <1>2 DEF Inv, Durable
<1>8. UpInv
  BY DEF Inv
<1>9. Levels'
  BY <1>1, <1>8 DEF UpInv, Levels
<1>10. Commit'
  BY <1>1, <1>8 DEF UpInv, Commit, Past
<1>11. Buckets'
  <2>1. step \in {"newWrite", "writing"} => at \in Bucket
    BY <1>8, LevelMaxType, SMT DEF Inv, Types, TypeTasks, TypeMemory, UpInv, Buckets, Bucket
  <2>2. written \in SUBSET Bucket
    BY DEF Inv, Types, TypeTasks
  <2> QED BY <1>1, <1>3, <1>8, <2>1, <2>2 DEF UpInv, Buckets
<1>12. ASSUME NEW k \in Key PROVE Held(k)' /\ Flagged(k)' /\ Chosen(k)' /\ InFlight(k)'
  <2>1. Held(k)'
    BY <1>1, <1>3, <1>8 DEF UpInv, Held
  <2>2. Flagged(k)'
    BY <1>1, <1>2, <1>8 DEF UpInv, Flagged, InProgress, Settled
  <2>3. Chosen(k)'
    BY <1>1, <1>2, <1>8 DEF UpInv, Chosen, Past, Candidate, Fit
  <2>4. InFlight(k)'
    BY <1>1, <1>2, <1>8 DEF UpInv, InFlight, Fit
  <2> QED BY <2>1, <2>2, <2>3, <2>4
<1> QED BY <1>4, <1>5, <1>6, <1>7, <1>9, <1>10, <1>11, <1>12 DEF Inv, UpInv

\* A bucket that is read has contents.
LEMMA LoadedType ==
    ASSUME Inv, NEW i \in Bucket
    PROVE  Loaded(i) \in Contents
<1>1. \A f \in Image : ContentOf(f) \in Contents
  BY ConstantsAssumption, SMT DEF Image, ContentOf, Contents, Empty, Value
<1> QED BY <1>1 DEF Inv, Types, TypeDisk, TypeMemory, Loaded

\* Reading one bucket is a lazy read.
LEMMA ReadsOne ==
    ASSUME Inv, NEW i,
           entry' = [entry EXCEPT ![i] = Loaded(i)],
           deserialized' = [deserialized EXCEPT ![i] = TRUE]
    PROVE  Reads
BY LoadedType DEF Inv, Types, TypeMemory, Reads

\* A load keeps the invariant.
LEMMA LoadKeeps ==
    ASSUME Inv, NEW c \in Client, Load(c)
    PROVE  Inv'
<1>1. TypeUsers'
  BY ClientEnds DEF Load
<1>2. Reads
  BY ReadsOne DEF Load
<1> QED BY <1>1, <1>2, ReadKeeps, UsersUp DEF Load, Reached, ClientOnly, diskVars, ghostVars

\* load_group_buckets keeps the invariant.
LEMMA ListLoadKeeps ==
    ASSUME Inv, ListLoad
    PROVE  Inv'
<1>1. TypeUsers'
  BY DEF Inv, Types, TypeUsers, ListLoad, ListOnly
<1>2. Reads
  <2>1. CASE UNCHANGED bucketVars
    BY <2>1 DEF Inv, Types, TypeMemory, Reads, bucketVars
  <2>2. CASE ~UNCHANGED bucketVars
    BY <2>2, ReadsOne DEF ListLoad
  <2> QED BY <2>1, <2>2
<1> QED BY <1>1, <1>2, ReadKeeps, UsersUp DEF ListLoad, ListOnly, diskVars

\* A store that changes its key keeps the invariant: the bucket it flags is the
\* one that holds the key, also while a commit or a write of it is under way.
LEMMA StoreKeeps ==
    ASSUME Inv, NEW c \in Client, Store(c)
    PROVE  Inv'
<1> DEFINE o == client[c].key
           b == At(c)
<1>1. status = "up" /\ o \in Key
  BY UsersUp DEF Store, Reached
<1>2. /\ UNCHANGED <<file, new, marker, pendingFile, status, scene>>
      /\ UNCHANGED <<bucketCount, committedLevel, pendingLevel, fanOutAware>>
      /\ UNCHANGED <<holder, step, at, written, target, failed, gathered, since, flushed>>
      /\ UNCHANGED <<pc, sweepAt>>
  BY DEF Store, ClientOnly, diskVars, levelVars, taskVars, workVars
<1>3. /\ RecoveredLevel' = RecoveredLevel
      /\ \A k : OnDisk(k)' = OnDisk(k)
      /\ \A k : Idx(k)' = Idx(k)
  BY <1>2, DiskKept, IdxKept
<1>4. b = Idx(o) /\ b \in Bucket /\ b < bucketCount
  BY <1>1, IndexType DEF Store, Reached, At, Idx, Inv, Types, TypeMemory
<1>5. Loaded(b) \in Contents
  BY <1>4, LoadedType
<1>6. UpInv
  BY <1>1 DEF Inv
<1>7. ASSUME NEW k \in Key, Idx(k) = b PROVE Loaded(b)[k] = latest[k]
  BY <1>6, <1>7 DEF UpInv, Held, InMemory, Loaded, Idx
<1>8. /\ entry' = [entry EXCEPT ![b] = [Loaded(b) EXCEPT ![o] = @ + 1]]
      /\ deserialized' = [deserialized EXCEPT ![b] = TRUE]
      /\ dirty' = [dirty EXCEPT ![b] = TRUE]
      /\ latest' = [latest EXCEPT ![o] = Loaded(b)[o] + 1]
      /\ Loaded(b)[o] < MaxValue
  BY DEF Store
<1> HIDE DEF b, o
<1>9. Loaded(b)[o] \in Nat /\ Loaded(b)[o] + 1 \in Value
  BY <1>1, <1>5, <1>8, ConstantsAssumption, SMT DEF Contents, Value
<1>10. latest' = [latest EXCEPT ![o] = @ + 1] /\ latest' \in Contents
  <2>1. Loaded(b)[o] = latest[o]
    BY <1>1, <1>4, <1>7
  <2> QED BY <1>1, <1>8, <1>9, <2>1 DEF Inv, Types, TypeHistory, Contents
<1>11. entry' \in [Bucket -> Contents]
  <2>1. [Loaded(b) EXCEPT ![o] = @ + 1] \in Contents
    BY <1>1, <1>5, <1>9 DEF Contents
  <2> QED BY <1>4, <1>8, <2>1 DEF Inv, Types, TypeMemory
<1>12. TypeUsers'
  <2>1. CASE ~scene.sweeps
    BY <2>1, ClientEnds DEF Store
  <2>2. CASE scene.sweeps
    <3>1. client' = [client EXCEPT ![c] = [@ EXCEPT !.pc = "flagged"]]
      BY <2>2 DEF Store
    <3> QED BY <1>1, <3>1 DEF Inv, Types, TypeUsers, o
  <2> QED BY <2>1, <2>2
<1>13. Types'
  BY <1>2, <1>4, <1>8, <1>10, <1>11, <1>12
     DEF Inv, Types, TypeDisk, TypeMemory, TypeTasks, TypeHistory
<1>14. Tasks'
  BY <1>1, <1>2 DEF Inv, Tasks
<1>15. Disk'
  BY <1>2, <1>3 DEF Inv, Disk, NoNew
<1>16. \A i \in Bucket : (deserialized[i] => deserialized'[i]) /\ (dirty[i] => dirty'[i])
                         /\ (i # b => dirty'[i] = dirty[i])
  BY <1>8 DEF Inv, Types, TypeMemory
<1>17. dirty'[b] /\ deserialized'[b]
  BY <1>4, <1>8 DEF Inv, Types, TypeMemory
<1>18. Levels'
  BY <1>2, <1>6 DEF UpInv, Levels
<1>19. Commit'
  BY <1>2, <1>6 DEF UpInv, Commit, Past
<1>20. Buckets'
  <2>1. step \in {"newWrite", "writing"} => at \in Bucket
    BY <1>6, LevelMaxType, SMT DEF Inv, Types, TypeTasks, TypeMemory, UpInv, Buckets, Bucket
  <2>2. written \in SUBSET Bucket
    BY DEF Inv, Types, TypeTasks
  <2> QED BY <1>2, <1>4, <1>6, <1>16, <1>17, <2>1, <2>2 DEF UpInv,
             Buckets
<1>21. ASSUME NEW k \in Key
       PROVE  Durable(k)' /\ Held(k)' /\ Flagged(k)' /\ Chosen(k)' /\ InFlight(k)'
  <2>1. /\ latest[k] \in Nat /\ latest'[k] \in Nat /\ latest[k] <= latest'[k]
        /\ k # o => latest'[k] = latest[k]
    BY <1>1, <1>10, ConstantsAssumption, SMT DEF Inv, Types, TypeHistory, Contents, Value
  <2>2. /\ OnDisk(k) \in Nat
        /\ flushed[k] \in Nat /\ gathered[k] \in Nat
        /\ \A f \in Flush : since[f][k] \in Nat
    BY OnDiskType, ConstantsAssumption, SMT DEF Inv, Types, TypeHistory, TypeTasks, Contents, Value
  <2>3. Idx(k) \in Bucket
    BY IndexType DEF Idx, Inv, Types, TypeMemory
  <2>4. Durable(k)'
    <3>1. Durable(k)
      BY DEF Inv
    <3> QED BY <1>1, <1>2, <1>3, <2>1, <2>2, <3>1, SMT DEF Durable
  <2>5. Held(k)'
    <3>1. CASE Idx(k) = b
      <4>1. entry'[b][k] = latest'[k]
        BY <1>1, <1>4, <1>5, <1>7, <1>8, <1>10, <3>1 DEF Inv, Types, TypeMemory, TypeHistory, Contents
      <4> QED BY <1>3, <1>17, <3>1, <4>1, SMT DEF Held, InMemory, Idx
    <3>2. CASE Idx(k) # b
      <4>1. entry'[Idx(k)] = entry[Idx(k)] /\ deserialized'[Idx(k)] = deserialized[Idx(k)]
        BY <1>8, <2>3, <3>2 DEF Inv, Types, TypeMemory
      <4>2. latest'[k] = latest[k]
        BY <1>4, <2>1, <3>2
      <4> QED BY <1>2, <1>3, <1>6, <4>1, <4>2 DEF UpInv, Held, InMemory, Idx
    <3> QED BY <3>1, <3>2
  <2>6. Idx(k) # b => latest'[k] = latest[k]
    BY <1>4, <2>1
  <2>7. Flagged(k)'
    BY <1>2, <1>3, <1>6, <1>16, <1>17, <2>3, <2>6 DEF UpInv, Flagged, InProgress, Settled
  <2>8. ASSUME NEW v, v \in Nat, Fit(k, v) PROVE Fit(k, v)'
    <3>1. UNCHANGED <<holder, since>> /\ OnDisk(k)' = OnDisk(k)
      BY <1>2, <1>3
    <3> QED BY ONLY <2>1, <2>2, <2>8, <3>1, SMT DEF Fit
  <2>9. Chosen(k)'
    <3>1. step \in NewSteps => Candidate(Idx(k))[k] \in Nat
      <4>1. step \in NewSteps => Candidate(Idx(k)) \in Contents
        BY <1>6, <2>3, ConstantsAssumption, SMT
           DEF UpInv, Commit, Candidate, ContentOf, Inv, Types, TypeDisk, Image, Contents, Empty,
           Value
      <4> QED BY <4>1, ConstantsAssumption, SMT DEF Contents, Value
    <3>2. Candidate(Idx(k))' = Candidate(Idx(k))
      BY <1>2, <1>3 DEF Candidate
    <3> QED BY <1>2, <1>3, <1>6, <1>16, <1>17, <2>3, <2>6, <2>8, <3>1, <3>2
            DEF UpInv, Chosen, Past
  <2>10. InFlight(k)'
    BY <1>2, <1>3, <1>6, <1>16, <1>17, <2>2, <2>3, <2>6, <2>8
       DEF UpInv, InFlight
  <2> QED BY <2>4, <2>5, <2>7, <2>9, <2>10
<1> QED BY <1>13, <1>14, <1>15, <1>18, <1>19, <1>20, <1>21 DEF Inv, UpInv

-----------------------------------------------------------------------------
(***************************************************************************)
(* Tasks that wait for the lock                                            *)
(***************************************************************************)

\* A step of a task that does not hold the lock keeps the invariant when its
\* own promise, the values it began with, stays below what was stored.
LEMMA TaskKeeps ==
    ASSUME Inv, status = "up",
           UNCHANGED <<file, new, marker, pendingFile, status, bucketVars, dirty, levelVars,
                       client, holder, workVars, latest>>,
           pc' \in [Task -> Places], sweepAt' \in [Sweep -> Nat],
           since' \in [Flush -> Contents], flushed' \in Contents,
           holder \in Task => pc'[holder] = "working",
           holder \in Flush => since'[holder] = since[holder],
           \A s \in Sweep : pc'[s] \in {"waiting", "working"} => sweepAt'[s] \in Bucket,
           \A k \in Key : flushed'[k] <= OnDisk(k) /\ \A f \in Flush : since'[f][k] <= latest[k]
    PROVE  Inv'
<1>1. /\ UNCHANGED <<file, new, marker, pendingFile, status, entry, deserialized, dirty>>
      /\ UNCHANGED <<bucketCount, committedLevel, pendingLevel, fanOutAware>>
      /\ UNCHANGED <<holder, step, at, written, target, failed, gathered, latest, client>>
  BY DEF bucketVars, levelVars, workVars
<1>2. /\ RecoveredLevel' = RecoveredLevel
      /\ \A k : OnDisk(k)' = OnDisk(k)
      /\ \A k : Idx(k)' = Idx(k)
  BY <1>1, DiskKept, IdxKept
<1>3. Types'
  BY <1>1 DEF Inv, Types, TypeDisk, TypeMemory, TypeUsers, TypeTasks, TypeHistory
<1>4. Tasks'
  BY <1>1 DEF Inv, Tasks
<1>5. Disk'
  BY <1>1, <1>2 DEF Inv, Disk, NoNew
<1>6. \A k \in Key : Durable(k)'
  BY <1>1, <1>2 DEF Inv, Durable
<1>7. UpInv
  BY DEF Inv
<1>8. Levels'
  BY <1>1, <1>7 DEF UpInv, Levels
<1>9. Buckets'
  BY <1>1, <1>7 DEF UpInv, Buckets
<1>10. Commit'
  BY <1>1, <1>7 DEF UpInv, Commit, Past
<1>11. ASSUME NEW k \in Key PROVE Held(k)' /\ Flagged(k)' /\ Chosen(k)' /\ InFlight(k)'
  <2>1. Held(k)'
    BY <1>1, <1>7 DEF UpInv, Held, InMemory
  <2>2. Flagged(k)'
    BY <1>1, <1>2, <1>7 DEF UpInv, Flagged, InProgress, Settled
  <2>3. Chosen(k)'
    BY <1>1, <1>2, <1>7 DEF UpInv, Chosen, Past, Candidate, Fit
  <2>4. InFlight(k)'
    <3>1. step \in RenameSteps => holder \in Flush
      BY ConstantsAssumption
         DEF Inv, Tasks, Task, RollSteps, FlushSteps, SweepSteps, RenameSteps, NewSteps
    <3> QED BY <1>1, <1>2, <1>7, <3>1 DEF UpInv, InFlight, Fit
  <2> QED BY <2>1, <2>2, <2>3, <2>4
<1> QED BY <1>3, <1>4, <1>5, <1>6, <1>8, <1>9, <1>10, <1>11 DEF Inv, UpInv

\* The values stored, promised and flushed are naturals.
LEMMA HistoryType ==
    ASSUME Inv, NEW k \in Key
    PROVE  /\ latest[k] \in Nat /\ flushed[k] \in Nat /\ gathered[k] \in Nat
           /\ \A f \in Flush : since[f][k] \in Nat
           /\ OnDisk(k) \in Nat
           /\ Empty \in Contents /\ Empty[k] = 0
BY OnDiskType, ConstantsAssumption, SMT
   DEF Inv, Types, TypeHistory, TypeTasks, Contents, Value, Empty

\* The call of a flush keeps the invariant.
LEMMA FlushCallKeeps ==
    ASSUME Inv, NEW f \in Flush, FlushCall(f)
    PROVE  Inv'
<1>1. holder \in Task => holder # f
  BY DEF FlushCall, Inv, Tasks
<1>2. pc' \in [Task -> Places] /\ since' \in [Flush -> Contents]
  BY DEF FlushCall, Inv, Types, TypeTasks, TypeHistory, Task, Places
<1>3. /\ holder \in Task => pc'[holder] = "working"
      /\ holder \in Flush => since'[holder] = since[holder]
  BY <1>1 DEF FlushCall, Inv, Types, TypeTasks, TypeHistory, Tasks, Task
<1>4. \A s \in Sweep : pc'[s] \in {"waiting", "working"} => sweepAt'[s] \in Bucket
  BY DEF FlushCall, Inv, Types, TypeTasks, Tasks, Task
<1>5. ASSUME NEW k \in Key
      PROVE  flushed'[k] <= OnDisk(k) /\ \A g \in Flush : since'[g][k] <= latest[k]
  <2>1. latest[k] \in Nat /\ Durable(k)
    BY HistoryType DEF Inv
  <2>2. flushed' = flushed /\ \A g \in Flush : since'[g] = IF g = f THEN latest ELSE since[g]
    BY DEF FlushCall, Inv, Types, TypeHistory
  <2> QED BY ONLY <2>1, <2>2, SMT DEF Durable
<1> QED BY <1>2, <1>3, <1>4, <1>5, TaskKeeps
        DEF FlushCall, memVars, diskVars, userVars, Inv, Types, TypeTasks, TypeHistory

\* A flush returns that does not hold the lock.
LEMMA ReturnKeeps ==
    ASSUME Inv, NEW f \in Flush, NEW ok \in BOOLEAN, Return(f, ok), f # holder, status = "up",
           ok => \A k \in Key : since[f][k] <= OnDisk(k),
           UNCHANGED <<file, new, marker, pendingFile, status, bucketVars, dirty, levelVars,
                       client, holder, workVars>>
    PROVE  Inv'
<1>1. /\ pc' \in [Task -> Places] /\ since' \in [Flush -> Contents] /\ flushed' \in Contents
      /\ sweepAt' = sweepAt /\ latest' = latest
  <2>1. Empty \in Contents
    BY ConstantsAssumption, SMT DEF Contents, Value, Empty
  <2>2. [k \in Key |-> IF since[f][k] > flushed[k] THEN since[f][k] ELSE flushed[k]] \in Contents
    <3>1. since[f] \in [Key -> Value] /\ flushed \in [Key -> Value]
      BY DEF Inv, Types, TypeHistory, Contents
    <3> QED BY ONLY <3>1 DEF Contents
  <2> QED BY <2>1, <2>2 DEF Return, Inv, Types, TypeTasks, TypeHistory, Task, Places
<1>2. /\ holder \in Task => pc'[holder] = "working"
      /\ holder \in Flush => since'[holder] = since[holder]
  BY DEF Return, Inv, Types, TypeTasks, TypeHistory, Tasks, Task
<1>3. \A s \in Sweep : pc'[s] \in {"waiting", "working"} => sweepAt'[s] \in Bucket
  BY <1>1 DEF Return, Inv, Types, TypeTasks, Tasks, Task
<1>4. ASSUME NEW k \in Key
      PROVE  flushed'[k] <= OnDisk(k) /\ \A g \in Flush : since'[g][k] <= latest[k]
  <2>1. latest[k] \in Nat /\ Durable(k) /\ Empty[k] = 0
    BY HistoryType DEF Inv
  <2>2. \A g \in Flush : since'[g] = IF g = f THEN Empty ELSE since[g]
    BY DEF Return, Inv, Types, TypeHistory
  <2>3. flushed'[k] <= OnDisk(k)
    BY <2>1 DEF Return, Durable
  <2> QED BY ONLY <2>1, <2>2, <2>3, SMT DEF Durable
<1> QED BY <1>1, <1>2, <1>3, <1>4, TaskKeeps DEF Inv, Types, TypeTasks

\* With nothing flagged and the lock free, the disk has every value.
LEMMA NothingFlagged ==
    ASSUME Inv, status = "up", \A i \in Bucket : ~dirty[i], step \in {"none", "recheck"}
    PROVE  \A k \in Key : OnDisk(k) = latest[k] /\ \A f \in Flush : since[f][k] <= OnDisk(k)
<1> SUFFICES ASSUME NEW k \in Key
             PROVE  OnDisk(k) = latest[k] /\ \A f \in Flush : since[f][k] <= OnDisk(k)
  OBVIOUS
<1>1. Idx(k) \in Bucket
  BY IndexType DEF Idx, Inv, Types, TypeMemory
<1>2. OnDisk(k) = latest[k]
  BY <1>1 DEF Inv, UpInv, Flagged, InProgress, Settled, NewSteps
<1> QED BY <1>2 DEF Inv, Durable

\* The check of the flags under the lock keeps the invariant.
LEMMA FlushCheckKeeps ==
    ASSUME Inv, NEW f \in Flush, FlushCheck(f)
    PROVE  Inv'
<1>1. status = "up" /\ holder = Nobody /\ step = "none" /\ f # holder
  BY UsersUp, ConstantsAssumption DEF FlushCheck, AwaitBucketWrite, Task, Inv, Tasks
<1>2. /\ UNCHANGED <<file, new, marker, pendingFile, status, bucketVars, dirty, levelVars>>
      /\ UNCHANGED <<client, holder, workVars>>
  BY DEF FlushCheck, diskVars, memVars, userVars
<1>3. CASE (\A i \in Bucket : ~dirty[i]) /\ Return(f, TRUE)
  BY <1>1, <1>2, <1>3, ReturnKeeps, NothingFlagged
<1>4. CASE Return(f, FALSE)
  BY <1>1, <1>2, <1>4, ReturnKeeps
<1>5. CASE pc' = [pc EXCEPT ![f] = "claimed"] /\ UNCHANGED <<sweepAt, ghostVars>>
  <2>1. pc' \in [Task -> Places]
    BY <1>5 DEF Inv, Types, TypeTasks, Task, Places
  <2>2. \A s \in Sweep : pc'[s] \in {"waiting", "working"} => sweepAt'[s] \in Bucket
    BY <1>5 DEF Inv, Types, TypeTasks, Tasks, Task
  <2>3. holder \notin Task
    BY <1>1, ConstantsAssumption DEF Task
  <2>4. UNCHANGED <<sweepAt, latest, since, flushed>>
    BY <1>5 DEF ghostVars
  <2>5. \A k \in Key : flushed[k] <= OnDisk(k) /\ \A g \in Flush : since[g][k] <= latest[k]
    BY DEF Inv, Durable
  <2> QED BY <1>1, <1>2, <2>1, <2>2, <2>3, <2>4, <2>5, TaskKeeps
          DEF Inv, Types, TypeTasks, TypeHistory, Task
<1> QED BY <1>3, <1>4, <1>5 DEF FlushCheck

\* A task that only moves, and holds no lock, keeps the invariant.
LEMMA PcKeeps ==
    ASSUME Inv, status = "up", NEW t \in Task, t # holder, NEW place \in Places,
           pc' = [pc EXCEPT ![t] = place],
           sweepAt' \in [Sweep -> Nat],
           \A s \in Sweep : s # t => sweepAt'[s] = sweepAt[s],
           t \in Sweep /\ place \in {"waiting", "working"} => sweepAt'[t] \in Bucket,
           UNCHANGED <<file, new, marker, pendingFile, status, bucketVars, dirty, levelVars,
                       client, holder, workVars, ghostVars>>
    PROVE  Inv'
<1>1. pc' \in [Task -> Places]
  BY DEF Inv, Types, TypeTasks, Task
<1>2. \A s \in Sweep : pc'[s] \in {"waiting", "working"} => sweepAt'[s] \in Bucket
  BY DEF Inv, Types, TypeTasks, Tasks, Task
<1>3. /\ UNCHANGED <<latest, since, flushed>>
      /\ UNCHANGED <<file, new, marker, pendingFile, status, bucketVars, dirty, levelVars>>
      /\ UNCHANGED <<client, holder, workVars>>
  BY DEF ghostVars
<1>4. \A k \in Key : flushed[k] <= OnDisk(k) /\ \A g \in Flush : since[g][k] <= latest[k]
  BY DEF Inv, Durable
<1>5. holder \in Task => pc'[holder] = "working"
  BY DEF Inv, Types, TypeTasks, Tasks, Task
<1> QED BY <1>1, <1>2, <1>3, <1>4, <1>5, TaskKeeps DEF Inv, Types,
           TypeHistory

\* The look of flush_all at the group keeps the invariant.
LEMMA FlushScanKeeps ==
    ASSUME Inv, NEW f \in Flush, FlushScan(f)
    PROVE  Inv'
<1>1. status = "up" /\ f # holder
  BY UsersUp DEF FlushScan, Task, Inv, Tasks
<1>2. /\ UNCHANGED <<file, new, marker, pendingFile, status, bucketVars, dirty, levelVars>>
      /\ UNCHANGED <<client, holder, workVars>>
  BY DEF FlushScan, diskVars, memVars, userVars
<1>3. CASE holder = Nobody /\ NothingToFlush /\ Return(f, TRUE)
  BY <1>1, <1>2, <1>3, ReturnKeeps, NothingFlagged DEF NothingToFlush,
     Inv, Tasks
<1>4. CASE pc' = [pc EXCEPT ![f] = "waiting"] /\ UNCHANGED <<sweepAt, ghostVars>>
  <2>1. f \in Task /\ f \notin Sweep /\ "waiting" \in Places
    BY ConstantsAssumption DEF Task, Places
  <2> QED BY <1>1, <1>2, <1>4, <2>1, PcKeeps DEF Inv, Types, TypeTasks
<1> QED BY <1>3, <1>4 DEF FlushScan

\* The start of flush_delayed keeps the invariant.
LEMMA SweepWakeKeeps ==
    ASSUME Inv, NEW s \in Sweep, SweepWake(s)
    PROVE  Inv'
<1>1. status = "up" /\ s # holder /\ s \in Task /\ "woken" \in Places
  BY DEF SweepWake, Task, Inv, Tasks, Places
<1>2. sweepAt' \in [Sweep -> Nat] /\ \A r \in Sweep : r # s => sweepAt'[r] = sweepAt[r]
  BY DEF SweepWake, Inv, Types, TypeTasks
<1> QED BY <1>1, <1>2, PcKeeps DEF SweepWake, diskVars, userVars

\* The claim of a sweep keeps the invariant.
LEMMA SweepClaimKeeps ==
    ASSUME Inv, NEW s \in Sweep, SweepClaim(s)
    PROVE  Inv'
<1>1. status = "up" /\ s # holder /\ s \in Task /\ "next" \in Places /\ "idle" \in Places
  BY UsersUp DEF SweepClaim, Task, Inv, Tasks, Places
<1>2. \E place \in {"next", "idle"} : pc' = [pc EXCEPT ![s] = place]
  BY DEF SweepClaim
<1>3. /\ UNCHANGED <<file, new, marker, pendingFile, status, bucketVars, dirty, levelVars>>
      /\ UNCHANGED <<client, holder, workVars, ghostVars, sweepAt>>
  BY DEF SweepClaim, diskVars, memVars, userVars
<1> QED BY <1>1, <1>2, <1>3, PcKeeps DEF Inv, Types, TypeTasks

\* A sweep goes from bucket to bucket.
LEMMA SweepNextKeeps ==
    ASSUME Inv, NEW s \in Sweep, SweepNext(s)
    PROVE  Inv'
<1>1. status = "up" /\ s # holder /\ s \in Task /\ {"next", "idle", "waiting"} \subseteq Places
  BY UsersUp DEF SweepNext, Task, Inv, Tasks, Places
<1>2. /\ UNCHANGED <<file, new, marker, pendingFile, status, bucketVars, dirty, levelVars>>
      /\ UNCHANGED <<client, holder, workVars, ghostVars>>
  BY DEF SweepNext, diskVars, memVars, userVars
<1>3. CASE pc' = [pc EXCEPT ![s] = "idle"] /\ sweepAt' = [sweepAt EXCEPT ![s] = 0]
  <2>1. sweepAt' \in [Sweep -> Nat] /\ \A r \in Sweep : r # s => sweepAt'[r] = sweepAt[r]
    BY <1>3 DEF Inv, Types, TypeTasks
  <2> QED BY <1>1, <1>2, <1>3, <2>1, PcKeeps
<1>4. CASE sweepAt[s] < LevelMax /\ pc' = [pc EXCEPT ![s] = "waiting"] /\ UNCHANGED sweepAt
  <2>1. sweepAt[s] \in Bucket
    BY <1>4, LevelMaxType, SMT DEF Inv, Types, TypeTasks, Bucket
  <2> QED BY <1>1, <1>2, <1>4, <2>1, PcKeeps DEF Inv, Types, TypeTasks
<1>5. CASE sweepAt' = [sweepAt EXCEPT ![s] = @ + 1] /\ UNCHANGED pc
  <2>1. sweepAt' \in [Sweep -> Nat] /\ \A r \in Sweep : r # s => sweepAt'[r] = sweepAt[r]
    BY <1>5, SMT DEF Inv, Types, TypeTasks
  <2>2. pc' = [pc EXCEPT ![s] = "next"]
    BY <1>1, <1>5 DEF SweepNext, Inv, Types, TypeTasks
  <2> QED BY <1>1, <1>2, <2>1, <2>2, PcKeeps
<1> QED BY <1>3, <1>4, <1>5 DEF SweepNext

-----------------------------------------------------------------------------
(***************************************************************************)
(* The end of a holder's work                                              *)
(***************************************************************************)

\* Steps between which nothing is being written.
Quiet == RollSteps \cup {"none", "survey", "recheck", "fanOut", "move", "commit", "initial", "serialize", "swept"}

\* Outside a commit and a write the parts of the invariant about them are empty.
LEMMA QuietKnows ==
    ASSUME step \in Quiet
    PROVE  /\ step \notin NewSteps \cup RenameSteps \cup {"newWrite", "write", "writing"}
           /\ Commit
           /\ \A i : ~InProgress(i)
           /\ \A k \in Key : Chosen(k) /\ InFlight(k)
<1>1. step \notin NewSteps \cup RenameSteps \cup {"newWrite", "write", "writing"}
  BY DEF Quiet, RollSteps, NewSteps, RenameSteps
<1>2. step \notin {"new", "stale", "pending", "onlyMarker"}
  BY DEF Quiet, RollSteps
<1> QED BY <1>1, <1>2 DEF Commit, InProgress, Chosen, InFlight

\* The same of the next state.
LEMMA QuietNext ==
    ASSUME step' \in Quiet
    PROVE  /\ step' \notin NewSteps \cup RenameSteps \cup {"newWrite", "write", "writing"}
           /\ Commit'
           /\ \A k \in Key : Chosen(k)' /\ InFlight(k)'
<1>1. step' \notin NewSteps \cup RenameSteps \cup {"newWrite", "write", "writing"}
  BY DEF Quiet, RollSteps, NewSteps, RenameSteps
<1>2. step' \notin {"new", "stale", "pending", "onlyMarker"}
  BY DEF Quiet, RollSteps
<1> QED BY <1>1, <1>2 DEF Commit, Chosen, InFlight

\* The end of a holder's work: the lock is free, and at most what the flush
\* promised counts as flushed.
LEMMA LetGoTasks ==
    ASSUME Inv, status = "up", status' = "up", NEW ok \in BOOLEAN, EndWork(ok)
    PROVE  /\ Tasks' /\ TypeTasks' /\ TypeHistory'
           /\ step' = "none" /\ latest' = latest
           /\ \A k \in Key : \A f \in Flush : since'[f][k] <= latest[k]
           /\ flushed' # flushed => /\ ok /\ holder \in Flush
                                    /\ \A k \in Key : flushed'[k] \in {since[holder][k], flushed[k]}
<1>1. Empty \in Contents /\ \A k \in Key : Empty[k] = 0
  BY ConstantsAssumption, SMT DEF Contents, Value, Empty
<1>2. LetGo
  BY DEF EndWork
<1>3. at' \in Nat /\ written' \in SUBSET Bucket /\ failed' \in BOOLEAN /\ gathered' \in Contents
  BY <1>1, <1>2 DEF LetGo
<1>4. CASE holder \in Flush /\ Return(holder, ok)
  <2>1. pc' \in [Task -> Places] /\ sweepAt' \in [Sweep -> Nat]
    BY <1>4 DEF Return, Inv, Types, TypeTasks, Task, Places
  <2>2. [k \in Key |-> IF since[holder][k] > flushed[k] THEN since[holder][k] ELSE flushed[k]] \in Contents
    BY <1>4 DEF Inv, Types, TypeHistory, Contents
  <2>3. TypeHistory'
    BY <1>1, <1>4, <2>2 DEF Return, Inv, Types, TypeHistory
  <2>4. \A s \in Sweep : pc'[s] \in {"waiting", "working"} => sweepAt'[s] \in Bucket
    BY <1>4 DEF Return, Inv, Types, TypeTasks, Tasks, Task, Places
  <2>5. \A k \in Key : \A f \in Flush : since'[f][k] <= latest[k]
    <3> SUFFICES ASSUME NEW k \in Key, NEW f \in Flush PROVE since'[f][k] <= latest[k]
      OBVIOUS
    <3>1. latest[k] \in Nat /\ since[f][k] <= latest[k]
      BY HistoryType DEF Inv, Durable
    <3>2. since'[f] = since[f] \/ since'[f] = Empty
      BY <1>4 DEF Return, Inv, Types, TypeHistory
    <3> QED BY <1>1, <3>1, <3>2, SMT
  <2>6. flushed' # flushed => ok /\ \A k \in Key : flushed'[k] \in {since[holder][k], flushed[k]}
    BY <1>4 DEF Return
  <2>7. Tasks'
    BY <1>2, <2>4, ConstantsAssumption DEF Tasks, LetGo, RollSteps, Task
  <2> QED BY <1>2, <1>3, <1>4, <2>1, <2>3, <2>5, <2>6, <2>7 DEF Return, TypeTasks, LetGo
<1>5. CASE /\ holder \in Sweep
           /\ pc' = [pc EXCEPT ![holder] = IF ok THEN "next" ELSE "idle"]
           /\ sweepAt' = [sweepAt EXCEPT ![holder] = IF ok THEN @ + 1 ELSE 0]
           /\ UNCHANGED ghostVars
  <2>1. pc' \in [Task -> Places] /\ sweepAt' \in [Sweep -> Nat]
    BY <1>5, SMT DEF Inv, Types, TypeTasks, Task, Places
  <2>2. UNCHANGED <<latest, since, flushed>>
    BY <1>5 DEF ghostVars
  <2>3. \A s \in Sweep : pc'[s] \in {"waiting", "working"} => sweepAt'[s] \in Bucket
    BY <1>5 DEF Inv, Types, TypeTasks, Tasks, Task, Places
  <2>4. \A k \in Key : \A f \in Flush : since'[f][k] <= latest[k]
    BY <2>2 DEF Inv, Durable
  <2>5. Tasks'
    BY <1>2, <2>3, ConstantsAssumption DEF Tasks, LetGo, RollSteps, Task
  <2> QED BY <1>2, <1>3, <2>1, <2>2, <2>4, <2>5 DEF TypeTasks, TypeHistory, Inv, Types, LetGo
<1> QED BY <1>4, <1>5 DEF EndWork

\* A holder's work ends and the invariant stays, when every key is flagged or
\* settled and a flush that returns Ok has on disk what it promised.
LEMMA EndKeeps ==
    ASSUME Inv, status = "up", status' = "up", NEW ok \in BOOLEAN, EndWork(ok), UNCHANGED client,
           TypeDisk', TypeMemory', Disk', Levels', Buckets',
           \A k \in Key : /\ Held(k)'
                          /\ OnDisk(k) <= OnDisk(k)' /\ OnDisk(k)' <= latest[k]
                          /\ dirty'[Idx(k)'] \/ Settled(k)'
                          /\ ok /\ holder \in Flush => since[holder][k] <= OnDisk(k)'
    PROVE  Inv'
<1>1. /\ Tasks' /\ TypeTasks' /\ TypeHistory'
      /\ step' = "none" /\ latest' = latest
      /\ \A k \in Key : \A f \in Flush : since'[f][k] <= latest[k]
      /\ flushed' # flushed => /\ ok /\ holder \in Flush
                               /\ \A k \in Key : flushed'[k] \in {since[holder][k], flushed[k]}
  BY LetGoTasks
<1>2. Types'
  BY <1>1 DEF Types, TypeUsers, Inv
<1>3. ASSUME NEW k \in Key PROVE Durable(k)' /\ Flagged(k)'
  <2>1. OnDisk(k)' \in Nat /\ OnDisk(k) \in Nat /\ flushed[k] \in Nat
    BY OnDiskTypeNext, HistoryType
  <2>2. flushed[k] <= OnDisk(k)
    BY DEF Inv, Durable
  <2>3. flushed'[k] <= OnDisk(k)'
    BY <1>1, <2>1, <2>2, SMT
  <2> QED BY <1>1, <2>3 DEF Durable, Flagged
<1>4. Commit' /\ \A k \in Key : Chosen(k)' /\ InFlight(k)'
  BY <1>1, QuietNext DEF Quiet
<1> QED BY <1>1, <1>2, <1>3, <1>4 DEF Inv, UpInv

\* The files without effect: .new files while there is no level.pending.
LEMMA StaleNewIgnored ==
    ASSUME UNCHANGED <<file, marker, pendingFile>>, new' = new \/ pendingFile = 0
    PROVE  /\ UNCHANGED RecoveredLevel
           /\ \A k \in Key : TypeDisk => OnDisk(k)' = OnDisk(k)
<1>1. UNCHANGED RecoveredLevel
  BY DEF RecoveredLevel
<1>2. ASSUME NEW k \in Key, TypeDisk PROVE OnDisk(k)' = OnDisk(k)
  <2>1. BucketIndexFor(k, RecoveredLevel) \in Nat
    BY <1>2, OnDiskType, IndexType
  <2>2. RecoveredFile(BucketIndexFor(k, RecoveredLevel))' = RecoveredFile(BucketIndexFor(k, RecoveredLevel))
    BY <1>1, <2>1, SMT DEF RecoveredFile
  <2> QED BY <2>2 DEF OnDisk
<1> QED BY <1>1, <1>2

\* The same for an end that writes nothing: at most the buckets X are flagged
\* again.
LEMMA EndUnchanged ==
    ASSUME Inv, status = "up", NEW ok \in BOOLEAN, EndWork(ok),
           UNCHANGED <<file, marker, pendingFile, status, levelVars, client>>,
           new' \in [Bucket -> Image], new' = new \/ pendingFile = 0,
           Reads,
           NEW X \in SUBSET Bucket, dirty' = [i \in Bucket |-> dirty[i] \/ i \in X],
           \A i \in X : i < bucketCount /\ deserialized[i],
           pendingFile # 0 => X # {} \/ \E i \in Bucket : dirty[i],
           \A k \in Key : dirty[Idx(k)] \/ Idx(k) \in X \/ Settled(k),
           ok /\ holder \in Flush => \A k \in Key : since[holder][k] <= OnDisk(k)
    PROVE  Inv'
<1>1. /\ UNCHANGED <<file, marker, pendingFile, status, client>>
      /\ UNCHANGED <<bucketCount, committedLevel, pendingLevel, fanOutAware>>
  BY DEF levelVars
<1>2. TypeDisk' /\ TypeMemory'
  BY <1>1 DEF Inv, Types, TypeDisk, TypeMemory, Reads
<1>3. /\ RecoveredLevel' = RecoveredLevel
      /\ \A k \in Key : OnDisk(k)' = OnDisk(k)
      /\ \A k : Idx(k)' = Idx(k)
  BY <1>1, StaleNewIgnored, IdxKept DEF Inv, Types
<1>4. /\ \A i \in Bucket : deserialized[i] => deserialized'[i]
      /\ \A k \in Key : InMemory(k)' = InMemory(k)
  BY <1>1, ReadKept
<1>5. UpInv
  BY DEF Inv
<1>6. latest' = latest /\ step' = "none"
  BY LetGoTasks, <1>1
<1>7. Disk'
  BY <1>1, <1>3, <1>6 DEF Inv, Disk, FlushSteps, RollSteps, NewSteps, RenameSteps
<1>8. Levels'
  BY <1>1, <1>5, <1>6 DEF UpInv, Levels, NewSteps
<1>9. Buckets'
  <2>1. \A i \in Bucket : dirty'[i] => i < bucketCount /\ deserialized'[i]
    BY <1>4, <1>5 DEF UpInv, Buckets
  <2>2. \A i \in Bucket : i < pendingFile /\ new'[i] # NoFile => deserialized'[i]
    <3>1. \A i \in Bucket : ~(i < 0)
      BY LevelMaxType, SMT DEF Bucket
    <3>2. CASE new' = new
      BY <1>4, <1>5, <3>2 DEF UpInv, Buckets
    <3> QED BY <3>1, <3>2
  <2>3. pendingFile # 0 => \E i \in Bucket : dirty'[i]
    OBVIOUS
  <2> QED BY <1>1, <1>4, <1>5, <1>6, <2>1, <2>2, <2>3 DEF UpInv, Buckets, NewSteps, RenameSteps
<1>10. ASSUME NEW k \in Key
       PROVE  /\ Held(k)'
              /\ OnDisk(k) <= OnDisk(k)' /\ OnDisk(k)' <= latest[k]
              /\ dirty'[Idx(k)'] \/ Settled(k)'
  <2>1. Held(k)'
    BY <1>4, <1>5, <1>6 DEF UpInv, Held
  <2>2. OnDisk(k) <= OnDisk(k)' /\ OnDisk(k)' <= latest[k]
    <3>1. OnDisk(k)' = OnDisk(k) /\ OnDisk(k) \in Nat /\ latest[k] \in Nat
      BY <1>3, HistoryType
    <3>2. OnDisk(k) <= latest[k]
      BY DEF Inv, Durable
    <3> QED BY ONLY <3>1, <3>2, SMT
  <2>3. Idx(k) \in Bucket
    BY IndexType DEF Idx, Inv, Types, TypeMemory
  <2>4. dirty'[Idx(k)'] \/ Settled(k)'
    BY <1>1, <1>3, <1>6, <2>3 DEF Settled
  <2> QED BY <2>1, <2>2, <2>4
<1> QED BY <1>1, <1>2, <1>3, <1>7, <1>8, <1>9, <1>10, EndKeeps

\* Buckets that stay as they are are a lazy read of none.
LEMMA NoReads ==
    ASSUME Inv, UNCHANGED bucketVars
    PROVE  Reads
BY DEF Inv, Types, TypeMemory, Reads, bucketVars

\* The work ends with everything as it was.
LEMMA EndQuiet ==
    ASSUME Inv, status = "up", step \in Quiet, NEW ok \in BOOLEAN, EndWork(ok),
           UNCHANGED <<file, new, marker, pendingFile, status, levelVars, client, dirty>>, Reads,
           ok /\ holder \in Flush => \A k \in Key : since[holder][k] <= OnDisk(k)
    PROVE  Inv'
<1>1. dirty' = [i \in Bucket |-> dirty[i] \/ i \in {}]
  BY DEF Inv, Types, TypeMemory
<1>2. UpInv
  BY DEF Inv
<1>3. \A k \in Key : dirty[Idx(k)] \/ Settled(k)
  BY <1>2, QuietKnows DEF UpInv, Flagged
<1>4. pendingFile # 0 => \E i \in Bucket : dirty[i]
  BY <1>2, QuietKnows DEF UpInv, Buckets
<1>5. new' \in [Bucket -> Image]
  BY DEF Inv, Types, TypeDisk
<1> DEFINE X == {}
<1>6. X \in SUBSET Bucket /\ \A i \in X : i < bucketCount /\ deserialized[i]
  OBVIOUS
<1>7. dirty' = [i \in Bucket |-> dirty[i] \/ i \in X]
  BY <1>1
<1> HIDE DEF X
<1> QED BY <1>3, <1>4, <1>5, <1>6, <1>7, EndUnchanged

\* A commit that does not complete flags what it wrote.
LEMMA AbandonKeeps ==
    ASSUME Inv, status = "up", step \in {"commit", "new", "stale", "pending", "onlyMarker"} \cup RenameSteps, Abandon,
           UNCHANGED <<file, marker, pendingFile, status, bucketVars, levelVars, client>>,
           new' \in [Bucket -> Image], new' = new \/ pendingFile = 0
    PROVE  Inv'
<1>1. UpInv
  BY DEF Inv
<1>2. step = "commit" => written = {}
  BY DEF Inv, Tasks
<1>3. step # "commit" => step \in NewSteps \cup RenameSteps
  BY DEF NewSteps
<1>4. \A i \in written : i < bucketCount /\ deserialized[i]
  BY <1>1, <1>2, <1>3 DEF UpInv, Buckets
<1>5. pendingFile # 0 => written # {} \/ \E i \in Bucket : dirty[i]
  BY <1>1 DEF UpInv, Buckets
<1>6. \A k \in Key : dirty[Idx(k)] \/ Idx(k) \in written \/ Settled(k)
  BY <1>1 DEF UpInv, Flagged, InProgress, RenameSteps, NewSteps
<1>7. EndWork(FALSE) /\ dirty' = [i \in Bucket |-> dirty[i] \/ i \in written]
  BY DEF Abandon
<1>8. written \in SUBSET Bucket /\ Reads
  BY NoReads DEF Inv, Types, TypeTasks
<1> QED BY <1>4, <1>5, <1>6, <1>7, <1>8, EndUnchanged

\* Going from one step to the next with everything as it was.
LEMMA QuietKeeps ==
    ASSUME Inv, status = "up", step \in Quiet,
           step' \in Quiet \cup {"write", "new"},
           step' = "write" => at' = 0,
           step' = "new" => at' = 0 /\ written' = {},
           UNCHANGED <<file, new, marker, pendingFile, status, bucketVars, dirty, levelVars,
                       client, ghostVars>>,
           TypeTasks', Tasks', Disk', Levels'
    PROVE  Inv'
<1>1. /\ UNCHANGED <<file, new, marker, pendingFile, status, entry, deserialized, dirty>>
      /\ UNCHANGED <<bucketCount, committedLevel, pendingLevel, fanOutAware>>
      /\ UNCHANGED <<latest, since, flushed, client>>
  BY DEF bucketVars, levelVars, ghostVars
<1>2. /\ \A k : OnDisk(k)' = OnDisk(k)
      /\ \A k : Idx(k)' = Idx(k)
  BY <1>1, DiskKept, IdxKept
<1>3. Types'
  BY <1>1 DEF Inv, Types, TypeDisk, TypeMemory, TypeUsers, TypeHistory
<1>4. \A k \in Key : Durable(k)'
  BY <1>1, <1>2 DEF Inv, Durable
<1>5. UpInv
  BY DEF Inv
<1>6. step' \notin RenameSteps /\ step' \notin {"stale", "pending", "newWrite", "writing", "onlyMarker"}
  BY DEF Quiet, RollSteps, RenameSteps
<1>7. Buckets'
  <2>1. step' \in NewSteps \cup RenameSteps => written' = {}
    BY <1>6, QuietNext DEF NewSteps
  <2>2. step \notin RenameSteps
    BY QuietKnows
  <2> QED BY <1>1, <1>5, <1>6, <2>1, <2>2 DEF UpInv, Buckets
<1>8. CASE step' \in Quiet
  <2>1. Commit' /\ \A k \in Key : Chosen(k)' /\ InFlight(k)'
    BY <1>8, QuietNext
  <2>2. \A k \in Key : Held(k)' /\ Flagged(k)'
    BY <1>1, <1>2, <1>5, QuietKnows DEF UpInv, Held, InMemory, Flagged,
       Settled
  <2> QED BY <1>3, <1>4, <1>7, <2>1, <2>2 DEF Inv, UpInv
<1>9. CASE step' = "write"
  <2>1. Commit'
    BY <1>9 DEF Commit, NewSteps
  <2>2. ASSUME NEW k \in Key PROVE Held(k)' /\ Flagged(k)' /\ Chosen(k)' /\ InFlight(k)'
    <3>1. Held(k)' /\ Flagged(k)'
      BY <1>1, <1>2, <1>5, QuietKnows DEF UpInv, Held, InMemory,
         Flagged, Settled
    <3>2. Idx(k)' \in Nat
      BY <1>2, IndexType DEF Idx, Inv, Types, TypeMemory
    <3> QED BY <1>9, <3>1, <3>2, SMT DEF Chosen, InFlight, NewSteps, RenameSteps
  <2> QED BY <1>3, <1>4, <1>7, <2>1, <2>2 DEF Inv, UpInv
<1>10. CASE step' = "new"
  <2>1. Commit'
    <3>1. \A i \in Bucket : ~(i < 0)
      BY LevelMaxType, SMT DEF Bucket
    <3>2. 0 <= bucketCount'
      BY <1>1, LevelMaxType, SMT DEF Inv, Types, TypeMemory
    <3> QED BY <1>10, <3>1, <3>2 DEF Commit, Past
  <2>2. ASSUME NEW k \in Key PROVE Held(k)' /\ Flagged(k)' /\ Chosen(k)' /\ InFlight(k)'
    <3>1. Held(k)' /\ Flagged(k)'
      BY <1>1, <1>2, <1>5, QuietKnows DEF UpInv, Held, InMemory,
         Flagged, Settled
    <3>2. Idx(k)' \in Nat
      BY <1>2, IndexType DEF Idx, Inv, Types, TypeMemory
    <3> QED BY <1>10, <3>1, <3>2, SMT DEF Chosen, Past, InFlight, RenameSteps
  <2> QED BY <1>3, <1>4, <1>7, <2>1, <2>2 DEF Inv, UpInv
<1> QED BY <1>8, <1>9, <1>10

\* A waiting task takes the lock.
LEMMA TakeKeeps ==
    ASSUME Inv, status = "up", NEW t \in Task, pc[t] = "waiting",
           NEW first \in {"roll", "recheck", "initial", "swept"}, Take(t, first),
           first = "roll" => pendingLevel # 0,
           first \in {"recheck", "initial"} => pendingLevel = 0,
           t \in Flush => first \in {"roll", "recheck"},
           t \in Sweep => first \in {"roll", "initial", "swept"},
           pc' = [pc EXCEPT ![t] = "working"],
           UNCHANGED <<diskVars, status, memVars, userVars, sweepAt, ghostVars>>
    PROVE  Inv'
<1>1. /\ UNCHANGED <<file, new, marker, pendingFile, status, bucketVars, dirty, levelVars>>
      /\ UNCHANGED <<client, list, ghostVars, sweepAt>>
  BY DEF diskVars, memVars, userVars
<1>2. UNCHANGED <<bucketCount, committedLevel, pendingLevel, fanOutAware>>
  BY <1>1 DEF levelVars
<1>3. step \in Quiet /\ step' \in Quiet /\ step' = first /\ holder' = t /\ at' = 0 /\ written' = {}
  BY DEF Take, Quiet, RollSteps, Inv, Tasks
<1>4. TypeTasks'
  <2>1. Empty \in Contents
    BY ConstantsAssumption, SMT DEF Contents, Value, Empty
  <2>2. pc' \in [Task -> Places] /\ sweepAt' \in [Sweep -> Nat]
    BY <1>1 DEF Inv, Types, TypeTasks, Places
  <2> QED BY <2>1, <2>2 DEF Take, TypeTasks
<1>5. \A s \in Sweep : pc'[s] \in {"waiting", "working"} => sweepAt'[s] \in Bucket
  BY <1>1 DEF Inv, Types, TypeTasks, Tasks, Task
<1>6. pc'[t] = "working"
  BY DEF Inv, Types, TypeTasks
<1>7. Tasks'
  <2>1. t # Opener /\ t # Nobody /\ (t \in Flush => t \notin Sweep)
    BY ConstantsAssumption DEF Task
  <2>2. first \in {"roll", "recheck"} => first \in RollSteps \cup FlushSteps
    BY DEF RollSteps, FlushSteps
  <2>3. first \in {"roll", "initial", "swept"} => first \in RollSteps \cup SweepSteps
    BY DEF RollSteps, SweepSteps
  <2> QED BY <1>1, <1>3, <1>5, <1>6, <2>1, <2>2, <2>3 DEF Tasks
<1>8. UpInv
  BY DEF Inv
<1>9. pendingLevel = pendingFile
  BY <1>8 DEF UpInv, Levels
<1>10. Disk'
  <2>1. NoNew(0)'
    BY LevelMaxType, SMT DEF NoNew, Bucket
  <2>2. RecoveredLevel' = RecoveredLevel
    BY <1>1, DiskKept
  <2>3. 0 <= pendingFile
    BY LevelMaxType, SMT DEF Inv, Types, TypeDisk, Level
  <2>4. step' \in (FlushSteps \ RenameSteps) \cup {"survey", "initial", "serialize", "writing"} =>
           first \in {"recheck", "initial"}
    BY <1>3 DEF FlushSteps, NewSteps, RenameSteps
  <2>5. first \notin {"rename", "rollMarker", "rollDelete", "marker", "delete"}
    OBVIOUS
  <2>6. step' \in RollSteps \cup RenameSteps => first = "roll"
    BY <1>3 DEF RollSteps, RenameSteps
  <2> QED BY <1>1, <1>3, <1>9, <2>1, <2>2, <2>3, <2>4, <2>5, <2>6 DEF Inv, Disk
<1>11. Levels'
  BY <1>1, <1>2, <1>3, <1>8 DEF UpInv, Levels, NewSteps
<1> QED BY <1>1, <1>3, <1>4, <1>7, <1>10, <1>11, QuietKeeps DEF Quiet

\* A flush takes the lock.
LEMMA FlushLockKeeps ==
    ASSUME Inv, NEW f \in Flush, FlushLock(f)
    PROVE  Inv'
<1>1. status = "up" /\ f \in Task /\ f \notin Sweep
  BY UsersUp, ConstantsAssumption DEF FlushLock, Task
<1> QED BY <1>1, TakeKeeps DEF FlushLock

\* A sweep takes the lock.
LEMMA SweepLockKeeps ==
    ASSUME Inv, NEW s \in Sweep, SweepLock(s)
    PROVE  Inv'
<1>1. status = "up" /\ s \in Task /\ s \notin Flush
  BY UsersUp, ConstantsAssumption DEF SweepLock, Task
<1> QED BY <1>1, TakeKeeps DEF SweepLock

-----------------------------------------------------------------------------
(***************************************************************************)
(* The steps of the lock holder, but for the commit                        *)
(***************************************************************************)

\* The task that is at a step of the work under the lock.
LEMMA HolderAt ==
    ASSUME Inv
    PROVE  /\ step \in FlushSteps \ {"writing"} => holder \in Flush /\ holder \in Task /\ status = "up"
           /\ step \in {"initial", "serialize", "swept"} => holder \in Sweep /\ holder \in Task /\ status = "up"
           /\ step = "writing" => holder \in Task /\ status = "up"
           /\ step = "survey" => holder = Opener /\ status \in {"opening", "reloading"}
           /\ step \in RollSteps => \/ holder = Opener /\ status = "opening"
                                    \/ holder \in Task /\ status = "up"
<1>1. /\ status \in {"down", "opening", "reloading", "up"}
      /\ holder \in Task \cup {Opener, Nobody}
      /\ status = "down" => holder = Nobody
      /\ status = "up" => holder # Opener
      /\ status \in {"opening", "reloading"} => holder = Opener
      /\ status = "reloading" => step = "survey"
      /\ holder = Nobody => step = "none"
      /\ holder = Opener => step \in RollSteps \cup {"survey"}
      /\ holder \in Flush => step \in RollSteps \cup FlushSteps
      /\ holder \in Sweep => step \in RollSteps \cup SweepSteps
  BY DEF Inv, Tasks
<1>2. /\ Opener \notin Task /\ Nobody \notin Task /\ Nobody # Opener
      /\ \A t \in Task : t \in Flush <=> t \notin Sweep
  BY ConstantsAssumption DEF Task
<1>3. step = "survey" => holder = Opener /\ status \in {"opening", "reloading"}
  BY <1>1, <1>2 DEF FlushSteps, SweepSteps, RollSteps, NewSteps, RenameSteps
<1>4. step \in RollSteps => holder \in Task \cup {Opener}
  BY <1>1 DEF RollSteps
<1>5. step \in RollSteps => step # "survey"
  BY DEF RollSteps
<1>6. step \in FlushSteps \ {"writing"} => step \notin RollSteps \cup SweepSteps \cup {"survey", "none"}
  BY DEF FlushSteps, SweepSteps, RollSteps, NewSteps, RenameSteps
<1>7. step \in {"initial", "serialize", "swept", "writing"} => step \notin RollSteps \cup {"survey", "none"}
  BY DEF RollSteps
<1>8. step \in {"initial", "serialize", "swept"} => step \notin FlushSteps
  BY DEF FlushSteps, NewSteps, RenameSteps
<1> QED BY <1>1, <1>2, <1>3, <1>4, <1>5, <1>6, <1>7, <1>8

\* A holder that goes on to a step of its kind keeps the tasks in order.
LEMMA GotoTasks ==
    ASSUME Inv, status = "up", holder \in Task, UNCHANGED <<status, holder, pc, sweepAt>>,
           holder \in Flush => step' \in RollSteps \cup FlushSteps,
           holder \in Sweep => step' \in RollSteps \cup SweepSteps,
           step' \in RollSteps \cup {"recheck", "fanOut", "move", "commit"} => written' = {}
    PROVE  Tasks'
<1>1. Opener \notin Task /\ Nobody \notin Task
  BY ConstantsAssumption DEF Task
<1> QED BY <1>1 DEF Inv, Tasks

\* The flush looks again under the lock, and is done when another drained the
\* group.
LEMMA FlushRecheckKeeps ==
    ASSUME Inv, FlushRecheck
    PROVE  Inv'
<1>1. holder \in Flush /\ holder \in Task /\ status = "up" /\ step \in Quiet
  BY HolderAt DEF FlushRecheck, FlushSteps, Quiet
<1>2. /\ UNCHANGED <<file, new, marker, pendingFile, status, bucketVars, dirty, levelVars>>
      /\ UNCHANGED client
  BY DEF FlushRecheck, diskVars, memVars, userVars
<1>3. CASE (\A i \in Bucket : ~dirty[i]) /\ EndWork(TRUE)
  <2>1. \A k \in Key : since[holder][k] <= OnDisk(k)
    BY <1>1, <1>3, NothingFlagged DEF FlushRecheck
  <2> QED BY <1>1, <1>2, <1>3, <2>1, EndQuiet, NoReads
<1>4. CASE Goto("fanOut") /\ UNCHANGED ghostVars
  <2>1. step' = "fanOut" /\ at' = 0 /\ UNCHANGED <<holder, written, target, failed, gathered, pc, sweepAt>>
    BY <1>4 DEF Goto
  <2>2. written = {} /\ pendingFile = 0
    BY DEF FlushRecheck, Inv, Tasks, Disk, FlushSteps, RenameSteps
  <2>3. Tasks'
    BY <1>1, <1>2, <2>1, <2>2, ConstantsAssumption, GotoTasks DEF FlushSteps
  <2>4. TypeTasks'
    BY <2>1 DEF Inv, Types, TypeTasks
  <2>5. RecoveredLevel' = RecoveredLevel
    BY <1>2, DiskKept
  <2>6. Disk'
    BY <1>2, <2>1, <2>2, <2>5 DEF Inv, Disk, RollSteps, RenameSteps
  <2>7. Levels'
    BY <1>1, <1>2, <2>1 DEF Inv, UpInv, Levels, levelVars, NewSteps
  <2> QED BY <1>1, <1>2, <1>4, <2>1, <2>3, <2>4, <2>6, <2>7, QuietKeeps DEF Quiet
<1> QED BY <1>3, <1>4 DEF FlushRecheck

\* A fan-out that cannot read a bucket changes no layout.
LEMMA FanOutFailsKeeps ==
    ASSUME Inv, FanOutFails
    PROVE  Inv'
<1>1. status = "up" /\ step \in Quiet
  BY HolderAt DEF FanOutFails, FlushSteps, Quiet
<1>2. PICK j \in 0 .. bucketCount - 1 :
        /\ entry' = [i \in Bucket |-> IF i < j THEN Loaded(i) ELSE entry[i]]
        /\ deserialized' = [i \in Bucket |-> deserialized[i] \/ i < j]
  BY DEF FanOutFails
<1>3. Reads
  <2>1. \A i \in Bucket : Loaded(i) \in Contents /\ entry[i] \in Contents /\ deserialized[i] \in BOOLEAN
    BY LoadedType DEF Inv, Types, TypeMemory
  <2> QED BY <1>2, <2>1 DEF Reads
<1> QED BY <1>1, <1>3, EndQuiet DEF FanOutFails, diskVars, userVars

\* The begin of a commit keeps the invariant.
LEMMA CommitDirKeeps ==
    ASSUME Inv, CommitDir
    PROVE  Inv'
<1>1. holder \in Flush /\ holder \in Task /\ status = "up" /\ step \in Quiet /\ step = "commit"
  BY HolderAt DEF CommitDir, FlushSteps, Quiet
<1>2. UNCHANGED <<file, new, marker, pendingFile, status, bucketVars, levelVars, client>>
  BY DEF CommitDir, userVars
<1>3. CASE Abandon
  BY <1>1, <1>2, <1>3, AbandonKeeps DEF Inv, Types, TypeDisk
<1>4. CASE Goto("new") /\ UNCHANGED <<dirty, ghostVars>>
  <2>1. step' = "new" /\ at' = 0 /\ UNCHANGED <<holder, written, target, failed, gathered, pc, sweepAt>>
    BY <1>4 DEF Goto
  <2>2. written = {} /\ pendingFile = 0
    BY <1>1 DEF Inv, Tasks, Disk, FlushSteps, RenameSteps
  <2>3. Tasks'
    BY <1>1, <1>2, <2>1, <2>2, ConstantsAssumption, GotoTasks DEF FlushSteps, NewSteps
  <2>4. TypeTasks'
    BY <2>1 DEF Inv, Types, TypeTasks
  <2>5. RecoveredLevel' = RecoveredLevel
    BY <1>2, DiskKept
  <2>6. Disk'
    BY <1>2, <2>1, <2>2, <2>5 DEF Inv, Disk, RollSteps, RenameSteps
  <2>7. Levels'
    BY <1>1, <1>2, <2>1 DEF Inv, UpInv, Levels, levelVars, NewSteps
  <2> QED BY <1>1, <1>2, <1>4, <2>1, <2>2, <2>3, <2>4, <2>6, <2>7, QuietKeeps
<1> QED BY <1>3, <1>4 DEF CommitDir

\* The end of a sweep's write keeps the invariant.
LEMMA SweepEndKeeps ==
    ASSUME Inv, SweepEnd
    PROVE  Inv'
<1>1. holder \in Sweep /\ status = "up" /\ step \in Quiet /\ holder \notin Flush
  BY HolderAt, ConstantsAssumption DEF SweepEnd, Quiet
<1> QED BY <1>1, EndQuiet, NoReads DEF SweepEnd, diskVars, memVars,
           userVars

\* A fan-out keeps the invariant: every key is in its new bucket with the value
\* it had, and every bucket that got an entry is flagged.
LEMMA FanOutMoveKeeps ==
    ASSUME Inv, FanOutMove
    PROVE  Inv'
<1>1. holder \in Flush /\ holder \in Task /\ status = "up" /\ step = "move"
  BY HolderAt DEF FanOutMove, FlushSteps
<1>2. UpInv
  BY <1>1 DEF Inv
<1>3. /\ target \in Ladder /\ target > bucketCount /\ target \in Nat /\ bucketCount \in Nat
      /\ target <= LevelMax /\ bucketCount # LevelMax /\ LevelMax \in Nat
  <2>1. target \in Ladder /\ target > bucketCount /\ bucketCount \in Ladder
    BY <1>1, <1>2 DEF UpInv, Levels, Inv, Types, TypeMemory
  <2> QED BY <2>1, LevelMaxType, SMT
<1>4. /\ UNCHANGED <<file, new, marker, pendingFile, status, client, latest, since, flushed>>
      /\ UNCHANGED <<holder, written, failed, gathered, pc, sweepAt>>
      /\ UNCHANGED <<committedLevel, pendingLevel, fanOutAware>>
      /\ bucketCount' = target /\ at' = 0
  BY DEF FanOutMove, diskVars, userVars, ghostVars
<1>5. written = {} /\ pendingFile = 0
  BY <1>1 DEF Inv, Tasks, Disk, FlushSteps, RenameSteps
<1>6. /\ fanOutAware /\ committedLevel # target /\ committedLevel <= target /\ committedLevel \in Nat
      /\ committedLevel = 0 => \A i \in Bucket : file[i] = NoFile
  BY <1>2, <1>3, <1>5, LevelMaxType, SMT DEF UpInv, Levels, Inv, Types, TypeMemory, Level
<1>7. step' = "commit"
  BY <1>6 DEF FanOutMove
<1>8. /\ \A k : OnDisk(k)' = OnDisk(k)
      /\ RecoveredLevel' = RecoveredLevel
  BY <1>4, DiskKept
<1>9. ASSUME NEW k \in Key
      PROVE  /\ Idx(k) \in Bucket /\ BucketIndexFor(k, target) \in Bucket
             /\ BucketIndexFor(k, target) \in 0 .. target - 1
             /\ Idx(k)' = BucketIndexFor(k, target)
             /\ Loaded(Idx(k))[k] = latest[k]
             /\ latest[k] \in Nat
             /\ Moved(BucketIndexFor(k, target), target)[k] = latest[k]
  <2>1. Idx(k) \in Bucket /\ BucketIndexFor(k, target) \in Bucket
    BY <1>3, IndexType DEF Idx, Inv, Types, TypeMemory
  <2>2. BucketIndexFor(k, target) \in 0 .. target - 1
    BY <1>3, IndexType, SMT
  <2>3. Idx(k)' = BucketIndexFor(k, target)
    BY <1>4 DEF Idx
  <2>4. Loaded(Idx(k))[k] = latest[k]
    BY <1>2 DEF UpInv, Held, InMemory, Loaded, Idx
  <2>5. Moved(BucketIndexFor(k, target), target)[k] = latest[k]
    BY <2>4 DEF Moved, Idx
  <2> QED BY <2>1, <2>2, <2>3, <2>4, <2>5, HistoryType
<1>10. \A i \in Bucket : Moved(i, target) \in Contents
  <2> SUFFICES ASSUME NEW i \in Bucket PROVE Moved(i, target) \in Contents
    OBVIOUS
  <2>1. \A k \in Key : Loaded(BucketIndexFor(k, bucketCount))[k] \in Value
    BY <1>9, LoadedType DEF Idx, Contents
  <2> QED BY <2>1, ConstantsAssumption, SMT DEF Moved, Contents, Value
<1>11. /\ entry' = [i \in Bucket |-> IF i \in 0 .. target - 1 THEN Moved(i, target) ELSE entry[i]]
       /\ deserialized' = [i \in Bucket |-> deserialized[i] \/ i \in 0 .. target - 1]
       /\ dirty' = [i \in Bucket |-> dirty[i] \/ (i \in 0 .. target - 1 /\ Moved(i, target) # Empty)]
  BY DEF FanOutMove
<1>12. Types'
  <2>1. entry' \in [Bucket -> Contents]
    BY <1>10, <1>11 DEF Inv, Types, TypeMemory
  <2>2. deserialized' \in [Bucket -> BOOLEAN] /\ dirty' \in [Bucket -> BOOLEAN]
    BY <1>11 DEF Inv, Types, TypeMemory
  <2> QED BY <1>3, <1>4, <2>1, <2>2
          DEF Inv, Types, TypeDisk, TypeMemory, TypeUsers, TypeTasks, TypeHistory
<1>13. Tasks'
  BY <1>1, <1>4, <1>5, <1>7, ConstantsAssumption, GotoTasks DEF FlushSteps
<1>14. Disk'
  BY <1>4, <1>5, <1>7, <1>8 DEF Inv, Disk, RollSteps, RenameSteps
<1>15. Levels'
  <2>1. Levels
    BY <1>2 DEF UpInv
  <2> QED BY <1>3, <1>4, <1>5, <1>6, <1>7, <2>1 DEF Levels
<1>16. Buckets'
  <2>1. \A i \in Bucket : i < target => i \in 0 .. target - 1
    BY <1>3, SMT DEF Bucket
  <2>2. \A i \in Bucket : i < target => deserialized'[i]
    BY <1>11, <2>1 DEF Inv, Types, TypeMemory
  <2>3. \A i \in Bucket : dirty[i] => i < bucketCount /\ i < target
    BY <1>2, <1>3, SMT DEF UpInv, Buckets, Bucket
  <2>4. \A i \in Bucket : dirty'[i] => i < target
    <3>1. \A i \in 0 .. target - 1 : i < target
      BY <1>3, SMT
    <3> QED BY <1>11, <2>3, <3>1
  <2>5. \A i \in Bucket : ~(i < 0)
    BY LevelMaxType, SMT DEF Bucket
  <2> QED BY <1>4, <1>5, <1>7, <2>2, <2>4, <2>5 DEF Buckets, NewSteps, RenameSteps
<1>17. Commit' /\ \A k \in Key : Chosen(k)' /\ InFlight(k)'
  BY <1>7, QuietNext DEF Quiet
<1>18. ASSUME NEW k \in Key PROVE Durable(k)' /\ Held(k)' /\ Flagged(k)'
  <2>1. Durable(k)'
    BY <1>4, <1>8 DEF Inv, Durable
  <2>2. entry'[BucketIndexFor(k, target)][k] = latest[k] /\ deserialized'[BucketIndexFor(k, target)]
    BY <1>9, <1>11 DEF Inv, Types, TypeMemory
  <2>3. Held(k)'
    BY <1>4, <1>9, <2>2 DEF Held, InMemory, Idx
  <2>4. CASE Moved(BucketIndexFor(k, target), target) # Empty
    <3>1. dirty'[BucketIndexFor(k, target)]
      BY <1>9, <1>11, <2>4 DEF Inv, Types, TypeMemory
    <3> QED BY <1>9, <2>1, <2>3, <3>1 DEF Flagged
  <2>5. CASE Moved(BucketIndexFor(k, target), target) = Empty
    <3>1. latest[k] = 0
      BY <1>9, <2>5 DEF Empty
    <3>2. OnDisk(k) = 0
      BY <3>1, HistoryType, SMT DEF Inv, Durable
    <3>3. Settled(k)'
      BY <1>4, <1>8, <3>1, <3>2 DEF Settled
    <3> QED BY <2>1, <2>3, <3>3 DEF Flagged
  <2> QED BY <2>4, <2>5
<1> QED BY <1>12, <1>13, <1>14, <1>15, <1>16, <1>17, <1>18 DEF Inv, UpInv

-----------------------------------------------------------------------------
(***************************************************************************)
(* Rolling forward, opening and stopping                                   *)
(***************************************************************************)

\* A roll forward that fails leaves the rest to the next one.
LEMMA RollFailsKeeps ==
    ASSUME Inv, step \in RollSteps, RollFails,
           UNCHANGED <<file, new, marker, pendingFile, memVars, userVars>>
    PROVE  Inv'
<1>1. /\ UNCHANGED <<file, new, marker, pendingFile, bucketVars, dirty, levelVars, client, list>>
  BY DEF memVars, userVars
<1>2. CASE holder # Opener /\ EndWork(FALSE) /\ UNCHANGED status
  <2>1. status = "up" /\ step \in Quiet
    BY <1>2, HolderAt DEF Quiet
  <2> QED BY <1>1, <1>2, <2>1, EndQuiet, NoReads
<1>3. CASE /\ holder = Opener /\ LetGo
           /\ status' = IF status = "opening" THEN "down" ELSE "up"
           /\ UNCHANGED <<pc, sweepAt, ghostVars>>
  <2>1. status = "opening" /\ status' = "down"
    BY <1>3, HolderAt, ConstantsAssumption DEF Task
  <2>2. UNCHANGED <<pc, sweepAt, latest, since, flushed>>
    BY <1>3 DEF ghostVars
  <2>3. UNCHANGED <<entry, deserialized, bucketCount, committedLevel, pendingLevel, fanOutAware>>
    BY <1>1 DEF bucketVars, levelVars
  <2>4. Empty \in Contents
    BY ConstantsAssumption, SMT DEF Contents, Value, Empty
  <2>5. TypeTasks'
    BY <1>3, <2>2, <2>4 DEF LetGo, Inv, Types, TypeTasks
  <2>6. Types'
    BY <1>1, <2>2, <2>3, <2>5 DEF Inv, Types, TypeDisk, TypeMemory, TypeUsers, TypeHistory
  <2>7. Tasks'
    <3>1. holder' = Nobody /\ step' = "none" /\ Nobody \notin Task /\ Nobody # Opener
      BY <1>3, ConstantsAssumption DEF LetGo, Task
    <3> QED BY <1>1, <2>1, <2>2, <3>1 DEF Inv, Tasks, RollSteps, Task
  <2>8. /\ RecoveredLevel' = RecoveredLevel
        /\ \A k : OnDisk(k)' = OnDisk(k)
    BY <1>1, DiskKept
  <2>9. Disk'
    BY <1>1, <1>3, <2>8 DEF LetGo, Inv, Disk, FlushSteps, RollSteps, NewSteps, RenameSteps
  <2>10. \A k \in Key : Durable(k)'
    BY <2>1, <2>2, <2>8 DEF Inv, Durable
  <2> QED BY <2>1, <2>6, <2>7, <2>9, <2>10 DEF Inv
<1> QED BY <1>2, <1>3 DEF RollFails

\* The roll forward goes on, and the disk keeps what the next open finds.
LEMMA RollKeeps ==
    ASSUME Inv, step \in RollSteps, step' \in RollSteps,
           TypeDisk', TypeTasks', Disk', \A k \in Key : OnDisk(k)' = OnDisk(k),
           UNCHANGED <<pendingFile, status, memVars, userVars, ghostVars>>,
           UNCHANGED <<holder, written, pc, sweepAt>>,
           \A i \in Bucket : file'[i] = file[i] \/ (i < pendingFile /\ new[i] # NoFile),
           \A i \in Bucket : new'[i] = new[i] \/ new'[i] = NoFile
    PROVE  Inv'
<1>1. /\ UNCHANGED <<pendingFile, status, entry, deserialized, dirty, client, list>>
      /\ UNCHANGED <<bucketCount, committedLevel, pendingLevel, fanOutAware>>
      /\ UNCHANGED <<latest, since, flushed>>
  BY DEF memVars, bucketVars, levelVars, userVars, ghostVars
<1>2. Types'
  BY <1>1 DEF Inv, Types, TypeMemory, TypeUsers, TypeHistory
<1>3. written = {}
  BY DEF Inv, Tasks
<1>4. Tasks'
  <2>1. step' # "survey" /\ step # "survey"
    BY DEF RollSteps
  <2>2. step' # "none" /\ step # "none"
    BY DEF RollSteps
  <2> QED BY <1>1, <1>3, <2>1, <2>2 DEF Inv, Tasks
<1>5. \A k \in Key : Durable(k)'
  BY <1>1 DEF Inv, Durable
<1>6. ASSUME status = "up" PROVE UpInv'
  <2>1. UpInv
    BY <1>6 DEF Inv
  <2>2. pendingFile # 0
    BY DEF Inv, Disk
  <2>3. step \in Quiet /\ step' \in Quiet
    BY DEF Quiet
  <2>4. Levels'
    <3>1. step' \notin {"move", "commit", "write", "writing", "serialize"} \cup NewSteps
      BY DEF RollSteps, NewSteps
    <3> QED BY <1>1, <2>1, <2>2, <3>1 DEF UpInv, Levels
  <2>5. Buckets'
    <3>1. /\ step' \notin RenameSteps \cup NewSteps \cup {"stale", "pending", "newWrite", "writing"}
          /\ step \notin RenameSteps
      BY DEF RollSteps, NewSteps, RenameSteps
    <3>2. \A i \in Bucket : i < pendingFile /\ new'[i] # NoFile => deserialized[i]
      BY <2>1 DEF UpInv, Buckets
    <3> QED BY <1>1, <2>1, <3>1, <3>2 DEF UpInv, Buckets
  <2>6. Commit' /\ \A k \in Key : Chosen(k)' /\ InFlight(k)'
    BY <2>3, QuietNext
  <2>7. ASSUME NEW k \in Key PROVE Held(k)' /\ Flagged(k)'
    <3>1. Idx(k) \in Bucket /\ Idx(k)' = Idx(k)
      BY <1>1, IndexType DEF Idx, Inv, Types, TypeMemory
    <3>2. deserialized[Idx(k)] \/ file'[Idx(k)] = file[Idx(k)]
      BY <2>1, <3>1 DEF UpInv, Buckets
    <3>3. Held(k)'
      BY <1>1, <2>1, <3>1, <3>2 DEF UpInv, Held, InMemory, Idx
    <3>4. Flagged(k)'
      BY <1>1, <2>1, <2>3, <3>1, QuietKnows DEF UpInv, Flagged, Settled
    <3> QED BY <3>3, <3>4
  <2> QED BY <2>4, <2>5, <2>6, <2>7 DEF UpInv
<1> QED BY <1>1, <1>2, <1>4, <1>5, <1>6 DEF Inv

\* A rename of a roll forward keeps what an open would find.
LEMMA RollRenameKeeps ==
    ASSUME Inv, RollRename
    PROVE  Inv'
<1>1. step = "roll" /\ step \in RollSteps /\ UNCHANGED <<marker, pendingFile, memVars, userVars>>
  BY DEF RollRename, RollSteps
<1>2. pendingFile # 0 /\ at <= pendingFile /\ NoNew(at) /\ pendingFile \in Ladder /\ pendingFile \in Nat
  BY <1>1, LevelMaxType DEF Inv, Disk, Types, TypeDisk, Level
<1>3. CASE /\ at < pendingFile
           /\ file' = [file EXCEPT ![at] = IF new[at] = NoFile THEN @ ELSE new[at]]
           /\ new' = [new EXCEPT ![at] = NoFile]
           /\ at' = at + 1
           /\ UNCHANGED <<step, holder, written, target, failed, gathered, pc, sweepAt>>
           /\ UNCHANGED <<status, ghostVars, boundVars>>
  <2>1. at \in Bucket /\ at \in Nat
    BY <1>2, <1>3, LevelMaxType, SMT DEF Bucket, Inv, Types, TypeTasks
  <2>2. /\ \A i \in Bucket : i # at => file'[i] = file[i] /\ new'[i] = new[i]
        /\ file'[at] = IF new[at] = NoFile THEN file[at] ELSE new[at]
        /\ new'[at] = NoFile
    BY <1>3, <2>1 DEF Inv, Types, TypeDisk
  <2>3. TypeDisk'
    BY <1>1, <1>3, <2>1 DEF Inv, Types, TypeDisk, Image
  <2>4. TypeTasks'
    BY <1>3, <2>1, SMT DEF Inv, Types, TypeTasks
  <2>5. RecoveredLevel' = RecoveredLevel
    BY <1>1 , <1>2 DEF RecoveredLevel
  <2>6. \A i \in Bucket : RecoveredFile(i)' = RecoveredFile(i)
    BY <1>1, <1>3, <2>1, <2>2 DEF RecoveredFile
  <2>7. \A k \in Key : OnDisk(k)' = OnDisk(k)
    <3> SUFFICES ASSUME NEW k \in Key PROVE OnDisk(k)' = OnDisk(k)
      OBVIOUS
    <3>1. BucketIndexFor(k, RecoveredLevel) \in Bucket
      BY OnDiskType, IndexType DEF Inv, Types
    <3> QED BY <2>5, <2>6, <3>1 DEF OnDisk
  <2>8. Disk'
    <3>1. \A i \in Bucket : i >= RecoveredLevel' => file'[i] = NoFile
      <4>1. \A i \in Bucket : i >= RecoveredLevel => i # at
        BY <1>2, <1>3, <2>1, SMT DEF RecoveredLevel, Bucket
      <4> QED BY <2>2, <2>5, <4>1 DEF Inv, Disk
    <3>2. NoNew(at)'
      <4>1. \A i \in Bucket : i < at + 1 => i = at \/ i < at
        BY <2>1, LevelMaxType, SMT DEF Bucket
      <4> QED BY <1>2, <1>3, <2>2, <4>1 DEF NoNew
    <3>3. at' <= pendingFile
      BY <1>2, <1>3, <2>1, SMT
    <3> QED BY <1>1, <1>2, <1>3, <3>1, <3>2, <3>3 DEF Disk, NoNew, RollSteps, RenameSteps, FlushSteps, NewSteps
  <2> QED BY <1>1, <1>3, <2>2, <2>3, <2>4, <2>7, <2>8, RollKeeps
<1>4. CASE at = pendingFile /\ Goto("rollMarker") /\ UNCHANGED <<file, new, status, ghostVars, boundVars>>
  <2>1. /\ step' = "rollMarker" /\ step' \in RollSteps /\ at' = 0
        /\ UNCHANGED <<holder, written, failed, gathered, pc, sweepAt>>
    BY <1>4 DEF Goto, RollSteps
  <2>2. TypeDisk' /\ TypeTasks'
    BY <1>1, <1>4, <2>1 DEF Inv, Types, TypeDisk, TypeTasks
  <2>3. RecoveredLevel' = RecoveredLevel /\ \A k \in Key : OnDisk(k)' = OnDisk(k)
    BY <1>1, <1>4, DiskKept
  <2>4. Disk'
    BY <1>1, <1>2, <1>4, <2>1, <2>3 DEF Inv, Disk, NoNew, RenameSteps, FlushSteps, NewSteps
  <2> QED BY <1>1, <1>4, <2>1, <2>2, <2>3, <2>4, RollKeeps
<1>5. CASE RollFails /\ UNCHANGED <<file, new>>
  BY <1>1, <1>5, RollFailsKeeps
<1> QED BY <1>3, <1>4, <1>5 DEF RollRename

\* The marker of a roll forward keeps what an open would find.
LEMMA RollMarkerKeeps ==
    ASSUME Inv, RollMarker
    PROVE  Inv'
<1>1. step = "rollMarker" /\ step \in RollSteps /\ UNCHANGED <<file, new, pendingFile, memVars, userVars>>
  BY DEF RollMarker, RollSteps
<1>2. pendingFile # 0 /\ NoNew(pendingFile)
  BY <1>1 DEF Inv, Disk
<1>3. CASE marker' = pendingFile /\ Goto("rollDelete") /\ UNCHANGED <<status, ghostVars, boundVars>>
  <2>1. /\ step' = "rollDelete" /\ step' \in RollSteps /\ at' = 0
        /\ UNCHANGED <<holder, written, failed, gathered, pc, sweepAt>>
    BY <1>3 DEF Goto, RollSteps
  <2>2. TypeDisk' /\ TypeTasks'
    BY <1>1, <1>3, <2>1 DEF Inv, Types, TypeDisk, TypeTasks
  <2>3. RecoveredLevel' = RecoveredLevel
    BY <1>1, <1>2 DEF RecoveredLevel
  <2>4. \A k \in Key : OnDisk(k)' = OnDisk(k)
    BY <1>1, <2>3 DEF OnDisk, RecoveredFile
  <2>5. Disk'
    BY <1>1, <1>2, <1>3, <2>1, <2>3 DEF Inv, Disk, NoNew, RenameSteps, FlushSteps, NewSteps
  <2> QED BY <1>1, <1>3, <2>1, <2>2, <2>4, <2>5, RollKeeps
<1>4. CASE RollFails /\ UNCHANGED marker
  BY <1>1, <1>4, RollFailsKeeps
<1> QED BY <1>3, <1>4 DEF RollMarker

\* The removal of level.pending keeps what an open would find.
LEMMA RollDeleteKeeps ==
    ASSUME Inv, RollDelete
    PROVE  Inv'
<1>1. /\ step = "rollDelete" /\ step \in RollSteps /\ step \in Quiet
      /\ UNCHANGED <<file, new, marker, bucketVars, dirty, bucketCount, fanOutAware, client, list>>
      /\ UNCHANGED <<entry, deserialized>>
  BY DEF RollDelete, RollSteps, Quiet, userVars, bucketVars
<1>2. /\ pendingFile # 0 /\ NoNew(pendingFile) /\ marker = pendingFile /\ written = {}
      /\ pendingFile \in Ladder
  BY <1>1 DEF Inv, Disk, Types, TypeDisk, Level, Tasks
<1>3. CASE RollFails /\ UNCHANGED <<pendingFile, committedLevel, pendingLevel>>
  BY <1>1, <1>3, RollFailsKeeps DEF RollDelete, memVars, levelVars, userVars
<1>4. CASE /\ pendingFile' = 0
           /\ Goto(AfterRoll(holder))
           /\ committedLevel' = IF holder = Opener THEN committedLevel ELSE pendingLevel
           /\ pendingLevel' = IF holder = Opener THEN pendingLevel ELSE 0
           /\ UNCHANGED <<status, ghostVars, boundVars>>
  <2>1. /\ step' = AfterRoll(holder) /\ at' = 0
        /\ UNCHANGED <<holder, written, failed, gathered, pc, sweepAt, latest, since, flushed, status>>
    BY <1>4 DEF Goto, ghostVars
  <2>2. TypeTasks' /\ TypeDisk' /\ TypeMemory' /\ TypeUsers' /\ TypeHistory'
    BY <1>1, <1>4, <2>1 DEF Inv, Types, TypeDisk, TypeMemory, TypeUsers, TypeTasks, TypeHistory, Level
  <2>3. RecoveredLevel' = RecoveredLevel
    BY <1>1, <1>2, <1>4 DEF RecoveredLevel
  <2>4. \A i \in Bucket : RecoveredFile(i)' = RecoveredFile(i)
    <3>1. \A i \in Bucket : ~(i < 0)
      BY LevelMaxType, SMT DEF Bucket
    <3> QED BY <1>1, <1>2, <1>4, <3>1 DEF RecoveredFile, NoNew
  <2>5. \A k \in Key : OnDisk(k)' = OnDisk(k)
    <3> SUFFICES ASSUME NEW k \in Key PROVE OnDisk(k)' = OnDisk(k)
      OBVIOUS
    <3>1. BucketIndexFor(k, RecoveredLevel) \in Bucket
      BY OnDiskType, IndexType DEF Inv, Types
    <3> QED BY <2>3, <2>4, <3>1 DEF OnDisk
  <2>6. step' \in {"survey", "recheck", "initial"} /\ step' \in Quiet
    BY <2>1 DEF AfterRoll, Quiet
  <2>7. Disk'
    BY <1>1, <1>4, <2>3, <2>6 DEF Inv, Disk, RollSteps, RenameSteps
  <2>8. \A k \in Key : Durable(k)'
    BY <2>1, <2>5 DEF Inv, Durable
  <2>9. CASE holder = Opener /\ status = "opening"
    <3>1. Tasks'
      <4>1. Opener \notin Flush /\ Opener \notin Sweep /\ Opener \notin Task /\ Opener # Nobody
        BY ConstantsAssumption DEF Task
      <4>2. step' = "survey"
        BY <2>1, <2>9 DEF AfterRoll
      <4> QED BY <1>1, <1>2, <2>1, <2>9, <4>1, <4>2 DEF Inv, Tasks
    <3> QED BY <2>1, <2>2, <2>7, <2>8, <2>9, <3>1 DEF Inv, Types
  <2>10. CASE holder \in Task /\ status = "up"
    <3>1. holder # Opener /\ (holder \in Flush => holder \notin Sweep)
      BY <2>10, ConstantsAssumption DEF Task
    <3>2. Tasks'
      <4>1. holder \in Flush => step' \in RollSteps \cup FlushSteps
        BY <2>1, <3>1 DEF AfterRoll, FlushSteps
      <4>2. holder \in Sweep => step' \in RollSteps \cup SweepSteps
        BY <2>1, <3>1 DEF AfterRoll, SweepSteps
      <4> QED BY <1>2, <2>1, <2>10, <4>1, <4>2, GotoTasks
    <3>3. UpInv
      BY <2>10 DEF Inv
    <3>4. pendingLevel = pendingFile /\ bucketCount = pendingFile /\ fanOutAware
      BY <1>2, <3>3 DEF UpInv, Levels
    <3>5. committedLevel' = bucketCount /\ pendingLevel' = 0 /\ bucketCount' = bucketCount
      BY <1>1, <1>4, <3>1, <3>4
    <3>6. bucketCount \in Nat /\ bucketCount # 0
      BY <1>2, <3>4, LevelMaxType
    <3>7. Levels'
      BY <1>1, <1>2, <1>4, <2>6, <3>4, <3>5, <3>6, SMT DEF Levels, NewSteps
    <3>8. Buckets'
      <4>1. \A i \in Bucket : ~(i < 0)
        BY LevelMaxType, SMT DEF Bucket
      <4>2. step' \notin RenameSteps \cup NewSteps \cup {"stale", "pending", "newWrite", "writing"}
        BY <2>6 DEF RenameSteps, NewSteps
      <4> QED BY <1>1, <1>4, <3>3, <3>5, <4>1, <4>2 DEF UpInv, Buckets
    <3>9. Commit' /\ \A k \in Key : Chosen(k)' /\ InFlight(k)'
      BY <2>6, QuietNext
    <3>10. ASSUME NEW k \in Key PROVE Held(k)' /\ Flagged(k)'
      <4>1. Idx(k)' = Idx(k)
        BY <1>1, IdxKept
      <4>2. Held(k)'
        BY <1>1, <2>1, <3>3 DEF UpInv, Held, InMemory
      <4>3. dirty[Idx(k)] \/ Settled(k)
        BY <1>1, <3>3, QuietKnows DEF UpInv, Flagged
      <4>4. Flagged(k)'
        BY <1>1, <2>1, <2>5, <3>5, <4>1, <4>3 DEF Flagged, Settled
      <4> QED BY <4>2, <4>4
    <3> QED BY <2>1, <2>2, <2>7, <2>8, <3>2, <3>7, <3>8, <3>9, <3>10 DEF Inv, Types, UpInv
  <2> QED BY <1>1, <2>9, <2>10, HolderAt
<1> QED BY <1>3, <1>4 DEF RollDelete

\* An open or a reload begins.
LEMMA OpenKeeps ==
    ASSUME Inv, Open \/ Reload
    PROVE  Inv'
<1>1. /\ UNCHANGED <<file, new, marker, pendingFile, bucketVars, dirty, levelVars, client, list>>
      /\ UNCHANGED <<pc, sweepAt, ghostVars>>
      /\ Take(Opener, IF pendingFile # 0 THEN "roll" ELSE "survey")
      /\ status' = IF status = "down" THEN "opening" ELSE "reloading"
      /\ status \in {"down", "up"}
  BY DEF Open, Reload, diskVars, memVars, userVars
<1>2. /\ UNCHANGED <<latest, since, flushed, entry, deserialized>>
      /\ UNCHANGED <<bucketCount, committedLevel, pendingLevel, fanOutAware>>
  BY <1>1 DEF ghostVars, bucketVars, levelVars
<1>3. /\ RecoveredLevel' = RecoveredLevel
      /\ \A k : OnDisk(k)' = OnDisk(k)
  BY <1>1, DiskKept
<1>4. holder = Nobody /\ step = "none" /\ step \in Quiet
  BY <1>1 DEF Take, Inv, Tasks, Quiet
<1>5. status = "up" => pendingFile = 0
  <2> SUFFICES ASSUME status = "up" PROVE pendingFile = 0
    OBVIOUS
  <2>1. \A i \in Bucket : ~dirty[i]
    BY DEF Open, Reload
  <2> QED BY <1>4, <2>1, QuietKnows DEF Inv, UpInv, Buckets
<1>6. \A k \in Key : OnDisk(k) = latest[k]
  <2>1. CASE status = "down"
    BY <2>1 DEF Inv, Durable
  <2>2. CASE status = "up"
    BY <1>4, <2>2, NothingFlagged DEF Open, Reload
  <2> QED BY <1>1, <2>1, <2>2
<1>7. \A k \in Key : Durable(k)'
  BY <1>1, <1>2, <1>3, <1>6 DEF Inv, Durable
<1>8. /\ holder' = Opener /\ at' = 0 /\ written' = {} /\ failed' = FALSE /\ gathered' = Empty
      /\ step' = IF pendingFile # 0 THEN "roll" ELSE "survey"
  BY <1>1 DEF Take
<1>9. Types'
  <2>1. Empty \in Contents
    BY ConstantsAssumption, SMT DEF Contents, Value, Empty
  <2> QED BY <1>1, <1>2, <1>8, <2>1
          DEF Inv, Types, TypeDisk, TypeMemory, TypeUsers, TypeTasks,
             TypeHistory
<1>10. Tasks'
  <2>1. Opener \notin Task /\ Opener # Nobody
    BY ConstantsAssumption DEF Task
  <2>2. /\ \A c \in Client : client[c].pc = "idle"
        /\ list.pc = "idle"
        /\ \A t \in Task : pc[t] \in {"idle", "ok"}
    BY DEF Open, Reload, Inv, Tasks, Task
  <2>3. status' \in {"opening", "reloading"} /\ (status' = "reloading" => step' = "survey")
    BY <1>1, <1>5, <1>8
  <2>4. "roll" \in RollSteps
    BY DEF RollSteps
  <2>5. \A s \in Sweep : pc'[s] \in {"waiting", "working"} => sweepAt'[s] \in Bucket
    BY <1>1 DEF Inv, Tasks
  <2> QED BY <1>1, <1>8, <2>1, <2>2, <2>3, <2>4, <2>5 DEF Tasks, Task
<1>11. Disk'
  <2>1. NoNew(0)' /\ 0 <= pendingFile
    BY LevelMaxType, SMT DEF NoNew, Bucket, Inv, Types, TypeDisk, Level
  <2> QED BY <1>1, <1>3, <1>8, <2>1 DEF Inv, Disk, RollSteps, RenameSteps, FlushSteps, NewSteps
<1> QED BY <1>1, <1>7, <1>9, <1>10, <1>11 DEF Inv

\* A stop keeps the invariant: what counts as stored is what the disk has.
LEMMA StopKeeps ==
    ASSUME Inv, Stop
    PROVE  Inv'
<1>1. /\ UNCHANGED <<file, new, marker, pendingFile, flushed>>
      /\ UNCHANGED <<bucketCount, committedLevel, pendingLevel, fanOutAware>>
      /\ status' = "down" /\ holder' = Nobody /\ step' = "none" /\ at' = 0 /\ written' = {}
      /\ failed' = FALSE /\ gathered' = Empty
  BY DEF Stop, LetGo, diskVars, levelVars
<1>2. /\ RecoveredLevel' = RecoveredLevel
      /\ \A k : OnDisk(k)' = OnDisk(k)
  BY <1>1, DiskKept
<1>3. Empty \in Contents /\ \A k \in Key : Empty[k] = 0
  BY ConstantsAssumption, SMT DEF Contents, Value, Empty
<1>4. latest' \in Contents /\ \A k \in Key : latest'[k] = OnDisk(k)
  BY OnDiskType DEF Stop, Contents, Inv, Types
<1>5. since' = [f \in Flush |-> Empty] /\ since' \in [Flush -> Contents]
  BY <1>3 DEF Stop
<1>6. TypeMemory' /\ TypeDisk'
  BY <1>1, <1>3 DEF Stop, Inv, Types, TypeMemory, TypeDisk
<1>7. TypeUsers' /\ \A c \in Client : client'[c].pc = "idle"
  <2>1. NoClient.pc = "idle"
    BY DEF NoClient
  <2> QED BY <2>1, NoClientType DEF Stop, TypeUsers
<1>8. pc' = [t \in Task |-> "idle"] /\ sweepAt' = [s \in Sweep |-> 0]
  BY DEF Stop, Task
<1>9. Types'
  BY <1>1, <1>3, <1>4, <1>5, <1>6, <1>7, <1>8 DEF Inv, Types,
     TypeTasks, TypeHistory, Places
<1>10. Tasks'
  <2>1. Nobody \notin Task /\ Nobody # Opener
    BY ConstantsAssumption DEF Task
  <2>2. list'.pc = "idle"
    BY DEF Stop, NoList
  <2> QED BY <1>1, <1>7, <1>8, <2>1, <2>2 DEF Tasks, RollSteps, Task
<1>11. Disk'
  BY <1>1, <1>2 DEF Inv, Disk, FlushSteps, RollSteps, NewSteps, RenameSteps
<1>12. ASSUME NEW k \in Key PROVE Durable(k)'
  <2>1. OnDisk(k) \in Nat /\ flushed[k] <= OnDisk(k)
    BY HistoryType DEF Inv, Durable
  <2> QED BY <1>1, <1>2, <1>3, <1>4, <1>5, <2>1, SMT DEF Durable
<1> QED BY <1>1, <1>9, <1>10, <1>11, <1>12 DEF Inv

\* survey_groups finds the level and the buckets that the disk has.
LEMMA SurveyKeeps ==
    ASSUME Inv, Survey
    PROVE  Inv'
<1> DEFINE aware == ~dir \/ marker # 0 \/ ~scene.legacy
<1>1. /\ step = "survey" /\ holder = Opener /\ status # "up" /\ pendingFile = 0
  BY HolderAt DEF Survey, Inv, Disk
<1>2. /\ UNCHANGED <<file, new, marker, pendingFile, client, list, pc, sweepAt>>
      /\ UNCHANGED <<latest, since, flushed>>
      /\ status' = "up" /\ holder' = Nobody /\ step' = "none" /\ at' = 0 /\ written' = {}
      /\ failed' = FALSE /\ gathered' = Empty
      /\ entry' = [i \in Bucket |-> Empty]
      /\ deserialized' = [i \in Bucket |-> FALSE]
      /\ dirty' = [i \in Bucket |-> FALSE]
      /\ bucketCount' = GroupLevel(aware) /\ committedLevel' = marker /\ pendingLevel' = 0
      /\ fanOutAware' = aware
  BY DEF Survey, LetGo, diskVars, ghostVars, userVars
<1>3. /\ marker \in Level /\ InitialLevel \in Ladder /\ LevelMax \in Ladder
      /\ \A n \in Ladder : n \in Nat /\ n # 0
  BY LevelMaxType, ConstantsAssumption DEF Inv, Types, TypeDisk
<1>4. /\ marker # 0 => bucketCount' = marker
      /\ marker = 0 /\ (\E i \in Bucket : file[i] # NoFile) => bucketCount' = LevelMax
      /\ marker = 0 /\ ~(\E i \in Bucket : file[i] # NoFile) => bucketCount' = UnwrittenGroupLevel(aware)
  BY <1>2 DEF GroupLevel
<1>5. ~aware => bucketCount' = LevelMax /\ marker = 0
  BY <1>4 DEF UnwrittenGroupLevel
<1>6. bucketCount' \in Ladder
  BY <1>3, <1>4 DEF UnwrittenGroupLevel, Level
<1> HIDE DEF aware
<1>7. Empty \in Contents
  BY ConstantsAssumption, SMT DEF Contents, Value, Empty
<1>8. Types'
  <2>1. aware \in BOOLEAN
    BY DEF aware
  <2> QED BY <1>2, <1>3, <1>6, <1>7, <2>1
          DEF Inv, Types, TypeDisk, TypeMemory, TypeUsers, TypeTasks,
             TypeHistory, Level
<1>9. Tasks'
  <2>1. Nobody \notin Task /\ Nobody # Opener
    BY ConstantsAssumption DEF Task
  <2> QED BY <1>2, <2>1 DEF Inv, Tasks, RollSteps, Task
<1>10. /\ RecoveredLevel' = RecoveredLevel
       /\ \A k : OnDisk(k)' = OnDisk(k)
  BY <1>2, DiskKept
<1>11. Disk'
  BY <1>2, <1>10 DEF Inv, Disk, FlushSteps, RollSteps, NewSteps, RenameSteps
<1>12. Levels'
  <2>1. committedLevel' <= bucketCount'
    BY <1>2, <1>3, <1>4, <1>6, SMT DEF Level
  <2> QED BY <1>1, <1>2, <1>4, <1>5, <2>1 DEF Levels, NewSteps
<1>13. Buckets'
  <2>1. committedLevel' \in {0, bucketCount'}
    BY <1>2, <1>4
  <2>2. \A i \in Bucket : ~(i < 0)
    BY LevelMaxType, SMT DEF Bucket
  <2> QED BY <1>1, <1>2, <2>1, <2>2 DEF Buckets, NewSteps, RenameSteps
<1>14. Commit' /\ \A k \in Key : Chosen(k)' /\ InFlight(k)'
  BY <1>2, QuietNext DEF Quiet
<1>15. ASSUME NEW k \in Key PROVE Durable(k)' /\ Held(k)' /\ Flagged(k)'
  <2>1. OnDisk(k) = latest[k]
    BY <1>1 DEF Inv, Durable
  <2>2. Durable(k)'
    BY <1>2, <1>10 DEF Inv, Durable
  <2>3. Idx(k)' = BucketIndexFor(k, bucketCount') /\ Idx(k)' \in Bucket
    BY <1>6, IndexType DEF Idx
  <2>4. OnDisk(k) = ContentOf(file[BucketIndexFor(k, RecoveredLevel)])[k]
    <3>1. BucketIndexFor(k, RecoveredLevel) \in Nat
      BY OnDiskType, IndexType DEF Inv, Types
    <3> QED BY <1>1, <3>1, SMT DEF OnDisk, RecoveredFile
  <2>5. ContentOf(file[Idx(k)'])[k] = OnDisk(k)
    <3>1. CASE marker # 0
      BY <1>1, <1>4, <2>3, <2>4, <3>1 DEF RecoveredLevel
    <3>2. CASE marker = 0 /\ \E i \in Bucket : file[i] # NoFile
      BY <1>1, <1>4, <2>3, <2>4, <3>2 DEF RecoveredLevel
    <3>3. CASE ~ \E i \in Bucket : file[i] # NoFile
      <4>1. BucketIndexFor(k, RecoveredLevel) \in Bucket
        BY OnDiskType, IndexType DEF Inv, Types
      <4> QED BY <2>3, <2>4, <3>3, <4>1 DEF ContentOf
    <3> QED BY <3>1, <3>2, <3>3
  <2>6. Held(k)'
    <3>1. ~deserialized'[Idx(k)']
      BY <1>2, <2>3
    <3> QED BY <1>2, <2>1, <2>5, <3>1 DEF Held, InMemory, Idx
  <2>7. Flagged(k)'
    BY <1>1, <1>2, <1>4, <1>10, <2>1 DEF Flagged, Settled
  <2> QED BY <2>2, <2>6, <2>7
<1> QED BY <1>8, <1>9, <1>11, <1>12, <1>13, <1>14, <1>15 DEF Inv, UpInv

\* The invariant holds of a store that was never opened, also of one an older
\* version wrote.
LEMMA InitKeeps == Init => Inv
<1> SUFFICES ASSUME Init PROVE Inv
  OBVIOUS
<1>1. Empty \in Contents /\ \A k \in Key : Empty[k] = 0
  BY ConstantsAssumption, SMT DEF Contents, Value, Empty
<1>2. file \in [Bucket -> Image]
  <2>1. CASE file = [i \in Bucket |-> NoFile]
    BY <2>1 DEF Image
  <2>2. CASE file = [i \in Bucket |-> IF \E k \in Key : Byte[k] = i
                                       THEN [k \in Key |-> IF Byte[k] = i THEN 1 ELSE 0]
                                       ELSE NoFile]
    <3>1. \A i \in Bucket : [k \in Key |-> IF Byte[k] = i THEN 1 ELSE 0] \in Contents
      BY ConstantsAssumption, SMT DEF Contents, Value
    <3> QED BY <2>2, <3>1 DEF Image
  <2> QED BY <2>1, <2>2 DEF Init
<1>3. TypeDisk
  BY <1>2, LevelMaxType DEF Init, TypeDisk, Level, Image
<1>4. latest \in Contents /\ \A k \in Key : latest[k] = OnDisk(k)
  BY <1>3, OnDiskType DEF Init, Contents
<1>5. TypeMemory
  BY <1>1, ConstantsAssumption DEF Init, TypeMemory, Level
<1>6. TypeUsers /\ \A c \in Client : client[c].pc = "idle"
  <2>1. NoClient.pc = "idle"
    BY DEF NoClient
  <2> QED BY <2>1, NoClientType DEF Init, TypeUsers
<1>7. pc = [t \in Task |-> "idle"] /\ sweepAt = [s \in Sweep |-> 0]
  BY DEF Init, Task
<1>8. Types
  <2>1. TypeTasks
    <3>1. at = 0 /\ written = {} /\ failed = FALSE /\ gathered = Empty
      BY DEF Init
    <3>2. pc \in [Task -> Places] /\ sweepAt \in [Sweep -> Nat]
      BY <1>7 DEF Places
    <3> QED BY <1>1, <3>1, <3>2 DEF TypeTasks
  <2>2. TypeHistory
    BY <1>1, <1>4 DEF Init, TypeHistory
  <2> QED BY <1>3, <1>5, <1>6, <2>1, <2>2 DEF Types
<1>9. Tasks
  <2>1. Nobody \notin Task /\ Nobody # Opener
    BY ConstantsAssumption DEF Task
  <2>2. list.pc = "idle"
    BY DEF Init, NoList
  <2> QED BY <1>6, <1>7, <2>1, <2>2 DEF Init, Tasks, RollSteps, Task
<1>10. Disk
  <2>1. RecoveredLevel = LevelMax
    BY DEF Init, RecoveredLevel
  <2>2. \A i \in Bucket : ~(i >= LevelMax)
    BY LevelMaxType, SMT DEF Bucket
  <2> QED BY <2>1, <2>2 DEF Init, Disk, FlushSteps, RollSteps, NewSteps, RenameSteps
<1>11. ASSUME NEW k \in Key PROVE Durable(k)
  <2>1. OnDisk(k) \in Nat /\ latest[k] = OnDisk(k)
    BY <1>3, <1>4, OnDiskType
  <2> QED BY <1>1, <2>1, SMT DEF Init, Durable
<1> QED BY <1>8, <1>9, <1>10, <1>11 DEF Init, Inv

\* Without a marker below the top level there is no file, and nothing on disk.
LEMMA NoFilesYet ==
    ASSUME Inv, NEW k \in Key, pendingFile = 0, \A i \in Bucket : file[i] = NoFile
    PROVE  OnDisk(k) = 0
<1>1. BucketIndexFor(k, RecoveredLevel) \in Bucket /\ BucketIndexFor(k, RecoveredLevel) \in Nat
  BY OnDiskType, IndexType DEF Inv, Types
<1> QED BY <1>1, SMT DEF OnDisk, RecoveredFile, ContentOf, Empty

-----------------------------------------------------------------------------
(***************************************************************************)
(* Bucket writes                                                           *)
(***************************************************************************)

\* commit_if_initial_level keeps the invariant: it is reached with no bucket
\* file on disk.
LEMMA SweepMarkerKeeps ==
    ASSUME Inv, SweepMarker
    PROVE  Inv'
<1>1. holder \in Sweep /\ holder \in Task /\ status = "up" /\ step \in Quiet /\ step = "initial" /\ holder \notin Flush
  BY HolderAt, ConstantsAssumption DEF SweepMarker, Quiet
<1>2. UNCHANGED <<file, new, pendingFile, status, bucketVars, dirty, bucketCount, pendingLevel, fanOutAware, client>>
  BY DEF SweepMarker, userVars
<1>3. pendingFile = 0 /\ UpInv
  BY <1>1 DEF Inv, Disk
<1>4. Levels
  BY <1>3 DEF UpInv
<1>5. CASE ~NeedsMarker /\ Goto("serialize") /\ UNCHANGED <<marker, committedLevel, ghostVars>>
  <2>1. /\ step' = "serialize" /\ at' = 0
        /\ UNCHANGED <<holder, written, target, failed, gathered, pc, sweepAt>>
    BY <1>5 DEF Goto
  <2>2. Tasks'
    BY <1>1, <1>2, <2>1, GotoTasks DEF SweepSteps, RollSteps
  <2>3. TypeTasks'
    BY <2>1 DEF Inv, Types, TypeTasks
  <2>4. RecoveredLevel' = RecoveredLevel
    BY <1>2, <1>5, DiskKept
  <2>5. Disk'
    BY <1>2, <1>3, <1>5, <2>1, <2>4 DEF Inv, Disk, RollSteps, RenameSteps
  <2>6. Levels'
    BY <1>2, <1>3, <1>4, <1>5, <2>1 DEF Levels, NeedsMarker, NewSteps
  <2> QED BY <1>1, <1>2, <1>5, <2>1, <2>2, <2>3, <2>5, <2>6, QuietKeeps DEF levelVars, Quiet
<1>6. CASE Fault /\ EndWork(FALSE) /\ UNCHANGED <<marker, committedLevel>>
  BY <1>1, <1>2, <1>6, EndQuiet, NoReads DEF levelVars
<1>7. CASE /\ NeedsMarker /\ marker' = bucketCount /\ committedLevel' = bucketCount
           /\ Goto("serialize") /\ UNCHANGED <<ghostVars, boundVars>>
  <2>1. /\ step' = "serialize" /\ at' = 0 /\ UNCHANGED <<latest, since, flushed, entry, deserialized>>
        /\ UNCHANGED <<holder, written, target, failed, gathered, pc, sweepAt>>
    BY <1>2, <1>7 DEF Goto, ghostVars, bucketVars
  <2>2. Tasks'
    BY <1>1, <1>2, <2>1, GotoTasks DEF SweepSteps, RollSteps
  <2>3. Types'
    BY <1>2, <1>7, <2>1
       DEF Inv, Types, TypeDisk, TypeMemory, TypeUsers, TypeTasks, TypeHistory, Level
  <2>4. \A i \in Bucket : file[i] = NoFile
    BY <1>3, <1>4, <1>7 DEF NeedsMarker, Levels
  <2>5. bucketCount \in Nat /\ bucketCount # 0
    BY LevelMaxType DEF Inv, Types, TypeMemory
  <2>6. Disk'
    BY <1>2, <1>3, <2>1, <2>4 DEF Disk, RollSteps, RenameSteps
  <2>7. Levels'
    <3>1. fanOutAware
      BY <1>4, <1>7 DEF Levels, NeedsMarker
    <3> QED BY <1>2, <1>3, <1>4, <1>7, <2>1, <2>5, <3>1, SMT DEF Levels, NewSteps
  <2>8. Buckets'
    <3>1. step' \notin RenameSteps \cup NewSteps \cup {"stale", "pending", "newWrite", "writing"}
      BY <2>1 DEF RenameSteps, NewSteps
    <3> QED BY <1>2, <1>3, <1>7, <2>1, <3>1 DEF UpInv, Buckets
  <2>9. Commit' /\ \A k \in Key : Chosen(k)' /\ InFlight(k)'
    BY <2>1, QuietNext DEF Quiet
  <2>10. ASSUME NEW k \in Key PROVE Durable(k)' /\ Held(k)' /\ Flagged(k)'
    <3>1. OnDisk(k) = 0
      BY <1>3, <2>4, NoFilesYet
    <3>2. OnDisk(k)' = 0
      <4>1. BucketIndexFor(k, RecoveredLevel') \in Bucket /\ BucketIndexFor(k, RecoveredLevel') \in Nat
        BY <2>3, OnDiskTypeNext, IndexType DEF Types
      <4> QED BY <1>2, <1>3, <2>4, <4>1, SMT DEF OnDisk, RecoveredFile, ContentOf, Empty
    <3>3. Durable(k)'
      BY <1>2, <2>1, <3>1, <3>2 DEF Inv, Durable
    <3>4. Held(k)'
      BY <1>2, <1>3, <2>1 DEF UpInv, Held, InMemory
    <3>5. dirty[Idx(k)] \/ Settled(k)
      BY <1>1, <1>3, QuietKnows DEF UpInv, Flagged
    <3>6. Flagged(k)'
      BY <1>2, <1>7, <2>1, <3>1, <3>2, <3>5, IdxKept DEF Flagged, Settled
    <3> QED BY <3>3, <3>4, <3>6
  <2> QED BY <1>2, <2>2, <2>3, <2>6, <2>7, <2>8, <2>9, <2>10 DEF Inv, UpInv
<1> QED BY <1>5, <1>6, <1>7 DEF SweepMarker

\* serialize claims the flag and the content of a bucket.
LEMMA ClaimKeeps ==
    ASSUME Inv, status = "up", holder \in Task, step \in {"write", "serialize"},
           NEW i \in Bucket, dirty[i], ~FanOutUncommitted,
           step = "write" => i = at,
           dirty' = [dirty EXCEPT ![i] = FALSE], step' = "writing", at' = i, gathered' = entry[i],
           UNCHANGED <<holder, written, target, failed, pc, sweepAt, ghostVars>>,
           UNCHANGED <<file, new, marker, pendingFile, status, bucketVars, levelVars, client>>
    PROVE  Inv'
<1>1. /\ UNCHANGED <<holder, written, target, failed, pc, sweepAt, latest, since, flushed>>
      /\ UNCHANGED <<file, new, marker, pendingFile, status, entry, deserialized, client>>
      /\ UNCHANGED <<bucketCount, committedLevel, pendingLevel, fanOutAware>>
  BY DEF ghostVars, bucketVars, levelVars
<1>2. UpInv
  BY DEF Inv
<1>3. i < bucketCount /\ deserialized[i]
  BY <1>2 DEF UpInv, Buckets
<1>4. i \in Nat
  BY LevelMaxType, SMT DEF Bucket
<1>5. Types'
  BY <1>1, <1>4 DEF Inv, Types, TypeDisk, TypeMemory, TypeUsers, TypeTasks, TypeHistory
<1>6. Tasks'
  BY <1>1, GotoTasks DEF FlushSteps, SweepSteps, RollSteps
<1>7. /\ RecoveredLevel' = RecoveredLevel
      /\ \A k : OnDisk(k)' = OnDisk(k)
      /\ \A k : Idx(k)' = Idx(k)
  BY <1>1, DiskKept, IdxKept
<1>8. pendingFile = 0
  BY DEF Inv, Disk, FlushSteps, RenameSteps
<1>9. Disk'
  BY <1>1, <1>7, <1>8 DEF Inv, Disk, RollSteps, RenameSteps
<1>10. Levels'
  BY <1>1, <1>2 DEF UpInv, Levels, NewSteps, FanOutUncommitted
<1>11. \A j \in Bucket : dirty'[j] <=> dirty[j] /\ j # i
  BY DEF Inv, Types, TypeMemory
<1>12. Buckets'
  <2>1. "writing" \notin NewSteps \cup RenameSteps
    BY DEF NewSteps, RenameSteps
  <2> QED BY <1>1, <1>2, <1>3, <1>8, <1>11, <2>1 DEF UpInv, Buckets
<1>13. Commit'
  BY DEF Commit, NewSteps
<1>14. ASSUME NEW k \in Key
       PROVE  Durable(k)' /\ Held(k)' /\ Flagged(k)' /\ Chosen(k)' /\ InFlight(k)'
  <2>1. Idx(k) \in Bucket
    BY IndexType DEF Idx, Inv, Types, TypeMemory
  <2>2. Durable(k)'
    BY <1>1, <1>7 DEF Inv, Durable
  <2>3. Held(k)'
    BY <1>1, <1>2 DEF UpInv, Held, InMemory
  <2>4. Idx(k) = i => entry[i][k] = latest[k]
    BY <1>2, <1>3 DEF UpInv, Held, InMemory, Idx
  <2>5. Flagged(k)'
    <3>1. dirty[Idx(k)] \/ Settled(k)
      BY <1>2 DEF UpInv, Flagged, InProgress, NewSteps
    <3> QED BY <1>1, <1>7, <1>11, <2>1, <3>1 DEF Flagged, InProgress, Settled
  <2>6. Chosen(k)'
    BY DEF Chosen, NewSteps
  <2>7. InFlight(k)'
    <3>1. Idx(k) = i => Fit(k, gathered[k])'
      <4>1. /\ OnDisk(k) <= latest[k] /\ latest[k] \in Nat
            /\ \A f \in Flush : since[f][k] <= latest[k]
        BY HistoryType DEF Inv, Durable
      <4>2. UNCHANGED <<holder, since, latest>> /\ OnDisk(k)' = OnDisk(k)
        BY <1>1, <1>7
      <4>3. ASSUME gathered'[k] = latest[k] PROVE Fit(k, gathered[k])'
        BY ONLY <4>1, <4>2, <4>3, SMT DEF Fit
      <4> QED BY <2>4, <4>3
    <3>2. /\ step' \notin RenameSteps
          /\ step = "serialize" => holder \notin Flush
      BY HolderAt, ConstantsAssumption DEF RenameSteps
    <3>3. Idx(k)' = at' => Fit(k, gathered[k])' /\ gathered'[k] = latest'[k]
      BY <1>1, <1>7, <2>4, <3>1
    <3>4. holder \in Flush /\ ~failed /\ Idx(k) < i => since[holder][k] <= OnDisk(k)
      BY <1>2, <3>2 DEF UpInv, InFlight
    <3>5. holder' \in Flush /\ ~failed' /\ Idx(k)' < at' => since'[holder'][k] <= OnDisk(k)'
      BY <1>1, <1>7, <3>4, SMT
    <3> QED BY <3>2, <3>3, <3>5 DEF InFlight
  <2> QED BY <2>2, <2>3, <2>5, <2>6, <2>7
<1> QED BY <1>1, <1>5, <1>6, <1>9, <1>10, <1>12, <1>13, <1>14 DEF Inv, UpInv

\* serialize, called by a sweep.
LEMMA SweepSerializeKeeps ==
    ASSUME Inv, SweepSerialize
    PROVE  Inv'
<1>1. /\ holder \in Sweep /\ holder \in Task /\ status = "up" /\ step \in Quiet /\ step = "serialize"
      /\ holder \notin Flush
  BY HolderAt, ConstantsAssumption DEF SweepSerialize, Quiet
<1>2. UNCHANGED <<file, new, marker, pendingFile, status, bucketVars, levelVars, client>>
  BY DEF SweepSerialize, diskVars, userVars
<1>3. sweepAt[holder] \in Bucket
  BY <1>1 DEF Inv, Tasks
<1>4. CASE EndWork(TRUE) /\ UNCHANGED dirty
  BY <1>1, <1>2, <1>4, EndQuiet, NoReads
<1>5. CASE ~(EndWork(TRUE) /\ UNCHANGED dirty)
  <2>1. /\ dirty[sweepAt[holder]] /\ ~FanOutUncommitted
        /\ dirty' = [dirty EXCEPT ![sweepAt[holder]] = FALSE]
        /\ step' = "writing" /\ at' = sweepAt[holder] /\ gathered' = entry[sweepAt[holder]]
        /\ UNCHANGED <<holder, written, target, failed, pc, sweepAt, ghostVars>>
    BY <1>5 DEF SweepSerialize, Serialize
  <2> QED BY <1>1, <1>2, <1>3, <2>1, ClaimKeeps
<1> QED BY <1>4, <1>5

\* A flush passes a bucket over that has nothing to write, or fails on one.
LEMMA PassOverKeeps ==
    ASSUME Inv, step = "write", at < bucketCount, NEW refused \in BOOLEAN, PassOver(refused),
           refused \/ entry[at] = Empty \/ ~dirty[at],
           UNCHANGED <<dirty, file, new, marker, pendingFile, status, bucketVars, levelVars, client>>
    PROVE  Inv'
<1>1. holder \in Flush /\ holder \in Task /\ status = "up"
  BY HolderAt DEF FlushSteps
<1>2. /\ UNCHANGED <<holder, written, target, gathered, pc, sweepAt, latest, since, flushed>>
      /\ UNCHANGED <<dirty, file, new, marker, pendingFile, status, entry, deserialized, client>>
      /\ UNCHANGED <<bucketCount, committedLevel, pendingLevel, fanOutAware>>
      /\ step' = "write" /\ step' = step /\ at' = at + 1 /\ failed' = (failed \/ refused)
  BY DEF PassOver, ghostVars, bucketVars, levelVars
<1>3. UpInv /\ at \in Nat /\ at \in Bucket
  BY <1>1, LevelMaxType, SMT DEF Inv, Types, TypeTasks, TypeMemory, Bucket
<1>4. Types'
  BY <1>2, <1>3, SMT DEF Inv, Types, TypeDisk, TypeMemory, TypeUsers, TypeTasks, TypeHistory
<1>5. Tasks'
  BY <1>1, <1>2 DEF Inv, Tasks
<1>6. /\ RecoveredLevel' = RecoveredLevel
      /\ \A k : OnDisk(k)' = OnDisk(k)
      /\ \A k : Idx(k)' = Idx(k)
  BY <1>2, DiskKept, IdxKept
<1>7. Disk'
  BY <1>2, <1>6 DEF Inv, Disk
<1>8. Levels'
  BY <1>2, <1>3 DEF UpInv, Levels
<1>9. Buckets'
  BY <1>2, <1>3 DEF UpInv, Buckets
<1>10. Commit'
  BY <1>2 DEF Commit, NewSteps
<1>11. ASSUME NEW k \in Key
       PROVE  Durable(k)' /\ Held(k)' /\ Flagged(k)' /\ Chosen(k)' /\ InFlight(k)'
  <2>1. Idx(k) \in Bucket /\ Idx(k) \in Nat
    BY IndexType DEF Idx, Inv, Types, TypeMemory
  <2>2. Durable(k)'
    BY <1>2, <1>6 DEF Inv, Durable
  <2>3. Held(k)'
    BY <1>2, <1>3 DEF UpInv, Held, InMemory
  <2>4. dirty[Idx(k)] \/ Settled(k)
    BY <1>3 DEF UpInv, Flagged, InProgress, NewSteps
  <2>5. Flagged(k)'
    BY <1>2, <1>6, <2>4 DEF Flagged, Settled
  <2>6. Chosen(k)'
    BY <1>2 DEF Chosen, NewSteps
  <2>7. ~refused /\ Idx(k) = at => since[holder][k] <= OnDisk(k)
    <3>1. CASE ~dirty[at]
      BY <1>1, <2>4, <3>1 DEF Settled, Inv, Durable
    <3>2. CASE dirty[at] /\ entry[at] = Empty /\ Idx(k) = at
      <4>1. deserialized[at]
        BY <1>3, <3>2 DEF UpInv, Buckets
      <4>2. latest[k] = 0
        BY <1>3, <3>2, <4>1 DEF UpInv, Held, InMemory, Idx, Empty
      <4>3. since[holder][k] \in Nat /\ OnDisk(k) \in Nat
        BY <1>1, HistoryType
      <4>4. since[holder][k] <= latest[k]
        BY <1>1 DEF Inv, Durable
      <4> QED BY <4>2, <4>3, <4>4, SMT
    <3> QED BY <3>1, <3>2
  <2>8. ~failed /\ Idx(k) < at => since[holder][k] <= OnDisk(k)
    BY <1>1, <1>3 DEF UpInv, InFlight
  <2>9. ~failed' /\ Idx(k)' < at' => since'[holder'][k] <= OnDisk(k)'
    <3>1. Idx(k) < at + 1 => Idx(k) = at \/ Idx(k) < at
      BY <1>3, <2>1, SMT
    <3> QED BY <1>2, <1>6, <2>7, <2>8, <3>1
  <2>10. InFlight(k)'
    BY <1>2, <2>9 DEF InFlight, RenameSteps
  <2> QED BY <2>2, <2>3, <2>5, <2>6, <2>10
<1> QED BY <1>2, <1>4, <1>5, <1>7, <1>8, <1>9, <1>10, <1>11 DEF Inv, UpInv

\* The regular flush keeps the invariant, and what it promised is on disk at
\* the end.
LEMMA WriteBucketKeeps ==
    ASSUME Inv, WriteBucket
    PROVE  Inv'
<1>1. holder \in Flush /\ holder \in Task /\ status = "up" /\ step = "write"
  BY HolderAt DEF WriteBucket, FlushSteps
<1>2. UNCHANGED <<file, new, marker, pendingFile, status, bucketVars, levelVars, client>>
  BY DEF WriteBucket, diskVars, userVars
<1>3. UpInv
  BY <1>1 DEF Inv
<1>4. CASE at = bucketCount /\ EndWork(~failed) /\ UNCHANGED dirty
  <2> DEFINE X == {}
             ok == ~failed
  <2>1. X \in SUBSET Bucket /\ (\A i \in X : i < bucketCount /\ deserialized[i]) /\ ok \in BOOLEAN
    BY DEF Inv, Types, TypeTasks
  <2>2. dirty' = [i \in Bucket |-> dirty[i] \/ i \in X]
    BY <1>4 DEF Inv, Types, TypeMemory
  <2>3. \A k \in Key : dirty[Idx(k)] \/ Settled(k)
    BY <1>1, <1>3 DEF UpInv, Flagged, InProgress, NewSteps
  <2>4. pendingFile = 0
    BY <1>1 DEF Inv, Disk, FlushSteps, RenameSteps
  <2>5. new' \in [Bucket -> Image]
    BY <1>2 DEF Inv, Types, TypeDisk
  <2>6. ok => \A k \in Key : since[holder][k] <= OnDisk(k)
    <3>1. \A k \in Key : Idx(k) < at
      BY <1>4, IndexType DEF Idx, Inv, Types, TypeMemory
    <3> QED BY <1>1, <1>3, <3>1 DEF UpInv, InFlight
  <2>7. EndWork(ok)
    BY <1>4
  <2> HIDE DEF X, ok
  <2> QED BY <1>1, <1>2, <2>1, <2>2, <2>3, <2>4, <2>5, <2>6, <2>7, EndUnchanged, NoReads
<1>5. CASE at < bucketCount /\ Serialize(at, PassOver(FALSE), PassOver(TRUE))
  <2>1. at \in Bucket
    BY <1>5, LevelMaxType, SMT DEF Inv, Types, TypeTasks, TypeMemory, Bucket
  <2>2. CASE (entry[at] = Empty \/ ~dirty[at]) /\ PassOver(FALSE) /\ UNCHANGED dirty
    BY <1>1, <1>2, <1>5, <2>2, PassOverKeeps
  <2>3. CASE PassOver(TRUE) /\ UNCHANGED dirty
    BY <1>1, <1>2, <1>5, <2>3, PassOverKeeps
  <2>4. CASE /\ dirty[at] /\ ~FanOutUncommitted
             /\ dirty' = [dirty EXCEPT ![at] = FALSE]
             /\ step' = "writing" /\ at' = at /\ gathered' = entry[at]
             /\ UNCHANGED <<holder, written, target, failed, pc, sweepAt, ghostVars>>
    BY <1>1, <1>2, <2>1, <2>4, ClaimKeeps
  <2> QED BY <1>5, <2>2, <2>3, <2>4 DEF Serialize
<1> QED BY <1>4, <1>5 DEF WriteBucket

\* While buckets are written the level on disk is the one in memory.
LEMMA WritesInPlace ==
    ASSUME Inv, status = "up", step \in {"write", "writing"}
    PROVE  /\ pendingFile = 0 /\ RecoveredLevel = bucketCount
           /\ \A k \in Key : OnDisk(k) = ContentOf(file[Idx(k)])[k]
<1>1. pendingFile = 0
  BY DEF Inv, Disk, FlushSteps, RenameSteps
<1>2. RecoveredLevel = bucketCount
  <2>1. bucketCount \in Nat /\ bucketCount # 0
    BY LevelMaxType DEF Inv, Types, TypeMemory
  <2> QED BY <1>1, <2>1 DEF Inv, UpInv, Levels, RecoveredLevel
<1>3. ASSUME NEW k \in Key PROVE OnDisk(k) = ContentOf(file[Idx(k)])[k]
  <2>1. Idx(k) \in Nat
    BY IndexType DEF Idx, Inv, Types, TypeMemory
  <2>2. ~(Idx(k) < 0)
    BY <2>1, SMT
  <2> QED BY <1>1, <1>2, <2>2 DEF OnDisk, RecoveredFile, Idx
<1> QED BY <1>1, <1>2, <1>3

=============================================================================
