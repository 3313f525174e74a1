------------------------- MODULE MutableGroupProofs -------------------------
(***************************************************************************)
(* The writes of buckets, the choice of a level and the commit to it keep  *)
(* the invariant of MutableGroupInvariant; what follows from it; and that  *)
(* the group implements the map of DurableMap.                             *)
(***************************************************************************)
EXTENDS MutableGroupInvariant, WellFoundedInduction

\* The prover of a leaf that names none.
USE ZenonT(30)

\* A bucket write that lands or fails keeps the invariant.
LEMMA WriteLandsKeeps ==
    ASSUME Inv, WriteLands
    PROVE  Inv'
<1>1. holder \in Task /\ status = "up" /\ step = "writing"
  BY HolderAt DEF WriteLands
<1>2. /\ UNCHANGED <<new, marker, pendingFile, status, entry, deserialized, client>>
      /\ UNCHANGED <<bucketCount, committedLevel, pendingLevel, fanOutAware>>
      /\ UNCHANGED <<holder, written, target, pc, sweepAt, latest, since, flushed>>
      /\ step' = (IF holder \in Flush THEN "write" ELSE "swept")
      /\ at' = at + 1 /\ gathered' = Empty
  BY DEF WriteLands, userVars, ghostVars, bucketVars, levelVars
<1>3. UpInv
  BY <1>1 DEF Inv
<1>4. at < bucketCount /\ deserialized[at] /\ at \in Nat /\ at \in Bucket
  BY <1>1, <1>3, LevelMaxType, SMT DEF UpInv, Buckets, Inv, Types, TypeTasks, TypeMemory, Bucket
<1>5. /\ pendingFile = 0 /\ RecoveredLevel = bucketCount /\ RecoveredLevel' = RecoveredLevel
      /\ \A k \in Key : OnDisk(k) = ContentOf(file[Idx(k)])[k]
  BY <1>1, <1>2, WritesInPlace DEF RecoveredLevel
<1>6. \/ /\ file' = [file EXCEPT ![at] = gathered] /\ UNCHANGED <<dirty, failed>>
      \/ /\ UNCHANGED file /\ failed' = TRUE /\ dirty' = [dirty EXCEPT ![at] = TRUE]
  BY DEF WriteLands, WriteFails
<1>7. file' \in [Bucket -> Image] /\ dirty' \in [Bucket -> BOOLEAN] /\ failed' \in BOOLEAN
  BY <1>4, <1>6 DEF Inv, Types, TypeDisk, TypeMemory, TypeTasks, Image
<1>8. Types'
  <2>1. Empty \in Contents
    BY ConstantsAssumption, SMT DEF Contents, Value, Empty
  <2> QED BY <1>2, <1>4, <1>7, <2>1, SMT
          DEF Inv, Types, TypeDisk, TypeMemory, TypeUsers, TypeTasks, TypeHistory
<1>9. Tasks'
  <2>1. /\ step' \notin RollSteps \cup {"recheck", "fanOut", "move", "commit"}
        /\ "write" \in FlushSteps /\ "swept" \in SweepSteps
    BY <1>2 DEF RollSteps, FlushSteps, SweepSteps
  <2>2. holder \in Sweep => holder \notin Flush
    BY ConstantsAssumption
  <2> QED BY <1>1, <1>2, <2>1, <2>2, GotoTasks
<1>10. Disk'
  <2>1. \A i \in Bucket : i >= bucketCount => i # at
    BY <1>4, LevelMaxType, SMT DEF Bucket, Inv, Types, TypeMemory
  <2>2. \A i \in Bucket : i >= RecoveredLevel' => file'[i] = NoFile
    BY <1>5, <1>6, <2>1 DEF Inv, Disk, Types, TypeDisk
  <2> QED BY <1>2, <1>5, <2>2 DEF Disk, RollSteps, RenameSteps
<1>11. Levels'
  <2>1. committedLevel = bucketCount \/ (committedLevel = 0 /\ bucketCount = LevelMax)
    BY <1>1, <1>3 DEF UpInv, Levels
  <2>2. bucketCount \in Nat /\ bucketCount # 0
    BY LevelMaxType DEF Inv, Types, TypeMemory
  <2> QED BY <1>2, <1>3, <2>1, <2>2, SMT DEF UpInv, Levels, NewSteps
<1>12. \A i \in Bucket : i # at => dirty'[i] = dirty[i] /\ file'[i] = file[i]
  BY <1>6 DEF Inv, Types, TypeMemory, TypeDisk
<1>13. Buckets'
  <2>1. step' \notin NewSteps \cup RenameSteps \cup {"stale", "pending", "newWrite", "writing"}
    BY <1>2 DEF NewSteps, RenameSteps
  <2> QED BY <1>2, <1>3, <1>4, <1>5, <1>12, <2>1 DEF UpInv, Buckets
<1>14. Commit'
  BY <1>2 DEF Commit, NewSteps
<1>15. ASSUME NEW k \in Key
       PROVE  Durable(k)' /\ Held(k)' /\ Flagged(k)' /\ Chosen(k)' /\ InFlight(k)'
  <2>1. Idx(k) \in Bucket /\ Idx(k) \in Nat /\ Idx(k)' = Idx(k)
    BY <1>2, IndexType, IdxKept DEF Idx, Inv, Types, TypeMemory
  <2>2. OnDisk(k)' = ContentOf(file'[Idx(k)])[k]
    BY <1>2, <1>5, <2>1, SMT DEF OnDisk, RecoveredFile, Idx
  <2>3. Idx(k) # at => OnDisk(k)' = OnDisk(k)
    BY <1>5, <1>12, <2>1, <2>2
  <2>4. file' = file => OnDisk(k)' = OnDisk(k)
    BY <1>5, <2>2
  <2>5. Idx(k) = at /\ file' # file => OnDisk(k)' = gathered[k] /\ UNCHANGED dirty
    <3>1. gathered # NoFile
      BY ConstantsAssumption DEF Inv, Types, TypeTasks
    <3> QED BY <1>4, <1>6, <2>2, <3>1 DEF ContentOf, Inv, Types, TypeDisk
  <2>6. Idx(k) = at => /\ Fit(k, gathered[k])
                       /\ ~dirty[at] => gathered[k] = latest[k]
    BY <1>1, <1>3 DEF UpInv, InFlight
  <2>7. OnDisk(k) <= OnDisk(k)' /\ OnDisk(k)' <= latest[k] /\ OnDisk(k)' \in Nat
    BY <2>3, <2>4, <2>5, <2>6, HistoryType, SMT DEF Fit, Inv, Durable
  <2>8. Durable(k)'
    BY <1>1, <1>2, <2>7, HistoryType, SMT DEF Inv, Durable
  <2>9. Held(k)'
    BY <1>2, <1>3, <1>4, <1>12, <2>1 DEF UpInv, Held, InMemory, Idx
  <2>10. Idx(k) # at => dirty[Idx(k)] \/ Settled(k)
    BY <1>1, <1>3 DEF UpInv, Flagged, InProgress, NewSteps
  <2>11. committedLevel \in {0, bucketCount}
    BY <1>1, <1>3 DEF UpInv, Levels
  <2>12. Flagged(k)'
    <3>1. CASE Idx(k) # at
      BY <1>2, <1>12, <2>1, <2>3, <2>10, <3>1 DEF Flagged, Settled
    <3>2. CASE Idx(k) = at /\ file' # file
      BY <1>2, <2>1, <2>5, <2>6, <2>11, <3>2 DEF Flagged, Settled
    <3>3. CASE Idx(k) = at /\ dirty' = [dirty EXCEPT ![at] = TRUE]
      BY <1>4, <2>1, <3>3 DEF Flagged, Inv, Types, TypeMemory
    <3>4. CASE Idx(k) = at /\ file' = file /\ file' = [file EXCEPT ![at] = gathered] /\ UNCHANGED dirty
      <4>1. OnDisk(k) = gathered[k]
        <5>1. gathered # NoFile
          BY ConstantsAssumption DEF Inv, Types, TypeTasks
        <5> QED BY <1>4, <1>5, <3>4, <5>1 DEF ContentOf, Inv, Types, TypeDisk
      <4> QED BY <1>2, <2>1, <2>4, <2>6, <2>11, <3>4, <4>1 DEF Flagged, Settled
    <3> QED BY <1>6, <3>1, <3>2, <3>3, <3>4
  <2>13. Chosen(k)'
    BY <1>2 DEF Chosen, NewSteps
  <2>14. holder \in Flush /\ ~failed' /\ Idx(k) < at + 1 => since[holder][k] <= OnDisk(k)'
    <3> SUFFICES ASSUME holder \in Flush, ~failed', Idx(k) < at + 1
                 PROVE  since[holder][k] <= OnDisk(k)'
      OBVIOUS
    <3>1. ~failed /\ file' = [file EXCEPT ![at] = gathered]
      BY <1>6, SMT
    <3>2. CASE Idx(k) = at
      <4>1. OnDisk(k)' = gathered[k]
        <5>1. gathered # NoFile
          BY ConstantsAssumption DEF Inv, Types, TypeTasks
        <5> QED BY <1>4, <2>2, <3>1, <3>2, <5>1 DEF ContentOf, Inv, Types, TypeDisk
      <4> QED BY <2>6, <3>2, <4>1 DEF Fit
    <3>3. CASE Idx(k) < at
      BY <1>1, <1>3, <1>4, <2>1, <2>3, <3>1, <3>3, SMT DEF UpInv, InFlight
    <3> QED BY <1>4, <2>1, <3>2, <3>3, SMT
  <2>15. InFlight(k)'
    BY <1>2, <2>1, <2>14 DEF InFlight, RenameSteps
  <2> QED BY <2>8, <2>9, <2>12, <2>13, <2>15
<1> QED BY <1>1, <1>2, <1>8, <1>9, <1>10, <1>11, <1>13, <1>14, <1>15 DEF Inv, UpInv

-----------------------------------------------------------------------------
(***************************************************************************)
(* The two-phase commit                                                    *)
(***************************************************************************)

\* What a commit before its commit point knows.
LEMMA CommitKnows ==
    ASSUME Inv, step \in NewSteps
    PROVE  /\ holder \in Flush /\ holder \in Task /\ status = "up" /\ UpInv
           /\ pendingFile = 0 /\ fanOutAware /\ committedLevel # bucketCount
           /\ committedLevel = marker
<1>1. step \in FlushSteps \ {"writing"} /\ step \notin RenameSteps
  BY DEF FlushSteps, NewSteps, RenameSteps
<1>2. holder \in Flush /\ holder \in Task /\ status = "up" /\ UpInv
  BY <1>1, HolderAt DEF Inv
<1>3. pendingFile = 0
  BY <1>1 DEF Inv, Disk
<1> QED BY <1>2, <1>3 DEF UpInv, Levels

\* The file that a commit does not replace holds what the disk has of the keys
\* of its bucket, or nothing.
LEMMA OldFile ==
    ASSUME Inv, step \in NewSteps, NEW k \in Key, Idx(k) >= committedLevel
    PROVE  /\ committedLevel # 0 => ContentOf(file[Idx(k)])[k] = 0
           /\ committedLevel = 0 => ContentOf(file[Idx(k)])[k] = OnDisk(k)
<1>1. pendingFile = 0 /\ committedLevel = marker /\ status = "up" /\ UpInv
  BY CommitKnows
<1>2. Idx(k) \in Bucket /\ Idx(k) \in Nat
  BY IndexType DEF Idx, Inv, Types, TypeMemory
<1>3. CASE committedLevel # 0
  <2>1. RecoveredLevel = committedLevel
    BY <1>1, <1>3 DEF RecoveredLevel
  <2>2. file[Idx(k)] = NoFile
    BY <1>2, <2>1 DEF Inv, Disk
  <2> QED BY <1>3, <2>2 DEF ContentOf, Empty
<1>4. CASE committedLevel = 0 /\ bucketCount = LevelMax
  <2>1. RecoveredLevel = bucketCount
    BY <1>1, <1>4 DEF RecoveredLevel
  <2> QED BY <1>1, <1>2, <1>4, <2>1, SMT DEF OnDisk, RecoveredFile, Idx
<1>5. CASE committedLevel = 0 /\ bucketCount # LevelMax
  <2>1. \A i \in Bucket : file[i] = NoFile
    BY <1>1, <1>5 DEF UpInv, Levels
  <2>2. OnDisk(k) = 0
    BY <1>1, <2>1, NoFilesYet
  <2> QED BY <1>2, <1>5, <2>1, <2>2 DEF ContentOf, Empty
<1> QED BY <1>3, <1>4, <1>5

\* The commit claims a bucket or passes it over: what it passes over is on disk
\* or is worth nothing.
LEMMA NewBucketKeeps ==
    ASSUME Inv, NewBucket
    PROVE  Inv'
<1>1. step = "new" /\ step \in NewSteps /\ at < bucketCount
  BY DEF NewBucket, NewSteps
<1>2. /\ holder \in Flush /\ holder \in Task /\ status = "up" /\ UpInv
      /\ pendingFile = 0 /\ fanOutAware /\ committedLevel # bucketCount
  BY <1>1, CommitKnows
<1>3. /\ UNCHANGED <<file, new, marker, pendingFile, status, entry, deserialized, client>>
      /\ UNCHANGED <<bucketCount, committedLevel, pendingLevel, fanOutAware>>
      /\ UNCHANGED <<holder, written, target, failed, pc, sweepAt, latest, since, flushed>>
      /\ dirty' = [dirty EXCEPT ![at] = FALSE]
  BY DEF NewBucket, diskVars, userVars, ghostVars, bucketVars, levelVars
<1>4. at \in Nat /\ at \in Bucket /\ committedLevel \in Nat /\ bucketCount \in Nat
  BY <1>1, LevelMaxType, SMT DEF Inv, Types, TypeTasks, TypeMemory, Bucket, Level
<1>5. /\ RecoveredLevel' = RecoveredLevel
      /\ \A k : OnDisk(k)' = OnDisk(k)
      /\ \A k : Idx(k)' = Idx(k)
  BY <1>3, DiskKept, IdxKept
<1>6. \A i \in Bucket : dirty'[i] <=> dirty[i] /\ i # at
  BY <1>3 DEF Inv, Types, TypeMemory
<1>7. \/ /\ at >= committedLevel
         /\ ~dirty[at] \/ entry[at] = Empty
         /\ at' = at + 1 /\ step' = "new" /\ gathered' = gathered
      \/ /\ at < committedLevel \/ dirty[at]
         /\ step' = "newWrite" /\ gathered' = entry[at] /\ at' = at
  BY <1>1, <1>4, SMT DEF NewBucket
<1>8. step' \in {"new", "newWrite"} /\ at' \in Nat /\ gathered' \in Contents
  BY <1>4, <1>7, SMT DEF Inv, Types, TypeTasks, TypeMemory
<1>9. Types'
  BY <1>3, <1>8 DEF Inv, Types, TypeDisk, TypeMemory, TypeUsers,
     TypeTasks, TypeHistory
<1>10. Tasks'
  BY <1>2, <1>3, <1>8, ConstantsAssumption, GotoTasks DEF FlushSteps, NewSteps, RollSteps
<1>11. Disk'
  BY <1>2, <1>3, <1>5, <1>8 DEF Inv, Disk, RollSteps, RenameSteps
<1>12. Levels'
  BY <1>2, <1>3, <1>8 DEF UpInv, Levels
<1>13. step' = "newWrite" => deserialized[at]
  <2>1. at < committedLevel => deserialized[at]
    BY <1>1, <1>2, <1>4, SMT DEF UpInv, Buckets
  <2>2. dirty[at] => deserialized[at]
    BY <1>2, <1>4 DEF UpInv, Buckets
  <2> QED BY <1>7, <2>1, <2>2
<1>14. Buckets'
  <2>1. step' \in NewSteps /\ step' \notin RenameSteps \cup {"stale", "pending", "writing"}
    BY <1>8 DEF NewSteps, RenameSteps
  <2>2. \A i \in written : i < bucketCount /\ deserialized[i]
    BY <1>1, <1>2 DEF UpInv, Buckets
  <2>3. step' = "newWrite" => at' < bucketCount /\ deserialized[at']
    BY <1>1, <1>7, <1>13
  <2> QED BY <1>2, <1>3, <1>6, <2>1, <2>2, <2>3 DEF UpInv, Buckets
<1>15. \A i \in written : new[i] # NoFile /\ i < at
  BY <1>1, <1>2 DEF UpInv, Commit, Past
<1>16. Commit'
  <2>1. step' \in NewSteps /\ step' \notin {"stale", "pending", "onlyMarker"}
    BY <1>8 DEF NewSteps
  <2>2. \A i \in written : i < at'
    BY <1>4, <1>7, <1>15, LevelMaxType, SMT DEF Inv, Types, TypeTasks, Bucket
  <2>3. ASSUME ~failed, NEW i \in Bucket, i < committedLevel, i < at' PROVE i \in written
    <3>1. i \in Nat
      BY LevelMaxType, SMT DEF Bucket
    <3>2. i < at
      BY <1>4, <1>7, <2>3, <3>1, SMT
    <3> QED BY <1>1, <1>2, <2>3, <3>2 DEF UpInv, Commit, Past
  <2>4. step' = "new" => at' <= bucketCount
    BY <1>1, <1>4, <1>7, SMT
  <2> QED BY <1>3, <1>8, <1>15, <2>1, <2>2, <2>3, <2>4 DEF Commit, Past
<1>17. ASSUME NEW k \in Key
       PROVE  Durable(k)' /\ Held(k)' /\ Flagged(k)' /\ Chosen(k)' /\ InFlight(k)'
  <2>1. Idx(k) \in Bucket /\ Idx(k) \in Nat
    BY IndexType DEF Idx, Inv, Types, TypeMemory
  <2>2. Durable(k)'
    BY <1>3, <1>5 DEF Inv, Durable
  <2>3. Held(k)'
    BY <1>2, <1>3 DEF UpInv, Held, InMemory
  <2>4. Idx(k) = at /\ deserialized[at] => entry[at][k] = latest[k]
    BY <1>2 DEF UpInv, Held, InMemory, Idx
  <2>5. at \notin written
    BY <1>4, <1>15, SMT
  <2>6. dirty[Idx(k)] \/ Idx(k) \in written \/ Settled(k)
    BY <1>1, <1>2 DEF UpInv, Flagged, InProgress
  \* A bucket that is passed over has nothing the disk lacks.
  <2>7. ASSUME Idx(k) = at, step' = "new"
        PROVE  Settled(k) /\ Fit(k, ContentOf(file[at])[k])
    <3>1. at >= committedLevel /\ (~dirty[at] \/ entry[at] = Empty)
      BY <1>7, <2>7
    <3>2. latest[k] \in Nat /\ OnDisk(k) \in Nat /\ OnDisk(k) <= latest[k] /\ since[holder][k] <= latest[k]
      BY <1>2, HistoryType DEF Inv, Durable
    <3>3. Settled(k)
      <4>1. CASE ~dirty[at]
        BY <2>5, <2>6, <2>7, <4>1
      <4>2. CASE dirty[at] /\ entry[at] = Empty
        <5>1. deserialized[at]
          BY <1>2, <1>4, <4>2 DEF UpInv, Buckets
        <5>2. latest[k] = 0
          BY <2>4, <2>7, <4>2, <5>1 DEF Empty
        <5> QED BY <3>2, <5>2, SMT DEF Settled
      <4> QED BY <3>1, <4>1, <4>2
    <3>4. Fit(k, ContentOf(file[at])[k])
      <4>1. CASE committedLevel # 0
        <5>1. latest[k] = 0
          BY <1>2, <2>7, <3>1, <3>3, <4>1 DEF Settled
        <5>2. ContentOf(file[at])[k] = 0
          BY <1>1, <2>7, <3>1, <4>1, OldFile
        <5> QED BY <3>2, <5>1, <5>2, SMT DEF Fit
      <4>2. CASE committedLevel = 0
        <5>1. ContentOf(file[at])[k] = OnDisk(k)
          BY <1>1, <2>7, <3>1, <4>2, OldFile
        <5> QED BY <3>2, <3>3, <5>1 DEF Fit, Settled
      <4> QED BY <4>1, <4>2
    <3> QED BY <3>3, <3>4
  <2>8. Flagged(k)'
    <3>1. CASE Idx(k) # at
      <4>1. dirty'[Idx(k)] <=> dirty[Idx(k)]
        BY <1>6, <2>1, <3>1
      <4>2. Settled(k)' <=> Settled(k)
        BY <1>3, <1>5 DEF Settled
      <4> QED BY <1>3, <1>5, <1>8, <2>6, <4>1, <4>2 DEF Flagged, InProgress, NewSteps
    <3>2. CASE Idx(k) = at /\ step' = "newWrite"
      BY <1>5, <1>7, <3>2 DEF Flagged, InProgress
    <3>3. CASE Idx(k) = at /\ step' = "new"
      <4>1. Settled(k)'
        BY <1>3, <1>5, <2>7, <3>3 DEF Settled
      <4> QED BY <4>1 DEF Flagged
    <3> QED BY <1>8, <3>1, <3>2, <3>3
  <2>9. Chosen(k)'
    <3> SUFFICES ASSUME Idx(k) < at'
                 PROVE  /\ ~failed => Fit(k, Candidate(Idx(k))[k])
                        /\ Idx(k) \in written /\ ~dirty[Idx(k)] => new[Idx(k)][k] = latest[k]
                        /\ Idx(k) \in written => Idx(k) # at
      <4>1. Candidate(Idx(k))' = Candidate(Idx(k))
        BY <1>3, <1>5 DEF Candidate
      <4>2. Past(Idx(k))' => Idx(k) < at'
        BY <1>5, <1>8 DEF Past
      <4>3. Fit(k, Candidate(Idx(k))[k]) => Fit(k, Candidate(Idx(k))[k])'
        BY <1>3, <1>5, <4>1 DEF Fit
      <4> QED BY <1>3, <1>5, <1>6, <2>1, <4>2, <4>3 DEF Chosen
    <3>1. CASE Idx(k) < at
      BY <1>1, <1>2, <1>4, <2>1, <3>1, SMT DEF UpInv, Chosen, Past
    <3>2. CASE Idx(k) = at
      <4>1. step' = "new"
        BY <1>4, <1>7, <1>8, <3>2, SMT
      <4>2. Candidate(Idx(k)) = ContentOf(file[at])
        BY <2>5, <3>2 DEF Candidate
      <4> QED BY <2>5, <2>7, <3>2, <4>1, <4>2
    <3>3. Idx(k) < at' => Idx(k) < at \/ Idx(k) = at
      BY ONLY <1>4, <1>7, <2>1, SMT
    <3> QED BY <3>1, <3>2, <3>3
  <2>10. InFlight(k)'
    <3>1. step' \notin {"write", "writing"} \cup RenameSteps
      BY <1>8 DEF RenameSteps
    <3>2. step' = "newWrite" /\ Idx(k) = at => gathered'[k] = latest[k]
      BY <1>7, <1>13, <2>4
    <3>3. step' = "newWrite" /\ Idx(k) = at => Fit(k, gathered[k])'
      <4>1. OnDisk(k) <= latest[k] /\ since[holder][k] <= latest[k] /\ latest[k] \in Nat
        BY <1>2, HistoryType DEF Inv, Durable
      <4>2. UNCHANGED <<holder, since, latest>> /\ OnDisk(k)' = OnDisk(k)
        BY <1>3, <1>5
      <4>3. ASSUME gathered'[k] = latest[k] PROVE Fit(k, gathered[k])'
        BY ONLY <4>1, <4>2, <4>3, SMT DEF Fit
      <4> QED BY <3>2, <4>3
    <3>4. step' = "newWrite" => at' = at
      BY <1>7
    <3> QED BY <1>3, <1>5, <3>1, <3>2, <3>3, <3>4 DEF InFlight
  <2> QED BY <2>2, <2>3, <2>8, <2>9, <2>10
<1> QED BY <1>2, <1>3, <1>9, <1>10, <1>11, <1>12, <1>14, <1>16, <1>17 DEF Inv, UpInv

\* serialize_to_new ends, or fails and flags the bucket again.
LEMMA NewLandsKeeps ==
    ASSUME Inv, NewLands
    PROVE  Inv'
<1>1. step = "newWrite" /\ step \in NewSteps
  BY DEF NewLands, NewSteps
<1>2. /\ holder \in Flush /\ holder \in Task /\ status = "up" /\ UpInv
      /\ pendingFile = 0 /\ fanOutAware /\ committedLevel # bucketCount
  BY <1>1, CommitKnows
<1>3. /\ UNCHANGED <<file, marker, pendingFile, status, entry, deserialized, client>>
      /\ UNCHANGED <<bucketCount, committedLevel, pendingLevel, fanOutAware>>
      /\ UNCHANGED <<holder, target, pc, sweepAt, latest, since, flushed>>
      /\ step' = "new" /\ at' = at + 1 /\ gathered' = Empty
  BY DEF NewLands, userVars, ghostVars, bucketVars, levelVars
<1>4. \/ /\ new' = [new EXCEPT ![at] = gathered] /\ written' = written \cup {at}
         /\ UNCHANGED <<dirty, failed>>
      \/ /\ failed' = TRUE /\ dirty' = [dirty EXCEPT ![at] = TRUE] /\ UNCHANGED <<new, written>>
  BY DEF NewLands, WriteFails
<1>5. /\ at < bucketCount /\ deserialized[at] /\ at \in Nat /\ at \in Bucket
      /\ committedLevel \in Nat /\ bucketCount \in Nat
  BY <1>1, <1>2, LevelMaxType, SMT DEF UpInv, Buckets, Inv, Types, TypeTasks, TypeMemory, Bucket,
     Level
<1>6. /\ new' \in [Bucket -> Image] /\ written' \in SUBSET Bucket /\ failed' \in BOOLEAN
      /\ dirty' \in [Bucket -> BOOLEAN]
  BY <1>4, <1>5 DEF Inv, Types, TypeDisk, TypeMemory, TypeTasks, Image
<1>7. /\ \A i \in Bucket : i # at => new'[i] = new[i] /\ dirty'[i] = dirty[i]
      /\ \A i : i # at => (i \in written' <=> i \in written)
      /\ \A i \in Bucket : dirty[i] => dirty'[i]
  BY <1>4 DEF Inv, Types, TypeDisk, TypeMemory
<1>8. \/ at \in written' /\ new'[at] = gathered /\ failed' = failed /\ dirty' = dirty
      \/ dirty'[at] /\ failed' = TRUE /\ written' = written
  BY <1>4, <1>5 DEF Inv, Types, TypeDisk, TypeMemory
<1>9. /\ RecoveredLevel' = RecoveredLevel
      /\ \A k \in Key : OnDisk(k)' = OnDisk(k)
      /\ \A k : Idx(k)' = Idx(k)
  BY <1>2, <1>3, StaleNewIgnored, IdxKept DEF Inv, Types
<1>10. Types'
  <2>1. Empty \in Contents
    BY ConstantsAssumption, SMT DEF Contents, Value, Empty
  <2> QED BY <1>3, <1>5, <1>6, <2>1, SMT
          DEF Inv, Types, TypeDisk, TypeMemory, TypeUsers, TypeTasks, TypeHistory
<1>11. Tasks'
  BY <1>2, <1>3, ConstantsAssumption, GotoTasks DEF FlushSteps, NewSteps, RollSteps
<1>12. Disk'
  BY <1>2, <1>3, <1>9 DEF Inv, Disk, RollSteps, RenameSteps
<1>13. Levels'
  BY <1>2, <1>3 DEF UpInv, Levels
<1>14. Buckets'
  <2>1. step' \in NewSteps /\ step' \notin RenameSteps \cup {"stale", "pending", "newWrite", "writing"}
    BY <1>3 DEF NewSteps, RenameSteps
  <2>2. \A i \in written' : i < bucketCount /\ deserialized[i]
    BY <1>1, <1>2, <1>5, <1>7 DEF UpInv, Buckets
  <2>3. \A i \in Bucket : dirty'[i] => i < bucketCount /\ deserialized[i]
    BY <1>2, <1>5, <1>7 DEF UpInv, Buckets
  <2>4. \A i \in Bucket : ~(i < 0)
    BY LevelMaxType, SMT DEF Bucket
  <2> QED BY <1>2, <1>3, <2>1, <2>2, <2>3, <2>4 DEF UpInv, Buckets
<1>15. \A i \in written : new[i] # NoFile /\ i < at
  BY <1>1, <1>2 DEF UpInv, Commit, Past
<1>16. gathered # NoFile /\ written \in SUBSET Bucket
  BY ConstantsAssumption DEF Inv, Types, TypeTasks
<1>17. Commit'
  <2>1. step' \in NewSteps
    BY <1>3 DEF NewSteps
  <2>2. \A i \in written' : new'[i] # NoFile /\ i < at + 1
    <3> SUFFICES ASSUME NEW i \in written' PROVE new'[i] # NoFile /\ i < at + 1
      OBVIOUS
    <3>1. CASE i = at /\ at \in written' /\ new'[at] = gathered
      BY <1>5, <1>16, <3>1, SMT
    <3>2. CASE i \in written
      <4>1. i < at /\ i \in Nat /\ i \in Bucket
        BY <1>15, <1>16, <3>2, LevelMaxType, SMT DEF Bucket
      <4> QED BY <1>5, <1>7, <1>15, <3>2, <4>1, SMT
    <3> QED BY <1>7, <1>8, <3>1, <3>2
  <2>3. ASSUME ~failed', NEW i \in Bucket, i < committedLevel, i < at + 1 PROVE i \in written'
    <3>1. i \in Nat
      BY LevelMaxType, SMT DEF Bucket
    <3>2. CASE i = at
      BY <1>8, <2>3, <3>2
    <3>3. CASE i < at
      BY <1>1, <1>2, <1>5, <1>7, <1>8, <2>3, <3>1, <3>3 DEF UpInv, Commit, Past
    <3> QED BY <1>5, <2>3, <3>1, <3>2, <3>3, SMT
  <2>4. at + 1 <= bucketCount
    BY <1>5, SMT
  <2> QED BY <1>3, <2>1, <2>2, <2>3, <2>4 DEF Commit, Past
<1>18. ASSUME NEW k \in Key
       PROVE  Durable(k)' /\ Held(k)' /\ Flagged(k)' /\ Chosen(k)' /\ InFlight(k)'
  <2>1. Idx(k) \in Bucket /\ Idx(k) \in Nat
    BY IndexType DEF Idx, Inv, Types, TypeMemory
  <2>2. Durable(k)'
    BY <1>3, <1>9 DEF Inv, Durable
  <2>3. Held(k)'
    BY <1>2, <1>3 DEF UpInv, Held, InMemory
  <2>4. Idx(k) # at => dirty[Idx(k)] \/ Idx(k) \in written \/ Settled(k)
    BY <1>1, <1>2 DEF UpInv, Flagged, InProgress
  <2>5. Settled(k)' <=> Settled(k)
    BY <1>3, <1>9 DEF Settled
  <2>6. Flagged(k)'
    BY <1>3, <1>7, <1>8, <1>9, <2>1, <2>4, <2>5 DEF Flagged, InProgress, NewSteps
  <2>7. Idx(k) = at => Fit(k, gathered[k]) /\ (~dirty[at] => gathered[k] = latest[k])
    BY <1>1, <1>2 DEF UpInv, InFlight
  <2>8. ASSUME NEW v, Fit(k, v) PROVE Fit(k, v)'
    BY <1>3, <1>9, <2>8 DEF Fit
  <2>9. Chosen(k)'
    <3> SUFFICES ASSUME Idx(k) < at + 1
                 PROVE  /\ ~failed' => Fit(k, Candidate(Idx(k))'[k])
                        /\ Idx(k) \in written' /\ ~dirty'[Idx(k)] => new'[Idx(k)][k] = latest[k]
      <4>1. Past(Idx(k))' => Idx(k) < at + 1
        BY <1>3, <1>9 DEF Past
      <4> QED BY <1>3, <1>9, <2>8, <4>1 DEF Chosen
    <3>1. CASE Idx(k) = at
      <4>1. at \in written' => Candidate(Idx(k))' = new'[at]
        BY <1>9, <3>1 DEF Candidate
      <4>2. written' = written => at \notin written'
        BY <1>5, <1>15, SMT
      <4> QED BY <1>8, <2>7, <3>1, <4>1, <4>2
    <3>2. CASE Idx(k) < at
      <4>1. Idx(k) # at
        BY <1>5, <2>1, <3>2, SMT
      <4>2. Candidate(Idx(k))' = Candidate(Idx(k))
        BY <1>3, <1>7, <1>9, <2>1, <4>1 DEF Candidate
      <4>3. ~failed' => ~failed
        BY <1>8
      <4> QED BY <1>1, <1>2, <1>7, <2>1, <3>2, <4>1, <4>2, <4>3 DEF UpInv, Chosen, Past
    <3> QED BY <1>5, <2>1, <3>1, <3>2, SMT
  <2>10. InFlight(k)'
    BY <1>3 DEF InFlight, RenameSteps
  <2> QED BY <2>2, <2>3, <2>6, <2>9, <2>10
<1> QED BY <1>2, <1>3, <1>10, <1>11, <1>12, <1>13, <1>14, <1>17, <1>18 DEF Inv, UpInv

\* The loop of the commit ends: every bucket with an old file was rewritten.
LEMMA NewDoneKeeps ==
    ASSUME Inv, NewDone
    PROVE  Inv'
<1>1. step = "new" /\ step \in NewSteps /\ at = bucketCount
  BY DEF NewDone, NewSteps
<1>2. /\ holder \in Flush /\ holder \in Task /\ status = "up" /\ UpInv
      /\ pendingFile = 0 /\ fanOutAware /\ committedLevel # bucketCount
  BY <1>1, CommitKnows
<1>3. UNCHANGED <<file, new, marker, pendingFile, status, bucketVars, levelVars, client>>
  BY DEF NewDone, diskVars, userVars
<1>4. CASE Abandon
  BY <1>1, <1>2, <1>3, <1>4, AbandonKeeps DEF Inv, Types, TypeDisk
<1>5. CASE ~failed /\ Goto(AfterNew) /\ UNCHANGED <<dirty, ghostVars>>
  <2>1. /\ step' = AfterNew /\ at' = 0
        /\ UNCHANGED <<holder, written, target, failed, gathered, pc, sweepAt, dirty>>
        /\ UNCHANGED <<latest, since, flushed, entry, deserialized>>
        /\ UNCHANGED <<bucketCount, committedLevel, pendingLevel, fanOutAware>>
    BY <1>3, <1>5 DEF Goto, ghostVars, bucketVars, levelVars
  <2>2. /\ step' \in {"onlyMarker", "stale"} /\ step' \in NewSteps
        /\ step' = "onlyMarker" => written = {}
        /\ step' = "stale" => written # {}
    BY <2>1 DEF AfterNew, NewSteps
  <2>3. Types'
    BY <1>3, <2>1 DEF Inv, Types, TypeDisk, TypeMemory, TypeUsers, TypeTasks, TypeHistory
  <2>4. Tasks'
    BY <1>2, <1>3, <2>1, <2>2, ConstantsAssumption, GotoTasks DEF FlushSteps, NewSteps, RollSteps
  <2>5. /\ RecoveredLevel' = RecoveredLevel
        /\ \A k : OnDisk(k)' = OnDisk(k)
        /\ \A k : Idx(k)' = Idx(k)
    BY <1>3, <2>1, DiskKept, IdxKept
  <2>6. Disk'
    BY <1>2, <1>3, <2>2, <2>5 DEF Inv, Disk, RollSteps, RenameSteps
  <2>7. Levels'
    BY <1>2, <1>3, <2>1, <2>2 DEF UpInv, Levels
  <2>8. Buckets'
    <3>1. step' \notin RenameSteps \cup {"pending", "newWrite", "writing"}
      BY <2>2 DEF RenameSteps
    <3> QED BY <1>1, <1>2, <1>3, <2>1, <2>2, <3>1 DEF UpInv, Buckets
  <2>9. committedLevel \in Nat /\ bucketCount \in Nat /\ committedLevel <= bucketCount /\ bucketCount # 0
    BY <1>2, LevelMaxType, SMT DEF UpInv, Levels, Inv, Types, TypeMemory, Level
  <2>10. \A i \in Bucket : i < committedLevel => i \in written
    <3>1. \A i \in Bucket : i < committedLevel => i < at
      BY <1>1, <2>9, LevelMaxType, SMT DEF Bucket
    <3> QED BY <1>1, <1>2, <1>5, <3>1 DEF UpInv, Commit, Past
  <2>11. written = {} => committedLevel = 0
    <3>1. 0 \in Bucket
      BY LevelMaxType, SMT DEF Bucket
    <3> QED BY <2>9, <2>10, <3>1, SMT
  <2>12. Commit'
    <3>1. \A i \in written : new[i] # NoFile
      BY <1>1, <1>2 DEF UpInv, Commit
    <3> QED BY <1>3, <1>5, <2>1, <2>2, <2>10, <2>11, <3>1 DEF Commit, Past
  <2>13. ASSUME NEW k \in Key
         PROVE  Durable(k)' /\ Held(k)' /\ Flagged(k)' /\ Chosen(k)' /\ InFlight(k)'
    <3>1. Idx(k) < at
      BY <1>1, IndexType DEF Idx, Inv, Types, TypeMemory
    <3>2. Durable(k)'
      BY <1>3, <2>1, <2>5 DEF Inv, Durable
    <3>3. Held(k)'
      BY <1>2, <1>3, <2>1 DEF UpInv, Held, InMemory
    <3>4. Flagged(k)'
      BY <1>1, <1>2, <1>3, <2>1, <2>2, <2>5 DEF UpInv, Flagged, InProgress, Settled
    <3>5. Candidate(Idx(k))' = Candidate(Idx(k))
      BY <1>3, <2>1, <2>5 DEF Candidate
    <3>6. Chosen(k)'
      BY <1>1, <1>2, <1>3, <2>1, <2>5, <3>1, <3>5 DEF UpInv, Chosen, Past, Fit
    <3>7. InFlight(k)'
      BY <2>2 DEF InFlight, RenameSteps
    <3> QED BY <3>2, <3>3, <3>4, <3>6, <3>7
  <2> QED BY <1>2, <1>3, <2>3, <2>4, <2>6, <2>7, <2>8, <2>12, <2>13 DEF Inv, UpInv
<1> QED BY <1>4, <1>5 DEF NewDone

\* What the commit point makes of the disk: every key gets the value its bucket
\* was written with or kept, which covers the flush, and is the latest one
\* unless a store flagged the bucket again.
LEMMA CommitPoint ==
    ASSUME Inv, step \in {"pending", "onlyMarker"}, NEW k \in Key, TypeDisk',
           RecoveredLevel' = bucketCount,
           ContentOf(RecoveredFile(BucketIndexFor(k, RecoveredLevel))') = Candidate(Idx(k))
    PROVE  /\ Fit(k, OnDisk(k)')
           /\ ~dirty[Idx(k)] => OnDisk(k)' = latest[k]
<1>1. step \in NewSteps /\ step \notin {"new", "newWrite", "writing"}
  BY DEF NewSteps
<1>2. UpInv /\ ~failed
  BY <1>1, CommitKnows DEF UpInv, Commit
<1>3. OnDisk(k)' = Candidate(Idx(k))[k]
  BY DEF OnDisk, ContentOf
<1>4. Chosen(k) /\ Flagged(k)
  BY <1>2 DEF UpInv
<1>5. Fit(k, Candidate(Idx(k))[k])
  BY <1>1, <1>2, <1>4 DEF Chosen, Past
<1>6. ASSUME ~dirty[Idx(k)] PROVE OnDisk(k)' = latest[k]
  <2>1. CASE Idx(k) \in written
    BY <1>1, <1>3, <1>4, <1>6, <2>1 DEF Chosen, Past, Candidate
  <2>2. CASE Idx(k) \notin written
    <3>1. OnDisk(k) = latest[k]
      BY <1>1, <1>4, <1>6, <2>2 DEF Flagged, InProgress, Settled
    <3>2. OnDisk(k) \in Nat /\ OnDisk(k)' \in Nat
      BY OnDiskType, OnDiskTypeNext DEF Inv, Types
    <3>3. OnDisk(k) <= OnDisk(k)' /\ OnDisk(k)' <= latest[k]
      BY <1>3, <1>5 DEF Fit
    <3> QED BY ONLY <3>1, <3>2, <3>3, SMT
  <2> QED BY <2>1, <2>2
<1> QED BY <1>3, <1>5, <1>6

\* No bucket file lies past the layout that a commit records.
LEMMA NoFilePast ==
    ASSUME Inv, step \in NewSteps
    PROVE  \A i \in Bucket : i >= bucketCount => file[i] = NoFile
<1>1. /\ pendingFile = 0 /\ committedLevel = marker /\ UpInv /\ Levels
      /\ committedLevel \in Nat /\ bucketCount \in Nat /\ committedLevel <= bucketCount
  <2>1. pendingFile = 0 /\ committedLevel = marker /\ UpInv
    BY CommitKnows
  <2>2. committedLevel \in Nat /\ bucketCount \in Nat
    BY LevelMaxType, SMT DEF Inv, Types, TypeMemory, Level
  <2> QED BY <2>1, <2>2 DEF UpInv, Levels
<1>2. CASE committedLevel # 0 \/ bucketCount = LevelMax
  <2>1. RecoveredLevel <= bucketCount /\ RecoveredLevel \in Nat
    BY <1>1, <1>2, LevelMaxType DEF RecoveredLevel
  <2>2. \A i \in Bucket : i >= bucketCount => i >= RecoveredLevel
    BY <1>1, <2>1, LevelMaxType, SMT DEF Bucket
  <2> QED BY <2>2 DEF Inv, Disk
<1>3. CASE committedLevel = 0 /\ bucketCount # LevelMax
  BY <1>1, <1>3 DEF Levels
<1> QED BY <1>2, <1>3

\* A commit that wrote no bucket records the level by the marker alone.
LEMMA OnlyMarkerKeeps ==
    ASSUME Inv, OnlyMarker
    PROVE  Inv'
<1>1. step = "onlyMarker" /\ step \in NewSteps
  BY DEF OnlyMarker, NewSteps
<1>2. /\ holder \in Flush /\ holder \in Task /\ status = "up" /\ UpInv
      /\ pendingFile = 0 /\ fanOutAware /\ written = {}
      /\ \A i : ~InProgress(i)
  BY <1>1, CommitKnows DEF UpInv, Commit, InProgress
<1>3. /\ UNCHANGED <<file, new, pendingFile, status, entry, deserialized, dirty, client>>
      /\ UNCHANGED <<bucketCount, pendingLevel, fanOutAware>>
  BY DEF OnlyMarker, userVars, bucketVars
<1>4. CASE EndWork(FALSE) /\ UNCHANGED <<marker, committedLevel>>
  <2>1. Abandon
    BY <1>2, <1>3, <1>4 DEF Abandon, Inv, Types, TypeMemory
  <2> QED BY <1>1, <1>2, <1>3, <1>4, <2>1, AbandonKeeps
          DEF Inv, Types, TypeDisk, bucketVars, levelVars
<1>5. CASE EndWork(TRUE) /\ marker' = bucketCount /\ committedLevel' = bucketCount
  <2>1. bucketCount \in Ladder /\ bucketCount \in Nat /\ bucketCount # 0
    BY LevelMaxType DEF Inv, Types, TypeMemory
  <2>2. TypeDisk' /\ TypeMemory'
    BY <1>3, <1>5, <2>1 DEF Inv, Types, TypeDisk, TypeMemory, Level
  <2>3. RecoveredLevel' = bucketCount
    BY <1>2, <1>3, <1>5, <2>1 DEF RecoveredLevel
  <2>4. step' = "none" /\ latest' = latest
    BY <1>2, <1>5, ConstantsAssumption DEF EndWork, LetGo, Return, ghostVars
  <2>5. Disk'
    BY <1>1, <1>3, <2>3, <2>4, NoFilePast DEF Disk, RollSteps, RenameSteps, FlushSteps, NewSteps
  <2>6. Levels'
    BY <1>2, <1>3, <1>5, <2>1, <2>4, SMT DEF UpInv, Levels, NewSteps
  <2>7. Buckets'
    <3>1. step' \notin NewSteps \cup RenameSteps \cup {"stale", "pending", "newWrite", "writing"}
      BY <2>4 DEF NewSteps, RenameSteps
    <3>2. \A i \in Bucket : ~(i < 0)
      BY LevelMaxType, SMT DEF Bucket
    <3> QED BY <1>2, <1>3, <1>5, <3>1, <3>2 DEF UpInv, Buckets
  <2>8. ASSUME NEW k \in Key
        PROVE  /\ Held(k)'
               /\ OnDisk(k) <= OnDisk(k)' /\ OnDisk(k)' <= latest[k]
               /\ dirty'[Idx(k)'] \/ Settled(k)'
               /\ since[holder][k] <= OnDisk(k)'
    <3>1. Idx(k)' = Idx(k) /\ Idx(k) \in Bucket /\ Idx(k) \in Nat
      BY <1>3, IdxKept, IndexType DEF Idx, Inv, Types, TypeMemory
    <3>2. Held(k)'
      BY <1>2, <1>3, <2>4 DEF UpInv, Held, InMemory
    <3>3. BucketIndexFor(k, RecoveredLevel)' = Idx(k)
      BY <2>3 DEF Idx
    <3>4. ContentOf(RecoveredFile(BucketIndexFor(k, RecoveredLevel))') = Candidate(Idx(k))
      BY <1>2, <1>3, <3>1, <3>3, SMT DEF RecoveredFile, Candidate
    <3>5. Fit(k, OnDisk(k)') /\ (~dirty[Idx(k)] => OnDisk(k)' = latest[k])
      BY <1>1, <2>2, <2>3, <3>4, CommitPoint
    <3>6. dirty'[Idx(k)'] \/ Settled(k)'
      BY <1>3, <1>5, <2>4, <3>1, <3>5 DEF Settled
    <3> QED BY <1>2, <3>2, <3>5, <3>6 DEF Fit
  <2> QED BY <1>2, <1>3, <1>5, <2>2, <2>5, <2>6, <2>7, <2>8, EndKeeps
<1> QED BY <1>4, <1>5 DEF OnlyMarker

\* remove_stale_files leaves the .new files of this commit alone.
LEMMA RemoveStaleKeeps ==
    ASSUME Inv, RemoveStale
    PROVE  Inv'
<1>1. step = "stale" /\ step \in NewSteps
  BY DEF RemoveStale, NewSteps
<1>2. /\ holder \in Flush /\ holder \in Task /\ status = "up" /\ UpInv
      /\ pendingFile = 0 /\ fanOutAware /\ committedLevel # bucketCount
  BY <1>1, CommitKnows
<1>3. UNCHANGED <<file, marker, pendingFile, status, bucketVars, levelVars, client>>
  BY DEF RemoveStale, userVars
<1>4. CASE /\ Abandon
           /\ \E gone \in SUBSET {i \in Bucket \ written : new[i] # NoFile} :
                new' = [i \in Bucket |-> IF i \in gone THEN NoFile ELSE new[i]]
  <2>1. new' \in [Bucket -> Image]
    BY <1>4 DEF Inv, Types, TypeDisk, Image
  <2> QED BY <1>1, <1>2, <1>3, <1>4, <2>1, AbandonKeeps
<1>5. CASE /\ new' = [i \in Bucket |-> IF i \in written THEN new[i] ELSE NoFile]
           /\ Goto("pending")
           /\ UNCHANGED <<dirty, ghostVars, boundVars>>
  <2>1. /\ step' = "pending" /\ at' = 0
        /\ UNCHANGED <<holder, written, target, failed, gathered, pc, sweepAt, dirty>>
        /\ UNCHANGED <<latest, since, flushed, entry, deserialized>>
        /\ UNCHANGED <<bucketCount, committedLevel, pendingLevel, fanOutAware>>
    BY <1>3, <1>5 DEF Goto, ghostVars, bucketVars, levelVars
  <2>2. new' \in [Bucket -> Image] /\ written \in SUBSET Bucket
    BY <1>5 DEF Inv, Types, TypeDisk, TypeTasks, Image
  <2>3. \A i \in written : new'[i] = new[i]
    BY <1>5, <2>2
  <2>4. Types'
    BY <1>3, <2>1, <2>2 DEF Inv, Types, TypeDisk, TypeMemory, TypeUsers, TypeTasks, TypeHistory
  <2>5. Tasks'
    BY <1>2, <1>3, <2>1, ConstantsAssumption, GotoTasks DEF FlushSteps, NewSteps, RollSteps
  <2>6. /\ RecoveredLevel' = RecoveredLevel
        /\ \A k \in Key : OnDisk(k)' = OnDisk(k)
        /\ \A k : Idx(k)' = Idx(k)
    BY <1>2, <1>3, <2>1, StaleNewIgnored, IdxKept DEF Inv, Types
  <2>7. Disk'
    BY <1>2, <1>3, <2>1, <2>6 DEF Inv, Disk, RollSteps, RenameSteps
  <2>8. Levels'
    BY <1>1, <1>2, <1>3, <2>1 DEF UpInv, Levels, NewSteps
  <2>9. Buckets'
    <3>1. step' \in NewSteps /\ step' \notin RenameSteps \cup {"newWrite", "writing"}
      BY <2>1 DEF RenameSteps, NewSteps
    <3>2. \A i \in Bucket : ~(i < 0)
      BY LevelMaxType, SMT DEF Bucket
    <3> QED BY <1>1, <1>2, <1>3, <2>1, <3>1, <3>2 DEF UpInv, Buckets
  <2>10. Commit'
    <3>1. \A i \in written : new'[i] # NoFile
      BY <1>1, <1>2, <2>3 DEF UpInv, Commit
    <3>2. \A i \in Bucket : i < committedLevel => i \in written
      BY <1>1, <1>2 DEF UpInv, Commit, Past
    <3>3. \A i \in Bucket : new'[i] # NoFile => i \in written
      BY <1>5
    <3>4. ~failed
      BY <1>1, <1>2 DEF UpInv, Commit
    <3> QED BY <2>1, <3>1, <3>2, <3>3, <3>4 DEF Commit, Past
  <2>11. ASSUME NEW k \in Key
         PROVE  Durable(k)' /\ Held(k)' /\ Flagged(k)' /\ Chosen(k)' /\ InFlight(k)'
    <3>2. Durable(k)'
      BY <1>3, <2>1, <2>6 DEF Inv, Durable
    <3>3. Held(k)'
      BY <1>2, <1>3, <2>1 DEF UpInv, Held, InMemory
    <3>4. Flagged(k)'
      BY <1>1, <1>2, <1>3, <2>1, <2>6 DEF UpInv, Flagged, InProgress, Settled, NewSteps
    <3>5. Candidate(Idx(k))' = Candidate(Idx(k))
      BY <1>3, <2>1, <2>3, <2>6 DEF Candidate
    <3>6. Chosen(k)'
      BY <1>1, <1>2, <1>3, <2>1, <2>3, <2>6, <3>5 DEF UpInv, Chosen, Past, Fit
    <3>7. InFlight(k)'
      BY <2>1 DEF InFlight, RenameSteps
    <3> QED BY <3>2, <3>3, <3>4, <3>6, <3>7
  <2> QED BY <1>2, <1>3, <2>4, <2>5, <2>7, <2>8, <2>9, <2>10, <2>11 DEF Inv, UpInv
<1> QED BY <1>4, <1>5 DEF RemoveStale

\* The commit point keeps the invariant: level.pending makes the .new files what
\* an open finds.
LEMMA CommitPendingKeeps ==
    ASSUME Inv, CommitPending
    PROVE  Inv'
<1>1. step = "pending" /\ step \in NewSteps
  BY DEF CommitPending, NewSteps
<1>2. /\ holder \in Flush /\ holder \in Task /\ status = "up" /\ UpInv
      /\ pendingFile = 0 /\ fanOutAware /\ committedLevel # bucketCount
  BY <1>1, CommitKnows
<1>3. /\ UNCHANGED <<file, new, marker, status, entry, deserialized, client>>
      /\ UNCHANGED <<bucketCount, committedLevel, fanOutAware>>
  BY DEF CommitPending, userVars, bucketVars
<1>4. CASE Abandon /\ UNCHANGED <<pendingFile, pendingLevel>>
  BY <1>1, <1>2, <1>3, <1>4, AbandonKeeps DEF Inv, Types, TypeDisk, bucketVars, levelVars
<1>5. CASE /\ pendingFile' = bucketCount /\ pendingLevel' = bucketCount
           /\ Goto("rename")
           /\ UNCHANGED <<dirty, ghostVars, boundVars>>
  <2>1. /\ step' = "rename" /\ at' = 0
        /\ UNCHANGED <<holder, written, target, failed, gathered, pc, sweepAt, dirty>>
        /\ UNCHANGED <<latest, since, flushed>>
    BY <1>5 DEF Goto, ghostVars
  <2>2. bucketCount \in Ladder /\ bucketCount \in Nat /\ bucketCount # 0
    BY LevelMaxType DEF Inv, Types, TypeMemory
  <2>3. Types'
    BY <1>3, <1>5, <2>1, <2>2
       DEF Inv, Types, TypeDisk, TypeMemory, TypeUsers, TypeTasks, TypeHistory, Level
  <2>4. Tasks'
    BY <1>2, <1>3, <2>1, ConstantsAssumption, GotoTasks DEF FlushSteps, RenameSteps, RollSteps
  <2>5. RecoveredLevel' = bucketCount
    BY <1>5, <2>2 DEF RecoveredLevel
  <2>6. \A i \in Bucket : new[i] # NoFile <=> i \in written
    BY <1>1, <1>2 DEF UpInv, Commit
  <2>7. \A i \in written : i \in Bucket /\ i < bucketCount /\ deserialized[i]
    BY <1>1, <1>2 DEF UpInv, Buckets, Inv, Types, TypeTasks
  <2>8. Disk'
    <3>1. \A i \in Bucket : ~(i < 0)
      BY LevelMaxType, SMT DEF Bucket
    <3>2. step' \in RenameSteps /\ step' \notin RollSteps
      BY <2>1 DEF RollSteps, RenameSteps
    <3>3. step' \notin {"survey", "initial", "serialize", "writing"} \cup (FlushSteps \ RenameSteps)
      BY <2>1, <3>2
    <3>4. step' \notin {"roll", "rollMarker", "rollDelete", "marker", "delete"}
      BY <2>1
    <3>5. NoNew(at)'
      BY <2>1, <3>1 DEF NoNew
    <3>6. \A i \in Bucket : i >= bucketCount => file'[i] = NoFile
      BY <1>1, <1>3, NoFilePast
    <3>7. \A i \in written' : i \in Bucket
      BY <2>1, <2>7
    <3> QED BY <1>3, <1>5, <2>1, <2>2, <2>5, <2>6, <3>3, <3>4, <3>5, <3>6, <3>7 DEF Disk
  <2>9. Levels'
    BY <1>1, <1>2, <1>3, <1>5, <2>1, <2>2 DEF UpInv, Levels, NewSteps
  <2>10. Buckets'
    <3>1. step' \in RenameSteps /\ step' \notin {"newWrite", "writing"}
      BY <2>1 DEF RenameSteps
    <3>2. written # {}
      BY <1>1, <1>2 DEF UpInv, Buckets
    <3> QED BY <1>2, <1>3, <1>5, <2>1, <2>6, <2>7, <3>1, <3>2 DEF UpInv, Buckets
  <2>11. Commit' /\ \A k \in Key : Chosen(k)'
    BY <2>1 DEF Commit, Chosen, NewSteps
  <2>12. ASSUME NEW k \in Key
         PROVE  Durable(k)' /\ Held(k)' /\ Flagged(k)' /\ InFlight(k)'
    <3>1. Idx(k)' = Idx(k) /\ Idx(k) \in Bucket /\ Idx(k) < bucketCount
      BY <1>3, IdxKept, IndexType DEF Idx, Inv, Types, TypeMemory
    <3>2. Held(k)'
      BY <1>2, <1>3, <2>1 DEF UpInv, Held, InMemory
    <3>3. BucketIndexFor(k, RecoveredLevel)' = Idx(k)
      BY <2>5 DEF Idx
    <3>4. ContentOf(RecoveredFile(BucketIndexFor(k, RecoveredLevel))') = Candidate(Idx(k))
      BY <1>3, <1>5, <2>6, <3>1, <3>3 DEF RecoveredFile,
         Candidate, ContentOf
    <3>5. Fit(k, OnDisk(k)') /\ (~dirty[Idx(k)] => OnDisk(k)' = latest[k])
      BY <1>1, <2>3, <2>5, <3>4, CommitPoint DEF Types
    <3>6. Flagged(k)'
      BY <1>5, <2>1, <2>2, <3>1, <3>5 DEF Flagged, Settled
    <3>7. OnDisk(k) \in Nat /\ OnDisk(k)' \in Nat /\ flushed[k] \in Nat
      BY <2>3, OnDiskType, OnDiskTypeNext, HistoryType DEF Inv, Types
    <3>8. Durable(k)'
      <4>1. OnDisk(k) <= OnDisk(k)' /\ OnDisk(k)' <= latest[k]
        BY <3>5 DEF Fit
      <4>2. flushed[k] <= OnDisk(k) /\ \A f \in Flush : since[f][k] <= latest[k]
        BY DEF Inv, Durable
      <4>3. flushed[k] <= OnDisk(k)'
        BY <3>7, <4>1, <4>2, SMT
      <4> QED BY <1>2, <1>3, <2>1, <4>1, <4>2, <4>3 DEF Durable
    <3>9. InFlight(k)'
      BY <1>2, <2>1, <3>5 DEF InFlight, Fit
    <3> QED BY <3>2, <3>6, <3>8, <3>9
  <2> QED BY <1>2, <1>3, <2>3, <2>4, <2>8, <2>9, <2>10, <2>11, <2>12 DEF Inv, UpInv
<1> QED BY <1>4, <1>5 DEF CommitPending

\* What a commit past its commit point knows.
LEMMA RenameKnows ==
    ASSUME Inv, step \in RenameSteps
    PROVE  /\ holder \in Flush /\ holder \in Task /\ status = "up" /\ UpInv
           /\ pendingFile # 0 /\ bucketCount = pendingFile /\ pendingLevel = pendingFile /\ fanOutAware
           /\ RecoveredLevel = bucketCount /\ bucketCount \in Ladder
           /\ \A i : ~InProgress(i)
<1>1. step \in FlushSteps \ {"writing"} /\ step \notin NewSteps \cup {"newWrite", "writing"}
  BY DEF FlushSteps, NewSteps, RenameSteps
<1>2. holder \in Flush /\ holder \in Task /\ status = "up" /\ UpInv
  BY <1>1, HolderAt DEF Inv
<1>3. pendingFile # 0 /\ bucketCount \in Ladder
  BY DEF Inv, Disk, Types, TypeMemory
<1> QED BY <1>1, <1>2, <1>3 DEF UpInv, Levels, RecoveredLevel, InProgress

\* A rename of the commit keeps what an open would find.
LEMMA CommitRenameKeeps ==
    ASSUME Inv, CommitRename
    PROVE  Inv'
<1>1. step = "rename" /\ step \in RenameSteps /\ at < bucketCount
  BY DEF CommitRename, RenameSteps
<1>2. /\ holder \in Flush /\ holder \in Task /\ status = "up" /\ UpInv
      /\ pendingFile # 0 /\ bucketCount = pendingFile /\ RecoveredLevel = bucketCount
      /\ \A i : ~InProgress(i)
  BY <1>1, RenameKnows
<1>3. /\ UNCHANGED <<marker, pendingFile, status, entry, deserialized, dirty, client>>
      /\ UNCHANGED <<bucketCount, committedLevel, pendingLevel, fanOutAware>>
      /\ UNCHANGED <<step, holder, written, target, gathered, pc, sweepAt, latest, since, flushed>>
      /\ at' = at + 1
  BY DEF CommitRename, memVars, userVars, ghostVars, bucketVars, levelVars
<1>4. \/ /\ at \in written
         /\ file' = [file EXCEPT ![at] = new[at]]
         /\ new' = [new EXCEPT ![at] = NoFile]
         /\ UNCHANGED failed
      \/ at \notin written /\ UNCHANGED <<file, new, failed>>
      \/ at \in written /\ failed' = TRUE /\ UNCHANGED <<file, new>>
  BY DEF CommitRename
<1>5. at \in Nat /\ at \in Bucket /\ bucketCount \in Nat /\ written \in SUBSET Bucket
  BY <1>1, LevelMaxType, SMT DEF Inv, Types, TypeTasks, TypeMemory, Bucket
<1>6. file' \in [Bucket -> Image] /\ new' \in [Bucket -> Image] /\ failed' \in BOOLEAN
  BY <1>4, <1>5 DEF Inv, Types, TypeDisk, TypeTasks, Image
<1>7. \A i \in Bucket : i # at => file'[i] = file[i] /\ new'[i] = new[i]
  BY <1>4 DEF Inv, Types, TypeDisk
<1>8. \/ at \in written /\ file'[at] = new[at] /\ new'[at] = NoFile /\ failed' = failed
      \/ at \notin written /\ file' = file /\ new' = new /\ failed' = failed
      \/ at \in written /\ failed' = TRUE /\ file' = file /\ new' = new
  BY <1>4, <1>5 DEF Inv, Types, TypeDisk
<1>9. /\ \A i \in Bucket : new[i] # NoFile => i \in written
      /\ \A i \in written : i >= at => new[i] # NoFile
      /\ ~failed => NoNew(at)
  BY <1>1 DEF Inv, Disk
<1>10. RecoveredLevel' = RecoveredLevel
  BY <1>3 DEF RecoveredLevel
<1>11. \A i \in Bucket : i < pendingFile => RecoveredFile(i)' = RecoveredFile(i)
  <2> SUFFICES ASSUME NEW i \in Bucket, i < pendingFile, i = at
               PROVE  RecoveredFile(i)' = RecoveredFile(i)
    BY <1>3, <1>7 DEF RecoveredFile
  <2>1. at \in written => new[at] # NoFile
    BY <1>5, <1>9, SMT
  <2> QED BY <1>3, <1>8, <2>1 DEF RecoveredFile
<1>12. \A k \in Key : OnDisk(k)' = OnDisk(k)
  <2> SUFFICES ASSUME NEW k \in Key PROVE OnDisk(k)' = OnDisk(k)
    OBVIOUS
  <2>1. BucketIndexFor(k, RecoveredLevel) \in Bucket /\ BucketIndexFor(k, RecoveredLevel) < pendingFile
    BY <1>2, IndexType DEF Inv, Types, TypeMemory
  <2> QED BY <1>10, <1>11, <2>1 DEF OnDisk
<1>13. Types'
  BY <1>3, <1>5, <1>6, SMT DEF Inv, Types, TypeDisk, TypeMemory, TypeUsers, TypeTasks, TypeHistory
<1>14. Tasks'
  BY <1>2, <1>3, <1>1, ConstantsAssumption, GotoTasks DEF FlushSteps, RenameSteps, RollSteps
<1>15. Disk'
  <2>1. \A i \in Bucket : i >= RecoveredLevel' => file'[i] = NoFile
    <3>1. \A i \in Bucket : i >= bucketCount => i # at
      BY <1>1, <1>5, SMT
    <3>2. \A i \in Bucket : i >= RecoveredLevel => file[i] = NoFile
      BY DEF Inv, Disk
    <3> QED BY <1>2, <1>7, <1>10, <3>1, <3>2
  <2>2. \A i \in Bucket : new'[i] # NoFile => i \in written
    BY <1>7, <1>8, <1>9
  <2>3. \A i \in written : i >= at + 1 => new'[i] # NoFile
    <3> SUFFICES ASSUME NEW i \in written, i >= at + 1 PROVE new'[i] # NoFile
      OBVIOUS
    <3>1. i \in Nat /\ i \in Bucket
      BY <1>5, LevelMaxType, SMT DEF Bucket
    <3> QED BY <1>5, <1>7, <1>9, <3>1, SMT
  <2>4. ~failed' => NoNew(at)'
    <3> SUFFICES ASSUME ~failed', NEW i \in Bucket, i < at + 1 PROVE new'[i] = NoFile
      BY <1>3 DEF NoNew
    <3>1. i \in Nat
      BY LevelMaxType, SMT DEF Bucket
    <3>2. CASE i = at
      BY <1>5, <1>8, <1>9, <3>2
    <3>3. CASE i < at
      BY <1>5, <1>7, <1>8, <1>9, <3>1, <3>3 DEF NoNew
    <3> QED BY <1>5, <3>1, <3>2, <3>3, SMT
  <2>5. step' = "rename"
    BY <1>1, <1>3
  <2>6. step' \notin (FlushSteps \ RenameSteps) \cup {"survey", "initial", "serialize", "writing"}
    BY <2>5 DEF RenameSteps
  <2> QED BY <1>2, <1>3, <2>1, <2>2, <2>3, <2>4, <2>5, <2>6
             DEF Disk
<1>16. Levels'
  BY <1>1, <1>2, <1>3 DEF UpInv, Levels, NewSteps
<1>17. Buckets'
  <2>1. \A i \in Bucket : new'[i] # NoFile => new[i] # NoFile
    BY <1>7, <1>8
  <2>2. step' \in RenameSteps /\ step' \notin {"newWrite", "writing"}
    BY <1>1, <1>3
  <2> QED BY <1>1, <1>2, <1>3, <2>1, <2>2 DEF UpInv, Buckets
<1>18. Commit' /\ \A k \in Key : Chosen(k)'
  BY <1>1, <1>3 DEF Commit, Chosen, NewSteps
<1>19. ASSUME NEW k \in Key
       PROVE  Durable(k)' /\ Held(k)' /\ Flagged(k)' /\ InFlight(k)'
  <2>1. Idx(k)' = Idx(k) /\ Idx(k) \in Bucket
    BY <1>3, IdxKept, IndexType DEF Idx, Inv, Types, TypeMemory
  <2>2. Durable(k)'
    BY <1>3, <1>12 DEF Inv, Durable
  <2>3. file'[Idx(k)] = file[Idx(k)] \/ deserialized[Idx(k)]
    BY <1>1, <1>2, <1>7, <1>8, <2>1 DEF UpInv, Buckets
  <2>4. Held(k)
    BY <1>2 DEF UpInv
  <2>5. Held(k)'
    BY <1>3, <2>3, <2>4 DEF Held, InMemory, Idx
  <2>6. Flagged(k)'
    BY <1>2, <1>3, <1>12, <2>1 DEF UpInv, Flagged, Settled
  <2>7. InFlight(k)'
    BY <1>1, <1>2, <1>3, <1>12 DEF UpInv, InFlight
  <2> QED BY <2>2, <2>5, <2>6, <2>7
<1> QED BY <1>2, <1>3, <1>13, <1>14, <1>15, <1>16, <1>17, <1>18, <1>19 DEF Inv, UpInv

\* The renames end, with the commit abandoned when one failed.
LEMMA CommitRenamedKeeps ==
    ASSUME Inv, CommitRenamed
    PROVE  Inv'
<1>1. step = "rename" /\ step \in RenameSteps /\ at = bucketCount
  BY DEF CommitRenamed, RenameSteps
<1>2. /\ holder \in Flush /\ holder \in Task /\ status = "up" /\ UpInv
      /\ pendingFile # 0 /\ bucketCount = pendingFile /\ RecoveredLevel = bucketCount
      /\ \A i : ~InProgress(i)
  BY <1>1, RenameKnows
<1>3. UNCHANGED <<file, new, marker, pendingFile, status, bucketVars, levelVars, client>>
  BY DEF CommitRenamed, diskVars, userVars
<1>4. CASE Abandon
  BY <1>1, <1>2, <1>3, <1>4, AbandonKeeps DEF Inv, Types, TypeDisk
<1>5. CASE ~failed /\ Goto("marker") /\ UNCHANGED <<dirty, ghostVars>>
  <2>1. /\ step' = "marker" /\ at' = 0 /\ step' \in RenameSteps
        /\ UNCHANGED <<holder, written, target, failed, gathered, pc, sweepAt, dirty>>
        /\ UNCHANGED <<latest, since, flushed, entry, deserialized>>
        /\ UNCHANGED <<bucketCount, committedLevel, pendingLevel, fanOutAware>>
    BY <1>3, <1>5 DEF Goto, ghostVars, bucketVars, levelVars, RenameSteps
  <2>2. Types'
    BY <1>3, <2>1 DEF Inv, Types, TypeDisk, TypeMemory, TypeUsers, TypeTasks, TypeHistory
  <2>3. Tasks'
    BY <1>2, <1>3, <2>1, ConstantsAssumption, GotoTasks DEF FlushSteps, RenameSteps, RollSteps
  <2>4. /\ RecoveredLevel' = RecoveredLevel
        /\ \A k : OnDisk(k)' = OnDisk(k)
        /\ \A k : Idx(k)' = Idx(k)
    BY <1>3, <2>1, DiskKept, IdxKept
  <2>5. NoNew(pendingFile)'
    BY <1>1, <1>2, <1>3, <1>5 DEF Inv, Disk, NoNew
  <2>6. Disk'
    <3>1. step' \notin (FlushSteps \ RenameSteps) \cup {"survey", "initial", "serialize", "writing"}
      BY <2>1
    <3> QED BY <1>2, <1>3, <2>1, <2>4, <2>5, <3>1 DEF Inv, Disk
  <2>7. Levels'
    BY <1>1, <1>2, <1>3, <2>1 DEF UpInv, Levels, NewSteps
  <2>8. Buckets'
    BY <1>1, <1>2, <1>3, <2>1 DEF UpInv, Buckets
  <2>9. Commit' /\ \A k \in Key : Chosen(k)'
    BY <2>1 DEF Commit, Chosen, NewSteps
  <2>10. ASSUME NEW k \in Key
         PROVE  Durable(k)' /\ Held(k)' /\ Flagged(k)' /\ InFlight(k)'
    <3>1. Durable(k)'
      BY <1>3, <2>1, <2>4 DEF Inv, Durable
    <3>2. Held(k)'
      BY <1>2, <1>3, <2>1 DEF UpInv, Held, InMemory
    <3>3. Flagged(k)'
      BY <1>2, <1>3, <2>1, <2>4 DEF UpInv, Flagged, Settled
    <3>4. InFlight(k)'
      BY <1>1, <1>2, <2>1, <2>4 DEF UpInv, InFlight
    <3> QED BY <3>1, <3>2, <3>3, <3>4
  <2> QED BY <1>2, <1>3, <2>2, <2>3, <2>6, <2>7, <2>8, <2>9, <2>10 DEF Inv, UpInv
<1> QED BY <1>4, <1>5 DEF CommitRenamed

\* The marker of the commit keeps what an open would find.
LEMMA CommitMarkerKeeps ==
    ASSUME Inv, CommitMarker
    PROVE  Inv'
<1>1. step = "marker" /\ step \in RenameSteps
  BY DEF CommitMarker, RenameSteps
<1>2. /\ holder \in Flush /\ holder \in Task /\ status = "up" /\ UpInv
      /\ pendingFile # 0 /\ bucketCount = pendingFile /\ RecoveredLevel = bucketCount
      /\ bucketCount \in Ladder
      /\ \A i : ~InProgress(i)
  BY <1>1, RenameKnows
<1>3. UNCHANGED <<file, new, pendingFile, status, bucketVars, levelVars, client>>
  BY DEF CommitMarker, userVars
<1>4. CASE Abandon /\ UNCHANGED marker
  BY <1>1, <1>2, <1>3, <1>4, AbandonKeeps DEF Inv, Types, TypeDisk
<1>5. CASE marker' = bucketCount /\ Goto("delete") /\ UNCHANGED <<dirty, ghostVars>>
  <2>1. /\ step' = "delete" /\ at' = 0 /\ step' \in RenameSteps
        /\ UNCHANGED <<holder, written, target, failed, gathered, pc, sweepAt, dirty>>
        /\ UNCHANGED <<latest, since, flushed, entry, deserialized>>
        /\ UNCHANGED <<bucketCount, committedLevel, pendingLevel, fanOutAware>>
    BY <1>3, <1>5 DEF Goto, ghostVars, bucketVars, levelVars, RenameSteps
  <2>2. Types'
    BY <1>2, <1>3, <1>5, <2>1
       DEF Inv, Types, TypeDisk, TypeMemory, TypeUsers, TypeTasks, TypeHistory, Level
  <2>3. Tasks'
    BY <1>2, <1>3, <2>1, ConstantsAssumption, GotoTasks DEF FlushSteps, RenameSteps, RollSteps
  <2>4. RecoveredLevel' = RecoveredLevel
    BY <1>2, <1>3 DEF RecoveredLevel
  <2>5. \A i : RecoveredFile(i)' = RecoveredFile(i)
    BY <1>3 DEF RecoveredFile
  <2>6. /\ \A k : OnDisk(k)' = OnDisk(k)
        /\ \A k : Idx(k)' = Idx(k)
    BY <2>1, <2>4, <2>5, IdxKept DEF OnDisk
  <2>7. NoNew(pendingFile)'
    BY <1>1, <1>3 DEF Inv, Disk, NoNew
  <2>8. Disk'
    <3>1. step' \notin (FlushSteps \ RenameSteps) \cup {"survey", "initial", "serialize", "writing"}
      BY <2>1
    <3> QED BY <1>2, <1>3, <1>5, <2>1, <2>4, <2>7, <3>1 DEF Inv, Disk
  <2>9. Levels'
    BY <1>1, <1>2, <1>3, <2>1 DEF UpInv, Levels, NewSteps
  <2>10. Buckets'
    BY <1>1, <1>2, <1>3, <2>1 DEF UpInv, Buckets
  <2>11. Commit' /\ \A k \in Key : Chosen(k)'
    BY <2>1 DEF Commit, Chosen, NewSteps
  <2>12. ASSUME NEW k \in Key
         PROVE  Durable(k)' /\ Held(k)' /\ Flagged(k)' /\ InFlight(k)'
    <3>1. Durable(k)'
      BY <1>3, <2>1, <2>6 DEF Inv, Durable
    <3>2. Held(k)'
      BY <1>2, <1>3, <2>1 DEF UpInv, Held, InMemory
    <3>3. Flagged(k)'
      BY <1>2, <1>3, <2>1, <2>6 DEF UpInv, Flagged, Settled
    <3>4. InFlight(k)'
      BY <1>1, <1>2, <2>1, <2>6 DEF UpInv, InFlight
    <3> QED BY <3>1, <3>2, <3>3, <3>4
  <2> QED BY <1>2, <1>3, <2>2, <2>3, <2>8, <2>9, <2>10, <2>11, <2>12 DEF Inv, UpInv
<1> QED BY <1>4, <1>5 DEF CommitMarker

\* The end of the commit keeps the invariant, and what the flush promised is on
\* disk.
LEMMA CommitDoneKeeps ==
    ASSUME Inv, CommitDone
    PROVE  Inv'
<1>1. step = "delete" /\ step \in RenameSteps
  BY DEF CommitDone, RenameSteps
<1>2. /\ holder \in Flush /\ holder \in Task /\ status = "up" /\ UpInv
      /\ pendingFile # 0 /\ bucketCount = pendingFile /\ RecoveredLevel = bucketCount
      /\ bucketCount \in Ladder /\ fanOutAware
      /\ \A i : ~InProgress(i)
  BY <1>1, RenameKnows
<1>3. /\ UNCHANGED <<file, new, marker, status, entry, deserialized, client>>
      /\ UNCHANGED <<bucketCount, fanOutAware>>
  BY DEF CommitDone, userVars, bucketVars
<1>4. CASE Abandon /\ UNCHANGED <<pendingFile, committedLevel, pendingLevel>>
  BY <1>1, <1>2, <1>3, <1>4, AbandonKeeps DEF Inv, Types, TypeDisk, bucketVars, levelVars
<1>5. CASE /\ pendingFile' = 0 /\ committedLevel' = bucketCount /\ pendingLevel' = 0
           /\ EndWork(TRUE) /\ UNCHANGED dirty
  <2>1. NoNew(pendingFile) /\ marker = pendingFile
    BY <1>1 DEF Inv, Disk
  <2>2. TypeDisk' /\ TypeMemory'
    BY <1>2, <1>3, <1>5 DEF Inv, Types, TypeDisk, TypeMemory, Level
  <2>3. step' = "none" /\ latest' = latest
    BY <1>2, <1>5, ConstantsAssumption DEF EndWork, LetGo, Return, ghostVars
  <2>4. RecoveredLevel' = RecoveredLevel
    BY <1>2, <1>3, <1>5, <2>1 DEF RecoveredLevel
  <2>5. \A i \in Bucket : RecoveredFile(i)' = RecoveredFile(i)
    <3>1. \A i \in Bucket : ~(i < 0)
      BY LevelMaxType, SMT DEF Bucket
    <3> QED BY <1>3, <1>5, <2>1, <3>1 DEF RecoveredFile, NoNew
  <2>6. \A k \in Key : OnDisk(k)' = OnDisk(k)
    <3> SUFFICES ASSUME NEW k \in Key PROVE OnDisk(k)' = OnDisk(k)
      OBVIOUS
    <3>1. BucketIndexFor(k, RecoveredLevel) \in Bucket
      BY OnDiskType, IndexType DEF Inv, Types
    <3> QED BY <2>4, <2>5, <3>1 DEF OnDisk
  <2>7. Disk'
    BY <1>3, <2>3, <2>4 DEF Inv, Disk, RollSteps, RenameSteps, FlushSteps, NewSteps
  <2>8. bucketCount \in Nat /\ bucketCount # 0
    BY <1>2, LevelMaxType
  <2>9. Levels'
    BY <1>2, <1>3, <1>5, <2>1, <2>3, <2>8, SMT DEF Levels, NewSteps
  <2>10. Buckets'
    <3>1. step' \notin NewSteps \cup RenameSteps \cup {"stale", "pending", "newWrite", "writing"}
      BY <2>3 DEF NewSteps, RenameSteps
    <3>2. \A i \in Bucket : ~(i < 0)
      BY LevelMaxType, SMT DEF Bucket
    <3> QED BY <1>2, <1>3, <1>5, <3>1, <3>2 DEF UpInv, Buckets
  <2>11. ASSUME NEW k \in Key
         PROVE  /\ Held(k)'
                /\ OnDisk(k) <= OnDisk(k)' /\ OnDisk(k)' <= latest[k]
                /\ dirty'[Idx(k)'] \/ Settled(k)'
                /\ since[holder][k] <= OnDisk(k)'
    <3>1. Idx(k)' = Idx(k)
      BY <1>3, IdxKept
    <3>2. Held(k)'
      BY <1>2, <1>3, <2>3 DEF UpInv, Held, InMemory
    <3>3. dirty[Idx(k)] \/ OnDisk(k) = latest[k]
      BY <1>2 DEF UpInv, Flagged, Settled
    <3>4. dirty'[Idx(k)'] \/ Settled(k)'
      BY <1>3, <1>5, <2>3, <2>6, <3>1, <3>3 DEF Settled
    <3>5. OnDisk(k) \in Nat /\ OnDisk(k) <= latest[k]
      BY OnDiskType DEF Inv, Types, Durable
    <3>6. since[holder][k] <= OnDisk(k)
      BY <1>1, <1>2 DEF UpInv, InFlight
    <3>7. OnDisk(k) <= OnDisk(k)' /\ OnDisk(k)' <= latest[k] /\ since[holder][k] <= OnDisk(k)'
      BY <2>6, <3>5, <3>6, SMT
    <3> QED BY <3>2, <3>4, <3>7
  <2> QED BY <1>2, <1>3, <1>5, <2>2, <2>7, <2>9, <2>10, <2>11, EndKeeps
<1> QED BY <1>4, <1>5 DEF CommitDone

-----------------------------------------------------------------------------
(***************************************************************************)
(* The choice of a level                                                   *)
(***************************************************************************)

\* The order of the naturals, as a relation.
Below == {p \in Nat \X Nat : p[1] < p[2]}

\* A set of naturals that is not empty has a least element.
LEMMA Least ==
    ASSUME NEW S \in SUBSET Nat, S # {}
    PROVE  \E m \in S : \A n \in S : m <= n
<1>1. IsWellFoundedOn(Below, Nat)
  BY NatLessThanWellFounded DEF OpToRel, Below
<1>2. \E m \in S : \A n \in S : ~(<<n, m>> \in Below)
  BY <1>1, WFMin
<1>3. PICK m \in S : \A n \in S : ~(<<n, m>> \in Below)
  BY <1>2
<1>4. ASSUME NEW n \in S PROVE m <= n
  <2>1. m \in Nat /\ n \in Nat
    OBVIOUS
  <2>2. ~(<<n, m>> \in Below)
    BY <1>3
  <2>3. ~(n < m)
    BY <2>1, <2>2 DEF Below
  <2> QED BY <2>1, <2>3, SMT
<1> QED BY <1>4

\* level_for names a level of the ladder.
LEMMA LevelForType ==
    ASSUME NEW b, NEW m, NEW t
    PROVE  LevelFor(b, m, t) \in Ladder
<1> DEFINE fitting == {n \in Ladder : n >= (b * m + t - 1) \div t}
<1>1. CASE fitting = {}
  BY <1>1, LevelMaxType DEF LevelFor
<1>2. CASE fitting # {}
  <2>1. fitting \in SUBSET Nat
    BY LevelMaxType
  <2>2. \E n \in fitting : \A o \in fitting : n <= o
    <3> HIDE DEF fitting
    <3> QED BY <1>2, <2>1, Least
  <2>3. LevelFor(b, m, t) = CHOOSE n \in fitting : \A o \in fitting : n <= o
    BY <1>2 DEF LevelFor
  <2> HIDE DEF fitting
  <2>4. LevelFor(b, m, t) \in fitting
    BY <2>2, <2>3
  <2> QED BY <2>4 DEF fitting
<1> QED BY <1>1, <1>2

\* The choice of a level keeps the invariant.
LEMMA FanOutScanKeeps ==
    ASSUME Inv, FanOutScan
    PROVE  Inv'
<1>1. holder \in Flush /\ holder \in Task /\ status = "up" /\ step \in Quiet /\ step = "fanOut"
  BY HolderAt DEF FanOutScan, FlushSteps, Quiet
<1>2. /\ UNCHANGED <<file, new, marker, pendingFile, status, bucketVars, dirty, levelVars>>
      /\ UNCHANGED <<client, ghostVars, holder, written, failed, gathered, pc, sweepAt>>
      /\ at' = 0
  BY DEF FanOutScan, diskVars, memVars, userVars
<1>3. UNCHANGED <<bucketCount, committedLevel, pendingLevel, fanOutAware>>
  BY <1>2 DEF levelVars
<1>4. written = {} /\ pendingFile = 0
  BY <1>1 DEF Inv, Tasks, Disk, FlushSteps, RenameSteps
<1>5. \/ step' = "move" /\ target' \in Ladder /\ target' > bucketCount
      \/ step' = WritePath
  BY LevelForType DEF FanOutScan
<1>6. step' \in {"move", "commit", "write"}
  BY <1>5 DEF WritePath
<1>7. Tasks'
  BY <1>1, <1>2, <1>4, <1>6, ConstantsAssumption, GotoTasks DEF FlushSteps
<1>8. TypeTasks'
  BY <1>2 DEF Inv, Types, TypeTasks
<1>9. Disk'
  <2>1. RecoveredLevel' = RecoveredLevel
    BY <1>2, DiskKept
  <2> QED BY <1>2, <1>4, <1>6, <2>1 DEF Inv, Disk, RollSteps, RenameSteps
<1>10. Levels'
  <2>1. Levels
    BY <1>1 DEF Inv, UpInv
  <2>2. step' = "commit" => fanOutAware /\ committedLevel # bucketCount
    BY <1>5 DEF WritePath
  <2>3. step' = "write" => ~fanOutAware \/ committedLevel = bucketCount
    BY <1>5 DEF WritePath
  <2> QED BY <1>2, <1>3, <1>5, <1>6, <2>1, <2>2, <2>3 DEF Levels, NewSteps, WritePath
<1> QED BY <1>1, <1>2, <1>4, <1>6, <1>7, <1>8, <1>9, <1>10, QuietKeeps DEF Quiet

-----------------------------------------------------------------------------
(***************************************************************************)
(* The invariant holds                                                     *)
(***************************************************************************)

\* Every step of the group keeps the invariant.
LEMMA InvStep == Inv /\ [Next]_vars => Inv'
<1> SUFFICES ASSUME Inv, [Next]_vars PROVE Inv'
  OBVIOUS
<1>1. CASE Opening \/ Reload \/ Stop
  BY <1>1, OpenKeeps, SurveyKeeps, StopKeeps DEF Opening
<1>2. CASE Rolling
  BY <1>2, RollRenameKeeps, RollMarkerKeeps, RollDeleteKeeps DEF Rolling
<1>3. CASE FlushRecheck \/ FanningOut
  BY <1>3, FlushRecheckKeeps, FanOutScanKeeps, FanOutMoveKeeps, FanOutFailsKeeps DEF FanningOut
<1>4. CASE Committing
  BY <1>4, CommitDirKeeps, NewBucketKeeps, NewLandsKeeps, NewDoneKeeps, OnlyMarkerKeeps,
     RemoveStaleKeeps, CommitPendingKeeps, CommitRenameKeeps, CommitRenamedKeeps,
     CommitMarkerKeeps, CommitDoneKeeps DEF Committing
<1>5. CASE Writing \/ SweepWork
  BY <1>5, WriteBucketKeeps, WriteLandsKeeps, SweepMarkerKeeps, SweepSerializeKeeps,
     SweepEndKeeps DEF Writing, SweepWork
<1>6. ASSUME NEW c \in Client, Using(c) PROVE Inv'
  BY <1>6, ResolveKeeps, RetryKeeps, UnreadableKeeps, LoadKeeps, StoreKeeps,
     ScheduleFlushKeeps DEF Using
<1>7. ASSUME NEW f \in Flush, Flushing(f) PROVE Inv'
  BY <1>7, FlushCallKeeps, FlushCheckKeeps, FlushScanKeeps, FlushLockKeeps DEF Flushing
<1>8. ASSUME NEW s \in Sweep, Sweeping(s) PROVE Inv'
  BY <1>8, SweepWakeKeeps, SweepClaimKeeps, SweepNextKeeps, SweepLockKeeps DEF Sweeping
<1>9. CASE Listing
  BY <1>9, ListStepsKeep, ListLoadKeeps DEF Listing
<1>10. CASE UNCHANGED vars
  <2>1. /\ UNCHANGED <<file, new, marker, pendingFile, status, bucketVars, dirty, levelVars,
                       holder, workVars, ghostVars>>
        /\ UNCHANGED <<client, list, pc, sweepAt>>
    BY <1>10 DEF vars, diskVars, memVars, userVars, taskVars
  <2>2. Disk' /\ (\A k \in Key : Durable(k)') /\ (status' = "up" => UpInv')
    BY <2>1, CoreKept
  <2>3. /\ UNCHANGED <<entry, deserialized, bucketCount, committedLevel, pendingLevel, fanOutAware>>
        /\ UNCHANGED <<step, at, written, target, failed, gathered, latest, since, flushed>>
    BY <2>1 DEF bucketVars, levelVars, workVars, ghostVars
  <2>4. Types' /\ Tasks'
    BY <2>1, <2>3
       DEF Inv, Types, TypeDisk, TypeMemory, TypeUsers, TypeTasks,
       TypeHistory, Tasks
  <2> QED BY <2>2, <2>4 DEF Inv
<1> QED BY <1>1, <1>2, <1>3, <1>4, <1>5, <1>6, <1>7, <1>8, <1>9, <1>10 DEF Next

\* The group keeps the invariant, whatever runs on it.
THEOREM GroupInvariant == Spec => []Inv
BY InitKeeps, InvStep, PTL DEF Spec

\* The bucket a key is looked up in holds the value last stored, in memory or
\* in the file that is read first: no fan-out and no lazy read loses an entry
\* (maybe_fan_out_mutable_group, deserialize, survey_groups).
THEOREM LatestHeld == Spec => []HoldsLatest
<1>1. Inv => HoldsLatest
  BY DEF Inv, UpInv, Held, HoldsLatest
<1> QED BY <1>1, GroupInvariant, PTL

\* A load answers the value last stored, however often a fan-out moved the
\* key while the load waited for its bucket (the retry loop of load).
THEOREM LatestLoaded == Spec => []LoadsLatest
<1>1. Inv => LoadsLatest
  <2> SUFFICES ASSUME Inv, NEW c \in Client, Reached(c)
               PROVE  Answer(c) = latest[client[c].key]
    BY DEF LoadsLatest
  <2>1. status = "up" /\ client[c].key \in Key
    BY UsersUp DEF Reached
  <2>2. InMemory(client[c].key) = latest[client[c].key]
    BY <2>1 DEF Inv, UpInv, Held
  <2> QED BY <2>2 DEF Reached, Answer, At, Loaded, InMemory
<1> QED BY <1>1, GroupInvariant, PTL

\* When no flush is at work, a bucket that is not flagged has what it holds on
\* disk: the flags decide rightly whether the store may be let go of
\* (has_unflushed, SerializeFailureGuard, UnfinishedCommit).
THEOREM FlagsSuffice == Spec => []UnflaggedIsOnDisk
<1>1. Inv => UnflaggedIsOnDisk
  <2> SUFFICES ASSUME Inv, status = "up", holder = Nobody, NEW k \in Key
               PROVE  dirty[Idx(k)] \/ OnDisk(k) = latest[k]
    BY DEF UnflaggedIsOnDisk, Idx
  <2>1. step \in Quiet
    BY DEF Inv, Tasks, Quiet
  <2> QED BY <2>1, QuietKnows DEF Inv, UpInv, Flagged, Settled
<1> QED BY <1>1, GroupInvariant, PTL

\* What a flush that returned Ok covered stays on disk, through every later
\* flush, fan-out, failed write and stop (flush, await_bucket_write).
THEOREM FlushedStays == Spec => []FlushedIsDurable
<1>1. Inv => FlushedIsDurable
  <2> SUFFICES ASSUME Inv, NEW k \in Key PROVE OnDisk(k) >= flushed[k]
    BY DEF FlushedIsDurable
  <2>1. flushed[k] <= OnDisk(k) /\ flushed[k] \in Nat /\ OnDisk(k) \in Nat
    BY OnDiskType, HistoryType DEF Inv, Durable, Types
  <2> QED BY <2>1
<1> QED BY <1>1, GroupInvariant, PTL

-----------------------------------------------------------------------------
(***************************************************************************)
(* The group implements the durable map                                    *)
(***************************************************************************)

\* A step that stores nothing takes no key on disk back.
Grows == latest' = latest /\ \A k \in Key : OnDisk(k) <= OnDisk(k)'

\* The disk is the same to the next open when it finds the same level, and the
\* same file for every bucket of that level.
LEMMA SameDisk ==
    ASSUME Inv, UNCHANGED RecoveredLevel, latest' = latest,
           \A i \in Bucket : i < RecoveredLevel => RecoveredFile(i)' = RecoveredFile(i)
    PROVE  Grows
<1> SUFFICES ASSUME NEW k \in Key PROVE OnDisk(k) <= OnDisk(k)'
  BY DEF Grows
<1>1. /\ BucketIndexFor(k, RecoveredLevel) \in Bucket
      /\ BucketIndexFor(k, RecoveredLevel) < RecoveredLevel
      /\ OnDisk(k) \in Nat
  BY OnDiskType, IndexType DEF Inv, Types
<1>2. OnDisk(k)' = OnDisk(k)
  BY <1>1 DEF OnDisk
<1> QED BY <1>1, <1>2, SMT

\* A step that changes no file takes no key on disk back.
LEMMA SameFiles ==
    ASSUME Inv, UNCHANGED <<file, new, marker, pendingFile>>, latest' = latest
    PROVE  Grows
BY SameDisk, DiskKept

\* The end of a holder's work changes no value.
LEMMA EndLatest ==
    ASSUME NEW ok, EndWork(ok)
    PROVE  latest' = latest
BY DEF EndWork, Return, ghostVars

\* A roll forward takes no key on disk back.
LEMMA RollGrows ==
    ASSUME Inv, Rolling
    PROVE  Grows
<1>1. step \in RollSteps /\ pendingFile # 0 /\ pendingFile \in Nat
  BY LevelMaxType DEF Rolling, RollRename, RollMarker, RollDelete, RollSteps, Inv, Disk, Types,
                      TypeDisk, Level
<1>2. latest' = latest
  BY EndLatest DEF Rolling, RollRename, RollMarker, RollDelete,
     RollFails, ghostVars
<1>3. CASE RollRename
  <2>1. UNCHANGED <<marker, pendingFile>> /\ step = "roll" /\ at \in Nat /\ RecoveredLevel' = RecoveredLevel
    BY <1>3 DEF RollRename, RecoveredLevel, Inv, Types, TypeTasks
  <2>2. CASE UNCHANGED <<file, new>>
    BY <1>2, <2>1, <2>2, SameFiles
  <2>3. CASE /\ at < pendingFile
             /\ file' = [file EXCEPT ![at] = IF new[at] = NoFile THEN @ ELSE new[at]]
             /\ new' = [new EXCEPT ![at] = NoFile]
    <3>1. \A i \in Bucket : RecoveredFile(i)' = RecoveredFile(i)
      BY <2>1, <2>3 DEF RecoveredFile, Inv, Types, TypeDisk
    <3> QED BY <1>2, <2>1, <3>1, SameDisk
  <2> QED BY <1>3, <2>2, <2>3 DEF RollRename
<1>4. CASE RollMarker
  <2>1. UNCHANGED <<file, new, pendingFile>>
    BY <1>4 DEF RollMarker
  <2>2. RecoveredLevel' = RecoveredLevel /\ \A i : RecoveredFile(i)' = RecoveredFile(i)
    BY <1>1, <2>1 DEF RecoveredLevel, RecoveredFile
  <2> QED BY <1>2, <2>2, SameDisk
<1>5. CASE RollDelete
  <2>1. UNCHANGED <<file, new, marker>> /\ step = "rollDelete"
    BY <1>5 DEF RollDelete
  <2>2. CASE UNCHANGED pendingFile
    BY <1>2, <2>1, <2>2, SameFiles
  <2>3. CASE pendingFile' = 0
    <3>1. NoNew(pendingFile) /\ marker = pendingFile
      BY <2>1 DEF Inv, Disk
    <3>2. RecoveredLevel' = RecoveredLevel
      BY <1>1, <2>1, <2>3, <3>1 DEF RecoveredLevel
    <3>3. \A i \in Bucket : ~(i < 0)
      BY LevelMaxType, SMT DEF Bucket
    <3>4. \A i \in Bucket : RecoveredFile(i)' = RecoveredFile(i)
      BY <2>1, <2>3, <3>1, <3>3 DEF RecoveredFile, NoNew
    <3> QED BY <1>2, <3>2, <3>4, SameDisk
  <2> QED BY <1>5, <2>2, <2>3 DEF RollDelete
<1> QED BY <1>3, <1>4, <1>5 DEF Rolling

\* A commit takes no key on disk back.
LEMMA CommitGrows ==
    ASSUME Inv, Committing
    PROVE  Grows
<1>1. latest' = latest
  BY EndLatest DEF Committing, CommitDir, NewBucket, NewLands, NewDone,
     OnlyMarker, RemoveStale,
     CommitPending, CommitRename, CommitRenamed, CommitMarker, CommitDone,
     Abandon, ghostVars
<1>2. CASE CommitDir \/ NewBucket \/ NewDone \/ CommitRenamed
  <2>1. UNCHANGED <<file, new, marker, pendingFile>>
    BY <1>2 DEF CommitDir, NewBucket, NewDone, CommitRenamed, diskVars
  <2> QED BY <1>1, <2>1, SameFiles
<1>3. CASE NewLands \/ RemoveStale
  <2>1. UNCHANGED <<file, marker, pendingFile>> /\ step \in NewSteps
    BY <1>3 DEF NewLands, RemoveStale, NewSteps
  <2>2. pendingFile = 0
    BY <2>1, CommitKnows
  <2>3. RecoveredLevel' = RecoveredLevel
    BY <2>1 DEF RecoveredLevel
  <2>4. \A i \in Bucket : ~(i < 0)
    BY LevelMaxType, SMT DEF Bucket
  <2>5. \A i \in Bucket : RecoveredFile(i)' = RecoveredFile(i)
    BY <2>1, <2>2, <2>4 DEF RecoveredFile
  <2> QED BY <1>1, <2>3, <2>5, SameDisk
<1>4. CASE OnlyMarker
  <2>1. /\ step = "onlyMarker" /\ step \in NewSteps /\ TypeDisk'
        /\ UNCHANGED <<file, new, pendingFile>>
    BY <1>4, OnlyMarkerKeeps DEF OnlyMarker, NewSteps, Inv, Types
  <2>2. pendingFile = 0 /\ written = {}
    BY <2>1, CommitKnows DEF UpInv, Commit
  <2>3. CASE UNCHANGED marker
    BY <1>1, <2>1, <2>3, SameFiles
  <2>4. CASE marker' = bucketCount
    <3>1. RecoveredLevel' = bucketCount
      BY <2>1, <2>2, <2>4, LevelMaxType DEF RecoveredLevel, Inv, Types, TypeMemory
    <3>2. ASSUME NEW k \in Key PROVE OnDisk(k) <= OnDisk(k)'
      <4>1. BucketIndexFor(k, RecoveredLevel)' = Idx(k) /\ Idx(k) \in Nat
        BY <3>1, IndexType DEF Idx, Inv, Types, TypeMemory
      <4>2. ContentOf(RecoveredFile(BucketIndexFor(k, RecoveredLevel))') = Candidate(Idx(k))
        BY <2>1, <2>2, <4>1, SMT DEF RecoveredFile, Candidate
      <4> QED BY <2>1, <3>1, <4>2, CommitPoint DEF Fit
    <3> QED BY <1>1, <3>2 DEF Grows
  <2> QED BY <1>4, <2>3, <2>4 DEF OnlyMarker
<1>5. CASE CommitPending
  <2>1. /\ step = "pending" /\ step \in NewSteps /\ TypeDisk'
        /\ UNCHANGED <<file, new, marker>>
    BY <1>5, CommitPendingKeeps DEF CommitPending, NewSteps, Inv, Types
  <2>2. \A i \in Bucket : new[i] # NoFile <=> i \in written
    BY <2>1, CommitKnows DEF UpInv, Commit
  <2>3. CASE UNCHANGED pendingFile
    BY <1>1, <2>1, <2>3, SameFiles
  <2>4. CASE pendingFile' = bucketCount
    <3>1. RecoveredLevel' = bucketCount
      BY <2>4, LevelMaxType DEF RecoveredLevel, Inv, Types, TypeMemory
    <3>2. ASSUME NEW k \in Key PROVE OnDisk(k) <= OnDisk(k)'
      <4>1. BucketIndexFor(k, RecoveredLevel)' = Idx(k) /\ Idx(k) \in Bucket /\ Idx(k) < bucketCount
        BY <3>1, IndexType DEF Idx, Inv, Types, TypeMemory
      <4>2. ContentOf(RecoveredFile(BucketIndexFor(k, RecoveredLevel))') = Candidate(Idx(k))
        BY <2>1, <2>2, <2>4, <4>1 DEF RecoveredFile, Candidate, ContentOf
      <4> QED BY <2>1, <3>1, <4>2, CommitPoint DEF Fit
    <3> QED BY <1>1, <3>2 DEF Grows
  <2> QED BY <1>5, <2>3, <2>4 DEF CommitPending
<1>6. CASE CommitRename
  <2>1. step = "rename" /\ step \in RenameSteps /\ at < bucketCount /\ UNCHANGED <<marker, pendingFile>>
    BY <1>6 DEF CommitRename, RenameSteps
  <2>2. bucketCount = pendingFile /\ RecoveredLevel = pendingFile /\ RecoveredLevel' = RecoveredLevel
    BY <2>1, RenameKnows DEF RecoveredLevel
  <2>3. CASE UNCHANGED <<file, new>>
    BY <1>1, <2>1, <2>3, SameFiles
  <2>4. CASE /\ at \in written
             /\ file' = [file EXCEPT ![at] = new[at]]
             /\ new' = [new EXCEPT ![at] = NoFile]
    <3>1. at \in Nat /\ (\A i \in written : i >= at => new[i] # NoFile)
      BY <2>1 DEF Inv, Disk, Types, TypeTasks
    <3>2. new[at] # NoFile
      BY <2>4, <3>1, SMT
    <3>3. \A i \in Bucket : i < pendingFile => RecoveredFile(i)' = RecoveredFile(i)
      BY <2>1, <2>2, <2>4, <3>2 DEF RecoveredFile, Inv, Types, TypeDisk
    <3> QED BY <1>1, <2>2, <3>3, SameDisk
  <2> QED BY <1>6, <2>3, <2>4 DEF CommitRename
<1>7. CASE CommitMarker
  <2>1. step \in RenameSteps /\ UNCHANGED <<file, new, pendingFile>>
    BY <1>7 DEF CommitMarker, RenameSteps
  <2>2. RecoveredLevel' = RecoveredLevel /\ \A i : RecoveredFile(i)' = RecoveredFile(i)
    BY <2>1, RenameKnows DEF RecoveredLevel, RecoveredFile
  <2> QED BY <1>1, <2>2, SameDisk
<1>8. CASE CommitDone
  <2>1. step = "delete" /\ step \in RenameSteps /\ UNCHANGED <<file, new, marker>>
    BY <1>8 DEF CommitDone, RenameSteps
  <2>2. CASE UNCHANGED pendingFile
    BY <1>1, <2>1, <2>2, SameFiles
  <2>3. CASE pendingFile' = 0
    <3>1. NoNew(pendingFile) /\ marker = pendingFile /\ pendingFile # 0
      BY <2>1, RenameKnows DEF Inv, Disk
    <3>2. RecoveredLevel' = RecoveredLevel
      BY <2>1, <2>3, <3>1 DEF RecoveredLevel
    <3>3. \A i \in Bucket : ~(i < 0)
      BY LevelMaxType, SMT DEF Bucket
    <3>4. \A i \in Bucket : RecoveredFile(i)' = RecoveredFile(i)
      BY <2>1, <2>3, <3>1, <3>3 DEF RecoveredFile, NoNew
    <3> QED BY <1>1, <3>2, <3>4, SameDisk
  <2> QED BY <1>8, <2>2, <2>3 DEF CommitDone
<1> QED BY <1>2, <1>3, <1>4, <1>5, <1>6, <1>7, <1>8 DEF Committing

\* The regular flush takes no key on disk back.
LEMMA WriteGrows ==
    ASSUME Inv, Writing
    PROVE  Grows
<1>1. CASE WriteBucket
  <2>1. latest' = latest
    BY <1>1, EndLatest DEF WriteBucket, Serialize, PassOver, ghostVars
  <2> QED BY <1>1, <2>1, SameFiles DEF WriteBucket, diskVars
<1>2. CASE WriteLands
  <2>1. /\ status = "up" /\ step = "writing" /\ latest' = latest
        /\ UNCHANGED <<new, marker, pendingFile, bucketCount>>
    BY <1>2, HolderAt DEF WriteLands, ghostVars, levelVars
  <2>2. CASE UNCHANGED file
    BY <2>1, <2>2, SameFiles
  <2>3. CASE file' = [file EXCEPT ![at] = gathered]
    <3>1. /\ pendingFile = 0 /\ RecoveredLevel' = bucketCount
          /\ \A k \in Key : OnDisk(k) = ContentOf(file[Idx(k)])[k]
      BY <2>1, WritesInPlace DEF RecoveredLevel
    <3>2. ASSUME NEW k \in Key PROVE OnDisk(k) <= OnDisk(k)'
      <4>1. /\ BucketIndexFor(k, RecoveredLevel)' = Idx(k)
            /\ Idx(k) \in Bucket /\ Idx(k) \in Nat
        BY <3>1, IndexType DEF Idx, Inv, Types, TypeMemory
      <4>2. OnDisk(k)' = ContentOf(file'[Idx(k)])[k]
        BY <2>1, <3>1, <4>1, SMT DEF OnDisk, RecoveredFile
      <4>3. CASE Idx(k) # at
        <5>1. OnDisk(k)' = OnDisk(k) /\ OnDisk(k) \in Nat
          BY <2>3, <3>1, <4>1, <4>2, <4>3, OnDiskType DEF Inv, Types, TypeDisk
        <5> QED BY <5>1, SMT
      <4>4. CASE Idx(k) = at
        <5>1. gathered # NoFile
          BY ConstantsAssumption DEF Inv, Types, TypeTasks
        <5>2. OnDisk(k)' = gathered[k]
          BY <2>3, <4>1, <4>2, <4>4, <5>1 DEF ContentOf, Inv, Types, TypeDisk
        <5>3. Fit(k, gathered[k])
          BY <2>1, <4>4 DEF Inv, UpInv, InFlight
        <5> QED BY <5>2, <5>3 DEF Fit
      <4> QED BY <4>3, <4>4
    <3> QED BY <2>1, <3>2 DEF Grows
  <2> QED BY <1>2, <2>2, <2>3 DEF WriteLands
<1> QED BY <1>1, <1>2 DEF Writing

\* A sweep takes no key on disk back.
LEMMA SweepGrows ==
    ASSUME Inv, SweepWork
    PROVE  Grows
<1>1. latest' = latest
  BY EndLatest DEF SweepWork, SweepMarker, SweepSerialize, SweepEnd,
     Serialize, ghostVars
<1>2. CASE SweepSerialize \/ SweepEnd
  <2>1. UNCHANGED <<file, new, marker, pendingFile>>
    BY <1>2 DEF SweepSerialize, SweepEnd, diskVars
  <2> QED BY <1>1, <2>1, SameFiles
<1>3. CASE SweepMarker
  <2>1. step = "initial" /\ UNCHANGED <<file, new, pendingFile>> /\ TypeDisk'
    BY <1>3, SweepMarkerKeeps DEF SweepMarker, Inv, Types
  <2>2. pendingFile = 0 /\ status = "up"
    BY <2>1, HolderAt DEF Inv, Disk
  <2>3. CASE UNCHANGED marker
    BY <1>1, <2>1, <2>3, SameFiles
  <2>4. CASE NeedsMarker
    <3>1. \A i \in Bucket : file[i] = NoFile
      BY <2>2, <2>4 DEF NeedsMarker, Inv, UpInv, Levels
    <3>2. ASSUME NEW k \in Key PROVE OnDisk(k) <= OnDisk(k)'
      <4>1. OnDisk(k) = 0
        BY <2>2, <3>1, NoFilesYet
      <4>2. OnDisk(k)' \in Nat
        BY <2>1, OnDiskTypeNext
      <4> QED BY <4>1, <4>2, SMT
    <3> QED BY <1>1, <3>2 DEF Grows
  <2> QED BY <1>3, <2>3, <2>4 DEF SweepMarker
<1> QED BY <1>2, <1>3 DEF SweepWork

\* Loads change nothing on disk.
LEMMA UseGrows ==
    ASSUME Inv, NEW c \in Client, Using(c), ~Store(c)
    PROVE  Grows
<1>1. UNCHANGED <<file, new, marker, pendingFile>> /\ latest' = latest
  BY DEF Using, Resolve, Retry, Unreadable, Load, ScheduleFlush, ClientOnly, diskVars
<1> QED BY <1>1, SameFiles

\* Opens, fan-outs, lists and tasks that wait change nothing on disk.
LEMMA TaskGrows ==
    ASSUME Inv,
           \/ Opening \/ Reload \/ FlushRecheck \/ FanningOut \/ Listing
           \/ \E f \in Flush : Flushing(f)
           \/ \E s \in Sweep : Sweeping(s)
    PROVE  Grows
<1>1. CASE Opening \/ Reload
  <2>1. UNCHANGED <<file, new, marker, pendingFile>> /\ latest' = latest
    BY <1>1 DEF Opening, Open, Survey, Reload, diskVars, ghostVars
  <2> QED BY <2>1, SameFiles
<1>2. CASE FlushRecheck \/ FanningOut
  <2>1. UNCHANGED <<file, new, marker, pendingFile>>
    BY <1>2 DEF FlushRecheck, FanningOut, FanOutScan, FanOutMove,
       FanOutFails, diskVars
  <2>2. latest' = latest
    BY <1>2, EndLatest DEF FlushRecheck, FanningOut, FanOutScan,
       FanOutMove, FanOutFails, ghostVars
  <2> QED BY <2>1, <2>2, SameFiles
<1>3. CASE Listing
  <2>1. UNCHANGED <<file, new, marker, pendingFile>> /\ latest' = latest
    BY <1>3 DEF Listing, ListBegin, ListLoad, ListLayout, ListSend, ListEnd, ListOnly, diskVars, ghostVars
  <2> QED BY <2>1, SameFiles
<1>4. ASSUME NEW f \in Flush, Flushing(f) PROVE Grows
  <2>1. UNCHANGED <<file, new, marker, pendingFile>> /\ latest' = latest
    BY <1>4 DEF Flushing, FlushCall, FlushCheck, FlushScan, FlushLock, Return, diskVars, ghostVars
  <2> QED BY <2>1, SameFiles
<1>5. ASSUME NEW s \in Sweep, Sweeping(s) PROVE Grows
  <2>1. UNCHANGED <<file, new, marker, pendingFile>> /\ latest' = latest
    BY <1>5 DEF Sweeping, SweepWake, SweepClaim, SweepNext, SweepLock, diskVars, ghostVars
  <2> QED BY <2>1, SameFiles
<1> QED BY <1>1, <1>2, <1>3, <1>4, <1>5

\* The group implements the durable map of DurableMap: a store changes one
\* key, a stop leaves what the disk has, and no other step of a flush, a sweep,
\* a fan-out, a commit, an open or a reload takes a key on disk back.
THEOREM MapImplemented == Spec => ImplementsMap
<1> DEFINE D == [k \in Key |-> OnDisk(k)]
<1>1. Init => Map!Init
  <2> SUFFICES ASSUME Init PROVE Map!Init
    OBVIOUS
  <2>1. Inv /\ status # "up"
    BY InitKeeps DEF Init
  <2>2. latest \in [Key -> Nat] /\ latest = D
    <3>1. latest \in [Key -> Nat]
      BY <2>1, ConstantsAssumption, SMT DEF Inv, Types, TypeHistory, Contents, Value
    <3>2. \A k \in Key : latest[k] = OnDisk(k)
      BY <2>1 DEF Inv, Durable
    <3> QED BY <3>1, <3>2
  <2> QED BY <2>2 DEF Map!Init
<1>2. Inv /\ Inv' /\ [Next]_vars => [Map!Next]_<<latest, D>>
  <2> SUFFICES ASSUME Inv, Inv', [Next]_vars PROVE [Map!Next]_<<latest, D>>
    OBVIOUS
  <2>1. ASSUME Grows PROVE Map!Next
    <3>1. \A k \in Key : OnDisk(k)' \in OnDisk(k) .. latest[k]
      <4> SUFFICES ASSUME NEW k \in Key PROVE OnDisk(k)' \in OnDisk(k) .. latest[k]
        OBVIOUS
      <4>1. OnDisk(k) \in Nat /\ OnDisk(k)' \in Nat /\ latest[k] \in Nat
        BY OnDiskType, OnDiskTypeNext, HistoryType DEF Inv, Types
      <4>2. OnDisk(k)' <= latest[k] /\ OnDisk(k) <= OnDisk(k)'
        BY <2>1 DEF Inv, Durable, Grows
      <4> QED BY <4>1, <4>2, SMT
    <3>2. \A k \in Key : D'[k] \in D[k] .. latest[k]
      BY <3>1
    <3>3. DOMAIN D' = Key /\ latest' = latest
      BY <2>1 DEF Grows
    <3> QED BY <3>2, <3>3 DEF Map!Next, Map!Persist
  <2>2. ASSUME NEW c \in Client, Store(c) PROVE Map!Next
    <3> DEFINE k == client[c].key
    <3>1. status = "up" /\ k \in Key /\ bucketCount = client[c].count
      BY <2>2, UsersUp DEF Store, Reached
    <3>2. Loaded(At(c))[k] = latest[k]
      BY <3>1 DEF Inv, UpInv, Held, InMemory, Loaded, At
    <3>3. latest' = [latest EXCEPT ![k] = @ + 1]
      BY <2>2, <3>2 DEF Store
    <3>4. \A j : OnDisk(j)' = OnDisk(j)
      BY <2>2, DiskKept DEF Store, ClientOnly, diskVars
    <3>5. D' = D
      BY <3>4
    <3> QED BY <3>1, <3>3, <3>5 DEF Map!Next, Map!Change
  <2>3. CASE Stop
    <3>1. \A j : OnDisk(j)' = OnDisk(j)
      BY <2>3, DiskKept DEF Stop, diskVars
    <3>2. D' = D
      BY <3>1
    <3>3. latest' = D
      BY <2>3 DEF Stop
    <3> QED BY <3>2, <3>3 DEF Map!Next, Map!Restart
  <2>4. CASE UNCHANGED vars
    <3>1. latest' = latest /\ UNCHANGED <<file, new, marker, pendingFile>>
      BY <2>4 DEF vars, ghostVars, diskVars
    <3>2. \A j : OnDisk(j)' = OnDisk(j)
      BY <3>1, DiskKept
    <3>3. D' = D
      BY <3>2
    <3> QED BY <3>1, <3>3
  <2>5. CASE Rolling \/ Committing \/ Writing \/ SweepWork
    BY <2>1, <2>5, RollGrows, CommitGrows, WriteGrows, SweepGrows
  <2>6. CASE \/ Opening \/ Reload \/ FlushRecheck \/ FanningOut \/ Listing
             \/ \E f \in Flush : Flushing(f)
             \/ \E s \in Sweep : Sweeping(s)
    BY <2>1, <2>6, TaskGrows
  <2>7. ASSUME NEW c \in Client, Using(c) PROVE Map!Next
    BY <2>1, <2>2, <2>7, UseGrows
  <2> QED BY <2>3, <2>4, <2>5, <2>6, <2>7 DEF Next
<1> QED BY <1>1, <1>2, GroupInvariant, PTL DEF Spec, ImplementsMap, Map!Spec
=============================================================================
