--------------------------- MODULE ImmutableGroup ---------------------------
(* One group of the local immutable store: the index of its entries in       *)
(* memory and on disk, and the packfiles its payloads are in.  Stores, reads,*)
(* copies, obliterates, evictions, flushes with their fan-out, and the       *)
(* compaction that moves payloads and truncates packfiles, interleave at     *)
(* every await; the process may be killed between any two steps.             *)
(*                                                                           *)
(* An entry is <<file, slot>>, as (pack_file, pack_offset) is in the code:   *)
(* file 0 is no payload.  A payload takes one slot of a packfile, and        *)
(* its content is its hash, so a location is right when the slot holds the   *)
(* hash of the entry that points at it.                                      *)
(*                                                                           *)
(* The steps of a commit, of a bucket file and of the delayed flush are in   *)
(* MutableGroup, whose code the two stores share; here a bucket file lands   *)
(* or does not, and a commit lands, is left pending, or does not land.       *)
EXTENDS Integers, Sequences, FiniteSets, FiniteSetsExt

CONSTANTS
    Order,        \* the associations, in the order of a bucket's sorted index
    HashOf,       \* the hash of each association
    PartitionOf,  \* the partition of each association
    HomeOf,       \* the bucket of each hash once the group has fanned out
    Readers, Storers, Obliterators, Flusher, Compactor,
    NoOne,        \* holds a lock nobody holds
    Limit,        \* slots of a packfile: PACKSTORE_SIZE_LIMIT
    MinCount,     \* packfiles kept taking writes
    Threshold,    \* entries of a bucket beyond which a flush fans out
    Scenes        \* what a behaviour begins with: contents, actors, and how many
                  \* puts, passes, evictions, faults and stops it may have

VARIABLES
    pack,       \* the packfiles, each the contents of its slots
    writeable,  \* the ids of the packfiles that take writes
    entry,      \* the index in memory
    dirty,      \* the buckets changed since they were last claimed for a write
    level,      \* the buckets the index in memory is spread over
    disk,       \* the index a process opening the store would load
    committed,  \* the level on disk
    pending,    \* a commit wrote its level.pending and did not finish
    image,      \* the part of the index copied for the bucket write in flight
    flushLock,  \* who holds the group's flush lock
    compaction, \* who holds the store's compaction permit
    held, draining, awaited, \* the payload gate, see DrainGate
    act,        \* what each actor is doing
    pass,       \* what the compaction pass has found so far
    gone,       \* history: how far an obliterate of each got, unless stored again since
    left        \* what is left of the bounds of the behaviour

Assocs == {Order[i] : i \in DOMAIN Order}
Hashes == {HashOf[a] : a \in Assocs}
Procs == Readers \cup Storers \cup Obliterators \cup {Flusher, Compactor}

Gate == INSTANCE DrainGate WITH
            Holders <- Readers \cup Storers,
            Drains <- Obliterators \cup {Compactor}

packVars == <<pack, writeable>>
indexVars == <<entry, dirty, level>>
diskVars == <<disk, committed, pending>>
gateVars == <<held, draining, awaited>>
vars == <<pack, writeable, entry, dirty, level, disk, committed, pending, image, flushLock,
          compaction, held, draining, awaited, act, pass, gone, left>>

-----------------------------------------------------------------------------
(* Contents *)

None == <<0, 0>>
Bare == <<0, 1>>     \* recorded without its payload
Tomb == <<0, 2>>     \* obliterated
Zeros == "zeros"     \* a slot overwritten by an obliterate
Unwritten == "unwritten"  \* reserved, and nothing written

HasPayload(e) == e[1] # 0

Inside(l) == l[1] \in DOMAIN pack /\ l[2] \in DOMAIN pack[l[1]]

Cell(l) == pack[l[1]][l[2]]

WithCell(l, c) == [pack EXCEPT ![l[1]][l[2]] = c]

(* the location l holds the payload of association a *)
Whole(a, l) == HasPayload(l) => Inside(l) /\ Cell(l) = HashOf[a]

BucketOf(a) == IF level = 1 THEN 1 ELSE HomeOf[HashOf[a]]

InBucket(b) == {a \in Assocs : BucketOf(a) = b}

(* the sorted index of the bucket that holds hash h *)
SlotsOf(h, e) ==
    SelectSeq(Order, LAMBDA x : e[x] # None /\ (level = 1 \/ HomeOf[HashOf[x]] = HomeOf[h]))

Position(a) == CHOOSE i \in DOMAIN Order : Order[i] = a

-----------------------------------------------------------------------------
(* Looking an association up in a bucket, and sharing a payload in it *)

(* how well x matches a: 3 the association, 2 its partition, 1 its hash *)
Rank(x, a) ==
    IF x = a THEN 3
    ELSE IF HashOf[x] # HashOf[a] THEN 0
    ELSE IF PartitionOf[x] # PartitionOf[a] THEN 1 ELSE 2

(* The binary search: the best match it passes and where, and the slot       *)
(* `start` it ended at.  Slots count from 0.  The first of two equal matches *)
(* is kept, and a full match ends the search with `start` where it stands.   *)
Lookup(slots, a) ==
    LET n == Len(slots)
        Search[r \in (0..n) \X (0..n)] ==
            LET lo == r[1]
                hi == r[2]
                mid == (lo + hi) \div 2
                x == slots[mid + 1]
                here == [match |-> Rank(x, a), slot |-> mid, start |-> lo]
                rest == IF Position(a) < Position(x) THEN Search[<<lo, mid>>]
                                                     ELSE Search[<<mid + 1, hi>>]
            IN IF lo >= hi THEN [match |-> 0, slot |-> 0, start |-> lo]
               ELSE IF here.match = 3 THEN here
               ELSE IF rest.match > here.match THEN rest
               ELSE [here EXCEPT !.start = rest.start]
    IN Search[<<0, n>>]

(* The slots of the run of hash h around `start`, `start` itself left out:   *)
(* each direction is walked until an entry of another hash.                  *)
RunAround(slots, start, h) ==
    {k \in 0..Len(slots) - 1 :
        /\ k # start
        /\ \A j \in 0..Len(slots) - 1 :
              (k <= j /\ j < start) \/ (start < j /\ j <= k) => HashOf[slots[j + 1]] = h}

(* as WithEntry, with tombstones pointed at the payload as well *)
WithEntry_tombs(a, l, start) ==
    LET e == [entry EXCEPT ![a] = l]
        slots == SlotsOf(HashOf[a], e)
        shares == {slots[k + 1] : k \in RunAround(slots, start, HashOf[a])}
    IN [x \in Assocs |-> IF HasPayload(l) /\ x \in shares THEN l ELSE e[x]]

(* The index once a has entry l: with a payload, the entries of the run that *)
(* are not tombstones are pointed at it too.                                 *)
WithEntry(a, l, start) ==
    LET e == [entry EXCEPT ![a] = l]
        slots == SlotsOf(HashOf[a], e)
        shares == {slots[k + 1] : k \in RunAround(slots, start, HashOf[a])}
    IN [x \in Assocs |-> IF HasPayload(l) /\ x \in shares /\ e[x] # Tomb THEN l ELSE e[x]]

-----------------------------------------------------------------------------
(* The packstore *)

(* a write to a packfile is in flight, and holds the packfile list *)
InFlight(p) == act[p].pc \in {"writing", "zeroing", "copying"}

NoneInFlight == \A p \in Procs : ~ InFlight(p)

(* opens packfiles after the last until MinCount take writes *)
Fill(pk, w) ==
    LET more == Max({0, MinCount - Cardinality(w)})
    IN /\ pack' = pk \o [i \in 1..more |-> <<>>]
       /\ writeable' = w \cup (Len(pk) + 1 .. Len(pk) + more)

(* the length of pk without the empty packfiles at its end *)
TailLength(pk) ==
    Max({Min({MinCount, Len(pk)})} \cup {i \in DOMAIN pk : pk[i] # <<>>})

DiscardTailAndFill(pk, w) ==
    LET n == TailLength(pk)
    IN Fill(SubSeq(pk, 1, n), w \cap 1..n)

MarkFull(f) ==
    /\ NoneInFlight
    /\ Fill(pack, writeable \ {f})

(* the range a failed write gives back, if nothing was reserved after it *)
GiveBack(l) ==
    IF Len(pack[l[1]]) = l[2] THEN [pack EXCEPT ![l[1]] = SubSeq(@, 1, l[2] - 1)] ELSE pack

(* what packfile f is as a new process finds it *)
Reopened(s) ==
    SubSeq(s, 1, Max({0} \cup {i \in DOMAIN s : s[i] # Unwritten}))

-----------------------------------------------------------------------------
(* Actors *)

Idle == [pc |-> "idle", arg |-> NoOne, at |-> None, bucket |-> 0, ok |-> TRUE, adrift |-> FALSE,
         force |-> FALSE]

Goto(p, where) == act' = [act EXCEPT ![p].pc = where]

Done(p) == act' = [act EXCEPT ![p] = Idle]

NoPass == [queue |-> <<>>, kept |-> {}, file |-> 0, level |-> 0, bucket |-> 0, offsets |-> {},
           copies |-> <<>>, referenced |-> FALSE, sizes |-> <<>>, counted |-> <<>>]

Spend(what) ==
    /\ left[what] > 0
    /\ left' = [left EXCEPT ![what] = @ - 1]

Fault ==
    /\ left["faults"] > 0
    /\ left' = [left EXCEPT !["faults"] = @ - 1, !["faulted"] = TRUE]

Init ==
    /\ \E scene \in Scenes :
          /\ pack = scene.pack
          /\ entry = scene.entry
          /\ disk = scene.entry
          /\ left = scene.left
          /\ act = [p \in Procs |-> IF p \in scene.actors THEN Idle
                                    ELSE [Idle EXCEPT !.pc = "absent"]]
    /\ writeable = {f \in DOMAIN pack : Len(pack[f]) < Limit}
    /\ dirty = [b \in 1..2 |-> FALSE]
    /\ level = 1
    /\ committed = 1
    /\ pending = FALSE
    /\ image = <<>>
    /\ flushLock = NoOne
    /\ compaction = NoOne
    /\ Gate!Init
    /\ pass = NoPass
    /\ gone = [a \in Assocs |-> "no"]

-----------------------------------------------------------------------------
(* Reading *)

(* get and get_into: takes the gate and finds the best match.  What it does  *)
(* not find, or finds obliterated, outside its scope or without a payload,   *)
(* it gives back the gate for, having changed nothing.                       *)
Locate(p, a) ==
    LET found == Lookup(SlotsOf(HashOf[a], entry), a)
        x == SlotsOf(HashOf[a], entry)[found.slot + 1]
    IN /\ act[p].pc = "idle"
       /\ found.match > 0
       /\ HasPayload(entry[x])
       /\ Gate!Hold(p)
       /\ act' = [act EXCEPT ![p] = [Idle EXCEPT !.pc = "located", !.arg = a, !.at = entry[x]]]
       /\ UNCHANGED <<packVars, indexVars, diskVars, image, flushLock, compaction, pass, gone, left>>

(* loads the payload and drops the gate; a reader dropped meanwhile drops it too *)
Load(p) ==
    /\ act[p].pc = "located"
    /\ Gate!Drop(p)
    /\ Done(p)
    /\ UNCHANGED <<packVars, indexVars, diskVars, image, flushLock, compaction, pass, gone, left>>

-----------------------------------------------------------------------------
(* Storing *)

Match(a) == Lookup(SlotsOf(HashOf[a], entry), a)

MatchedEntry(a) ==
    IF Match(a).match = 0 THEN None ELSE entry[SlotsOf(HashOf[a], entry)[Match(a).slot + 1]]

(* store_entry leaves the entry as it is *)
KeepsEntry(a, force, hasPayload) ==
    /\ Match(a).match = 3
    /\ ~ hasPayload \/ (~ force /\ HasPayload(entry[a]))

(* the payload store_entry deduplicates to, if there is one *)
Deduplicated(a, force, hasPayload) ==
    IF HasPayload(MatchedEntry(a)) /\ (~ force \/ ~ hasPayload) THEN MatchedEntry(a) ELSE None

(* store_entry inserts or updates the entry of a *)
StoreEntry(a, l) ==
    /\ entry' = WithEntry(a, l, Match(a).start)
    /\ dirty' = [dirty EXCEPT ![BucketOf(a)] = TRUE]
    /\ gone' = [gone EXCEPT ![a] = "no"]
    /\ UNCHANGED level

(* A put without a payload.  The lookup of `put` that precedes store_entry   *)
(* decides only whether store_entry is called, and it looks again.  Over an  *)
(* association the bucket has, tombstone included, it changes no location.   *)
PutBare(p, a) ==
    /\ act[p].pc = "idle"
    /\ ~ KeepsEntry(a, FALSE, FALSE)
    /\ Spend("puts")
    /\ StoreEntry(a, IF HasPayload(Deduplicated(a, FALSE, FALSE))
                     THEN Deduplicated(a, FALSE, FALSE) ELSE Bare)
    /\ UNCHANGED <<packVars, diskVars, image, flushLock, compaction, gateVars, act, pass>>

(* A put with its payload: deduplicated at once, or in need of a write. *)
Put(p, a, force) ==
    /\ act[p].pc = "idle"
    /\ ~ KeepsEntry(a, force, TRUE)
    /\ Spend("puts")
    /\ IF HasPayload(Deduplicated(a, force, TRUE))
       THEN StoreEntry(a, Deduplicated(a, force, TRUE)) /\ UNCHANGED act
       ELSE /\ act' = [act EXCEPT ![p] =
                          [Idle EXCEPT !.pc = "reserve", !.arg = a, !.force = force]]
            /\ UNCHANGED <<indexVars, gone>>
    /\ UNCHANGED <<packVars, diskVars, image, flushLock, compaction, gateVars, pass>>

(* store_payload takes the gate, and the packstore reserves a slot, from     *)
(* where the write holds the packfile list.  A hold taken a moment before    *)
(* the reservation would only make a drain wait for more.                    *)
Reserve(p) ==
    /\ act[p].pc = "reserve"
    /\ \E f \in writeable :
          /\ Len(pack[f]) < Limit
          /\ pack' = [pack EXCEPT ![f] = Append(@, Unwritten)]
          /\ act' = [act EXCEPT ![p].pc = "writing", ![p].at = <<f, Len(pack[f]) + 1>>]
    /\ Gate!Hold(p)
    /\ UNCHANGED <<writeable, indexVars, diskVars, image, flushLock, compaction, pass, gone, left>>

(* The packfile chosen is full, its last write not having marked it so. *)
ReserveFull(p) ==
    /\ act[p].pc = "reserve" \/ (act[p].pc = "copy" /\ pass.offsets # {})
    /\ \E f \in writeable : Len(pack[f]) >= Limit /\ MarkFull(f)
    /\ UNCHANGED <<indexVars, diskVars, image, flushLock, compaction, gateVars, act, pass, gone, left>>

(* The write lands; the packfile list is given up.  One left by its store is over. *)
LandPayload(p) ==
    /\ act[p].pc = "writing"
    /\ pack' = WithCell(act[p].at, HashOf[act[p].arg])
    /\ IF act[p].adrift THEN Done(p)
       ELSE Goto(p, IF act[p].at[2] >= Limit THEN "full" ELSE "insert")
    /\ UNCHANGED <<writeable, indexVars, diskVars, image, flushLock, compaction, gateVars, pass,
                   gone, left>>

(* The write fails, and with it the store. *)
FailPayload(p) ==
    /\ act[p].pc = "writing"
    /\ Fault
    /\ IF act[p].adrift THEN UNCHANGED <<pack, gateVars>>
       ELSE pack' = GiveBack(act[p].at) /\ Gate!Drop(p)
    /\ Done(p)
    /\ UNCHANGED <<writeable, indexVars, diskVars, image, flushLock, compaction, pass, gone>>

(* The write filled its packfile, which is taken off the writeable ones. *)
Full(p) ==
    /\ act[p].pc = "full"
    /\ MarkFull(act[p].at[1])
    /\ Goto(p, "insert")
    /\ UNCHANGED <<indexVars, diskVars, image, flushLock, compaction, gateVars, pass, gone, left>>

(* store_entry again, with the payload written: it takes it unless another   *)
(* store gave the hash a payload meanwhile, and the gate is dropped.         *)
Insert(p) ==
    LET a == act[p].arg
        force == act[p].force
    IN /\ act[p].pc = "insert"
       /\ IF KeepsEntry(a, force, TRUE) THEN UNCHANGED <<indexVars, gone>>
          ELSE StoreEntry(a, IF HasPayload(Deduplicated(a, force, TRUE))
                             THEN Deduplicated(a, force, TRUE) ELSE act[p].at)
       /\ Gate!Drop(p)
       /\ Done(p)
       /\ UNCHANGED <<packVars, diskVars, image, flushLock, compaction, pass, left>>

(* The store is dropped at an await: its hold goes with it, and a write in   *)
(* flight goes on without it.                                                *)
DropStore(p) ==
    /\ act[p].pc \in {"reserve", "writing", "full", "insert"}
    /\ ~ act[p].adrift
    /\ IF act[p].pc = "reserve" THEN UNCHANGED gateVars ELSE Gate!Drop(p)
    /\ IF act[p].pc = "writing" THEN act' = [act EXCEPT ![p].adrift = TRUE] ELSE Done(p)
    /\ UNCHANGED <<packVars, indexVars, diskVars, image, flushLock, compaction, pass, gone, left>>

(* copy: the destination gets what a live association of the hash has, a     *)
(* tombstone included.  The gate is not taken: the bucket is locked between  *)
(* the two.                                                                  *)
Copy(p, a, b) ==
    /\ act[p].pc = "idle"
    /\ a # b
    /\ HashOf[a] = HashOf[b]
    /\ entry[a] \notin {None, Tomb, entry[b]}
    /\ Spend("puts")
    /\ entry' = [entry EXCEPT ![b] = entry[a]]
    /\ dirty' = [dirty EXCEPT ![BucketOf(a)] = TRUE]
    /\ gone' = [gone EXCEPT ![b] = "no"]
    /\ UNCHANGED <<packVars, level, diskVars, image, flushLock, compaction, gateVars, act, pass>>

-----------------------------------------------------------------------------
(* Writing the index *)

Uncommitted == pending \/ committed # level

CopyOf(b) == [a \in InBucket(b) |-> entry[a]]

Landed == [a \in Assocs |-> IF a \in DOMAIN image THEN image[a] ELSE disk[a]]

(* serialize: claims bucket b and copies it; the write is then in flight *)
Serialize(b) ==
    /\ image' = CopyOf(b)
    /\ dirty' = [dirty EXCEPT ![b] = FALSE]

(* The file of bucket b lands. *)
LandBucket ==
    /\ disk' = Landed
    /\ image' = <<>>
    /\ UNCHANGED <<indexVars, committed, pending>>

(* It does not, and the bucket is marked again. *)
FailBucket(b) ==
    /\ Fault
    /\ dirty' = [dirty EXCEPT ![b] = TRUE]
    /\ image' = <<>>
    /\ UNCHANGED <<entry, level, diskVars>>

(* The entries of bucket 1 are beyond the threshold, and a flush would move them. *)
FansOut ==
    /\ level = 1
    /\ dirty[1]
    /\ Cardinality({a \in Assocs : entry[a] # None}) > Threshold

(* maybe_fan_out_immutable_group, under the write lock of every bucket *)
FanOut ==
    /\ level' = 2
    /\ dirty' = [b \in 1..2 |->
                    dirty[b] \/ \E a \in Assocs : entry[a] # None /\ HomeOf[HashOf[a]] = b]

(* lock_flush *)
FlushLock(p) ==
    /\ act[p].pc = "flush"
    /\ flushLock = NoOne
    /\ flushLock' = p
    /\ Goto(p, "locked")
    /\ UNCHANGED <<packVars, indexVars, diskVars, image, compaction, gateVars, pass, gone, left>>

(* flush_locked_group rolls a pending commit forward and fans out if it must. *)
FlushGroup(p) ==
    /\ act[p].pc = "locked"
    /\ pending' = FALSE
    /\ committed' = IF pending THEN level ELSE committed
    /\ IF FansOut THEN FanOut ELSE UNCHANGED <<level, dirty>>
    /\ act' = [act EXCEPT ![p].pc = IF committed' # level' THEN "commit" ELSE "buckets",
                          ![p].bucket = 1]
    /\ UNCHANGED <<packVars, entry, disk, image, flushLock, compaction, gateVars, pass, gone, left>>

(* Rolling the pending commit forward fails, and the flush with it. *)
FailRollForward(p) ==
    /\ act[p].pc = "locked"
    /\ pending
    /\ Fault
    /\ act' = [act EXCEPT ![p].pc = "flushed", ![p].ok = FALSE]
    /\ UNCHANGED <<packVars, indexVars, diskVars, image, flushLock, compaction, gateVars, pass, gone>>

(* The flush writes the next marked bucket, or has written the last. *)
FlushBucket(p) ==
    /\ act[p].pc = "buckets"
    /\ IF \E b \in act[p].bucket..level : dirty[b]
       THEN LET b == Min({c \in act[p].bucket..level : dirty[c]})
            IN /\ Serialize(b)
               /\ act' = [act EXCEPT ![p].pc = "bucket", ![p].bucket = b]
       ELSE Goto(p, "flushed") /\ UNCHANGED <<image, dirty>>
    /\ UNCHANGED <<packVars, entry, level, diskVars, flushLock, compaction, gateVars, pass, gone, left>>

BucketFlushed(p) ==
    /\ act[p].pc = "bucket"
    /\ \/ /\ LandBucket
          /\ act' = [act EXCEPT ![p].pc = "buckets", ![p].bucket = @ + 1]
          /\ UNCHANGED left
       \/ /\ FailBucket(act[p].bucket)
          /\ act' = [act EXCEPT ![p].pc = "buckets", ![p].bucket = @ + 1, ![p].ok = FALSE]
    /\ UNCHANGED <<packVars, flushLock, compaction, gateVars, pass, gone>>

(* The commit of a fan-out: a `.new` file of every marked bucket and of      *)
(* every bucket of the old level, one after the other.                       *)
CommitBucket(p) ==
    LET b == act[p].bucket
        rewritten == IF b <= committed \/ dirty[b] THEN InBucket(b) ELSE {}
    IN /\ act[p].pc = "commit"
       /\ b <= level
       /\ act' = [act EXCEPT ![p].bucket = b + 1]
       /\ image' = [a \in DOMAIN image \cup rewritten |->
                       IF a \in rewritten THEN entry[a] ELSE image[a]]
       /\ dirty' = [dirty EXCEPT ![b] = FALSE]
       /\ UNCHANGED <<packVars, entry, level, diskVars, flushLock, compaction, gateVars, pass, gone, left>>

(* What the commit leaves on disk: the new layout, whole. *)
CommittedDisk == [a \in Assocs |-> IF a \in DOMAIN image THEN image[a] ELSE None]

(* the buckets of an unfinished commit are marked again *)
Remark == dirty' = [b \in 1..2 |-> dirty[b] \/ InBucket(b) \subseteq DOMAIN image]

(* The commit ends: done; left pending, its files to be renamed by the next  *)
(* flush or opening; or without its level.pending, and nothing of it counts. *)
Commit(p) ==
    /\ act[p].pc = "commit"
    /\ act[p].bucket > level
    /\ image' = <<>>
    /\ \/ /\ disk' = CommittedDisk
          /\ committed' = level
          /\ Goto(p, "flushed")
          /\ UNCHANGED <<dirty, pending, left>>
       \/ /\ Fault
          /\ Remark
          /\ act' = [act EXCEPT ![p].pc = "flushed", ![p].ok = FALSE]
          /\ \/ disk' = CommittedDisk /\ pending' = TRUE
             \/ UNCHANGED <<disk, pending>>
          /\ UNCHANGED committed
    /\ UNCHANGED <<packVars, entry, level, flushLock, compaction, gateVars, pass, gone>>

(* A flush is called for. *)
Flush ==
    /\ act[Flusher].pc = "idle"
    /\ Uncommitted \/ \E b \in 1..2 : dirty[b]
    /\ Goto(Flusher, "flush")
    /\ UNCHANGED <<packVars, indexVars, diskVars, image, flushLock, compaction, gateVars, pass, gone, left>>

(* flush_delayed takes the flush lock for one marked bucket at a time, rolls *)
(* a pending commit forward, and writes it; serialize refuses it while a     *)
(* fan-out is not committed.                                                 *)
SweepBucket(b) ==
    /\ act[Flusher].pc = "idle"
    /\ flushLock = NoOne
    /\ dirty[b]
    /\ pending \/ committed = level
    /\ pending' = FALSE
    /\ committed' = level
    /\ Serialize(b)
    /\ flushLock' = Flusher
    /\ act' = [act EXCEPT ![Flusher].pc = "sweep", ![Flusher].bucket = b]
    /\ UNCHANGED <<packVars, entry, level, disk, compaction, gateVars, pass, gone, left>>

SweepWritten ==
    /\ act[Flusher].pc = "sweep"
    /\ \/ LandBucket /\ UNCHANGED left
       \/ FailBucket(act[Flusher].bucket)
    /\ flushLock' = NoOne
    /\ Done(Flusher)
    /\ UNCHANGED <<packVars, compaction, gateVars, pass, gone>>

(* evict_oldest removes the oldest entries of a bucket, tombstones included, *)
(* and flushes.                                                              *)
EvictOldest ==
    /\ act[Flusher].pc = "idle"
    /\ Spend("evictions")
    /\ \E b \in 1..level :
          \E old \in SUBSET {a \in InBucket(b) : entry[a] # None} :
             /\ old # {}
             /\ entry' = [a \in Assocs |-> IF a \in old THEN None ELSE entry[a]]
             /\ dirty' = [dirty EXCEPT ![b] = TRUE]
    /\ Goto(Flusher, "flush")
    /\ UNCHANGED <<packVars, level, diskVars, image, flushLock, compaction, gateVars, pass, gone>>

EndFlush ==
    /\ act[Flusher].pc = "flushed"
    /\ flushLock' = NoOne
    /\ Done(Flusher)
    /\ UNCHANGED <<packVars, indexVars, diskVars, image, compaction, gateVars, pass, gone, left>>

-----------------------------------------------------------------------------
(* Obliterating *)

(* every other entry of the hash of a is a tombstone *)
LastOfHash(a) ==
    \A x \in Assocs \ {a} : HashOf[x] = HashOf[a] => entry[x] \in {None, Tomb}

(* the payload a holds is to be zeroed *)
ToZero(a) == LastOfHash(a) /\ HasPayload(entry[a])

MarkTomb(a) ==
    /\ entry' = [entry EXCEPT ![a] = Tomb]
    /\ dirty' = [dirty EXCEPT ![BucketOf(a)] = TRUE]
    /\ UNCHANGED level

(* tombstone without the permit: an entry whose payload something else may   *)
(* need is tombstoned, one whose payload is to be zeroed waits for the       *)
(* permit.  One that is absent or a tombstone changes nothing.               *)
Obliterate(p, a) ==
    /\ act[p].pc = "idle"
    /\ entry[a] \notin {None, Tomb}
    /\ Spend("puts")
    /\ IF ToZero(a)
       THEN /\ act' = [act EXCEPT ![p] = [Idle EXCEPT !.pc = "permit", !.arg = a]]
            /\ UNCHANGED indexVars
       ELSE MarkTomb(a) /\ UNCHANGED act
    /\ UNCHANGED <<packVars, diskVars, image, flushLock, compaction, gateVars, pass, gone>>

(* With the permit, tombstone looks again: the entry may have been changed,  *)
(* moved or removed meanwhile.                                               *)
TombstoneStopped(p) ==
    LET a == act[p].arg
    IN /\ act[p].pc = "permit"
       /\ compaction = NoOne
       /\ IF entry[a] \in {None, Tomb} THEN UNCHANGED indexVars ELSE MarkTomb(a)
       /\ IF ToZero(a)
          THEN /\ compaction' = p
               /\ act' = [act EXCEPT ![p].pc = "write", ![p].at = entry[a]]
               /\ gone' = [gone EXCEPT ![a] = "tombstone"]
          ELSE Done(p) /\ UNCHANGED <<compaction, gone>>
       /\ UNCHANGED <<packVars, diskVars, image, flushLock, gateVars, pass, left>>

(* write_bucket_of, in a task of its own: under the flush lock, the bucket   *)
(* is marked and written, or the group is flushed if its fan-out is not      *)
(* committed.                                                                *)
WriteTombstone(p) ==
    LET b == BucketOf(act[p].arg)
    IN /\ act[p].pc = "write"
       /\ flushLock = NoOne
       /\ flushLock' = p
       /\ IF Uncommitted
          THEN /\ dirty' = [dirty EXCEPT ![b] = TRUE]
               /\ Goto(p, "locked")
               /\ UNCHANGED image
          ELSE /\ Serialize(b)
               /\ act' = [act EXCEPT ![p].pc = "tombstone", ![p].bucket = b]
       /\ UNCHANGED <<packVars, entry, level, diskVars, compaction, gateVars, pass, gone, left>>

TombstoneWritten(p) ==
    /\ act[p].pc = "tombstone"
    /\ \/ LandBucket /\ Goto(p, "flushed") /\ UNCHANGED left
       \/ /\ FailBucket(act[p].bucket)
          /\ act' = [act EXCEPT ![p].pc = "flushed", ![p].ok = FALSE]
    /\ UNCHANGED <<packVars, flushLock, compaction, gateVars, pass, gone>>

(* The task ends, and the obliterate goes on, if it is still there. *)
EndTombstone(p) ==
    /\ act[p].pc = "flushed"
    /\ flushLock' = NoOne
    /\ IF act[p].adrift THEN Done(p) ELSE Goto(p, IF act[p].ok THEN "drain" ELSE "undo")
    /\ gone' = IF act[p].ok /\ ~ act[p].adrift /\ gone[act[p].arg] = "tombstone"
               THEN [gone EXCEPT ![act[p].arg] = "durable"] ELSE gone
    /\ UNCHANGED <<packVars, indexVars, diskVars, image, compaction, gateVars, pass, left>>

(* untombstone: the tombstone that could not be written gets its entry back. *)
Untombstone(p) ==
    LET a == act[p].arg
    IN /\ act[p].pc = "undo"
       /\ IF entry[a] = Tomb
          THEN /\ entry' = [entry EXCEPT ![a] = act[p].at]
               /\ dirty' = [dirty EXCEPT ![BucketOf(a)] = TRUE]
               /\ gone' = [gone EXCEPT ![a] = "no"]
          ELSE UNCHANGED <<entry, dirty, gone>>
       /\ compaction' = NoOne
       /\ Done(p)
       /\ UNCHANGED <<packVars, level, diskVars, image, flushLock, gateVars, pass, left>>

(* The gate is drained, so that a read of the payload has loaded it. *)
DrainReads(p) ==
    /\ act[p].pc = "drain"
    /\ Gate!BeginDrain(p)
    /\ Goto(p, "draining")
    /\ UNCHANGED <<packVars, indexVars, diskVars, image, flushLock, compaction, pass, gone, left>>

ReadsDrained(p) ==
    /\ act[p].pc = "draining"
    /\ Gate!EndDrain(p)
    /\ Goto(p, "zero")
    /\ UNCHANGED <<packVars, indexVars, diskVars, image, flushLock, compaction, pass, gone, left>>

(* PackStore::obliterate takes the packfile list for its write. *)
Zero(p) ==
    /\ act[p].pc = "zero"
    /\ Goto(p, "zeroing")
    /\ UNCHANGED <<packVars, indexVars, diskVars, image, flushLock, compaction, gateVars, pass, gone, left>>

(* The zeros land, and the permit is given back; a zero write that fails     *)
(* fails the obliterate, the tombstone staying.                              *)
Zeroed(p) ==
    /\ act[p].pc = "zeroing"
    /\ compaction' = IF act[p].adrift THEN compaction ELSE NoOne
    /\ Done(p)
    /\ \/ pack' = WithCell(act[p].at, Zeros) /\ UNCHANGED left
       \/ Fault /\ UNCHANGED pack
    /\ UNCHANGED <<writeable, indexVars, diskVars, image, flushLock, gateVars, pass, gone>>

(* The obliterate is dropped at an await: the permit goes with it, its       *)
(* bucket write and its zeros go on.                                         *)
DropObliterate(p) ==
    /\ act[p].pc \notin {"idle", "absent"}
    /\ ~ act[p].adrift
    /\ IF act[p].pc = "draining" THEN Gate!CancelDrain(p) ELSE UNCHANGED gateVars
    /\ compaction' = IF act[p].pc = "permit" THEN compaction ELSE NoOne
    /\ IF act[p].pc \in {"permit", "undo", "drain", "draining", "zero"} THEN Done(p)
       ELSE act' = [act EXCEPT ![p].adrift = TRUE]
    /\ UNCHANGED <<packVars, indexVars, diskVars, image, flushLock, pass, gone, left>>

-----------------------------------------------------------------------------
(* Compacting.  One pass over the group, under the compaction permit. *)

C == act[Compactor]

Step(where) == act' = [act EXCEPT ![Compactor].pc = where]

(* compact_group_packfiles skips a group whose fan-out is not committed *)
BeginPass ==
    /\ C.pc = "idle"
    /\ compaction = NoOne
    /\ ~ Uncommitted
    /\ Spend("passes")
    /\ compaction' = Compactor
    /\ act' = [act EXCEPT ![Compactor].pc = "evict", ![Compactor].bucket = 1]
    /\ pass' = [NoPass EXCEPT !.level = level]
    /\ UNCHANGED <<packVars, indexVars, diskVars, image, flushLock, gateVars, gone>>

(* evict_group_sized takes the payloads accessed by a cutoff from the        *)
(* entries of a bucket that hold them, unless the group fanned out ...       *)
EvictPayloads ==
    /\ C.pc = "evict"
    /\ level = pass.level
    /\ \E b \in C.bucket..level :
          \E old \in SUBSET {entry[a] : a \in {x \in InBucket(b) : HasPayload(entry[x])}} :
             /\ old # {}
             /\ Spend("evictions")
             /\ entry' = [a \in Assocs |-> IF a \in InBucket(b) /\ entry[a] \in old
                                           THEN Bare ELSE entry[a]]
             /\ dirty' = [dirty EXCEPT ![b] = TRUE]
             /\ act' = [act EXCEPT ![Compactor].pc = "evicted", ![Compactor].bucket = b]
    /\ UNCHANGED <<packVars, level, diskVars, image, flushLock, compaction, gateVars, pass, gone>>

(* ... and writes the bucket.  In a group that fanned out meanwhile and is   *)
(* not committed, serialize refuses, and nothing claimed by another's write  *)
(* is written again; the eviction goes on whatever became of it.             *)
EvictLock ==
    /\ C.pc = "evicted"
    /\ flushLock = NoOne
    /\ IF Uncommitted \/ ~ dirty[C.bucket]
       THEN /\ act' = [act EXCEPT ![Compactor].pc = "evict", ![Compactor].bucket = @ + 1]
            /\ UNCHANGED <<image, dirty, flushLock>>
       ELSE /\ Serialize(C.bucket)
            /\ flushLock' = Compactor
            /\ Step("evicting")
    /\ UNCHANGED <<packVars, entry, level, diskVars, compaction, gateVars, pass, gone, left>>

EvictWritten ==
    /\ C.pc = "evicting"
    /\ \/ LandBucket /\ UNCHANGED left
       \/ FailBucket(C.bucket)
    /\ flushLock' = NoOne
    /\ act' = [act EXCEPT ![Compactor].pc = "evict", ![Compactor].bucket = @ + 1]
    /\ UNCHANGED <<packVars, compaction, gateVars, pass, gone>>

(* reclaimable_packfiles reads the sizes of the packfiles ... *)
ReadSizes ==
    /\ C.pc = "evict"
    /\ pass' = [NoPass EXCEPT !.sizes = [f \in DOMAIN pack |-> Len(pack[f])]]
    /\ Gate!BeginDrain(Compactor)
    /\ Step("measuring")
    /\ UNCHANGED <<packVars, indexVars, diskVars, image, flushLock, compaction, gone, left>>

(* as BeginCount, with the drain before it left out *)
BeginCount_undrained ==
    /\ C.pc = "measuring"
    /\ Gate!CancelDrain(Compactor)
    /\ pass' = [pass EXCEPT !.level = level, !.bucket = 1, !.counted = [f \in DOMAIN pass.sizes |-> 0]]
    /\ Step("counting")
    /\ UNCHANGED <<packVars, indexVars, diskVars, image, flushLock, compaction, gone, left>>

(* ... and, the gate drained, how many buckets there are, once: ... *)
BeginCount ==
    /\ C.pc = "measuring"
    /\ Gate!EndDrain(Compactor)
    /\ pass' = [pass EXCEPT !.level = level, !.bucket = 1, !.counted = [f \in DOMAIN pass.sizes |-> 0]]
    /\ Step("counting")
    /\ UNCHANGED <<packVars, indexVars, diskVars, image, flushLock, compaction, gone, left>>

(* the bytes of packfile f the entries of a bucket reference, each payload once *)
Referenced(bucket, f) ==
    Cardinality({entry[a] : a \in {x \in InBucket(bucket) : entry[x][1] = f}})

(* ... what the entries reference is counted bucket by bucket, each under    *)
(* its read lock.  A packfile holding more than that is worth rewriting.     *)
CountBucket ==
    LET counted == [f \in DOMAIN pass.counted |-> pass.counted[f] + Referenced(pass.bucket, f)]
        found == {f \in DOMAIN counted : counted[f] < pass.sizes[f]}
    IN /\ C.pc = "counting"
       /\ pass' = [pass EXCEPT !.bucket = @ + 1, !.counted = counted,
                               !.queue = IF pass.bucket < pass.level THEN <<>>
                                         ELSE SelectSeq([i \in DOMAIN pack |-> i],
                                                        LAMBDA f : f \in found)]
       /\ CASE pass.bucket < pass.level -> UNCHANGED <<act, compaction>>
            [] pass.bucket >= pass.level /\ found # {} -> Step("stop") /\ UNCHANGED compaction
            [] OTHER -> Done(Compactor) /\ compaction' = NoOne
       /\ UNCHANGED <<packVars, indexVars, diskVars, image, flushLock, gateVars, gone, left>>

Ids(s) == {s[i] : i \in DOMAIN s}

(* stop_writes waits for the writes in flight, and is followed by a drain:   *)
(* a store that wrote into one of the packfiles has then inserted its entry. *)
StopWrites ==
    /\ C.pc = "stop"
    /\ NoneInFlight
    /\ Fill(pack, writeable \ Ids(pass.queue))
    /\ Gate!BeginDrain(Compactor)
    /\ Step("stopping")
    /\ pass' = [NoPass EXCEPT !.queue = pass.queue]
    /\ UNCHANGED <<indexVars, diskVars, image, flushLock, compaction, gone, left>>

(* as Stopped, with the drain left out *)
Stopped_undrained ==
    /\ C.pc = "stopping"
    /\ Gate!CancelDrain(Compactor)
    /\ Step("next")
    /\ UNCHANGED <<packVars, indexVars, diskVars, image, flushLock, compaction, pass, gone, left>>

Stopped ==
    /\ C.pc = "stopping"
    /\ Gate!EndDrain(Compactor)
    /\ Step("next")
    /\ UNCHANGED <<packVars, indexVars, diskVars, image, flushLock, compaction, pass, gone, left>>

(* The next packfile; or the pass ends early, asked to or below its target. *)
NextPackfile ==
    /\ C.pc = "next"
    /\ \/ /\ pass.queue # <<>>
          /\ pass' = [pass EXCEPT !.file = Head(pass.queue), !.queue = Tail(@), !.level = level,
                                  !.bucket = 1, !.referenced = FALSE]
          /\ Step("scan")
       \/ Step("restart") /\ UNCHANGED pass
    /\ UNCHANGED <<packVars, indexVars, diskVars, image, flushLock, compaction, gateVars, gone, left>>

(* compact_bucket_packfile lists what the bucket holds in the packfile. *)
Scan ==
    LET found == {entry[a][2] : a \in {x \in InBucket(pass.bucket) : entry[x][1] = pass.file}}
    IN /\ C.pc = "scan"
       /\ pass' = [pass EXCEPT !.offsets = found, !.copies = <<>>]
       /\ Step(IF found = {} THEN "lock" ELSE "copy")
       /\ UNCHANGED <<packVars, indexVars, diskVars, image, flushLock, compaction, gateVars, gone, left>>

(* A payload is loaded, and a slot reserved for its copy. *)
CopyPayload ==
    /\ C.pc = "copy"
    /\ pass.offsets # {}
    /\ \E f \in writeable :
          /\ Len(pack[f]) < Limit
          /\ pack' = [pack EXCEPT ![f] = Append(@, Unwritten)]
          /\ act' = [act EXCEPT ![Compactor].pc = "copying",
                                ![Compactor].at = <<f, Len(pack[f]) + 1>>]
    /\ UNCHANGED <<writeable, indexVars, diskVars, image, flushLock, compaction, gateVars, pass, gone, left>>

(* The copy lands, or fails and leaves the payload where it is. *)
PayloadCopied ==
    LET o == Min(pass.offsets)
    IN /\ C.pc = "copying"
       /\ \/ /\ pack' = WithCell(C.at, Cell(<<pass.file, o>>))
             /\ pass' = [pass EXCEPT !.offsets = @ \ {o},
                                     !.copies = [x \in DOMAIN @ \cup {o} |->
                                                   IF x = o THEN C.at ELSE @[x]]]
             /\ Step(IF C.at[2] >= Limit THEN "copyfull" ELSE "copy")
             /\ UNCHANGED left
          \/ /\ Fault
             /\ pack' = GiveBack(C.at)
             /\ pass' = [pass EXCEPT !.offsets = @ \ {o}]
             /\ Step("copy")
       /\ UNCHANGED <<writeable, indexVars, diskVars, image, flushLock, compaction, gateVars, gone>>

CopyFull ==
    /\ C.pc = "copyfull"
    /\ MarkFull(C.at[1])
    /\ Step("copy")
    /\ UNCHANGED <<indexVars, diskVars, image, flushLock, compaction, gateVars, pass, gone, left>>

(* The entries of the bucket, as they are now, are pointed at the copies; an *)
(* entry at a payload without one keeps the packfile.  None are, and the     *)
(* packfile is kept, when no payload was copied or a copy's sync fails.      *)
Repoint ==
    LET here == {a \in InBucket(pass.bucket) : entry[a][1] = pass.file}
        moved == {a \in here : entry[a][2] \in DOMAIN pass.copies}
    IN /\ C.pc = "copy"
       /\ pass.offsets = {}
       /\ \/ /\ pass.copies # <<>>
             /\ entry' = [a \in Assocs |-> IF a \in moved THEN pass.copies[entry[a][2]]
                                           ELSE entry[a]]
             /\ dirty' = [dirty EXCEPT ![pass.bucket] = TRUE]
             /\ pass' = [pass EXCEPT !.referenced = @ \/ here # moved, !.copies = <<>>]
             /\ UNCHANGED left
          \/ /\ IF pass.copies = <<>> THEN UNCHANGED left ELSE Fault
             /\ pass' = [pass EXCEPT !.referenced = TRUE, !.copies = <<>>]
             /\ UNCHANGED <<entry, dirty>>
       /\ Step("lock")
       /\ UNCHANGED <<packVars, level, diskVars, image, flushLock, compaction, gateVars, gone>>

NextBucket ==
    /\ pass' = [pass EXCEPT !.bucket = @ + 1]
    /\ Step(IF pass.bucket < pass.level THEN "scan" ELSE "check")

KeepAndEnd ==
    /\ pass' = [pass EXCEPT !.kept = @ \cup {pass.file}]
    /\ Step("restart")

(* as WriteMoved, with the bucket left to the next flush *)
WriteMoved_later ==
    /\ C.pc = "lock"
    /\ flushLock = NoOne
    /\ IF level # pass.level THEN KeepAndEnd ELSE NextBucket
    /\ UNCHANGED <<packVars, indexVars, diskVars, image, flushLock, compaction, gateVars, gone, left>>

(* rewrite_packfile writes the bucket, under the flush lock, unless it is    *)
(* clean; a group that fanned out meanwhile ends the pass, and so does one   *)
(* whose fan-out is not committed, which serialize refuses.                  *)
WriteMoved ==
    /\ C.pc = "lock"
    /\ flushLock = NoOne
    /\ IF level # pass.level \/ (dirty[pass.bucket] /\ Uncommitted)
       THEN KeepAndEnd /\ UNCHANGED <<image, dirty, flushLock>>
       ELSE IF ~ dirty[pass.bucket]
       THEN NextBucket /\ UNCHANGED <<image, dirty, flushLock>>
       ELSE /\ Serialize(pass.bucket)
            /\ flushLock' = Compactor
            /\ Step("moving")
            /\ UNCHANGED pass
    /\ UNCHANGED <<packVars, entry, level, diskVars, compaction, gateVars, gone, left>>

MovedWritten ==
    /\ C.pc = "moving"
    /\ flushLock' = NoOne
    /\ \/ LandBucket /\ NextBucket /\ UNCHANGED left
       \/ FailBucket(pass.bucket) /\ KeepAndEnd
    /\ UNCHANGED <<packVars, compaction, gateVars, gone>>

(* Every bucket swept: the level is looked at once more under the flush      *)
(* lock, and the gate drained before the packfile is truncated.              *)
CheckSwept ==
    /\ C.pc = "check"
    /\ flushLock = NoOne
    /\ IF level # pass.level THEN KeepAndEnd /\ UNCHANGED gateVars
       ELSE IF pass.referenced
       THEN /\ pass' = [pass EXCEPT !.kept = @ \cup {pass.file}]
            /\ Step("next")
            /\ UNCHANGED gateVars
       ELSE Gate!BeginDrain(Compactor) /\ Step("clearing") /\ UNCHANGED pass
    /\ UNCHANGED <<packVars, indexVars, diskVars, image, flushLock, compaction, gone, left>>

(* as Cleared, with the drain left out *)
Cleared_undrained ==
    /\ C.pc = "clearing"
    /\ Gate!CancelDrain(Compactor)
    /\ Step("truncate")
    /\ UNCHANGED <<packVars, indexVars, diskVars, image, flushLock, compaction, pass, gone, left>>

Cleared ==
    /\ C.pc = "clearing"
    /\ Gate!EndDrain(Compactor)
    /\ Step("truncate")
    /\ UNCHANGED <<packVars, indexVars, diskVars, image, flushLock, compaction, pass, gone, left>>

(* The packfile, empty once a failed write gave its range back, may have     *)
(* been discarded since, and one of its id opened for writes.                *)
Truncatable == pass.file \in DOMAIN pack \ writeable

(* truncate: the packfile is emptied, and takes writes again unless it is    *)
(* discarded with the empty ones at the end.  A failed truncate leaves it    *)
(* as it was, and a failed sync empty and out of writes; either ends the     *)
(* pass.                                                                     *)
Truncate ==
    LET emptied == [pack EXCEPT ![pass.file] = <<>>]
    IN /\ C.pc = "truncate"
       /\ NoneInFlight
       /\ \/ /\ Truncatable
             /\ DiscardTailAndFill(emptied, writeable \cup {pass.file})
             /\ Step("next")
             /\ UNCHANGED <<pass, left>>
          \/ /\ ~ Truncatable
             /\ KeepAndEnd
             /\ UNCHANGED <<packVars, left>>
          \/ /\ Truncatable
             /\ Fault
             /\ \/ UNCHANGED pack /\ KeepAndEnd
                \/ pack' = emptied /\ Step("restart") /\ UNCHANGED pass
             /\ UNCHANGED writeable
       /\ UNCHANGED <<indexVars, diskVars, image, flushLock, compaction, gateVars, gone>>

(* restart_writes of the packfiles not rewritten, and the pass is over. *)
RestartWrites ==
    LET again == {f \in Ids(pass.queue) \cup pass.kept :
                     f \in DOMAIN pack /\ Len(pack[f]) < Limit}
    IN /\ C.pc = "restart"
       /\ NoneInFlight
       /\ DiscardTailAndFill(pack, writeable \cup again)
       /\ pass' = NoPass
       /\ compaction' = NoOne
       /\ Done(Compactor)
       /\ UNCHANGED <<indexVars, diskVars, image, flushLock, gateVars, gone, left>>

-----------------------------------------------------------------------------
(* The process is killed and another opens the store: the index is what is   *)
(* on disk, a pending commit rolled forward, and the packfiles are as long   *)
(* as what was written to them.                                              *)
Stop ==
    /\ Spend("stops")
    /\ LET pk == [f \in DOMAIN pack |-> Reopened(pack[f])]
       IN Fill(pk, {f \in DOMAIN pk : Len(pk[f]) < Limit})
    /\ entry' = disk
    /\ dirty' = [b \in 1..2 |-> FALSE]
    /\ level' = IF pending THEN level ELSE committed
    /\ committed' = level'
    /\ pending' = FALSE
    /\ image' = <<>>
    /\ flushLock' = NoOne
    /\ compaction' = NoOne
    /\ held' = {}
    /\ draining' = {}
    /\ awaited' = [d \in Obliterators \cup {Compactor} |-> {}]
    /\ act' = [p \in Procs |-> IF act[p].pc = "absent" THEN act[p] ELSE Idle]
    /\ pass' = NoPass
    /\ gone' = [a \in Assocs |-> IF gone[a] = "tombstone" THEN "no" ELSE gone[a]]
    /\ UNCHANGED disk

(* nothing is called for *)
Rest ==
    /\ \A p \in Procs : act[p].pc \in {"idle", "absent"}
    /\ UNCHANGED vars

Reading(p) == Load(p) \/ \E a \in Assocs : Locate(p, a)

Storing(p) ==
    \/ \E a \in Assocs : PutBare(p, a) \/ Put(p, a, FALSE) \/ Put(p, a, TRUE)
    \/ \E a, b \in Assocs : Copy(p, a, b)
    \/ Reserve(p) \/ ReserveFull(p) \/ LandPayload(p) \/ FailPayload(p) \/ Full(p)
    \/ Insert(p) \/ DropStore(p)

Flushing(p) ==
    \/ FlushLock(p) \/ FlushGroup(p) \/ FailRollForward(p) \/ FlushBucket(p)
    \/ BucketFlushed(p) \/ CommitBucket(p) \/ Commit(p)

Obliterating(p) ==
    \/ \E a \in Assocs : Obliterate(p, a)
    \/ TombstoneStopped(p) \/ WriteTombstone(p) \/ TombstoneWritten(p) \/ EndTombstone(p)
    \/ Untombstone(p) \/ DrainReads(p) \/ ReadsDrained(p) \/ Zero(p) \/ Zeroed(p)
    \/ DropObliterate(p)

Compacting ==
    \/ BeginPass \/ EvictPayloads \/ EvictLock \/ EvictWritten \/ ReadSizes \/ BeginCount
    \/ CountBucket
    \/ StopWrites \/ Stopped \/ NextPackfile \/ Scan \/ CopyPayload \/ PayloadCopied
    \/ CopyFull \/ ReserveFull(Compactor) \/ Repoint \/ WriteMoved \/ MovedWritten
    \/ CheckSwept \/ Cleared \/ Truncate \/ RestartWrites

Next ==
    \/ \E p \in Readers : Reading(p)
    \/ \E p \in Storers : Storing(p)
    \/ \E p \in Obliterators : Obliterating(p) \/ Flushing(p)
    \/ Flush \/ EvictOldest \/ EndFlush \/ SweepWritten \/ Flushing(Flusher)
    \/ \E b \in 1..2 : SweepBucket(b)
    \/ Compacting
    \/ Stop
    \/ Rest

Spec == Init /\ [][Next]_vars

-----------------------------------------------------------------------------
(* Properties *)

(* Every entry of the index that says it has a payload points at the bytes   *)
(* of its own hash: no store, copy, move, zeroing, truncate, fan-out or kill *)
(* leaves one pointing at other bytes, at zeros or past the end of a         *)
(* packfile (store_entry, rewrite_packfile, obliterate_one).                 *)
EntriesWhole == \A a \in Assocs : Whole(a, entry[a])

(* The same of the index on disk: a process killed at any moment reopens     *)
(* with no entry pointing at bytes that are not its payload, as              *)
(* obliterate_one and rewrite_packfile write an index durably before they    *)
(* destroy what it used to point at.                                         *)
DiskWhole == \A a \in Assocs : Whole(a, disk[a])

(* A read that has located a payload loads that payload, whatever compaction *)
(* and obliterates do before it gets there, as long as it holds the payload  *)
(* gate; and a payload written is still there when its entry is inserted.    *)
HeldWhole ==
    \A p \in Readers \cup Storers :
       act[p].pc \in {"located", "full", "insert"} => Whole(act[p].arg, act[p].at)

(* An obliterate whose tombstone was written durably is not undone by        *)
(* anything but a new store of the association: not by an older copy of the  *)
(* bucket landing late, a commit rolled forward, an undo, nor a kill.        *)
StaysObliterated ==
    \A a \in Assocs : gone[a] = "durable" => {entry[a], disk[a]} \subseteq {None, Tomb}

(* A packfile chosen for rewriting holds a slot nobody will ever reference,  *)
(* so that "a fully referenced packfile never looks reclaimable"             *)
(* (referenced_sizes: sizes, then the drain, then the references, bucket by  *)
(* bucket), whatever is stored, moved or obliterated between two buckets.    *)
(* Two things make a packfile look larger than it is, and cost a rewrite     *)
(* that reclaims nothing: the group fanning out during the count, which      *)
(* moves entries to buckets not counted, and a write that fails meanwhile.   *)
ReclaimsGarbage ==
    C.pc = "stop" /\ level = pass.level /\ ~ left["faulted"] =>
       \A f \in Ids(pass.queue) :
          \E i \in 1..pass.sizes[f] :
             /\ \A a \in Assocs : entry[a] # <<f, i>>
             /\ \A p \in Storers : act[p].pc \in {"writing", "full", "insert"} /\ ~ act[p].adrift
                                      => act[p].at # <<f, i>>

(* Every live association of a hash that has a payload points at the same    *)
(* one: storing it makes "all other instances of this hash" share it         *)
(* (store_entry).                                                            *)
SharedPayload ==
    \A a, b \in Assocs :
       HashOf[a] = HashOf[b] /\ HasPayload(entry[a]) /\ entry[b] \notin {None, Tomb}
          => entry[a] = entry[b]
=============================================================================
