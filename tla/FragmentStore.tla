--------------------------- MODULE FragmentStore ---------------------------
(***************************************************************************)
(* How a client stores and loads fragments over its local store and a      *)
(* remote (lore-storage/src/write.rs, read.rs, read_flight.rs,             *)
(* write_tracker.rs and fragment_engine.rs).                               *)
(*                                                                         *)
(* Stores of one address that go to the remote are led by the task that    *)
(* holds the address in STORE_IN_FLIGHT; the others wait for its token and *)
(* look at what it left.  A store runs inline, or is dispatched into a     *)
(* WriteTracker that is awaited later.  Loads that miss the local store    *)
(* wait for a store in flight, then share one fetch of the content.  Calls *)
(* may be dropped where they await, remote commands and local puts may     *)
(* fail, and the local store may evict what is durable.                    *)
(*                                                                         *)
(* Payloads are told apart by what a check can see: "whole", "wrong" (the  *)
(* sizes agree, the hash does not) and "broken" (the sizes disagree).  One *)
(* partition is modelled, of a store that serves any association of a      *)
(* content; compression, permits and counters of bytes are left out.       *)
(***************************************************************************)
EXTENDS Integers, FiniteSets

CONSTANTS
    Address,        \* addresses: a content hash in a context
    Content,        \* the content hash of each
    Task,           \* calls, and the tasks they spawn
    Tracker,        \* WriteTrackers
    Scenes,         \* what a behaviour starts from: local, remote, the jobs, and
                    \* how many operations fail or calls are dropped (bound)
    NoTask,         \* no task
    NoTracker,      \* a store without a tracker
    NoEntry,        \* the local store has no entry for the address
    MaxEvictions    \* bound: payloads that are evicted

VARIABLES
    local,      \* the local store: entries by address
    remote,     \* what the remote holds at each address
    keys,       \* addresses named by a Resolve mapping of the remote, and of
                \* the local mutable store
    inFlight,   \* STORE_IN_FLIGHT: the task that stores an address
    landed,     \* STORES_LANDED
    flights,    \* READ_IN_FLIGHT: leader and whether it has a channel
    tracker,    \* WriteTrackers: SharedState and the call of await_all
    job,        \* what each task was called for
    task,       \* where each task is
    bounds      \* mishaps and evictions left

storeVars == <<local, remote, keys>>
writeVars == <<inFlight, landed, tracker>>
vars == <<storeVars, writeVars, flights, job, task, bounds>>

Payload == {"whole", "wrong", "broken"}
Missing == "none"
Entry == [payload : Payload \cup {Missing}, durable : BOOLEAN, by : Task \cup {NoTask}]
Job == [op : {"none", "store", "load"}, addr : Address, session : BOOLEAN, cache : BOOLEAN,
        publish : BOOLEAN, tracker : Tracker \cup {NoTracker}, leaves : SUBSET Task,
        trust : BOOLEAN, wait : BOOLEAN]

\* The local store is as earlier calls left it.  The address of a list, a hash
\* over those of its chunks, says which they are.
ASSUME ScenesAssumption ==
    /\ NoTask \notin Task /\ NoEntry \notin Entry
    /\ \A s \in Scenes :
        /\ s.local \in [Address -> Entry \cup {NoEntry}]
        /\ s.remote \in [Address -> Payload \cup {Missing}]
        /\ \A a \in Address : s.local[a] # NoEntry =>
              IF s.local[a].durable THEN s.remote[a] # Missing ELSE s.local[a].payload # Missing
        /\ s.job \in [Task -> Job]
        /\ \A t, u \in {v \in Task : s.job[v].publish} : s.job[t].addr = s.job[u].addr =>
              {s.job[c].addr : c \in s.job[t].leaves} = {s.job[c].addr : c \in s.job[u].leaves}

Same(a) == {b \in Address : Content[b] = Content[a]}
Key_Trustless(a, trust) == <<Content[a], FALSE>>

Key(a, trust) == <<Content[a], trust>>
FlightKey == {Key(a, trust) : a \in Address, trust \in BOOLEAN}
NoFlight == [leader |-> NoTask, open |-> FALSE]

Unseen == [match |-> "none", source |-> NoTask, local |-> FALSE, durable |-> FALSE]

Fresh ==
    [pc |-> "start",        \* what the task does next
     seen |-> Unseen,       \* the StoreMatchResult its store goes by
     token |-> "none",      \* its StoreInFlightGuard, and the token of it
     lead |-> NoTask,       \* the task whose token or flight it waits for
     landed |-> 0,          \* STORES_LANDED before its probe
     payload |-> "whole",   \* what it puts, uploads or has fetched
     local |-> FALSE,       \* stored_local
     durable |-> FALSE,     \* stored_durable
     flag |-> FALSE,        \* PayloadStoredDurable of the fragment it puts
     publish |-> FALSE,     \* its upload is to carry the key
     published |-> FALSE,   \* Placement::published
     throttled |-> FALSE,   \* copy_throttled
     spawned |-> FALSE,     \* it runs as a TrackedTask
     force |-> FALSE,       \* local_replace
     healed |-> FALSE,      \* heal_attempted
     fetched |-> "no",      \* what its fetch came to
     channel |-> "pending", \* the channel of the flight it leads
     reported |-> {},       \* the stored flags its StoreResult carries
     answer |-> "none"]     \* what it came to

Init ==
    \E s \in Scenes :
        /\ local = s.local /\ remote = s.remote /\ job = s.job
        /\ keys = [remote |-> {}, local |-> {}]
        /\ inFlight = [a \in Address |-> NoTask]
        /\ landed = 0
        /\ flights = [k \in FlightKey |-> NoFlight]
        /\ tracker = [w \in Tracker |-> [pc |-> "dispatch", count |-> 0, failed |-> FALSE,
                                         permit |-> FALSE]]
        /\ task = [t \in Task |-> Fresh]
        /\ bounds = [mishaps |-> s.mishaps, evictions |-> MaxEvictions]

At(t, op, pc) == job[t].op = op /\ task[t].pc = pc
Addr(t) == job[t].addr
To(t, pc) == task' = [task EXCEPT ![t].pc = pc]
Set(t, record) == task' = [task EXCEPT ![t] = record]

Fine == UNCHANGED bounds
Mishap == bounds.mishaps > 0 /\ bounds' = [bounds EXCEPT !.mishaps = @ - 1]

-----------------------------------------------------------------------------
(***************************************************************************)
(* The local store, as query, get and put of local/immutable_store.rs      *)
(* present it                                                              *)
(***************************************************************************)

Held(a) == {b \in Same(a) : local[b] # NoEntry}

\* The entry find answers for: the address's own, or one of the content.
Nearest(a) == IF local[a] # NoEntry THEN {a} ELSE Held(a)

Query(a) ==
    IF Nearest(a) = {} THEN {Unseen}
    ELSE {[match |-> IF b = a THEN "full" ELSE "partial", source |-> b,
           local |-> local[b].payload # Missing, durable |-> local[b].durable]
            : b \in Nearest(a)}

Get(a) == IF Nearest(a) = {} THEN {Missing} ELSE {local[b].payload : b \in Nearest(a)}

FullDurable_AnyMatch(seen) == seen.durable

\* stored_flags: durability counts for this address only.
FullDurable(seen) == seen.match = "full" /\ seen.durable

\* store_entry: the entries of `a' a store of `payload' by `t' may leave.  A
\* full match that keeps its payload takes the stored flags of the fragment; an
\* entry of the same content lends its payload to a new one.
Stored(t, a, payload, durable, force) ==
    LET held == {local[b].payload : b \in Nearest(a)} \ {Missing}
        by == IF local[a] = NoEntry THEN NoTask ELSE local[a].by
    IN  IF payload # Missing /\ (force \/ held = {})
        THEN {[payload |-> payload, durable |-> durable, by |-> t]}
        ELSE {[payload |-> p, durable |-> durable, by |-> by]
                : p \in IF held = {} THEN {Missing} ELSE held}

\* The other entries of the content are given the payload, those that the
\* walk over the index reaches.
StoreEntry(t, a, payload, durable, force) ==
    \E new \in Stored(t, a, payload, durable, force),
       reached \in SUBSET (Held(a) \ {a}) :
        /\ \/ new.payload = Missing
           \/ local[a] # NoEntry /\ new.by # t
           => reached = {}
        /\ local' = [b \in Address |->
                        IF b = a THEN new
                        ELSE IF b \in reached
                             THEN [local[b] EXCEPT !.payload = new.payload, !.by = NoTask]
                             ELSE local[b]]

\* Eviction in a store that protects what is not durable (evictable).
Evictable(b) == local[b] # NoEntry /\ local[b].durable

\* evict_accessed_by: the entries that hold one payload lose it together, those
\* that may.  Which entries of a content share one is left open: `with'.
EvictAged(a) ==
    /\ local[a].payload # Missing
    /\ \E with \in SUBSET {b \in Same(a) : Evictable(b) /\ local[b].payload = local[a].payload} :
          local' = [b \in Address |-> IF b \in {a} \cup with
                                      THEN [local[b] EXCEPT !.payload = Missing] ELSE local[b]]

\* evict_oldest_bucket: the entry goes.
EvictOldest(a) == local' = [local EXCEPT ![a] = NoEntry]

Evict(a) ==
    /\ Evictable(a)
    /\ bounds.evictions > 0
    /\ bounds' = [bounds EXCEPT !.evictions = @ - 1]
    /\ EvictAged(a) \/ EvictOldest(a)
    /\ UNCHANGED <<remote, keys, writeVars, flights, job, task>>

-----------------------------------------------------------------------------
(***************************************************************************)
(* put: the entry is found, then stored, with the lock let go in between   *)
(***************************************************************************)

\* What leader_body hands to write_raw: no payload where the remote holds it
\* and the caller does not ask for a local copy.  A load puts what it fetched.
PutPayload(t) ==
    IF job[t].op = "load" \/ ~task[t].durable \/ job[t].cache THEN task[t].payload ELSE Missing

\* Where a store goes once its work is done, and once its guard is dropped.
Return(t, r) ==
    [r EXCEPT !.pc = IF r.spawned THEN "report"
                     ELSE IF r.answer = "stored" /\ job[t].publish THEN "publish" ELSE "done",
              !.reported = IF r.answer = "stored" /\ ~r.spawned
                           THEN {f \in {"local", "durable"} : r[f]} ELSE {}]

Finish(t, r) == IF r.token = "held" THEN [r EXCEPT !.pc = "unguard"] ELSE Return(t, r)

\* After the put: a load ignores what it came to and ends its flight.
PutDone(t, ok) ==
    LET r == task[t] IN
    IF job[t].op = "load" THEN [r EXCEPT !.pc = "close"]
    ELSE Finish(t, IF ok THEN [r EXCEPT !.answer = "stored",
                                        !.local = @ \/ PutPayload(t) # Missing]
                   ELSE [r EXCEPT !.answer = "failed"])

\* A full match is stored over only where it gains a payload or durability,
\* and its durability is kept.
PutFind(t) ==
    LET a == Addr(t)
        old == local[a]
        gains == \/ old.payload = Missing /\ PutPayload(t) # Missing
                 \/ ~old.durable /\ task[t].durable
    IN
    /\ task[t].pc = "find"
    /\ UNCHANGED <<storeVars, writeVars, flights, job>>
    /\ \/ /\ Fine
          /\ \/ /\ old = NoEntry
                /\ task' = [task EXCEPT ![t].pc = "put", ![t].flag = task[t].durable]
             \/ /\ old # NoEntry /\ gains
                /\ task' = [task EXCEPT ![t].pc = "put",
                                        ![t].flag = task[t].durable \/ old.durable]
             \/ /\ old # NoEntry /\ ~gains
                /\ Set(t, PutDone(t, TRUE))
       \/ /\ Mishap
          /\ Set(t, PutDone(t, FALSE))

PutStore(t) ==
    /\ task[t].pc = "put"
    /\ UNCHANGED <<remote, keys, writeVars, flights, job>>
    /\ \/ /\ Fine
          /\ StoreEntry(t, Addr(t), PutPayload(t), task[t].flag, task[t].force)
          /\ Set(t, PutDone(t, TRUE))
       \/ /\ Mishap
          /\ UNCHANGED local
          /\ Set(t, PutDone(t, FALSE))

-----------------------------------------------------------------------------
(***************************************************************************)
(* Stores: store_fragment_publishing and what it calls                     *)
(***************************************************************************)

Tracked(t) == job[t].tracker # NoTracker /\ ~job[t].publish
LeavesRemote(t) == \A c \in job[t].leaves : "durable" \in task[c].reported

StoreBegin_KeepsKey(t) ==
    /\ At(t, "store", "start")
    /\ \A c \in job[t].leaves : task[c].pc = "done"
    /\ Set(t, IF \E c \in job[t].leaves : task[c].answer # "stored"
              THEN [task[t] EXCEPT !.pc = "done", !.answer = "failed"]
              ELSE [task[t] EXCEPT !.pc = IF Tracked(t) THEN "acquire" ELSE "query",
                                   !.publish = job[t].publish /\ job[t].session])
    /\ UNCHANGED <<storeVars, writeVars, flights, job, bounds>>

\* A list is stored once its chunks are; it carries the key only where every
\* chunk reached the remote.
StoreBegin(t) ==
    /\ At(t, "store", "start")
    /\ \A c \in job[t].leaves : task[c].pc = "done"
    /\ Set(t, IF \E c \in job[t].leaves : task[c].answer # "stored"
              THEN [task[t] EXCEPT !.pc = "done", !.answer = "failed"]
              ELSE [task[t] EXCEPT !.pc = IF Tracked(t) THEN "acquire" ELSE "query",
                                   !.publish = job[t].publish /\ job[t].session
                                                /\ LeavesRemote(t)])
    /\ UNCHANGED <<storeVars, writeVars, flights, job, bounds>>

FullySatisfied(t, seen) ==
    /\ seen.match = "full"
    /\ job[t].cache => seen.local
    /\ job[t].session => FullDurable(seen)

\* resolve_or_absent: a query that fails answers that nothing is there.
Resolved(t, seen) ==
    \/ Fine /\ seen \in Query(Addr(t))
    \/ Mishap /\ seen = Unseen

Saw(t, seen) ==
    [task[t] EXCEPT !.seen = seen, !.local = seen.local, !.durable = FullDurable(seen)]

StoreQuery(t) ==
    /\ At(t, "store", "query")
    /\ \E seen \in Query(Addr(t)) \cup {Unseen} :
        /\ Resolved(t, seen)
        /\ Set(t, IF FullySatisfied(t, seen)
                  THEN Return(t, [Saw(t, seen) EXCEPT !.answer = "stored"])
                  ELSE [Saw(t, seen) EXCEPT !.pc = IF job[t].session THEN "guard" ELSE "body"])
    /\ UNCHANGED <<storeVars, writeVars, flights, job>>

\* stored_in_flight: the guard, or a wait for the task that has it.
StoreGuard(t) ==
    /\ At(t, "store", "guard")
    /\ IF inFlight[Addr(t)] = NoTask
       THEN /\ inFlight' = [inFlight EXCEPT ![Addr(t)] = t]
            /\ task' = [task EXCEPT ![t].pc = "body", ![t].token = "held"]
       ELSE /\ task' = [task EXCEPT ![t].pc = "waiting", ![t].lead = inFlight[Addr(t)]]
            /\ UNCHANGED inFlight
    /\ UNCHANGED <<storeVars, landed, tracker, flights, job, bounds>>

LeadGone(t) == task[task[t].lead].token = "cancelled"

\* inherited_placement: what the task waited for has left is this store's own,
\* unless a key is to name it and it is not durable.
StoreInherit(t) ==
    /\ At(t, "store", "waiting") /\ LeadGone(t)
    /\ \E seen \in Query(Addr(t)) \cup {Unseen} :
        /\ Resolved(t, seen)
        /\ Set(t, IF ~task[t].publish \/ FullDurable(seen)
                  THEN Return(t, [Saw(t, seen) EXCEPT !.answer = "stored"])
                  ELSE [task[t] EXCEPT !.pc = "body"])
    /\ UNCHANGED <<storeVars, writeVars, flights, job>>

Spawn(t) == tracker' = [tracker EXCEPT ![job[t].tracker].count = @ + 1]

Dispatch_Uncounted(t) ==
    /\ At(t, "store", "acquire")
    /\ IF inFlight[Addr(t)] = NoTask
       THEN /\ inFlight' = [inFlight EXCEPT ![Addr(t)] = t]
            /\ task' = [task EXCEPT ![t].pc = "resolve", ![t].token = "held"]
       ELSE /\ task' = [task EXCEPT ![t].pc = "follow", ![t].spawned = TRUE,
                                    ![t].lead = inFlight[Addr(t)]]
            /\ UNCHANGED inFlight
    /\ UNCHANGED <<storeVars, landed, tracker, flights, job, bounds>>

\* store_fragment_dispatched: the guard, or a follower on the tracker.
Dispatch(t) ==
    /\ At(t, "store", "acquire")
    /\ IF inFlight[Addr(t)] = NoTask
       THEN /\ inFlight' = [inFlight EXCEPT ![Addr(t)] = t]
            /\ task' = [task EXCEPT ![t].pc = "resolve", ![t].token = "held"]
            /\ UNCHANGED tracker
       ELSE /\ task' = [task EXCEPT ![t].pc = "follow", ![t].spawned = TRUE,
                                    ![t].lead = inFlight[Addr(t)]]
            /\ Spawn(t)
            /\ UNCHANGED inFlight
    /\ UNCHANGED <<storeVars, landed, flights, job, bounds>>

DispatchResolve(t) ==
    /\ At(t, "store", "resolve")
    /\ \E seen \in Query(Addr(t)) \cup {Unseen} :
        /\ Resolved(t, seen)
        /\ IF FullySatisfied(t, seen)
           THEN /\ Set(t, Finish(t, [Saw(t, seen) EXCEPT !.answer = "stored"]))
                /\ UNCHANGED tracker
           ELSE /\ Set(t, [Saw(t, seen) EXCEPT !.pc = "body", !.spawned = TRUE])
                /\ Spawn(t)
    /\ UNCHANGED <<storeVars, inFlight, landed, flights, job>>

Follow_Unqueried(t) ==
    /\ At(t, "store", "follow") /\ LeadGone(t)
    /\ task' = [task EXCEPT ![t].pc = "report", ![t].answer = "stored"]
    /\ UNCHANGED <<storeVars, writeVars, flights, job, bounds>>

\* follower_future
Follow(t) ==
    /\ At(t, "store", "follow") /\ LeadGone(t)
    /\ \E seen \in Query(Addr(t)) \cup {Unseen} :
        /\ Resolved(t, seen)
        /\ task' = [task EXCEPT ![t].pc = "report",
                                ![t].answer = IF seen.match = "full" /\ (seen.local \/ seen.durable)
                                              THEN "stored" ELSE "failed"]
    /\ UNCHANGED <<storeVars, writeVars, flights, job>>

-----------------------------------------------------------------------------
(***************************************************************************)
(* leader_body: copy, prepare, upload, put, and the guard let go           *)
(***************************************************************************)

\* copy_source: a partial match that the remote holds.
CopySource(t) ==
    /\ ~task[t].durable /\ job[t].session
    /\ task[t].seen.match = "partial" /\ task[t].seen.durable

BodyBegin(t) ==
    /\ At(t, "store", "body")
    /\ To(t, IF CopySource(t) THEN "copy" ELSE "prepare")
    /\ UNCHANGED <<storeVars, writeVars, flights, job, bounds>>

\* What a command of the remote leaves at `a': it keeps what it holds.
Uploaded(a, payload) == [remote EXCEPT ![a] = IF @ = Missing THEN payload ELSE @]

\* remote_copy_retry: copied, refused, or throttled to the last retry.  A
\* failure of the session may hide that the remote made the copy.
BodyCopy(t) ==
    LET source == remote[task[t].seen.source]
        copied == Uploaded(Addr(t), source)
    IN
    /\ At(t, "store", "copy")
    /\ \/ /\ Fine
          /\ remote' = copied
          /\ task' = [task EXCEPT ![t].pc = "prepare", ![t].durable = source # Missing]
       \/ /\ Mishap
          /\ \E throttled \in BOOLEAN :
                task' = [task EXCEPT ![t].pc = "prepare", ![t].throttled = throttled]
          /\ remote' \in {remote, copied}
    /\ UNCHANGED <<local, keys, writeVars, flights, job>>

\* The payload: the stored one where its sizes agree, else the caller's.
BodyPrepare(t) ==
    LET wanted == ~task[t].durable \/ job[t].cache
        uploads == ~task[t].durable /\ ~task[t].throttled /\ job[t].session
    IN
    /\ At(t, "store", "prepare")
    /\ \E stored \in IF wanted /\ task[t].local THEN Get(Addr(t)) ELSE {Missing} :
        LET usable == stored \in {"whole", "wrong"} IN
        task' = [task EXCEPT ![t].pc = IF uploads THEN "upload" ELSE "find",
                             ![t].payload = IF usable THEN stored ELSE "whole",
                             ![t].local = IF wanted THEN usable ELSE @]
    /\ UNCHANGED <<storeVars, writeVars, flights, job, bounds>>

\* remote_put_retry and remote_put_resolved_retry.  An upload that fails may
\* have reached the remote.
BodyUpload(t) ==
    LET a == Addr(t)
        taken == /\ remote' = Uploaded(a, task[t].payload)
                 /\ keys' = IF task[t].publish THEN [keys EXCEPT !.remote = @ \cup {a}] ELSE keys
    IN
    /\ At(t, "store", "upload")
    /\ \/ /\ Fine /\ taken
          /\ task' = [task EXCEPT ![t].pc = "find", ![t].durable = TRUE,
                                  ![t].published = task[t].publish]
       \/ /\ Mishap
          /\ taken \/ UNCHANGED <<remote, keys>>
          /\ To(t, "find")
    /\ UNCHANGED <<local, writeVars, flights, job>>

\* Dropping a StoreInFlightGuard: the count moves before the entry goes.
GuardCount(t) ==
    /\ task[t].pc = "unguard"
    /\ landed' = landed + 1
    /\ To(t, "unlock")
    /\ UNCHANGED <<storeVars, inFlight, tracker, flights, job, bounds>>

GuardRemove(t) ==
    /\ task[t].pc = "unlock"
    /\ inFlight' = [inFlight EXCEPT ![Addr(t)] = NoTask]
    /\ Set(t, Return(t, [task[t] EXCEPT !.token = "cancelled"]))
    /\ UNCHANGED <<storeVars, landed, tracker, flights, job, bounds>>

\* publish_resolved_mapping: a mapping of its own for content that the remote
\* holds whole and no upload carried the key of; then the local mapping.
Publish(t) ==
    LET a == Addr(t)
        named == [keys EXCEPT !.remote = @ \cup {a}]
        owed == /\ job[t].session /\ ~task[t].published
                /\ task[t].durable /\ LeavesRemote(t)
    IN
    /\ At(t, "store", "publish")
    /\ \/ /\ Fine
          /\ keys' = IF owed THEN named ELSE keys
          /\ To(t, "name")
       \/ /\ Mishap /\ owed
          /\ keys' \in {keys, named}
          /\ task' = [task EXCEPT ![t].pc = "done", ![t].answer = "failed"]
    /\ UNCHANGED <<local, remote, writeVars, flights, job>>

PublishLocal(t) ==
    /\ At(t, "store", "name")
    /\ \/ /\ Fine
          /\ keys' = [keys EXCEPT !.local = @ \cup {Addr(t)}]
          /\ To(t, "done")
       \/ /\ Mishap
          /\ UNCHANGED keys
          /\ task' = [task EXCEPT ![t].pc = "done", ![t].answer = "failed"]
    /\ UNCHANGED <<local, remote, writeVars, flights, job>>

-----------------------------------------------------------------------------
(***************************************************************************)
(* WriteTracker: a task records its error, then counts itself out          *)
(***************************************************************************)

RecordError(t) ==
    /\ At(t, "store", "report")
    /\ tracker' = IF task[t].answer = "failed"
                  THEN [tracker EXCEPT ![job[t].tracker].failed = TRUE] ELSE tracker
    /\ To(t, "dec")
    /\ UNCHANGED <<storeVars, inFlight, landed, flights, job, bounds>>

Dec(t) ==
    LET w == job[t].tracker IN
    /\ At(t, "store", "dec")
    /\ tracker' = [tracker EXCEPT ![w].count = @ - 1]
    /\ To(t, IF tracker[w].count = 1 THEN "notify" ELSE "done")
    /\ UNCHANGED <<storeVars, inFlight, landed, flights, job, bounds>>

\* notify_one
Notify(t) ==
    /\ At(t, "store", "notify")
    /\ tracker' = [tracker EXCEPT ![job[t].tracker].permit = TRUE]
    /\ To(t, "done")
    /\ UNCHANGED <<storeVars, inFlight, landed, flights, job, bounds>>

On(w) == {t \in Task : job[t].op = "store" /\ Tracked(t) /\ job[t].tracker = w}
Dispatched(t) == task[t].spawned \/ task[t].pc = "done"

\* await_all, called once every dispatch has returned.
AwaitBegin(w) ==
    /\ tracker[w].pc = "dispatch" /\ On(w) # {}
    /\ \A t \in On(w) : Dispatched(t) /\ task[t].answer # "dropped"
    /\ tracker' = [tracker EXCEPT ![w].pc = "check"]
    /\ UNCHANGED <<storeVars, inFlight, landed, flights, job, task, bounds>>

AwaitCheck(w) ==
    /\ tracker[w].pc = "check"
    /\ tracker' = [tracker EXCEPT ![w].pc = IF tracker[w].count # 0 THEN "parked"
                                            ELSE IF tracker[w].failed THEN "failed" ELSE "ok"]
    /\ UNCHANGED <<storeVars, inFlight, landed, flights, job, task, bounds>>

AwaitWake(w) ==
    /\ tracker[w].pc = "parked" /\ tracker[w].permit
    /\ tracker' = [tracker EXCEPT ![w].pc = "check", ![w].permit = FALSE]
    /\ UNCHANGED <<storeVars, inFlight, landed, flights, job, task, bounds>>

-----------------------------------------------------------------------------
(***************************************************************************)
(* Loads: load_fragment, with a store in flight waited for, and            *)
(* fetch_single_flight                                                     *)
(***************************************************************************)

\* probe_local hits on what passes its size check.  What does not is replaced.
Probed(t, miss) ==
    \E found \in Get(Addr(t)) :
        Set(t, IF found \in {"whole", "wrong"}
               THEN [task[t] EXCEPT !.pc = "done", !.answer = found]
               ELSE [task[t] EXCEPT !.pc = miss, !.force = found = "broken",
                                    !.answer = IF miss = "done" THEN "missing" ELSE @])

\* A miss goes to the remote, where there is one and the load may wait.
Beyond(t) == IF job[t].session /\ job[t].wait THEN "join" ELSE "done"

LoadBegin(t) ==
    /\ At(t, "load", "start")
    /\ task' = [task EXCEPT ![t].pc = "probe", ![t].landed = landed]
    /\ UNCHANGED <<storeVars, writeVars, flights, job, bounds>>

LoadProbe(t) ==
    /\ At(t, "load", "probe")
    /\ Probed(t, IF job[t].wait THEN "flying" ELSE "done")
    /\ UNCHANGED <<storeVars, writeVars, flights, job, bounds>>

LoadInFlight_Counts(t) ==
    /\ At(t, "load", "flying")
    /\ task' = IF inFlight[Addr(t)] # NoTask
               THEN [task EXCEPT ![t].pc = "await", ![t].lead = inFlight[Addr(t)]]
               ELSE [task EXCEPT ![t].pc = "compare", ![t].landed = landed]
    /\ UNCHANGED <<storeVars, writeVars, flights, job, bounds>>

\* stored_since: a store in flight is waited for, else the count is compared.
LoadInFlight(t) ==
    /\ At(t, "load", "flying")
    /\ task' = IF inFlight[Addr(t)] # NoTask
               THEN [task EXCEPT ![t].pc = "await", ![t].lead = inFlight[Addr(t)]]
               ELSE [task EXCEPT ![t].pc = "compare"]
    /\ UNCHANGED <<storeVars, writeVars, flights, job, bounds>>

LoadAwaited(t) ==
    /\ At(t, "load", "await") /\ LeadGone(t)
    /\ To(t, "again")
    /\ UNCHANGED <<storeVars, writeVars, flights, job, bounds>>

LoadCompare(t) ==
    /\ At(t, "load", "compare")
    /\ Set(t, IF landed # task[t].landed THEN [task[t] EXCEPT !.pc = "again"]
              ELSE [task[t] EXCEPT !.pc = Beyond(t),
                                   !.answer = IF Beyond(t) = "done" THEN "missing" ELSE @])
    /\ UNCHANGED <<storeVars, writeVars, flights, job, bounds>>

LoadAgain(t) ==
    /\ At(t, "load", "again")
    /\ Probed(t, Beyond(t))
    /\ UNCHANGED <<storeVars, writeVars, flights, job, bounds>>

FlightOf(t) == Key(Addr(t), job[t].trust)
Leads(t) == flights[FlightOf(t)].leader = t

\* join_read_flight: the first leads; a follower that finds no channel makes
\* one outside the lock and looks again.
Join(t) ==
    LET flight == flights[FlightOf(t)] IN
    /\ job[t].op = "load" /\ task[t].pc \in {"join", "channel"}
    /\ \/ /\ flight.leader = NoTask
          /\ flights' = [flights EXCEPT ![FlightOf(t)] = [leader |-> t, open |-> FALSE]]
          /\ task' = [task EXCEPT ![t].pc = "fetch", ![t].channel = "pending"]
       \/ /\ flight.leader # NoTask /\ (flight.open \/ task[t].pc = "channel")
          /\ flights' = [flights EXCEPT ![FlightOf(t)].open = TRUE]
          /\ task' = [task EXCEPT ![t].pc = "follow", ![t].lead = flight.leader]
       \/ /\ flight.leader # NoTask /\ ~flight.open /\ task[t].pc = "join"
          /\ To(t, "channel")
          /\ UNCHANGED flights
    /\ UNCHANGED <<storeVars, writeVars, job, bounds>>

FetchFailed(t) == [task[t] EXCEPT !.pc = "close", !.fetched = "failed", !.answer = "failed"]

Fetched(t, payload) ==
    [task[t] EXCEPT !.pc = IF task[t].force THEN "put" ELSE IF job[t].cache THEN "find" ELSE "close",
                    !.fetched = "ok", !.payload = payload, !.answer = payload,
                    !.durable = TRUE, !.flag = TRUE]

\* fetch_remote: what an untrusted remote sends is checked; of what a trusted
\* one sends only the sizes, and that it expands, which a wrong payload may not.
\* What fails the check is healed once and fetched again.
Fetch(t) ==
    LET served == remote[Addr(t)] IN
    /\ At(t, "load", "fetch")
    /\ \/ /\ Fine /\ served = Missing
          /\ Set(t, FetchFailed(t))
       \/ /\ Fine /\ (served = "whole" \/ (job[t].trust /\ served = "wrong"))
          /\ Set(t, Fetched(t, served))
       \/ /\ Fine /\ served \notin {Missing, "whole"}
          /\ Set(t, IF task[t].healed THEN FetchFailed(t) ELSE [task[t] EXCEPT !.pc = "heal"])
       \/ /\ Mishap
          /\ Set(t, FetchFailed(t))
    /\ UNCHANGED <<storeVars, writeVars, flights, job>>

\* heal_on_receipt: the server heals the payload or does not.
Heal(t) ==
    /\ At(t, "load", "heal")
    /\ \/ /\ remote' = [remote EXCEPT ![Addr(t)] = "whole"]
          /\ task' = [task EXCEPT ![t].pc = "fetch", ![t].healed = TRUE]
       \/ /\ UNCHANGED remote
          /\ Set(t, FetchFailed(t))
    /\ UNCHANGED <<local, keys, writeVars, flights, job, bounds>>

Close_KeepsFlight(t) ==
    /\ At(t, "load", "close")
    /\ IF Leads(t) /\ task[t].answer # "dropped"
       THEN /\ flights' = [flights EXCEPT ![FlightOf(t)] = NoFlight]
            /\ To(t, IF flights[FlightOf(t)].open THEN "send" ELSE "done")
       ELSE To(t, "done") /\ UNCHANGED flights
    /\ UNCHANGED <<storeVars, writeVars, job, bounds>>

\* The end of a flight: its entry is removed, then its outcome is sent.  A
\* leader that was dropped sends nothing, and its channel closes.
Close(t) ==
    /\ At(t, "load", "close")
    /\ IF Leads(t)
       THEN /\ flights' = [flights EXCEPT ![FlightOf(t)] = NoFlight]
            /\ task' = [task EXCEPT
                  ![t].pc = IF task[t].answer # "dropped" /\ flights[FlightOf(t)].open
                            THEN "send" ELSE "done",
                  ![t].channel = IF task[t].answer = "dropped" THEN "closed" ELSE @]
       ELSE To(t, "done") /\ UNCHANGED flights
    /\ UNCHANGED <<storeVars, writeVars, job, bounds>>

Send(t) ==
    /\ At(t, "load", "send")
    /\ task' = [task EXCEPT ![t].pc = "done", ![t].channel = "sent"]
    /\ UNCHANGED <<storeVars, writeVars, flights, job, bounds>>

FollowFlight_AnyError(t) ==
    LET lead == task[task[t].lead] IN
    /\ At(t, "load", "follow") /\ lead.channel # "pending"
    /\ Set(t, IF lead.channel = "closed" THEN [task[t] EXCEPT !.pc = "join"]
              ELSE IF lead.fetched = "ok"
                   THEN [task[t] EXCEPT !.pc = "done", !.answer = lead.payload, !.fetched = "shared"]
              ELSE [task[t] EXCEPT !.pc = "done", !.answer = "failed"])
    /\ UNCHANGED <<storeVars, writeVars, flights, job, bounds>>

\* A follower takes the outcome, but an error only of its own address; one
\* whose leader is gone joins again.
FollowFlight(t) ==
    LET lead == task[task[t].lead]
        own == Addr(task[t].lead) = Addr(t)
    IN
    /\ At(t, "load", "follow") /\ lead.channel # "pending"
    /\ Set(t, IF lead.channel = "closed" THEN [task[t] EXCEPT !.pc = "join"]
              ELSE IF lead.fetched = "ok"
                   THEN [task[t] EXCEPT !.pc = "done", !.answer = lead.payload, !.fetched = "shared"]
              ELSE IF own THEN [task[t] EXCEPT !.pc = "done", !.answer = "failed"]
              ELSE [task[t] EXCEPT !.pc = "alone"])
    /\ UNCHANGED <<storeVars, writeVars, flights, job, bounds>>

LoadAlone(t) ==
    /\ At(t, "load", "alone")
    /\ \E found \in Get(Addr(t)) :
        Set(t, IF found \in {"whole", "wrong"}
               THEN [task[t] EXCEPT !.pc = "done", !.answer = found]
               ELSE [task[t] EXCEPT !.pc = "fetch"])
    /\ UNCHANGED <<storeVars, writeVars, flights, job, bounds>>

-----------------------------------------------------------------------------
(***************************************************************************)
(* A call dropped where it awaits.  The spawned tasks of a tracker run on. *)
(***************************************************************************)

Awaits ==
    {"start", "query", "waiting", "resolve", "copy", "prepare", "upload", "find", "put",
     "publish", "name", "probe", "await", "again", "fetch", "heal", "follow", "alone"}

Dropped(t, r) ==
    IF r.pc \notin Awaits \/ r.spawned THEN r
    ELSE [r EXCEPT !.answer = "dropped",
                   !.pc = IF r.token = "held" THEN "unguard"
                          ELSE IF job[t].op = "load" THEN "close" ELSE "done"]

\* The chunks of a list are dropped with it.
Drop(t) ==
    /\ task[t].pc \in Awaits /\ ~task[t].spawned
    /\ task[t].pc = "start" => job[t].leaves # {}
    /\ \A u \in Task : t \notin job[u].leaves
    /\ Mishap
    /\ task' = [u \in Task |-> IF u = t \/ u \in job[t].leaves THEN Dropped(u, task[u]) ELSE task[u]]
    /\ UNCHANGED <<storeVars, writeVars, flights, job>>

-----------------------------------------------------------------------------
StoreStep(t) ==
    \/ StoreBegin(t) \/ StoreQuery(t) \/ StoreGuard(t) \/ StoreInherit(t)
    \/ Dispatch(t) \/ DispatchResolve(t) \/ Follow(t)
    \/ BodyBegin(t) \/ BodyCopy(t) \/ BodyPrepare(t) \/ BodyUpload(t)
    \/ GuardCount(t) \/ GuardRemove(t) \/ Publish(t) \/ PublishLocal(t)
    \/ RecordError(t) \/ Dec(t) \/ Notify(t)

LoadStep(t) ==
    \/ LoadBegin(t) \/ LoadProbe(t) \/ LoadInFlight(t) \/ LoadAwaited(t)
    \/ LoadCompare(t) \/ LoadAgain(t) \/ Join(t) \/ Fetch(t) \/ Heal(t)
    \/ Close(t) \/ Send(t) \/ FollowFlight(t) \/ LoadAlone(t)

AwaitStep(w) == AwaitBegin(w) \/ AwaitCheck(w) \/ AwaitWake(w)

Steps ==
    \/ \E t \in Task : StoreStep(t) \/ LoadStep(t) \/ PutFind(t) \/ PutStore(t)
    \/ \E w \in Tracker : AwaitStep(w)

Next ==
    \/ Steps
    \/ \E t \in Task : Drop(t)
    \/ \E a \in Address : Evict(a)

Spec == Init /\ [][Next]_vars
FairSpec == Spec /\ WF_vars(Steps)

-----------------------------------------------------------------------------
(***************************************************************************)
(* Properties                                                              *)
(***************************************************************************)

\* Every variable holds what its code declares; the tasks in flight on a
\* tracker are counted once each, and a guard is what STORE_IN_FLIGHT names.
TypeOK ==
    /\ local \in [Address -> Entry \cup {NoEntry}]
    /\ remote \in [Address -> Payload \cup {Missing}]
    /\ keys \in [remote : SUBSET Address, local : SUBSET Address]
    /\ landed \in 0..Cardinality(Task)
    /\ \A a \in Address, t \in Task :
        inFlight[a] = t <=> Addr(t) = a /\ task[t].token = "held"
    /\ \A w \in Tracker :
        tracker[w].count = Cardinality({t \in On(w) : task[t].spawned
                                          /\ task[t].pc \notin {"notify", "done"}})
    /\ \A k \in FlightKey : flights[k].leader \in Task \cup {NoTask}
    /\ bounds \in [mishaps : Nat, evictions : 0..MaxEvictions]

HeldLocally(a) == local[a] # NoEntry /\ local[a].payload \in {"whole", "wrong"}
HeldRemotely(a) == remote[a] # Missing

\* The durable flag of an entry is never ahead of the remote, and an entry
\* that lacks it keeps its payload, whatever the order of copies, uploads, puts
\* and evictions: what eviction frees, the remote still has.
FlagsTrue ==
    \A a \in Address : local[a] # NoEntry =>
        IF local[a].durable THEN HeldRemotely(a) ELSE local[a].payload # Missing

\* What a store told its caller stays true: content it returned Ok for, or
\* await_all did, can be read locally or from the remote from then on.  The one
\* exception is an inline store that waited for a store that then failed or was
\* dropped: it returns Ok with what it finds, and never claims durability.
WrittenHeld ==
    /\ \A t \in Task :
        /\ job[t].op = "store" /\ ~Tracked(t)
        /\ task[t].pc = "done" /\ task[t].answer = "stored"
        => \/ HeldLocally(Addr(t)) \/ HeldRemotely(Addr(t))
           \/ /\ task[t].lead # NoTask /\ ~task[t].publish
              /\ task[task[t].lead].answer \in {"failed", "dropped"}
              /\ "durable" \notin task[t].reported
    /\ \A w \in Tracker : tracker[w].pc = "ok" =>
        \A t \in On(w) : HeldLocally(Addr(t)) \/ HeldRemotely(Addr(t))

\* A key published on the remote names content the remote holds whole, the
\* chunks of a list included, whichever upload failed or lost its answer.
KeysWhole ==
    \A t \in Task : job[t].publish /\ Addr(t) \in keys.remote =>
        \A u \in {t} \cup job[t].leaves : HeldRemotely(Addr(u))

\* A load that missed gives up on the local store only when no guarded store
\* has left its payload there: STORES_LANDED moves before STORE_IN_FLIGHT
\* forgets the store, so a load sees one or the other.
LandedSeen ==
    [][\A t \in Task :
        LET a == Addr(t) IN
        /\ At(t, "load", "compare") /\ task'[t].pc \notin {"compare", "again"}
        /\ HeldLocally(a) /\ local[a].by # NoTask
        => task[local[a].by].token # "cancelled"]_vars

\* A load that does not trust the remote never gets, from its own fetch or from
\* one it shared, a payload that was not checked against its hash.
FetchChecked ==
    \A t \in Task :
        job[t].op = "load" /\ ~job[t].trust /\ task[t].fetched \in {"ok", "shared"}
            => task[t].answer \notin {"wrong", "broken"}

\* A load fails only when a fetch of its own address failed, never because the
\* flight it joined was led for another context of the content.
FailsOwn ==
    \A t \in Task : job[t].op = "load" /\ task[t].answer = "failed" =>
        \E u \in Task : job[u].op = "load" /\ Addr(u) = Addr(t) /\ task[u].fetched = "failed"

\* Every store and load returns and every await_all that is reached returns,
\* whoever they wait for is dropped or fails.
EveryCallReturns ==
    <>[](/\ \A t \in Task : job[t].op # "none" => task[t].pc = "done"
         /\ \A w \in Tracker : On(w) # {} =>
                \/ tracker[w].pc \in {"ok", "failed"}
                \/ \E t \in On(w) : task[t].answer = "dropped")

=============================================================================
