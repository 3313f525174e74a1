------------------------ MODULE FragmentStoreProofs ------------------------
(***************************************************************************)
(* The proofs about stores and loads of fragments, for every number of     *)
(* tasks, addresses and trackers, every scene and every bound: what a task *)
(* takes to be on the remote is there, whatever fails, is dropped or loses *)
(* its answer; what a load gets from a fetch was checked; and a load       *)
(* misses no guarded store.                                                *)
(***************************************************************************)
EXTENDS FragmentStore, TLAPS

\* The prover of a leaf that names none.
USE ZenonT(30)

-----------------------------------------------------------------------------
(***************************************************************************)
(* The inductive invariant                                                 *)
(***************************************************************************)

\* Where a task is.
Places ==
    {"start", "acquire", "query", "guard", "waiting", "body", "resolve", "follow", "copy", "prepare",
     "upload", "find", "put", "unguard", "unlock", "publish", "name", "report", "dec", "notify",
     "done", "probe", "flying", "await", "compare", "again", "join", "channel", "fetch", "heal",
     "close", "send", "alone"}

\* What a task is while nothing was fetched for it, and once its guard is gone.
Before == {"start", "probe", "flying", "await", "compare", "again", "join", "channel", "fetch",
           "heal", "follow", "alone"}
Released == {"publish", "name", "report", "dec", "notify", "done"}

\* What a task comes to, what a query shows it, and what is known of a task.
Answers == {"none", "stored", "failed", "dropped", "missing"} \cup Payload
Seen == [match : {"none", "full", "partial"}, source : Address \cup {NoTask},
         local : BOOLEAN, durable : BOOLEAN]
Record ==
    [pc : Places, seen : Seen, token : {"none", "held", "cancelled"}, lead : Task \cup {NoTask},
     landed : Nat, payload : Payload, local : BOOLEAN, durable : BOOLEAN, flag : BOOLEAN,
     publish : BOOLEAN, published : BOOLEAN, throttled : BOOLEAN, spawned : BOOLEAN,
     force : BOOLEAN, healed : BOOLEAN, fetched : {"no", "ok", "shared", "failed"},
     channel : {"pending", "closed", "sent"}, reported : SUBSET {"local", "durable"},
     answer : Answers]

\* The types.
Types ==
    /\ local \in [Address -> Entry \cup {NoEntry}]
    /\ remote \in [Address -> Payload \cup {Missing}]
    /\ keys \in [remote : SUBSET Address, local : SUBSET Address]
    /\ inFlight \in [Address -> Task \cup {NoTask}]
    /\ landed \in Nat
    /\ flights \in [FlightKey -> [leader : Task \cup {NoTask}, open : BOOLEAN]]
    /\ job \in [Task -> Job]
    /\ task \in [Task -> Record]

\* What the jobs are, which no step changes.
JobsAgree ==
    \A t, u \in {v \in Task : job[v].publish} : job[t].addr = job[u].addr =>
        {job[c].addr : c \in job[t].leaves} = {job[c].addr : c \in job[u].leaves}

\* What task t, in the state r, takes to be on the remote is there.
Claims(t, r) ==
    /\ r.durable \/ r.flag \/ "durable" \in r.reported => HeldRemotely(Addr(t))
    /\ r.seen.durable => r.seen.source \in Address /\ HeldRemotely(r.seen.source)
    /\ r.publish => job[t].publish /\ \A c \in job[t].leaves : HeldRemotely(Addr(c))

\* The same, with what the place of the task adds.
Placed(t, r) ==
    /\ Claims(t, r)
    /\ r.pc = "put" /\ r.durable => r.flag
    /\ r.pc = "copy" => r.seen.durable
    /\ r.pc = "publish" => job[t].publish

\* The guard of task t: only a store has one, and it is counted before it goes.
Guarded(t, r) ==
    /\ r.token # "none" => job[t].op = "store"
    /\ r.pc \in {"unguard", "unlock"} => r.token = "held"
    /\ r.token = "cancelled" => r.pc \in Released

\* What a load knows of its fetch.
Loading(t, r) ==
    job[t].op = "load" =>
        /\ r.landed <= landed
        /\ r.fetched # "no" => r.pc \notin Before
        /\ r.pc \in {"find", "put"} => r.fetched = "ok"
        /\ r.pc \in {"close", "send"} /\ r.answer # "dropped" => r.fetched \in {"ok", "failed"}
        /\ r.pc = "send" => r.answer # "dropped"
        /\ r.channel = "sent" => r.fetched \in {"ok", "failed"} /\ r.pc = "done"
        /\ r.pc = "follow" => /\ r.lead \in Task /\ job[r.lead].op = "load"
                              /\ FlightOf(r.lead) = FlightOf(t)
        /\ ~job[t].trust /\ r.fetched = "ok" => r.payload = "whole"
        /\ ~job[t].trust /\ r.fetched \in {"ok", "shared"} => r.answer \notin {"wrong", "broken"}

\* A fetch of the address failed.
FailedAt(a) == \E u \in Task : job[u].op = "load" /\ Addr(u) = a /\ task[u].fetched = "failed"

\* A flight is led by a load of its content that trusts the remote as much.
Flights ==
    \A k \in FlightKey : flights[k].leader # NoTask =>
        job[flights[k].leader].op = "load" /\ FlightOf(flights[k].leader) = k

\* A load that missed the local store, and finds there what a guarded store
\* left since, finds that store counted once its guard is about to go.
Counted(t) ==
    LET a == Addr(t) IN
    job[t].op = "load" /\ task[t].pc \in {"flying", "compare"} /\ HeldLocally(a)
        => \A u \in Task :
              local[a].by = u /\ (task[u].token = "cancelled" \/ task[u].pc = "unlock")
                  => task[t].landed < landed

\* The inductive invariant.
Inv ==
    /\ Types /\ JobsAgree /\ FlagsTrue /\ KeysWhole /\ Flights
    /\ \A t \in Task :
        /\ Placed(t, task[t]) /\ Guarded(t, task[t]) /\ Loading(t, task[t])
        /\ job[t].op = "load" /\ task[t].answer = "failed" => FailedAt(Addr(t))
        /\ Counted(t)

-----------------------------------------------------------------------------
(***************************************************************************)
(* What a step of a task keeps                                             *)
(***************************************************************************)

\* A guard that is gone, or that has only its entry left to remove.
Gone(r) == r.token = "cancelled" \/ r.pc = "unlock"

\* The part of the invariant that is about one task.
Known(t) ==
    /\ Placed(t, task[t]) /\ Guarded(t, task[t]) /\ Loading(t, task[t])
    /\ job[t].op = "load" /\ task[t].answer = "failed" => FailedAt(Addr(t))

\* What the remote holds it goes on holding.
RemoteKeeps == \A a \in Address : HeldRemotely(a) => HeldRemotely(a)'

\* A task in the state q, after p, still knows what it may.
Advances(t) ==
    LET p == task[t]
        q == task'[t]
    IN
    /\ q \in Record
    /\ Placed(t, task[t])' /\ Guarded(t, task[t])' /\ Loading(t, task[t])'
    /\ p.fetched = "failed" => q.fetched = "failed"
    /\ job[t].op = "load" /\ q.answer = "failed" => q.fetched = "failed" \/ FailedAt(Addr(t))

\* The tasks D advance and the others stay as they are.
Others(D) == task' \in [Task -> Record] /\ \A u \in Task \ D : task'[u] = task[u]

\* A task that does not move goes on being right about the remote.
LEMMA StaysPlaced ==
    ASSUME Types, NEW t \in Task, Placed(t, task[t]), job' = job, RemoteKeeps, task'[t] = task[t]
    PROVE  Placed(t, task[t])'
<1>1. Addr(t) \in Address /\ Addr(t)' = Addr(t)
  BY DEF Types, Job, Addr
<1>2. \A c \in job[t].leaves : Addr(c) \in Address /\ Addr(c)' = Addr(c)
  BY DEF Types, Job, Addr
<1> QED
  BY <1>1, <1>2 DEF Placed, Claims, RemoteKeeps

\* A load that does not move goes on knowing what it knew.
LEMMA StaysLoading ==
    ASSUME Types, NEW t \in Task, Loading(t, task[t]), job' = job, landed' \in Nat,
           landed <= landed', task'[t] = task[t]
    PROVE  Loading(t, task[t])'
<1>1. task[t].landed \in Nat /\ landed \in Nat
  BY DEF Types, Record
<1>2. task[t].landed <= landed => task[t].landed <= landed'
  BY <1>1, SMT
<1>3. \A u \in Task : FlightOf(u)' = FlightOf(u)
  BY DEF FlightOf, Addr, Key
<1> QED
  BY <1>2, <1>3 DEF Loading

\* A fetch that failed stays failed.
LEMMA FailedStays ==
    ASSUME job' = job, NEW a, FailedAt(a),
           \A u \in Task : task[u].fetched = "failed" => task'[u].fetched = "failed"
    PROVE  FailedAt(a)'
BY DEF FailedAt, Addr

\* When the tasks of D advance and the others stay, all that is known of tasks is
\* kept.
LEMMA TasksKeep ==
    ASSUME Types, \A t \in Task : Known(t), job' = job, landed' \in Nat,
           landed <= landed', RemoteKeeps,
           NEW D \in SUBSET Task, Others(D), \A t \in D : Advances(t)
    PROVE  \A t \in Task : Known(t)'
<1>1. \A u \in Task : task[u].fetched = "failed" => task'[u].fetched = "failed"
  BY DEF Others, Advances
<1> SUFFICES ASSUME NEW t \in Task PROVE Known(t)'
  OBVIOUS
<1>2. CASE t \in D
  <2>1. Advances(t) /\ Known(t)
    BY <1>2
  <2>2. Placed(t, task[t])' /\ Guarded(t, task[t])' /\ Loading(t, task[t])'
    BY <2>1 DEF Advances
  <2>3. ASSUME job[t].op = "load", task'[t].answer = "failed"
        PROVE  FailedAt(Addr(t))'
    <3>1. CASE task'[t].fetched = "failed"
      BY <3>1, <2>3 DEF FailedAt, Addr
    <3>2. CASE FailedAt(Addr(t))
      BY <3>2, <1>1, FailedStays DEF Addr
    <3> QED
      BY <3>1, <3>2, <2>1, <2>3 DEF Advances
  <2> QED
    BY <2>2, <2>3 DEF Known
<1>3. CASE t \notin D
  <2>1. task'[t] = task[t] /\ Known(t)
    BY <1>3 DEF Others
  <2>2. Placed(t, task[t])' /\ Loading(t, task[t])'
    BY <2>1, StaysPlaced, StaysLoading DEF Known
  <2>3. Guarded(t, task[t])'
    BY <2>1 DEF Known, Guarded
  <2>4. ASSUME job[t].op = "load", task'[t].answer = "failed"
        PROVE  FailedAt(Addr(t))'
    BY <2>1, <2>4, <1>1, FailedStays DEF Known, Addr
  <2> QED
    BY <2>2, <2>3, <2>4 DEF Known
<1> QED
  BY <1>2, <1>3

\* A step that moves no guard and no entry leaves every load as counted as it was.
LEMMA CountedKeeps ==
    ASSUME Types, \A t \in Task : Counted(t), job' = job, landed' \in Nat, landed <= landed',
           NEW D \in SUBSET Task, Others(D),
           \A u \in D : Gone(task'[u]) => Gone(task[u]),
           \A u \in D : job[u].op = "load" /\ task'[u].pc \in {"flying", "compare"} =>
               task[u].pc \in {"flying", "compare"} /\ task'[u].landed = task[u].landed,
           \A a \in Address, u \in Task : HeldLocally(a)' /\ local'[a].by = u /\ Gone(task'[u]) =>
               HeldLocally(a) /\ local[a].by = u
    PROVE  \A t \in Task : Counted(t)'
<1> SUFFICES ASSUME NEW t \in Task, job[t].op = "load", task'[t].pc \in {"flying", "compare"},
                    HeldLocally(Addr(t))', NEW u \in Task, local'[Addr(t)].by = u, Gone(task'[u])
             PROVE  task'[t].landed < landed'
  BY DEF Counted, Gone, Addr
<1>1. Addr(t) \in Address
  BY DEF Types, Job, Addr
<1>2. HeldLocally(Addr(t)) /\ local[Addr(t)].by = u
  BY <1>1 DEF Addr, HeldLocally
<1>3. Gone(task[u])
  BY DEF Others
<1>4. task[t].pc \in {"flying", "compare"} /\ task'[t].landed = task[t].landed
  BY DEF Others
<1>5. task[t].landed < landed
  BY <1>2, <1>3, <1>4 DEF Counted, Gone
<1> QED
  BY <1>4, <1>5, SMT DEF Types, Record

\* A step that publishes nothing keeps the published keys whole.
LEMMA KeysStay ==
    ASSUME Types, KeysWhole, keys'.remote = keys.remote, job' = job, RemoteKeeps
    PROVE  KeysWhole'
<1> SUFFICES ASSUME NEW t \in Task, job[t].publish, Addr(t) \in keys.remote,
                    NEW u \in {t} \cup job[t].leaves
             PROVE  HeldRemotely(Addr(u))'
  BY DEF KeysWhole, Addr
<1>1. u \in Task /\ Addr(u) \in Address /\ Addr(u)' = Addr(u)
  BY DEF Types, Job, Addr
<1> QED
  BY <1>1 DEF KeysWhole, RemoteKeeps

\* A step that changes no flight.
LEMMA FlightsStay ==
    ASSUME Flights, flights' = flights, job' = job
    PROVE  Flights'
BY DEF Flights, FlightOf, Key, Addr

\* No step changes a job.
LEMMA JobsStay ==
    ASSUME JobsAgree, job' = job
    PROVE  JobsAgree'
<1>1. {v \in Task : job'[v].publish} = {v \in Task : job[v].publish}
  OBVIOUS
<1>2. \A t, u \in {v \in Task : job'[v].publish} : job'[t].addr = job'[u].addr =>
          {job'[c].addr : c \in job'[t].leaves} = {job'[c].addr : c \in job'[u].leaves}
  BY <1>1, SMT DEF JobsAgree
<1> QED
  BY <1>2 DEF JobsAgree

\* A step that does not touch the local store keeps its flags true.
LEMMA FlagsStay ==
    ASSUME Types, FlagsTrue, local' = local, RemoteKeeps
    PROVE  FlagsTrue'
BY DEF FlagsTrue, RemoteKeeps

\* What a step of one task is, for the task and for what counts on it.
Moves(t) ==
    /\ Others({t}) /\ Advances(t)
    /\ Gone(task'[t]) => Gone(task[t])
    /\ job[t].op = "load" /\ task'[t].pc \in {"flying", "compare"} =>
          task[t].pc \in {"flying", "compare"} /\ task'[t].landed = task[t].landed

\* The invariant, with what is about tasks put together.
LEMMA InvParts ==
    Inv <=> /\ Types /\ JobsAgree /\ FlagsTrue /\ KeysWhole /\ Flights
            /\ \A t \in Task : Known(t)
            /\ \A t \in Task : Counted(t)
BY DEF Inv, Known

\* A step of one task that keeps the local store and the count keeps the
\* invariant, if it keeps the keys whole and the flights led.
LEMMA MovesKeeps ==
    ASSUME Inv, NEW t \in Task, Moves(t), job' = job, landed' = landed, local' = local, RemoteKeeps,
           remote' \in [Address -> Payload \cup {Missing}],
           keys' \in [remote : SUBSET Address, local : SUBSET Address], KeysWhole',
           inFlight' \in [Address -> Task \cup {NoTask}],
           flights' \in [FlightKey -> [leader : Task \cup {NoTask}, open : BOOLEAN]], Flights'
    PROVE  Inv'
<1>1. Types /\ JobsAgree /\ FlagsTrue /\ (\A u \in Task : Known(u)) /\ (\A u \in Task : Counted(u))
  BY InvParts
<1>2. landed' \in Nat /\ landed <= landed'
  BY <1>1, SMT DEF Types
<1>3. \A u \in Task : Known(u)'
  BY <1>1, <1>2, TasksKeep DEF Moves
<1>4. \A u \in Task : Counted(u)'
  <2>1. \A u \in {t} : Gone(task'[u]) => Gone(task[u])
    BY DEF Moves
  <2>2. \A u \in {t} : job[u].op = "load" /\ task'[u].pc \in {"flying", "compare"} =>
               task[u].pc \in {"flying", "compare"} /\ task'[u].landed = task[u].landed
    BY DEF Moves
  <2>3. \A a \in Address, u \in Task : HeldLocally(a)' /\ local'[a].by = u /\ Gone(task'[u]) =>
               HeldLocally(a) /\ local[a].by = u
    BY DEF HeldLocally
  <2>4. {t} \in SUBSET Task /\ Others({t})
    BY DEF Moves
  <2> QED
    BY <1>1, <1>2, <2>1, <2>2, <2>3, <2>4, CountedKeeps
<1>5. Types'
  BY <1>1, <1>2 DEF Types, Moves, Others
<1>6. JobsAgree' /\ FlagsTrue'
  BY <1>1, JobsStay, FlagsStay
<1> QED
  BY <1>3, <1>4, <1>5, <1>6 DEF Inv, Known

\* A step of one task that touches nothing but the task and the guards.
LEMMA TaskOnly ==
    ASSUME Inv, NEW t \in Task, Moves(t), UNCHANGED <<local, remote, keys, landed, flights, job>>,
           inFlight' \in [Address -> Task \cup {NoTask}]
    PROVE  Inv'
<1>1. Types /\ KeysWhole /\ Flights
  BY DEF Inv
<1>2. RemoteKeeps
  BY DEF RemoteKeeps, HeldRemotely
<1>3. KeysWhole' /\ Flights'
  BY <1>1, <1>2, KeysStay, FlightsStay
<1> QED
  BY <1>1, <1>2, <1>3, MovesKeeps DEF Types

\* Setting one task leaves the others alone.
LEMMA SetOne ==
    ASSUME Types, NEW t \in Task, NEW q \in Record, task' = [task EXCEPT ![t] = q]
    PROVE  Others({t}) /\ task'[t] = q
BY DEF Types, Others

\* A store's step: what it takes to be on the remote, and its guard.
LEMMA StoreMoves ==
    ASSUME Types, NEW t \in Task, job[t].op = "store", NEW q \in Record,
           task' = [task EXCEPT ![t] = q],
           job' = job, Placed(t, task[t])', Guarded(t, q), Gone(q) => Gone(task[t]),
           q.fetched = task[t].fetched
    PROVE  Moves(t)
<1>1. Others({t}) /\ task'[t] = q
  BY SetOne
<1>2. Guarded(t, task[t])' /\ Loading(t, task[t])'
  BY <1>1 DEF Guarded, Loading
<1> QED
  BY <1>1, <1>2 DEF Moves, Advances

\* What a task claims stays true while the remote keeps what it holds.
LEMMA ClaimsStay ==
    ASSUME Types, NEW t \in Task, NEW r, Claims(t, r), job' = job, RemoteKeeps, task'[t] = r
    PROVE  Claims(t, task[t])'
<1>1. Addr(t) \in Address /\ Addr(t)' = Addr(t)
  BY DEF Types, Job, Addr
<1>2. \A c \in job[t].leaves : Addr(c) \in Address /\ Addr(c)' = Addr(c)
  BY DEF Types, Job, Addr
<1> QED
  BY <1>1, <1>2 DEF Claims, RemoteKeeps

\* A store's step that leaves the stores, the count and the flights alone.
LEMMA StoreSteps ==
    ASSUME Inv, NEW t \in Task, job[t].op = "store", NEW q \in Record,
           task' = [task EXCEPT ![t] = q],
           UNCHANGED <<local, remote, keys, landed, flights, job>>,
           inFlight' \in [Address -> Task \cup {NoTask}],
           Placed(t, q), Guarded(t, q), Gone(q) => Gone(task[t]), q.fetched = task[t].fetched
    PROVE  Inv'
<1>1. Types
  BY DEF Inv
<1>2. task'[t] = q
  BY <1>1, SetOne
<1>3. RemoteKeeps
  BY DEF RemoteKeeps, HeldRemotely
<1>4. Placed(t, task[t])'
  <2>1. Claims(t, task[t])'
    BY <1>1, <1>2, <1>3, ClaimsStay DEF Placed
  <2> QED
    BY <1>2, <2>1 DEF Placed
<1>5. Moves(t)
  BY <1>1, <1>4, StoreMoves
<1> QED
  BY <1>5, TaskOnly

-----------------------------------------------------------------------------
(***************************************************************************)
(* The steps of a store                                                    *)
(***************************************************************************)

\* A store that returns claims no more than it knew, and reports durability only
\* where it is durable.
LEMMA ReturnIs ==
    ASSUME Types, NEW t \in Task, NEW r \in Record, Claims(t, r),
           r.token # "none" => job[t].op = "store"
    PROVE  /\ Return(t, r) \in Record
           /\ Placed(t, Return(t, r)) /\ Guarded(t, Return(t, r))
           /\ Gone(Return(t, r)) => r.token = "cancelled"
           /\ Return(t, r).fetched = r.fetched
<1> DEFINE p == IF r.spawned THEN "report"
                ELSE IF r.answer = "stored" /\ job[t].publish THEN "publish" ELSE "done"
           s == IF r.answer = "stored" /\ ~r.spawned
                THEN {f \in {"local", "durable"} : r[f]} ELSE {}
           q == [r EXCEPT !.pc = p, !.reported = s]
<1>1. p \in {"report", "publish", "done"} /\ (p = "publish" => job[t].publish)
  OBVIOUS
<1>2. s \in SUBSET {"local", "durable"}
  OBVIOUS
<1>3. "durable" \in s => r["durable"]
  OBVIOUS
<1>4. Return(t, r) = q
  BY DEF Return
<1> HIDE DEF p, s
<1>5. q \in Record
  <2>1. p \in Places
    BY <1>1 DEF Places
  <2> QED
    BY <1>2, <2>1 DEF Record
<1>6. /\ q.pc = p /\ q.reported = s /\ q.token = r.token /\ q.fetched = r.fetched
      /\ q.durable = r.durable /\ q.flag = r.flag /\ q.publish = r.publish /\ q.seen = r.seen
  BY <1>1, <1>2 DEF Record
<1> HIDE DEF q
<1>7. Claims(t, q)
  BY <1>3, <1>6 DEF Claims
<1>8. Placed(t, q)
  BY <1>1, <1>6, <1>7 DEF Placed
<1>9. Guarded(t, q) /\ (Gone(q) => r.token = "cancelled")
  BY <1>1, <1>6 DEF Guarded, Gone, Released
<1> QED
  BY <1>4, <1>5, <1>6, <1>8, <1>9

\* The same of a store that may have a guard to drop.
LEMMA FinishIs ==
    ASSUME Types, NEW t \in Task, NEW r \in Record, Claims(t, r),
           r.token # "none" => job[t].op = "store"
    PROVE  /\ Finish(t, r) \in Record
           /\ Placed(t, Finish(t, r)) /\ Guarded(t, Finish(t, r))
           /\ Gone(Finish(t, r)) => r.token = "cancelled"
           /\ Finish(t, r).fetched = r.fetched
<1>1. CASE r.token = "held"
  <2> DEFINE q == [r EXCEPT !.pc = "unguard"]
  <2>1. Finish(t, r) = q
    BY <1>1 DEF Finish
  <2>2. q \in Record
    <3>1. "unguard" \in Places
      BY DEF Places
    <3> QED
      BY <3>1 DEF Record
  <2>3. /\ q.pc = "unguard" /\ q.token = r.token /\ q.fetched = r.fetched /\ q.reported = r.reported
        /\ q.durable = r.durable /\ q.flag = r.flag /\ q.publish = r.publish /\ q.seen = r.seen
    BY DEF Record
  <2> HIDE DEF q
  <2>4. Placed(t, q)
    BY <2>3 DEF Placed, Claims
  <2>5. Guarded(t, q) /\ ~Gone(q)
    BY <1>1, <2>3 DEF Guarded, Gone
  <2> QED
    BY <2>1, <2>2, <2>3, <2>4, <2>5
<1>2. CASE r.token # "held"
  BY <1>2, ReturnIs DEF Finish
<1> QED
  BY <1>1, <1>2

\* A query that shows an entry as durable is right about the remote.
LEMMA QueryTrue ==
    ASSUME Types, FlagsTrue, NEW a \in Address, NEW seen \in Query(a) \cup {Unseen}
    PROVE  /\ seen \in Seen
           /\ seen.durable => seen.source \in Address /\ HeldRemotely(seen.source)
           /\ FullDurable(seen) => HeldRemotely(a)
<1>1. CASE seen = Unseen
  BY <1>1 DEF Unseen, Seen, FullDurable
<1>2. CASE seen # Unseen
  <2>1. PICK b \in Nearest(a) :
           seen = [match |-> IF b = a THEN "full" ELSE "partial", source |-> b,
                   local |-> local[b].payload # Missing, durable |-> local[b].durable]
    BY <1>2 DEF Query
  <2>2. b \in Address /\ local[b] # NoEntry
    BY DEF Nearest, Held, Same
  <2>3. local[b] \in Entry
    BY <2>2 DEF Types
  <2>4. seen.durable => HeldRemotely(b)
    BY <2>1, <2>2 DEF FlagsTrue
  <2>5. seen \in Seen
    BY <2>1, <2>2, <2>3 DEF Seen, Entry
  <2>6. seen.source = b /\ (seen.match = "full" => b = a)
    BY <2>1
  <2> QED
    BY <2>2, <2>4, <2>5, <2>6 DEF FullDurable
<1> QED
  BY <1>1, <1>2

\* A store that goes by a query claims only what the remote holds.
LEMMA SawIs ==
    ASSUME Types, FlagsTrue, NEW t \in Task, Claims(t, task[t]),
           NEW seen \in Query(Addr(t)) \cup {Unseen}
    PROVE  /\ Saw(t, seen) \in Record /\ Claims(t, Saw(t, seen))
           /\ Saw(t, seen).token = task[t].token /\ Saw(t, seen).fetched = task[t].fetched
           /\ Saw(t, seen).pc = task[t].pc
<1>1. Addr(t) \in Address /\ task[t] \in Record
  BY DEF Types, Job, Addr
<1>2. /\ seen \in Seen
      /\ seen.durable => seen.source \in Address /\ HeldRemotely(seen.source)
      /\ FullDurable(seen) => HeldRemotely(Addr(t))
  BY <1>1, QueryTrue
<1> DEFINE d == FullDurable(seen)
           l == seen.local
           q == [task[t] EXCEPT !.seen = seen, !.local = l, !.durable = d]
<1>3. d \in BOOLEAN /\ l \in BOOLEAN
  BY <1>2 DEF FullDurable, Seen
<1>4. Saw(t, seen) = q /\ (d => HeldRemotely(Addr(t)))
  BY <1>2 DEF Saw
<1> HIDE DEF d, l
<1>5. q \in Record
  BY <1>1, <1>2, <1>3 DEF Record
<1>6. /\ q.pc = task[t].pc /\ q.token = task[t].token /\ q.fetched = task[t].fetched
      /\ q.reported = task[t].reported /\ q.durable = d /\ q.flag = task[t].flag
      /\ q.publish = task[t].publish /\ q.seen = seen
  BY <1>1 DEF Record
<1> HIDE DEF q
<1>7. Claims(t, q)
  BY <1>2, <1>4, <1>6 DEF Claims
<1> QED
  BY <1>4, <1>5, <1>6, <1>7

\* What a task's step starts from.
LEMMA StepFacts ==
    ASSUME Inv, NEW t \in Task
    PROVE  /\ Types /\ FlagsTrue /\ task[t] \in Record /\ job[t] \in Job /\ Addr(t) \in Address
           /\ Placed(t, task[t]) /\ Claims(t, task[t]) /\ Guarded(t, task[t]) /\ Loading(t, task[t])
BY DEF Inv, Types, Addr, Job, Placed

\* store_fragment begins, and a list carries its key only past durable chunks.
LEMMA StoreBeginKeeps ==
    ASSUME Inv, NEW t \in Task, StoreBegin(t)
    PROVE  Inv'
<1>1. /\ Types /\ task[t] \in Record /\ job[t] \in Job /\ Claims(t, task[t]) /\ Guarded(t, task[t])
      /\ job[t].op = "store" /\ task[t].pc = "start"
  BY StepFacts DEF StoreBegin, At
<1>2. UNCHANGED <<local, remote, keys, landed, flights, job>>
      /\ inFlight' \in [Address -> Task \cup {NoTask}]
  BY <1>1 DEF StoreBegin, storeVars, writeVars, Types
<1>3. CASE \E c \in job[t].leaves : task[c].answer # "stored"
  <2> DEFINE q == [task[t] EXCEPT !.pc = "done", !.answer = "failed"]
  <2>1. task' = [task EXCEPT ![t] = q]
    BY <1>3 DEF StoreBegin, Set
  <2>2. q \in Record
    BY <1>1 DEF Record, Places, Answers
  <2>3. /\ q.pc = "done" /\ q.token = task[t].token /\ q.fetched = task[t].fetched
        /\ q.reported = task[t].reported /\ q.durable = task[t].durable /\ q.flag = task[t].flag
        /\ q.publish = task[t].publish /\ q.seen = task[t].seen
    BY <1>1 DEF Record
  <2> HIDE DEF q
  <2>4. Placed(t, q) /\ Guarded(t, q) /\ (Gone(q) => Gone(task[t]))
    BY <1>1, <2>3 DEF Placed, Claims, Guarded, Gone, Released
  <2> QED
    BY <1>1, <1>2, <2>1, <2>2, <2>3, <2>4, StoreSteps
<1>4. CASE ~\E c \in job[t].leaves : task[c].answer # "stored"
  <2> DEFINE pc == IF Tracked(t) THEN "acquire" ELSE "query"
             publish == job[t].publish /\ job[t].session /\ LeavesRemote(t)
             q == [task[t] EXCEPT !.pc = pc, !.publish = publish]
  <2>1. task' = [task EXCEPT ![t] = q]
    BY <1>4 DEF StoreBegin, Set
  <2>2. pc \in {"acquire", "query"} /\ publish \in BOOLEAN
    BY <1>1 DEF Job, LeavesRemote
  <2>3. publish => job[t].publish /\ \A c \in job[t].leaves : HeldRemotely(Addr(c))
    <3>1. \A c \in job[t].leaves : c \in Task /\ Claims(c, task[c])
      BY <1>1, StepFacts DEF Job
    <3> QED
      BY <3>1 DEF LeavesRemote, Claims
  <2> HIDE DEF pc, publish
  <2>4. q \in Record
    <3>1. pc \in Places
      BY <2>2 DEF Places
    <3> QED
      BY <1>1, <2>2, <3>1 DEF Record
  <2>5. /\ q.pc = pc /\ q.token = task[t].token /\ q.fetched = task[t].fetched
        /\ q.reported = task[t].reported /\ q.durable = task[t].durable /\ q.flag = task[t].flag
        /\ q.publish = publish /\ q.seen = task[t].seen
    BY <1>1 DEF Record
  <2> HIDE DEF q
  <2>6. Placed(t, q) /\ Guarded(t, q) /\ (Gone(q) => Gone(task[t]))
    BY <1>1, <2>2, <2>3, <2>5 DEF Placed, Claims, Guarded, Gone, Released
  <2> QED
    BY <1>1, <1>2, <2>1, <2>4, <2>5, <2>6, StoreSteps
<1> QED
  BY <1>3, <1>4

\* The first query of a store keeps the invariant.
LEMMA StoreQueryKeeps ==
    ASSUME Inv, NEW t \in Task, StoreQuery(t)
    PROVE  Inv'
<1>1. /\ Types /\ FlagsTrue /\ task[t] \in Record /\ job[t] \in Job
      /\ Claims(t, task[t]) /\ Guarded(t, task[t]) /\ job[t].op = "store" /\ task[t].pc = "query"
  BY StepFacts DEF StoreQuery, At
<1>2. UNCHANGED <<local, remote, keys, landed, flights, job>>
      /\ inFlight' \in [Address -> Task \cup {NoTask}]
  BY <1>1 DEF StoreQuery, storeVars, writeVars, Types
<1>3. PICK seen \in Query(Addr(t)) \cup {Unseen} :
         Set(t, IF FullySatisfied(t, seen)
                THEN Return(t, [Saw(t, seen) EXCEPT !.answer = "stored"])
                ELSE [Saw(t, seen) EXCEPT !.pc = IF job[t].session THEN "guard" ELSE "body"])
  BY DEF StoreQuery
<1> DEFINE s == Saw(t, seen)
<1>4. s \in Record /\ Claims(t, s) /\ s.token = task[t].token /\ s.fetched = task[t].fetched
  BY <1>1, SawIs
<1> HIDE DEF s
<1>5. CASE FullySatisfied(t, seen)
  <2> DEFINE r == [s EXCEPT !.answer = "stored"]
             q == Return(t, r)
  <2>1. r \in Record /\ Claims(t, r) /\ r.token = s.token /\ r.fetched = s.fetched
    BY <1>4 DEF Record, Answers, Claims
  <2>2. task' = [task EXCEPT ![t] = q]
    BY <1>3, <1>5 DEF Set, s
  <2> HIDE DEF r
  <2>3. /\ q \in Record /\ Placed(t, q) /\ Guarded(t, q) /\ q.fetched = r.fetched
        /\ Gone(q) => r.token = "cancelled"
    BY <1>1, <2>1, ReturnIs
  <2> HIDE DEF q
  <2> QED
    BY <1>1, <1>2, <1>4, <2>1, <2>2, <2>3, StoreSteps DEF Gone
<1>6. CASE ~FullySatisfied(t, seen)
  <2> DEFINE pc == IF job[t].session THEN "guard" ELSE "body"
             q == [s EXCEPT !.pc = pc]
  <2>1. task' = [task EXCEPT ![t] = q]
    BY <1>3, <1>6 DEF Set, s
  <2>2. pc \in {"guard", "body"} /\ pc \in Places
    BY DEF Places
  <2> HIDE DEF pc
  <2>3. q \in Record
    BY <1>4, <2>2 DEF Record
  <2>4. /\ q.pc = pc /\ q.token = s.token /\ q.fetched = s.fetched /\ q.reported = s.reported
        /\ q.durable = s.durable /\ q.flag = s.flag /\ q.publish = s.publish /\ q.seen = s.seen
    BY <1>4 DEF Record
  <2> HIDE DEF q
  <2>5. Placed(t, q) /\ Guarded(t, q) /\ (Gone(q) => Gone(task[t]))
    BY <1>1, <1>4, <2>2, <2>4 DEF Placed, Claims, Guarded, Gone, Released
  <2> QED
    BY <1>1, <1>2, <1>4, <2>1, <2>3, <2>4, <2>5, StoreSteps
<1> QED
  BY <1>5, <1>6

\* What a move to another place leaves alone.
LEMMA PcOnly ==
    ASSUME NEW p \in Record, NEW pc \in Places
    PROVE  LET q == [p EXCEPT !.pc = pc] IN
           /\ q \in Record
           /\ q.pc = pc /\ q.seen = p.seen /\ q.token = p.token /\ q.lead = p.lead
           /\ q.landed = p.landed /\ q.payload = p.payload /\ q.durable = p.durable
           /\ q.flag = p.flag /\ q.publish = p.publish /\ q.fetched = p.fetched
           /\ q.channel = p.channel /\ q.reported = p.reported /\ q.answer = p.answer
BY DEF Record

\* A store's step to a place that claims nothing more.
LEMMA PlainStep ==
    ASSUME Inv, NEW t \in Task, job[t].op = "store", NEW q \in Record,
           task' = [task EXCEPT ![t] = q],
           UNCHANGED <<local, remote, keys, landed, flights, job>>,
           inFlight' \in [Address -> Task \cup {NoTask}],
           Claims(t, q), q.pc \notin {"put", "copy", "publish", "unguard", "unlock"},
           q.token = "cancelled" => task[t].token = "cancelled" /\ q.pc \in Released,
           q.fetched = task[t].fetched
    PROVE  Inv'
<1>1. Placed(t, q) /\ Guarded(t, q) /\ (Gone(q) => Gone(task[t]))
  BY DEF Placed, Guarded, Gone
<1> QED
  BY <1>1, StoreSteps

\* A store that only moves to such a place.
LEMMA ToStep ==
    ASSUME Inv, NEW t \in Task, job[t].op = "store", NEW pc \in Places, To(t, pc),
           UNCHANGED <<local, remote, keys, landed, flights, job>>,
           inFlight' \in [Address -> Task \cup {NoTask}],
           pc \notin {"put", "copy", "publish", "unguard", "unlock"},
           pc \in Released \/ task[t].pc \notin Released
    PROVE  Inv'
<1>1. Types /\ task[t] \in Record /\ Claims(t, task[t]) /\ Guarded(t, task[t])
  BY StepFacts
<1> DEFINE q == [task[t] EXCEPT !.pc = pc]
<1>2. task' = [task EXCEPT ![t] = q]
  BY <1>1 DEF To, Types
<1>3. /\ q \in Record /\ q.pc = pc /\ q.seen = task[t].seen /\ q.token = task[t].token
      /\ q.durable = task[t].durable /\ q.flag = task[t].flag /\ q.publish = task[t].publish
      /\ q.fetched = task[t].fetched /\ q.reported = task[t].reported
  BY <1>1, PcOnly, SMT
<1> HIDE DEF q
<1>4. Claims(t, q) /\ (q.token = "cancelled" => task[t].token = "cancelled" /\ q.pc \in Released)
  BY <1>1, <1>3 DEF Claims, Guarded
<1> QED
  BY <1>2, <1>3, <1>4, PlainStep

\* stored_in_flight keeps the invariant.
LEMMA StoreGuardKeeps ==
    ASSUME Inv, NEW t \in Task, StoreGuard(t)
    PROVE  Inv'
<1>1. /\ Types /\ task[t] \in Record /\ Addr(t) \in Address /\ Claims(t, task[t])
      /\ Guarded(t, task[t]) /\ job[t].op = "store" /\ task[t].pc = "guard"
  BY StepFacts DEF StoreGuard, At
<1>2. UNCHANGED <<local, remote, keys, landed, flights, job>>
  BY DEF StoreGuard, storeVars
<1>3. task[t].token # "cancelled"
  BY <1>1 DEF Guarded, Released
<1>4. CASE inFlight[Addr(t)] = NoTask
  <2> DEFINE q == [task[t] EXCEPT !.pc = "body", !.token = "held"]
  <2>1. task' = [task EXCEPT ![t] = q] /\ inFlight' = [inFlight EXCEPT ![Addr(t)] = t]
    BY <1>1, <1>4 DEF StoreGuard, Types
  <2>2. q \in Record
    BY <1>1 DEF Record, Places
  <2>3. /\ q.pc = "body" /\ q.token = "held" /\ q.fetched = task[t].fetched
        /\ q.reported = task[t].reported /\ q.durable = task[t].durable /\ q.flag = task[t].flag
        /\ q.publish = task[t].publish /\ q.seen = task[t].seen
    BY <1>1 DEF Record
  <2> HIDE DEF q
  <2>4. Claims(t, q)
    BY <1>1, <2>3 DEF Claims
  <2>5. inFlight' \in [Address -> Task \cup {NoTask}]
    BY <1>1, <2>1 DEF Types
  <2> QED
    BY <1>1, <1>2, <2>1, <2>2, <2>3, <2>4, <2>5, PlainStep
<1>5. CASE inFlight[Addr(t)] # NoTask
  <2> DEFINE u == inFlight[Addr(t)]
             q == [task[t] EXCEPT !.pc = "waiting", !.lead = u]
  <2>1. task' = [task EXCEPT ![t] = q] /\ inFlight' = inFlight
    BY <1>1, <1>5 DEF StoreGuard, Types
  <2>2. u \in Task \cup {NoTask}
    BY <1>1 DEF Types
  <2> HIDE DEF u
  <2>3. q \in Record
    BY <1>1, <2>2 DEF Record, Places
  <2>4. /\ q.pc = "waiting" /\ q.token = task[t].token /\ q.fetched = task[t].fetched
        /\ q.reported = task[t].reported /\ q.durable = task[t].durable /\ q.flag = task[t].flag
        /\ q.publish = task[t].publish /\ q.seen = task[t].seen
    BY <1>1 DEF Record
  <2> HIDE DEF q
  <2>5. Claims(t, q)
    BY <1>1, <2>4 DEF Claims
  <2> QED
    BY <1>1, <1>2, <1>3, <2>1, <2>3, <2>4, <2>5, PlainStep DEF Types
<1> QED
  BY <1>4, <1>5

\* inherited_placement keeps the invariant: it reports what the query shows.
LEMMA StoreInheritKeeps ==
    ASSUME Inv, NEW t \in Task, StoreInherit(t)
    PROVE  Inv'
<1>1. /\ Types /\ FlagsTrue /\ task[t] \in Record /\ job[t] \in Job
      /\ Claims(t, task[t]) /\ Guarded(t, task[t]) /\ job[t].op = "store" /\ task[t].pc = "waiting"
  BY StepFacts DEF StoreInherit, At
<1>2. UNCHANGED <<local, remote, keys, landed, flights, job>>
      /\ inFlight' \in [Address -> Task \cup {NoTask}]
  BY <1>1 DEF StoreInherit, storeVars, writeVars, Types
<1>3. PICK seen \in Query(Addr(t)) \cup {Unseen} :
         Set(t, IF ~task[t].publish \/ FullDurable(seen)
                THEN Return(t, [Saw(t, seen) EXCEPT !.answer = "stored"])
                ELSE [task[t] EXCEPT !.pc = "body"])
  BY DEF StoreInherit
<1>4. CASE ~task[t].publish \/ FullDurable(seen)
  <2> DEFINE s == Saw(t, seen)
             r == [s EXCEPT !.answer = "stored"]
             q == Return(t, r)
  <2>1. s \in Record /\ Claims(t, s) /\ s.token = task[t].token /\ s.fetched = task[t].fetched
    BY <1>1, SawIs
  <2>2. task' = [task EXCEPT ![t] = q]
    BY <1>3, <1>4 DEF Set
  <2> HIDE DEF s
  <2>3. r \in Record /\ Claims(t, r) /\ r.token = s.token /\ r.fetched = s.fetched
    BY <2>1 DEF Record, Answers, Claims
  <2> HIDE DEF r
  <2>4. /\ q \in Record /\ Placed(t, q) /\ Guarded(t, q) /\ q.fetched = r.fetched
        /\ Gone(q) => r.token = "cancelled"
    BY <1>1, <2>3, ReturnIs
  <2> HIDE DEF q
  <2> QED
    BY <1>1, <1>2, <2>1, <2>2, <2>3, <2>4, StoreSteps DEF Gone
<1>5. CASE ~(~task[t].publish \/ FullDurable(seen))
  <2>1. To(t, "body") /\ "body" \in Places
    BY <1>1, <1>3, <1>5 DEF Set, To, Types, Places
  <2> QED
    BY <1>1, <1>2, <2>1, ToStep DEF Released
<1> QED
  BY <1>4, <1>5

\* store_fragment_dispatched keeps the invariant.
LEMMA DispatchKeeps ==
    ASSUME Inv, NEW t \in Task, Dispatch(t)
    PROVE  Inv'
<1>1. /\ Types /\ task[t] \in Record /\ Addr(t) \in Address /\ Claims(t, task[t])
      /\ Guarded(t, task[t]) /\ job[t].op = "store" /\ task[t].pc = "acquire"
  BY StepFacts DEF Dispatch, At
<1>2. UNCHANGED <<local, remote, keys, landed, flights, job>>
  BY DEF Dispatch, storeVars
<1>3. task[t].token # "cancelled"
  BY <1>1 DEF Guarded, Released
<1>4. CASE inFlight[Addr(t)] = NoTask
  <2> DEFINE q == [task[t] EXCEPT !.pc = "resolve", !.token = "held"]
  <2>1. task' = [task EXCEPT ![t] = q] /\ inFlight' = [inFlight EXCEPT ![Addr(t)] = t]
    BY <1>1, <1>4 DEF Dispatch, Types
  <2>2. q \in Record
    BY <1>1 DEF Record, Places
  <2>3. /\ q.pc = "resolve" /\ q.token = "held" /\ q.fetched = task[t].fetched
        /\ q.reported = task[t].reported /\ q.durable = task[t].durable /\ q.flag = task[t].flag
        /\ q.publish = task[t].publish /\ q.seen = task[t].seen
    BY <1>1 DEF Record
  <2> HIDE DEF q
  <2>4. Claims(t, q)
    BY <1>1, <2>3 DEF Claims
  <2>5. inFlight' \in [Address -> Task \cup {NoTask}]
    BY <1>1, <2>1 DEF Types
  <2> QED
    BY <1>1, <1>2, <2>1, <2>2, <2>3, <2>4, <2>5, PlainStep
<1>5. CASE inFlight[Addr(t)] # NoTask
  <2> DEFINE u == inFlight[Addr(t)]
             q == [task[t] EXCEPT !.pc = "follow", !.spawned = TRUE, !.lead = u]
  <2>1. task' = [task EXCEPT ![t] = q] /\ inFlight' = inFlight
    BY <1>1, <1>5 DEF Dispatch, Types
  <2>2. u \in Task \cup {NoTask}
    BY <1>1 DEF Types
  <2> HIDE DEF u
  <2>3. q \in Record
    BY <1>1, <2>2 DEF Record, Places
  <2>4. /\ q.pc = "follow" /\ q.token = task[t].token /\ q.fetched = task[t].fetched
        /\ q.reported = task[t].reported /\ q.durable = task[t].durable /\ q.flag = task[t].flag
        /\ q.publish = task[t].publish /\ q.seen = task[t].seen
    BY <1>1 DEF Record
  <2> HIDE DEF q
  <2>5. Claims(t, q)
    BY <1>1, <2>4 DEF Claims
  <2> QED
    BY <1>1, <1>2, <1>3, <2>1, <2>3, <2>4, <2>5, PlainStep DEF Types
<1> QED
  BY <1>4, <1>5

\* The query of a dispatched store keeps the invariant.
LEMMA DispatchResolveKeeps ==
    ASSUME Inv, NEW t \in Task, DispatchResolve(t)
    PROVE  Inv'
<1>1. /\ Types /\ FlagsTrue /\ task[t] \in Record /\ job[t] \in Job
      /\ Claims(t, task[t]) /\ Guarded(t, task[t]) /\ job[t].op = "store" /\ task[t].pc = "resolve"
  BY StepFacts DEF DispatchResolve, At
<1>2. UNCHANGED <<local, remote, keys, landed, flights, job>>
      /\ inFlight' \in [Address -> Task \cup {NoTask}]
  BY <1>1 DEF DispatchResolve, storeVars, Types
<1>3. PICK seen \in Query(Addr(t)) \cup {Unseen} :
         IF FullySatisfied(t, seen)
         THEN Set(t, Finish(t, [Saw(t, seen) EXCEPT !.answer = "stored"]))
         ELSE Set(t, [Saw(t, seen) EXCEPT !.pc = "body", !.spawned = TRUE])
  BY DEF DispatchResolve
<1> DEFINE s == Saw(t, seen)
<1>4. s \in Record /\ Claims(t, s) /\ s.token = task[t].token /\ s.fetched = task[t].fetched
  BY <1>1, SawIs
<1> HIDE DEF s
<1>5. CASE FullySatisfied(t, seen)
  <2> DEFINE r == [s EXCEPT !.answer = "stored"]
             q == Finish(t, r)
  <2>1. r \in Record /\ Claims(t, r) /\ r.token = s.token /\ r.fetched = s.fetched
    BY <1>4 DEF Record, Answers, Claims
  <2>2. task' = [task EXCEPT ![t] = q]
    BY <1>3, <1>5 DEF Set, s
  <2> HIDE DEF r
  <2>3. /\ q \in Record /\ Placed(t, q) /\ Guarded(t, q) /\ q.fetched = r.fetched
        /\ Gone(q) => r.token = "cancelled"
    BY <1>1, <2>1, FinishIs
  <2> HIDE DEF q
  <2> QED
    BY <1>1, <1>2, <1>4, <2>1, <2>2, <2>3, StoreSteps DEF Gone
<1>6. CASE ~FullySatisfied(t, seen)
  <2> DEFINE q == [s EXCEPT !.pc = "body", !.spawned = TRUE]
  <2>1. task' = [task EXCEPT ![t] = q]
    BY <1>3, <1>6 DEF Set, s
  <2>2. q \in Record
    <3>1. "body" \in Places
      BY DEF Places
    <3> QED
      BY <1>4, <3>1 DEF Record
  <2>3. /\ q.pc = "body" /\ q.token = s.token /\ q.fetched = s.fetched /\ q.reported = s.reported
        /\ q.durable = s.durable /\ q.flag = s.flag /\ q.publish = s.publish /\ q.seen = s.seen
    BY <1>4 DEF Record
  <2> HIDE DEF q
  <2>4. Claims(t, q) /\ q.token # "cancelled"
    BY <1>1, <1>4, <2>3 DEF Claims, Guarded, Released
  <2> QED
    BY <1>1, <1>2, <1>4, <2>1, <2>2, <2>3, <2>4, PlainStep
<1> QED
  BY <1>5, <1>6

\* follower_future keeps the invariant.
LEMMA FollowKeeps ==
    ASSUME Inv, NEW t \in Task, Follow(t)
    PROVE  Inv'
<1>1. /\ Types /\ task[t] \in Record /\ Claims(t, task[t])
      /\ Guarded(t, task[t]) /\ job[t].op = "store" /\ task[t].pc = "follow"
  BY StepFacts DEF Follow, At
<1>2. UNCHANGED <<local, remote, keys, landed, flights, job>>
      /\ inFlight' \in [Address -> Task \cup {NoTask}]
  BY <1>1 DEF Follow, storeVars, writeVars, Types
<1>3. PICK answer \in {"stored", "failed"} :
         task' = [task EXCEPT ![t].pc = "report", ![t].answer = answer]
  BY DEF Follow
<1> DEFINE q == [task[t] EXCEPT !.pc = "report", !.answer = answer]
<1>4. task' = [task EXCEPT ![t] = q]
  BY <1>1, <1>3 DEF Types
<1>5. q \in Record
  BY <1>1, <1>3 DEF Record, Places, Answers
<1>6. /\ q.pc = "report" /\ q.token = task[t].token /\ q.fetched = task[t].fetched
      /\ q.reported = task[t].reported /\ q.durable = task[t].durable /\ q.flag = task[t].flag
      /\ q.publish = task[t].publish /\ q.seen = task[t].seen
  BY <1>1 DEF Record
<1> HIDE DEF q
<1>7. Claims(t, q) /\ q.token # "cancelled"
  BY <1>1, <1>6 DEF Claims, Guarded, Released
<1> QED
  BY <1>1, <1>2, <1>4, <1>5, <1>6, <1>7, PlainStep

\* leader_body begins: a copy has a source on the remote.
LEMMA BodyBeginKeeps ==
    ASSUME Inv, NEW t \in Task, BodyBegin(t)
    PROVE  Inv'
<1>1. /\ Types /\ task[t] \in Record /\ Claims(t, task[t])
      /\ Guarded(t, task[t]) /\ job[t].op = "store" /\ task[t].pc = "body"
  BY StepFacts DEF BodyBegin, At
<1>2. UNCHANGED <<local, remote, keys, landed, flights, job>>
      /\ inFlight' \in [Address -> Task \cup {NoTask}]
  BY <1>1 DEF BodyBegin, storeVars, writeVars, Types
<1>3. CASE CopySource(t)
  <2> DEFINE q == [task[t] EXCEPT !.pc = "copy"]
  <2>1. task' = [task EXCEPT ![t] = q]
    BY <1>1, <1>3 DEF BodyBegin, To, Types
  <2>2. /\ q \in Record /\ q.pc = "copy" /\ q.seen = task[t].seen /\ q.token = task[t].token
        /\ q.durable = task[t].durable /\ q.flag = task[t].flag /\ q.publish = task[t].publish
        /\ q.fetched = task[t].fetched /\ q.reported = task[t].reported
    <3>1. "copy" \in Places
      BY DEF Places
    <3> QED
      BY <1>1, <3>1, PcOnly
  <2> HIDE DEF q
  <2>3. Placed(t, q) /\ Guarded(t, q) /\ ~Gone(q)
    BY <1>1, <1>3, <2>2 DEF Placed, Claims, Guarded, Gone, Released, CopySource
  <2> QED
    BY <1>1, <1>2, <2>1, <2>2, <2>3, StoreSteps
<1>4. CASE ~CopySource(t)
  <2>1. To(t, "prepare") /\ "prepare" \in Places
    BY <1>4 DEF BodyBegin, Places
  <2> QED
    BY <1>1, <1>2, <2>1, ToStep DEF Released
<1> QED
  BY <1>3, <1>4

\* The choice of the payload keeps the invariant.
LEMMA BodyPrepareKeeps ==
    ASSUME Inv, NEW t \in Task, BodyPrepare(t)
    PROVE  Inv'
<1>1. /\ Types /\ task[t] \in Record /\ Claims(t, task[t])
      /\ Guarded(t, task[t]) /\ job[t].op = "store" /\ task[t].pc = "prepare"
  BY StepFacts DEF BodyPrepare, At
<1>2. UNCHANGED <<local, remote, keys, landed, flights, job>>
      /\ inFlight' \in [Address -> Task \cup {NoTask}]
  BY <1>1 DEF BodyPrepare, storeVars, writeVars, Types
<1>3. PICK pc \in {"upload", "find"}, payload \in {"whole", "wrong"}, l \in BOOLEAN :
         task' = [task EXCEPT ![t].pc = pc, ![t].payload = payload, ![t].local = l]
  <2> DEFINE wanted == ~task[t].durable \/ job[t].cache
             uploads == ~task[t].durable /\ ~task[t].throttled /\ job[t].session
             usable(stored) == stored \in {"whole", "wrong"}
  <2>1. PICK stored :
           task' = [task EXCEPT ![t].pc = IF uploads THEN "upload" ELSE "find",
                                ![t].payload = IF usable(stored) THEN stored ELSE "whole",
                                ![t].local = IF wanted THEN usable(stored) ELSE @]
    BY DEF BodyPrepare
  <2>2. (IF wanted THEN usable(stored) ELSE task[t].local) \in BOOLEAN
    <3>1. task[t].local \in BOOLEAN
      BY <1>1 DEF Record
    <3>2. usable(stored) \in BOOLEAN
      BY SMT
    <3> HIDE DEF wanted, usable
    <3> QED
      BY <3>1, <3>2
  <2>3. task' = [task EXCEPT ![t].pc = IF uploads THEN "upload" ELSE "find",
                             ![t].payload = IF usable(stored) THEN stored ELSE "whole",
                             ![t].local = IF wanted THEN usable(stored) ELSE task[t].local]
    BY <1>1, <2>1 DEF Types, Record
  <2>4. (IF uploads THEN "upload" ELSE "find") \in {"upload", "find"}
        /\ (IF usable(stored) THEN stored ELSE "whole") \in {"whole", "wrong"}
    BY Zenon
  <2> QED
    BY ONLY <2>2, <2>3, <2>4
<1> DEFINE q == [task[t] EXCEPT !.pc = pc, !.payload = payload, !.local = l]
<1>4. task' = [task EXCEPT ![t] = q]
  BY <1>1, <1>3 DEF Types
<1>5. q \in Record
  BY <1>1, <1>3 DEF Record, Places, Payload
<1>6. /\ q.pc = pc /\ q.token = task[t].token /\ q.fetched = task[t].fetched
      /\ q.reported = task[t].reported /\ q.durable = task[t].durable /\ q.flag = task[t].flag
      /\ q.publish = task[t].publish /\ q.seen = task[t].seen
  BY <1>1 DEF Record
<1> HIDE DEF q
<1>7. Claims(t, q) /\ q.token # "cancelled"
  BY <1>1, <1>6 DEF Claims, Guarded, Released
<1> QED
  BY <1>1, <1>2, <1>3, <1>4, <1>5, <1>6, <1>7, PlainStep

\* The count of a dropped guard moves: every load that missed before is behind it.
LEMMA GuardCountKeeps ==
    ASSUME Inv, NEW t \in Task, GuardCount(t)
    PROVE  Inv'
<1>1. /\ Types /\ task[t] \in Record /\ Placed(t, task[t]) /\ Claims(t, task[t]) /\ Guarded(t, task[t])
      /\ task[t].pc = "unguard" /\ task[t].token = "held" /\ job[t].op = "store"
  BY StepFacts DEF GuardCount, Guarded
<1>2. /\ UNCHANGED <<local, remote, keys, inFlight, flights, job>>
      /\ landed \in Nat /\ landed' = landed + 1
  BY <1>1 DEF GuardCount, storeVars, Types
<1> DEFINE q == [task[t] EXCEPT !.pc = "unlock"]
<1>3. task' = [task EXCEPT ![t] = q]
  BY <1>1 DEF GuardCount, To, Types
<1>4. /\ q \in Record /\ q.pc = "unlock" /\ q.seen = task[t].seen /\ q.token = task[t].token
      /\ q.durable = task[t].durable /\ q.flag = task[t].flag /\ q.publish = task[t].publish
      /\ q.fetched = task[t].fetched /\ q.reported = task[t].reported
  <2>1. "unlock" \in Places
    BY DEF Places
  <2> QED
    BY <1>1, <2>1, PcOnly
<1> HIDE DEF q
<1>5. Others({t}) /\ task'[t] = q
  BY <1>1, <1>3, <1>4, SetOne
<1>6. RemoteKeeps
  BY <1>2 DEF RemoteKeeps, HeldRemotely
<1>7. Advances(t)
  <2>1. Claims(t, q)
    BY <1>1, <1>4 DEF Claims
  <2>2. Claims(t, task[t])'
    BY <1>1, <1>2, <1>5, <1>6, <2>1, ClaimsStay
  <2>3. Placed(t, task[t])' /\ Guarded(t, task[t])' /\ Loading(t, task[t])'
    BY <1>1, <1>2, <1>4, <1>5, <2>2 DEF Placed, Guarded, Loading
  <2> QED
    BY <1>1, <1>4, <1>5, <2>3 DEF Advances
<1>8. landed' \in Nat /\ landed <= landed'
  BY <1>2, SMT
<1>9. \A u \in Task : Known(u)'
  BY <1>1, <1>2, <1>5, <1>6, <1>7, <1>8, TasksKeep, InvParts
<1>10. \A u \in Task : Counted(u)'
  <2> SUFFICES ASSUME NEW u \in Task, job[u].op = "load", task'[u].pc \in {"flying", "compare"}
               PROVE  task'[u].landed < landed'
    BY <1>2 DEF Counted
  <2>1. u # t /\ task'[u] = task[u]
    BY <1>1, <1>5 DEF Others
  <2>2. task[u].landed <= landed /\ task[u].landed \in Nat
    BY <1>1, StepFacts DEF Loading, Record
  <2> QED
    BY <1>2, <2>1, <2>2, SMT
<1>11. Types'
  BY <1>1, <1>2, <1>5, <1>8 DEF Types, Others
<1>12. JobsAgree' /\ FlagsTrue' /\ KeysWhole' /\ Flights'
  BY <1>1, <1>2, <1>6, JobsStay, FlagsStay, KeysStay, FlightsStay, InvParts
<1> QED
  BY <1>9, <1>10, <1>11, <1>12 DEF Inv, Known

\* The entry of a dropped guard goes, once it is counted.
LEMMA GuardRemoveKeeps ==
    ASSUME Inv, NEW t \in Task, GuardRemove(t)
    PROVE  Inv'
<1>1. /\ Types /\ task[t] \in Record /\ Addr(t) \in Address /\ Claims(t, task[t])
      /\ Guarded(t, task[t]) /\ task[t].pc = "unlock" /\ job[t].op = "store"
  BY StepFacts DEF GuardRemove, Guarded
<1>2. /\ UNCHANGED <<local, remote, keys, landed, flights, job>>
      /\ inFlight' = [inFlight EXCEPT ![Addr(t)] = NoTask]
  BY DEF GuardRemove, storeVars
<1>3. inFlight' \in [Address -> Task \cup {NoTask}]
  BY <1>1, <1>2 DEF Types
<1> DEFINE r == [task[t] EXCEPT !.token = "cancelled"]
           q == Return(t, r)
<1>4. task' = [task EXCEPT ![t] = q]
  BY DEF GuardRemove, Set
<1>5. r \in Record /\ Claims(t, r) /\ r.fetched = task[t].fetched
  BY <1>1, SMT DEF Record, Claims
<1> HIDE DEF r
<1>6. q \in Record /\ Placed(t, q) /\ Guarded(t, q) /\ q.fetched = r.fetched
  BY <1>1, <1>5, ReturnIs
<1>7. Gone(task[t])
  BY <1>1 DEF Gone
<1> HIDE DEF q
<1> QED
  BY <1>1, <1>2, <1>3, <1>4, <1>5, <1>6, <1>7, StoreSteps

\* A task on a tracker counts itself out.
LEMMA TrackerKeeps ==
    ASSUME Inv, NEW t \in Task, RecordError(t) \/ Dec(t) \/ Notify(t)
    PROVE  Inv'
<1>1. Types
  BY StepFacts
<1>2. PICK pc \in {"dec", "notify", "done"} : To(t, pc)
  BY DEF RecordError, Dec, Notify
<1>3. job[t].op = "store"
  BY DEF RecordError, Dec, Notify, At
<1>4. UNCHANGED <<local, remote, keys, landed, flights, job>>
      /\ inFlight' \in [Address -> Task \cup {NoTask}]
  BY <1>1 DEF RecordError, Dec, Notify, storeVars, Types
<1>5. pc \in Places /\ pc \in Released /\ pc \notin {"put", "copy", "publish", "unguard", "unlock"}
  BY <1>2 DEF Places, Released
<1> QED
  BY <1>2, <1>3, <1>4, <1>5, ToStep

\* await_all, and steps that change none of this.
LEMMA AwaitKeeps ==
    ASSUME Inv, UNCHANGED <<local, remote, keys, inFlight, landed, flights, job, task>>
    PROVE  Inv'
<1>1. /\ Types /\ JobsAgree /\ FlagsTrue /\ KeysWhole /\ Flights
      /\ \A t \in Task : Known(t)
      /\ \A t \in Task : Counted(t)
  BY InvParts
<1>2. RemoteKeeps
  BY DEF RemoteKeeps, HeldRemotely
<1>3. Types'
  BY <1>1 DEF Types
<1>4. JobsAgree' /\ FlagsTrue' /\ KeysWhole' /\ Flights'
  BY <1>1, <1>2, JobsStay, FlagsStay, KeysStay, FlightsStay
<1>5. landed' \in Nat /\ landed <= landed' /\ Others({}) /\ {} \in SUBSET Task
  BY <1>1, SMT DEF Types, Others
<1>6. \A t \in Task : Known(t)'
  BY <1>1, <1>2, <1>5, TasksKeep
<1>7. \A t \in Task : Counted(t)'
  BY <1>1 DEF Counted, HeldLocally, Addr
<1> QED
  BY <1>3, <1>4, <1>6, <1>7 DEF Inv, Known

-----------------------------------------------------------------------------
(***************************************************************************)
(* Steps that reach the remote, and keys                                   *)
(***************************************************************************)

\* A key is published over content that the remote holds whole.  Another list at
\* the address has the same chunks.
LEMMA KeysGrow ==
    ASSUME Types, JobsAgree, KeysWhole, NEW t \in Task, job[t].publish, job' = job, RemoteKeeps,
           keys'.remote \subseteq keys.remote \cup {Addr(t)},
           HeldRemotely(Addr(t))', \A c \in job[t].leaves : HeldRemotely(Addr(c))'
    PROVE  KeysWhole'
<1> SUFFICES ASSUME NEW u \in Task, job[u].publish, Addr(u) \in keys'.remote,
                    NEW v \in {u} \cup job[u].leaves
             PROVE  HeldRemotely(Addr(v))'
  BY DEF KeysWhole, Addr
<1>1. v \in Task /\ Addr(v) \in Address /\ Addr(v)' = Addr(v) /\ Addr(t)' = Addr(t)
  BY DEF Types, Job, Addr
<1>2. CASE Addr(u) \in keys.remote
  <2>1. HeldRemotely(Addr(v))
    BY <1>2 DEF KeysWhole
  <2> QED
    BY <1>1, <2>1 DEF RemoteKeeps
<1>3. CASE Addr(u) = Addr(t)
  <2>1. {job[c].addr : c \in job[u].leaves} = {job[c].addr : c \in job[t].leaves}
    BY <1>3 DEF JobsAgree, Addr
  <2>2. CASE v = u
    BY <1>1, <1>3, <2>2 DEF HeldRemotely
  <2>3. CASE v \in job[u].leaves
    <3>1. PICK c \in job[t].leaves : job[c].addr = job[v].addr
      BY <2>1, <2>3
    <3>2. Addr(c)' = Addr(v)'
      BY <3>1 DEF Addr
    <3> QED
      BY <3>2 DEF HeldRemotely
  <2> QED
    BY <2>2, <2>3
<1> QED
  BY <1>2, <1>3

\* A command of the remote takes nothing away and leaves the address held.
LEMMA UploadedIs ==
    ASSUME Types, NEW a \in Address, NEW payload \in Payload \cup {Missing},
           remote' = Uploaded(a, payload)
    PROVE  /\ remote' \in [Address -> Payload \cup {Missing}] /\ RemoteKeeps
           /\ payload # Missing => remote'[a] # Missing
BY DEF Uploaded, Types, RemoteKeeps, HeldRemotely

\* A store's step that reaches the remote.
LEMMA StoreReaches ==
    ASSUME Inv, NEW t \in Task, job[t].op = "store", NEW q \in Record,
           task' = [task EXCEPT ![t] = q],
           UNCHANGED <<local, inFlight, landed, flights, job>>, RemoteKeeps,
           remote' \in [Address -> Payload \cup {Missing}],
           keys' \in [remote : SUBSET Address, local : SUBSET Address], KeysWhole',
           Placed(t, task[t])', Guarded(t, q), Gone(q) => Gone(task[t]), q.fetched = task[t].fetched
    PROVE  Inv'
<1>1. Types /\ Flights
  BY DEF Inv
<1>2. Moves(t)
  BY <1>1, StoreMoves
<1>3. Flights'
  BY <1>1, FlightsStay
<1> QED
  BY <1>1, <1>2, <1>3, MovesKeeps DEF Types

\* remote_copy_retry keeps the invariant, whether its answer arrives or not.
LEMMA BodyCopyKeeps ==
    ASSUME Inv, NEW t \in Task, BodyCopy(t)
    PROVE  Inv'
<1>1. /\ Types /\ task[t] \in Record /\ Addr(t) \in Address /\ Placed(t, task[t])
      /\ Claims(t, task[t]) /\ Guarded(t, task[t]) /\ job[t].op = "store" /\ task[t].pc = "copy"
  BY StepFacts DEF BodyCopy, At
<1>2. UNCHANGED <<local, keys, inFlight, landed, flights, job>>
  BY DEF BodyCopy, writeVars
<1> DEFINE source == remote[task[t].seen.source]
<1>3. source \in Payload /\ source # Missing
  BY <1>1 DEF Placed, Claims, HeldRemotely, Types, Payload, Missing
<1>4. remote' \in {remote, Uploaded(Addr(t), source)}
  BY DEF BodyCopy
<1>5. remote' \in [Address -> Payload \cup {Missing}] /\ RemoteKeeps
  <2>1. CASE remote' = remote
    BY <1>1, <2>1 DEF Types, RemoteKeeps, HeldRemotely
  <2>2. CASE remote' = Uploaded(Addr(t), source)
    BY <1>1, <1>3, <2>2, UploadedIs
  <2> QED
    BY <1>4, <2>1, <2>2
<1>6. KeysWhole' /\ keys' \in [remote : SUBSET Address, local : SUBSET Address]
  BY <1>1, <1>2, <1>5, KeysStay, InvParts DEF Types
<1>7. CASE task' = [task EXCEPT ![t].pc = "prepare", ![t].durable = source # Missing]
           /\ remote' = Uploaded(Addr(t), source)
  <2> DEFINE q == [task[t] EXCEPT !.pc = "prepare", !.durable = TRUE]
  <2>1. task' = [task EXCEPT ![t] = q]
    BY <1>1, <1>3, <1>7 DEF Types
  <2>2. q \in Record
    BY <1>1 DEF Record, Places
  <2>3. /\ q.pc = "prepare" /\ q.token = task[t].token /\ q.fetched = task[t].fetched
        /\ q.reported = task[t].reported /\ q.flag = task[t].flag
        /\ q.publish = task[t].publish /\ q.seen = task[t].seen
    BY <1>1 DEF Record
  <2> HIDE DEF q
  <2>4. task'[t] = q
    BY <1>1, <2>1, <2>2, SetOne
  <2>5. HeldRemotely(Addr(t))'
    BY <1>1, <1>2, <1>3, <1>7, UploadedIs DEF HeldRemotely, Addr
  <2>6. Claims(t, task[t])'
    <3>1. (q.seen.durable => q.seen.source \in Address /\ HeldRemotely(q.seen.source))
          /\ (q.publish => job[t].publish /\ \A c \in job[t].leaves : HeldRemotely(Addr(c)))
      BY <1>1, <2>3 DEF Claims
    <3>2. \A c \in job[t].leaves : Addr(c) \in Address /\ Addr(c)' = Addr(c)
      BY <1>1, <1>2 DEF Types, Job, Addr
    <3> QED
      BY <1>2, <1>5, <2>4, <2>5, <3>1, <3>2 DEF Claims, RemoteKeeps
  <2>7. Placed(t, task[t])' /\ Guarded(t, q) /\ ~Gone(q)
    BY <1>1, <2>3, <2>4, <2>6 DEF Placed, Guarded, Gone, Released
  <2> QED
    BY <1>1, <1>2, <1>5, <1>6, <2>1, <2>2, <2>3, <2>7, StoreReaches
<1>8. CASE \E throttled \in BOOLEAN :
              task' = [task EXCEPT ![t].pc = "prepare", ![t].throttled = throttled]
  <2>1. PICK throttled \in BOOLEAN :
           task' = [task EXCEPT ![t].pc = "prepare", ![t].throttled = throttled]
    BY <1>8
  <2> DEFINE q == [task[t] EXCEPT !.pc = "prepare", !.throttled = throttled]
  <2>2. task' = [task EXCEPT ![t] = q]
    BY <1>1, <2>1 DEF Types
  <2>3. q \in Record
    BY <1>1 DEF Record, Places
  <2>4. /\ q.pc = "prepare" /\ q.token = task[t].token /\ q.fetched = task[t].fetched
        /\ q.reported = task[t].reported /\ q.flag = task[t].flag /\ q.durable = task[t].durable
        /\ q.publish = task[t].publish /\ q.seen = task[t].seen
    BY <1>1 DEF Record
  <2> HIDE DEF q
  <2>5. task'[t] = q /\ Claims(t, q)
    BY <1>1, <2>2, <2>3, <2>4, SetOne DEF Claims
  <2>6. Claims(t, task[t])'
    BY <1>1, <1>2, <1>5, <2>5, ClaimsStay
  <2>7. Placed(t, task[t])' /\ Guarded(t, q) /\ ~Gone(q)
    BY <1>1, <2>4, <2>5, <2>6 DEF Placed, Guarded, Gone, Released
  <2> QED
    BY <1>1, <1>2, <1>5, <1>6, <2>2, <2>3, <2>4, <2>7, StoreReaches
<1> QED
  BY <1>7, <1>8 DEF BodyCopy

\* An upload keeps the invariant, with the key it carries, whether its answer
\* arrives or not.
LEMMA BodyUploadKeeps ==
    ASSUME Inv, NEW t \in Task, BodyUpload(t)
    PROVE  Inv'
<1>1. /\ Types /\ task[t] \in Record /\ Addr(t) \in Address /\ Placed(t, task[t])
      /\ Claims(t, task[t]) /\ Guarded(t, task[t]) /\ job[t].op = "store" /\ task[t].pc = "upload"
  BY StepFacts DEF BodyUpload, At
<1>2. UNCHANGED <<local, inFlight, landed, flights, job>>
  BY DEF BodyUpload, writeVars
<1> DEFINE taken == /\ remote' = Uploaded(Addr(t), task[t].payload)
                    /\ keys' = IF task[t].publish THEN [keys EXCEPT !.remote = @ \cup {Addr(t)}]
                               ELSE keys
<1>3. task[t].payload \in Payload /\ task[t].payload # Missing
  BY <1>1 DEF Record, Payload, Missing
<1>4. ASSUME taken
      PROVE  /\ remote' \in [Address -> Payload \cup {Missing}] /\ RemoteKeeps
             /\ HeldRemotely(Addr(t))' /\ KeysWhole'
             /\ keys' \in [remote : SUBSET Address, local : SUBSET Address]
  <2>1. /\ remote' \in [Address -> Payload \cup {Missing}] /\ RemoteKeeps
        /\ HeldRemotely(Addr(t))'
    BY <1>1, <1>2, <1>3, <1>4, UploadedIs DEF HeldRemotely, Addr
  <2>2. keys' \in [remote : SUBSET Address, local : SUBSET Address]
    BY <1>1, <1>4 DEF Types
  <2>3. CASE task[t].publish
    <3>1. job[t].publish /\ \A c \in job[t].leaves : HeldRemotely(Addr(c))
      BY <1>1, <2>3 DEF Claims
    <3>2. \A c \in job[t].leaves : Addr(c) \in Address /\ Addr(c)' = Addr(c)
      BY <1>1, <1>2 DEF Types, Job, Addr
    <3>3. \A c \in job[t].leaves : HeldRemotely(Addr(c))'
      BY <2>1, <3>1, <3>2 DEF RemoteKeeps
    <3>4. keys'.remote \subseteq keys.remote \cup {Addr(t)}
      BY <1>1, <1>4, <2>3 DEF Types
    <3> QED
      BY <1>1, <1>2, <2>1, <2>2, <3>1, <3>3, <3>4, KeysGrow, InvParts
  <2>4. CASE ~task[t].publish
    BY <1>1, <1>2, <1>4, <2>1, <2>2, <2>4, KeysStay, InvParts
  <2> QED
    BY <2>1, <2>2, <2>3, <2>4
<1>5. ASSUME UNCHANGED <<remote, keys>>
      PROVE  /\ remote' \in [Address -> Payload \cup {Missing}] /\ RemoteKeeps /\ KeysWhole'
             /\ keys' \in [remote : SUBSET Address, local : SUBSET Address]
  <2>1. RemoteKeeps
    BY <1>5 DEF RemoteKeeps, HeldRemotely
  <2> QED
    BY <1>1, <1>2, <1>5, <2>1, KeysStay, InvParts DEF Types
<1>6. CASE taken /\ task' = [task EXCEPT ![t].pc = "find", ![t].durable = TRUE,
                                         ![t].published = task[t].publish]
  <2> DEFINE publish == task[t].publish
             q == [task[t] EXCEPT !.pc = "find", !.durable = TRUE, !.published = publish]
  <2>1. task' = [task EXCEPT ![t] = q]
    BY <1>1, <1>6 DEF Types
  <2>2. publish \in BOOLEAN
    BY <1>1 DEF Record
  <2> HIDE DEF publish
  <2>3. q \in Record
    BY <1>1, <2>2 DEF Record, Places
  <2>4. /\ q.pc = "find" /\ q.token = task[t].token /\ q.fetched = task[t].fetched
        /\ q.publish = task[t].publish /\ q.seen = task[t].seen
    BY <1>1 DEF Record
  <2> HIDE DEF q
  <2>5. task'[t] = q
    BY <1>1, <2>1, <2>3, SetOne
  <2>6. Claims(t, task[t])'
    <3>1. (q.seen.durable => q.seen.source \in Address /\ HeldRemotely(q.seen.source))
          /\ (q.publish => job[t].publish /\ \A c \in job[t].leaves : HeldRemotely(Addr(c)))
      BY <1>1, <2>4 DEF Claims
    <3>2. \A c \in job[t].leaves : Addr(c) \in Address /\ Addr(c)' = Addr(c)
      BY <1>1, <1>2 DEF Types, Job, Addr
    <3> QED
      BY <1>2, <1>4, <1>6, <2>5, <3>1, <3>2 DEF Claims, RemoteKeeps
  <2>7. Placed(t, task[t])' /\ Guarded(t, q) /\ ~Gone(q)
    BY <1>1, <2>4, <2>5, <2>6 DEF Placed, Guarded, Gone, Released
  <2> HIDE DEF taken
  <2> QED
    BY <1>1, <1>2, <1>4, <1>6, <2>1, <2>3, <2>4, <2>7, StoreReaches
<1>7. CASE (taken \/ UNCHANGED <<remote, keys>>) /\ To(t, "find")
  <2> DEFINE q == [task[t] EXCEPT !.pc = "find"]
  <2>1. task' = [task EXCEPT ![t] = q]
    BY <1>1, <1>7 DEF Types, To
  <2>2. /\ q \in Record /\ q.pc = "find" /\ q.seen = task[t].seen /\ q.token = task[t].token
        /\ q.durable = task[t].durable /\ q.flag = task[t].flag /\ q.publish = task[t].publish
        /\ q.fetched = task[t].fetched /\ q.reported = task[t].reported
    <3>1. "find" \in Places
      BY DEF Places
    <3> QED
      BY <1>1, <3>1, PcOnly
  <2> HIDE DEF q
  <2>3. task'[t] = q /\ Claims(t, q)
    BY <1>1, <2>1, <2>2, SetOne DEF Claims
  <2> HIDE DEF taken
  <2>4. Claims(t, task[t])'
    BY <1>1, <1>2, <1>4, <1>5, <1>7, <2>3, ClaimsStay
  <2>5. Placed(t, task[t])' /\ Guarded(t, q) /\ ~Gone(q)
    BY <1>1, <2>2, <2>3, <2>4 DEF Placed, Guarded, Gone, Released
  <2> QED
    BY <1>1, <1>2, <1>4, <1>5, <1>7, <2>1, <2>2, <2>5, StoreReaches
<1> QED
  BY <1>6, <1>7 DEF BodyUpload

\* publish_resolved_mapping names durable content with durable chunks.
LEMMA PublishKeeps ==
    ASSUME Inv, NEW t \in Task, Publish(t)
    PROVE  Inv'
<1>1. /\ Types /\ task[t] \in Record /\ job[t] \in Job /\ Addr(t) \in Address /\ Placed(t, task[t])
      /\ Claims(t, task[t]) /\ Guarded(t, task[t]) /\ job[t].op = "store" /\ task[t].pc = "publish"
  BY StepFacts DEF Publish, At
<1>2. UNCHANGED <<local, remote, inFlight, landed, flights, job>>
  BY DEF Publish, writeVars
<1>3. RemoteKeeps /\ remote' \in [Address -> Payload \cup {Missing}]
  BY <1>1, <1>2 DEF RemoteKeeps, HeldRemotely, Types
<1> DEFINE owed == /\ job[t].session /\ ~task[t].published
                   /\ task[t].durable /\ LeavesRemote(t)
           named == [keys EXCEPT !.remote = @ \cup {Addr(t)}]
<1>4. keys' = keys \/ (owed /\ keys' = named)
  BY DEF Publish
<1>5. KeysWhole' /\ keys' \in [remote : SUBSET Address, local : SUBSET Address]
  <2>1. CASE keys' = keys
    BY <1>1, <1>2, <1>3, <2>1, KeysStay, InvParts DEF Types
  <2>2. CASE owed /\ keys' = named
    <3>1. job[t].publish /\ HeldRemotely(Addr(t))
      BY <1>1, <2>2 DEF Placed, Claims
    <3>2. \A c \in job[t].leaves : c \in Task /\ Claims(c, task[c])
      BY <1>1, StepFacts DEF Job
    <3>3. \A c \in job[t].leaves : HeldRemotely(Addr(c))
      BY <2>2, <3>2 DEF Claims, LeavesRemote
    <3>4. HeldRemotely(Addr(t))' /\ \A c \in job[t].leaves : HeldRemotely(Addr(c))'
      BY <1>2, <3>1, <3>3 DEF HeldRemotely, Addr
    <3>5. /\ keys'.remote \subseteq keys.remote \cup {Addr(t)}
          /\ keys' \in [remote : SUBSET Address, local : SUBSET Address]
      BY <1>1, <2>2 DEF Types
    <3> QED
      BY <1>1, <1>2, <1>3, <3>1, <3>4, <3>5, KeysGrow, InvParts
  <2> QED
    BY <1>4, <2>1, <2>2
<1> HIDE DEF owed, named
<1>6. \E q \in Record :
         /\ task' = [task EXCEPT ![t] = q]
         /\ q.pc \in {"name", "done"} /\ q.token = task[t].token /\ q.fetched = task[t].fetched
         /\ q.reported = task[t].reported /\ q.durable = task[t].durable /\ q.flag = task[t].flag
         /\ q.publish = task[t].publish /\ q.seen = task[t].seen
  <2>1. CASE To(t, "name")
    <3> DEFINE q == [task[t] EXCEPT !.pc = "name"]
    <3>1. task' = [task EXCEPT ![t] = q]
      BY <1>1, <2>1 DEF Types, To
    <3>2. "name" \in Places
      BY DEF Places
    <3>3. /\ q \in Record
          /\ q.pc \in {"name", "done"} /\ q.token = task[t].token /\ q.fetched = task[t].fetched
          /\ q.reported = task[t].reported /\ q.durable = task[t].durable /\ q.flag = task[t].flag
          /\ q.publish = task[t].publish /\ q.seen = task[t].seen
      BY <1>1, <3>2, PcOnly
    <3> QED
      BY <3>1, <3>3
  <2>2. CASE task' = [task EXCEPT ![t].pc = "done", ![t].answer = "failed"]
    <3> DEFINE q == [task[t] EXCEPT !.pc = "done", !.answer = "failed"]
    <3>1. task' = [task EXCEPT ![t] = q]
      BY <1>1, <2>2 DEF Types
    <3>2. q \in Record
      BY <1>1 DEF Record, Places, Answers
    <3>3. /\ q.pc \in {"name", "done"} /\ q.token = task[t].token /\ q.fetched = task[t].fetched
          /\ q.reported = task[t].reported /\ q.durable = task[t].durable /\ q.flag = task[t].flag
          /\ q.publish = task[t].publish /\ q.seen = task[t].seen
      BY <1>1 DEF Record
    <3> QED
      BY <3>1, <3>2, <3>3
  <2> QED
    BY <2>1, <2>2 DEF Publish
<1>7. PICK q \in Record :
         /\ task' = [task EXCEPT ![t] = q]
         /\ q.pc \in {"name", "done"} /\ q.token = task[t].token /\ q.fetched = task[t].fetched
         /\ q.reported = task[t].reported /\ q.durable = task[t].durable /\ q.flag = task[t].flag
         /\ q.publish = task[t].publish /\ q.seen = task[t].seen
  BY <1>6
<1>8. task'[t] = q /\ Claims(t, q)
  BY <1>1, <1>7, SetOne DEF Claims
<1>9. Claims(t, task[t])'
  BY <1>1, <1>2, <1>3, <1>8, ClaimsStay
<1>10. Placed(t, task[t])' /\ Guarded(t, q) /\ (Gone(q) => Gone(task[t]))
  BY <1>1, <1>7, <1>8, <1>9 DEF Placed, Guarded, Gone, Released
<1> QED
  BY <1>1, <1>2, <1>3, <1>5, <1>7, <1>10, StoreReaches

\* The local mapping keeps the invariant.
LEMMA PublishLocalKeeps ==
    ASSUME Inv, NEW t \in Task, PublishLocal(t)
    PROVE  Inv'
<1>1. /\ Types /\ task[t] \in Record /\ Addr(t) \in Address
      /\ Claims(t, task[t]) /\ Guarded(t, task[t]) /\ job[t].op = "store" /\ task[t].pc = "name"
  BY StepFacts DEF PublishLocal, At
<1>2. UNCHANGED <<local, remote, inFlight, landed, flights, job>>
  BY DEF PublishLocal, writeVars
<1>3. RemoteKeeps /\ remote' \in [Address -> Payload \cup {Missing}]
  BY <1>1, <1>2 DEF RemoteKeeps, HeldRemotely, Types
<1>4. /\ keys' \in [remote : SUBSET Address, local : SUBSET Address]
      /\ keys'.remote = keys.remote
  BY <1>1, SMT DEF PublishLocal, Types
<1>5. KeysWhole'
  BY <1>1, <1>2, <1>3, <1>4, KeysStay, InvParts
<1>6. PICK answer \in Answers : task' = [task EXCEPT ![t] = [task[t] EXCEPT !.pc = "done",
                                                                          !.answer = answer]]
  <2>1. CASE To(t, "done")
    <3>1. task[t].answer \in Answers
      BY <1>1 DEF Record
    <3>2. task' = [task EXCEPT ![t] = [task[t] EXCEPT !.pc = "done", !.answer = task[t].answer]]
      BY <1>1, <2>1 DEF To, Types, Record
    <3> QED
      BY <3>1, <3>2
  <2>2. CASE task' = [task EXCEPT ![t].pc = "done", ![t].answer = "failed"]
    <3>1. task' = [task EXCEPT ![t] = [task[t] EXCEPT !.pc = "done", !.answer = "failed"]]
      BY <1>1, <2>2 DEF Types
    <3>2. "failed" \in Answers
      BY DEF Answers
    <3> QED
      BY <3>1, <3>2
  <2> QED
    BY <2>1, <2>2 DEF PublishLocal
<1> DEFINE q == [task[t] EXCEPT !.pc = "done", !.answer = answer]
<1>7. q \in Record
  BY <1>1, <1>6 DEF Record, Places
<1>8. /\ q.pc = "done" /\ q.token = task[t].token /\ q.fetched = task[t].fetched
      /\ q.reported = task[t].reported /\ q.durable = task[t].durable /\ q.flag = task[t].flag
      /\ q.publish = task[t].publish /\ q.seen = task[t].seen
  BY <1>1 DEF Record
<1> HIDE DEF q
<1>9. task'[t] = q /\ Claims(t, q)
  BY <1>1, <1>6, <1>7, <1>8, SetOne DEF Claims, q
<1>10. Claims(t, task[t])'
  BY <1>1, <1>2, <1>3, <1>9, ClaimsStay
<1>11. Placed(t, task[t])' /\ Guarded(t, q) /\ (Gone(q) => Gone(task[t]))
  BY <1>1, <1>8, <1>9, <1>10 DEF Placed, Guarded, Gone, Released
<1> QED
  BY <1>1, <1>2, <1>3, <1>4, <1>5, <1>6, <1>7, <1>8, <1>11, StoreReaches DEF q

-----------------------------------------------------------------------------
(***************************************************************************)
(* Puts, evictions and dropped calls                                       *)
(***************************************************************************)

\* A step of any task that leaves the stores, the count and the flights alone.
LEMMA AnyMoves ==
    ASSUME Inv, NEW t \in Task, NEW q \in Record,
           task' = [task EXCEPT ![t] = q],
           job' = job, landed' = landed, RemoteKeeps,
           Placed(t, q), Guarded(t, q), Loading(t, q), Gone(q) => Gone(task[t]),
           task[t].fetched = "failed" => q.fetched = "failed",
           job[t].op = "load" /\ q.answer = "failed" => q.fetched = "failed" \/ FailedAt(Addr(t)),
           job[t].op = "load" /\ q.pc \in {"flying", "compare"} =>
               task[t].pc \in {"flying", "compare"} /\ q.landed = task[t].landed
    PROVE  Moves(t)
<1>1. Types
  BY DEF Inv
<1>2. Others({t}) /\ task'[t] = q
  BY <1>1, SetOne
<1>3. Placed(t, task[t])'
  <2>1. Claims(t, task[t])'
    BY <1>1, <1>2, ClaimsStay DEF Placed
  <2> QED
    BY <1>2, <2>1 DEF Placed
<1>4. Guarded(t, task[t])'
  BY <1>2 DEF Guarded
<1>5. Loading(t, task[t])'
  <2>1. \A u \in Task : FlightOf(u)' = FlightOf(u)
    BY DEF FlightOf, Addr, Key
  <2> QED
    BY <1>2, <2>1 DEF Loading
<1> QED
  BY <1>2, <1>3, <1>4, <1>5 DEF Moves, Advances

\* The same, as a step that touches nothing but the task.
LEMMA AnySteps ==
    ASSUME Inv, NEW t \in Task, NEW q \in Record,
           task' = [task EXCEPT ![t] = q],
           UNCHANGED <<local, remote, keys, inFlight, landed, flights, job>>,
           Placed(t, q), Guarded(t, q), Loading(t, q), Gone(q) => Gone(task[t]),
           task[t].fetched = "failed" => q.fetched = "failed",
           job[t].op = "load" /\ q.answer = "failed" => q.fetched = "failed" \/ FailedAt(Addr(t)),
           job[t].op = "load" /\ q.pc \in {"flying", "compare"} =>
               task[t].pc \in {"flying", "compare"} /\ q.landed = task[t].landed
    PROVE  Inv'
<1>1. RemoteKeeps
  BY DEF RemoteKeeps, HeldRemotely
<1>2. Moves(t)
  BY <1>1, AnyMoves
<1> QED
  BY <1>2, TaskOnly DEF Inv, Types

\* The end of a put, of a store and of a load.
LEMMA PutDoneIs ==
    ASSUME Inv, NEW t \in Task, task[t].pc \in {"find", "put"}, NEW ok \in BOOLEAN
    PROVE  LET q == PutDone(t, ok) IN
           /\ q \in Record /\ Placed(t, q) /\ Guarded(t, q) /\ Loading(t, q) /\ ~Gone(q)
           /\ task[t].fetched = "failed" => q.fetched = "failed"
           /\ job[t].op = "load" /\ q.answer = "failed" => q.fetched = "failed" \/ FailedAt(Addr(t))
           /\ job[t].op = "load" => q.pc = "close"
<1>1. /\ Types /\ task[t] \in Record /\ Placed(t, task[t]) /\ Claims(t, task[t])
      /\ Guarded(t, task[t]) /\ Loading(t, task[t])
  BY StepFacts
<1>2. task[t].token # "cancelled"
  BY <1>1 DEF Guarded, Released
<1> DEFINE q == PutDone(t, ok)
<1>3. CASE job[t].op = "load"
  <2>1. q = [task[t] EXCEPT !.pc = "close"]
    BY <1>3 DEF PutDone
  <2>2. /\ q \in Record /\ q.pc = "close" /\ q.seen = task[t].seen /\ q.token = task[t].token
        /\ q.durable = task[t].durable /\ q.flag = task[t].flag /\ q.publish = task[t].publish
        /\ q.fetched = task[t].fetched /\ q.reported = task[t].reported /\ q.lead = task[t].lead
        /\ q.landed = task[t].landed /\ q.payload = task[t].payload
        /\ q.channel = task[t].channel /\ q.answer = task[t].answer
    <3>1. "close" \in Places
      BY DEF Places
    <3> QED
      BY <1>1, <2>1, <3>1, PcOnly, SMT
  <2> HIDE DEF q
  <2>3. Placed(t, q) /\ Guarded(t, q) /\ ~Gone(q)
    BY <1>1, <1>2, <1>3, <2>2 DEF Placed, Claims, Guarded, Gone
  <2>4. Loading(t, q)
    BY <1>1, <1>3, <2>2 DEF Loading, Before
  <2>5. job[t].op = "load" /\ q.answer = "failed" => q.fetched = "failed" \/ FailedAt(Addr(t))
    BY <2>2, InvParts DEF Known
  <2> QED
    BY <2>2, <2>3, <2>4, <2>5 DEF q
<1>4. CASE job[t].op # "load"
  <2> DEFINE l == task[t].local \/ PutPayload(t) # Missing
             r == IF ok THEN [task[t] EXCEPT !.answer = "stored", !.local = l]
                        ELSE [task[t] EXCEPT !.answer = "failed"]
  <2>1. q = Finish(t, r)
    <3>1. [task[t] EXCEPT !.answer = "stored", !.local = l]
            = [task[t] EXCEPT !.answer = "stored", !.local = @ \/ PutPayload(t) # Missing]
      BY <1>1 DEF Record
    <3> QED
      BY <1>4, <3>1 DEF PutDone
  <2>2. l \in BOOLEAN
    OBVIOUS
  <2> HIDE DEF l
  <2>3. r \in Record /\ Claims(t, r) /\ r.token = task[t].token /\ r.fetched = task[t].fetched
    <3>1. CASE ok
      <4> DEFINE s == [task[t] EXCEPT !.answer = "stored", !.local = l]
      <4>1. s \in Record
        BY <1>1, <2>2 DEF Record, Answers
      <4>2. Claims(t, s) /\ s.token = task[t].token /\ s.fetched = task[t].fetched
        BY <1>1 DEF Record, Claims
      <4> QED
        BY <3>1, <4>1, <4>2
    <3>2. CASE ~ok
      <4> DEFINE s == [task[t] EXCEPT !.answer = "failed"]
      <4>1. s \in Record
        BY <1>1 DEF Record, Answers
      <4>2. Claims(t, s) /\ s.token = task[t].token /\ s.fetched = task[t].fetched
        BY <1>1 DEF Record, Claims
      <4> QED
        BY <3>2, <4>1, <4>2
    <3> QED
      BY <3>1, <3>2
  <2> HIDE DEF r
  <2>4. r.token # "none" => job[t].op = "store"
    BY <1>1, <2>3 DEF Guarded
  <2>5. /\ q \in Record /\ Placed(t, q) /\ Guarded(t, q) /\ q.fetched = r.fetched
        /\ Gone(q) => r.token = "cancelled"
    BY <1>1, <2>1, <2>3, <2>4, FinishIs, SMT
  <2> HIDE DEF q
  <2>6. Loading(t, q)
    BY <1>4 DEF Loading
  <2> QED
    BY <1>2, <1>4, <2>3, <2>5, <2>6 DEF q
<1> QED
  BY <1>3, <1>4

\* find of a put: the flag it settles on is one the remote bears out.
LEMMA PutFindKeeps ==
    ASSUME Inv, NEW t \in Task, PutFind(t)
    PROVE  Inv'
<1>1. /\ Types /\ FlagsTrue /\ task[t] \in Record /\ Addr(t) \in Address /\ Placed(t, task[t])
      /\ Claims(t, task[t]) /\ Guarded(t, task[t]) /\ Loading(t, task[t]) /\ task[t].pc = "find"
  BY StepFacts DEF PutFind
<1>2. UNCHANGED <<local, remote, keys, inFlight, landed, flights, job>>
  BY DEF PutFind, storeVars, writeVars
<1>3. ASSUME NEW flag \in BOOLEAN, task' = [task EXCEPT ![t].pc = "put", ![t].flag = flag],
             task[t].durable => flag, flag => HeldRemotely(Addr(t))
      PROVE  Inv'
  <2> DEFINE q == [task[t] EXCEPT !.pc = "put", !.flag = flag]
  <2>1. task' = [task EXCEPT ![t] = q]
    BY <1>1, <1>3 DEF Types
  <2>2. q \in Record
    BY <1>1, <1>3 DEF Record, Places
  <2>3. /\ q.pc = "put" /\ q.seen = task[t].seen /\ q.token = task[t].token
        /\ q.durable = task[t].durable /\ q.flag = flag /\ q.publish = task[t].publish
        /\ q.fetched = task[t].fetched /\ q.reported = task[t].reported /\ q.lead = task[t].lead
        /\ q.landed = task[t].landed /\ q.payload = task[t].payload
        /\ q.channel = task[t].channel /\ q.answer = task[t].answer
    BY <1>1 DEF Record
  <2> HIDE DEF q
  <2>4. Placed(t, q) /\ Guarded(t, q) /\ ~Gone(q)
    BY <1>1, <1>3, <2>3 DEF Placed, Claims, Guarded, Gone, Released
  <2>5. Loading(t, q)
    BY <1>1, <2>3 DEF Loading, Before
  <2>6. job[t].op = "load" /\ q.answer = "failed" => q.fetched = "failed" \/ FailedAt(Addr(t))
    BY <2>3, InvParts DEF Known
  <2> QED
    BY <1>2, <2>1, <2>2, <2>3, <2>4, <2>5, <2>6, AnySteps
<1>4. ASSUME NEW ok \in BOOLEAN, task' = [task EXCEPT ![t] = PutDone(t, ok)]
      PROVE  Inv'
  <2> DEFINE q == PutDone(t, ok)
  <2>1. /\ q \in Record /\ Placed(t, q) /\ Guarded(t, q) /\ Loading(t, q) /\ ~Gone(q)
        /\ task[t].fetched = "failed" => q.fetched = "failed"
        /\ job[t].op = "load" /\ q.answer = "failed" => q.fetched = "failed" \/ FailedAt(Addr(t))
        /\ job[t].op = "load" => q.pc = "close"
    BY <1>1, PutDoneIs
  <2>2. task' = [task EXCEPT ![t] = q]
    BY <1>4
  <2> HIDE DEF q
  <2> QED
    BY <1>2, <2>1, <2>2, AnySteps
<1>5. CASE \E ok \in BOOLEAN : task' = [task EXCEPT ![t] = PutDone(t, ok)]
  BY <1>4, <1>5
<1>6. CASE local[Addr(t)] = NoEntry
           /\ task' = [task EXCEPT ![t].pc = "put", ![t].flag = task[t].durable]
  <2>1. task[t].durable \in BOOLEAN /\ (task[t].durable => HeldRemotely(Addr(t)))
    BY <1>1 DEF Record, Claims
  <2> QED
    BY <1>3, <1>6, <2>1
<1>7. CASE local[Addr(t)] # NoEntry
           /\ task' = [task EXCEPT ![t].pc = "put",
                                   ![t].flag = task[t].durable \/ local[Addr(t)].durable]
  <2> DEFINE flag == task[t].durable \/ local[Addr(t)].durable
  <2>1. flag \in BOOLEAN /\ (task[t].durable => flag)
    OBVIOUS
  <2>2. flag => HeldRemotely(Addr(t))
    BY <1>1, <1>7 DEF Claims, FlagsTrue
  <2>3. task' = [task EXCEPT ![t].pc = "put", ![t].flag = flag]
    BY <1>7
  <2> HIDE DEF flag
  <2> QED
    BY <1>3, <2>1, <2>2, <2>3
<1> QED
  BY <1>5, <1>6, <1>7 DEF PutFind, Set

\* store_entry leaves the fragment's flag, a payload where it was given one, and
\* the writer of a payload it keeps.
LEMMA StoredIs ==
    ASSUME Types, NEW t \in Task, NEW a \in Address, NEW payload \in Payload \cup {Missing},
           NEW durable, durable \in BOOLEAN, NEW force,
           NEW new \in Stored(t, a, payload, durable, force)
    PROVE  /\ new \in Entry /\ new.durable = durable
           /\ payload # Missing => new.payload # Missing
           /\ new.by \in Task /\ new.by # t /\ new.payload # Missing =>
                 local[a] # NoEntry /\ new.by = local[a].by /\ new.payload = local[a].payload
<1> DEFINE held == {local[b].payload : b \in Nearest(a)} \ {Missing}
           by == IF local[a] = NoEntry THEN NoTask ELSE local[a].by
<1>1. \A b \in Nearest(a) : b \in Address /\ local[b] # NoEntry /\ local[b] \in Entry
  BY DEF Nearest, Held, Same, Types
<1>2. held \subseteq Payload
  BY <1>1 DEF Entry
<1>3. by \in Task \cup {NoTask}
  BY DEF Types, Entry
<1>4. CASE payload # Missing /\ (force \/ held = {})
  <2>1. new = [payload |-> payload, durable |-> durable, by |-> t]
    BY <1>4 DEF Stored
  <2> QED
    BY <1>4, <2>1 DEF Entry
<1>5. CASE ~(payload # Missing /\ (force \/ held = {}))
  <2>1. PICK p \in IF held = {} THEN {Missing} ELSE held :
           new = [payload |-> p, durable |-> durable, by |-> by]
    BY <1>5 DEF Stored
  <2>2. new \in Entry /\ new.durable = durable
    BY <1>2, <1>3, <2>1 DEF Entry
  <2>3. payload # Missing => new.payload # Missing
    BY <1>5, <2>1
  <2>4. ASSUME new.by \in Task, new.payload # Missing
        PROVE  local[a] # NoEntry /\ new.by = local[a].by /\ new.payload = local[a].payload
    <3>1. local[a] # NoEntry
      BY <2>1, <2>4, ScenesAssumption
    <3>2. Nearest(a) = {a}
      BY <3>1 DEF Nearest
    <3>3. p = local[a].payload
      BY <2>1, <2>4, <3>2
    <3> QED
      BY <2>1, <3>1, <3>3
  <2> QED
    BY <2>2, <2>3, <2>4
<1> QED
  BY <1>4, <1>5

\* store_entry keeps the flags true, and what it leaves by another writer was
\* there before.
LEMMA StoreEntryIs ==
    ASSUME Types, FlagsTrue, NEW t \in Task, NEW a \in Address, NEW payload \in Payload \cup {Missing},
           NEW durable \in BOOLEAN, NEW force \in BOOLEAN,
           StoreEntry(t, a, payload, durable, force), remote' = remote,
           payload = Missing => durable, durable => HeldRemotely(a)
    PROVE  /\ local' \in [Address -> Entry \cup {NoEntry}] /\ FlagsTrue'
           /\ \A b \in Address, u \in Task : HeldLocally(b)' /\ local'[b].by = u /\ u # t =>
                 HeldLocally(b) /\ local[b].by = u
<1>1. PICK new \in Stored(t, a, payload, durable, force),
           reached \in SUBSET (Held(a) \ {a}) :
        /\ new.payload = Missing => reached = {}
        /\ local' = [b \in Address |->
                        IF b = a THEN new
                        ELSE IF b \in reached
                             THEN [local[b] EXCEPT !.payload = new.payload, !.by = NoTask]
                             ELSE local[b]]
  BY DEF StoreEntry
<1>2. /\ new \in Entry /\ new.durable = durable
      /\ payload # Missing => new.payload # Missing
      /\ new.by \in Task /\ new.by # t /\ new.payload # Missing =>
            local[a] # NoEntry /\ new.by = local[a].by /\ new.payload = local[a].payload
  <2>1. new \in Stored(t, a, payload, durable, force)
    BY <1>1
  <2> QED
    BY <2>1, StoredIs, SMT
<1>3. new # NoEntry /\ NoTask \notin Task /\ NoEntry \notin Entry
  BY <1>2, ScenesAssumption
<1> DEFINE lent(b) == [local[b] EXCEPT !.payload = new.payload, !.by = NoTask]
<1>4. \A b \in reached :
         /\ b \in Address /\ b # a /\ local[b] # NoEntry /\ local[b] \in Entry
         /\ new.payload # Missing
  BY <1>1 DEF Held, Same, Types
<1>5. \A b \in reached : /\ lent(b) \in Entry /\ lent(b).durable = local[b].durable
                         /\ lent(b).payload # Missing /\ lent(b).by = NoTask
  BY <1>2, <1>4 DEF Entry
<1>6. \A b \in Address : local'[b] = IF b = a THEN new ELSE IF b \in reached THEN lent(b) ELSE local[b]
  BY <1>1
<1> HIDE DEF lent
<1>7. local' \in [Address -> Entry \cup {NoEntry}]
  <2>1. DOMAIN local' = Address /\ local' = [b \in Address |-> local'[b]]
    BY <1>1
  <2>2. \A b \in Address : local'[b] \in Entry \cup {NoEntry}
    BY <1>2, <1>5, <1>6, SMT DEF Types
  <2> QED
    BY <2>1, <2>2
<1>8. FlagsTrue'
  <2> SUFFICES ASSUME NEW b \in Address, local'[b] # NoEntry
               PROVE  IF local'[b].durable THEN remote[b] # Missing ELSE local'[b].payload # Missing
    BY DEF FlagsTrue, HeldRemotely
  <2>1. CASE b = a
    BY <1>2, <1>6, <2>1 DEF HeldRemotely
  <2>2. CASE b # a /\ b \in reached
    BY <1>4, <1>5, <1>6, <2>2 DEF FlagsTrue, HeldRemotely
  <2>3. CASE b # a /\ b \notin reached
    BY <1>6, <2>3 DEF FlagsTrue, HeldRemotely
  <2> QED
    BY <2>1, <2>2, <2>3
<1>9. ASSUME NEW b \in Address, NEW u \in Task, HeldLocally(b)', local'[b].by = u, u # t
      PROVE  HeldLocally(b) /\ local[b].by = u
  <2>1. CASE b = a
    <3>1. new.payload \in {"whole", "wrong"} /\ new.by = u
      BY <1>6, <1>9, <2>1 DEF HeldLocally
    <3>2. new.payload # Missing
      BY <3>1 DEF Missing
    <3> QED
      BY <1>2, <1>9, <2>1, <3>1, <3>2 DEF HeldLocally
  <2>2. CASE b # a /\ b \in reached
    BY <1>3, <1>5, <1>6, <1>9, <2>2
  <2>3. CASE b # a /\ b \notin reached
    BY <1>6, <1>9, <2>3 DEF HeldLocally
  <2> QED
    BY <2>1, <2>2, <2>3
<1> QED
  BY <1>7, <1>8, <1>9

\* The store of a put keeps the invariant, whatever came between it and its find.
LEMMA PutStoreKeeps ==
    ASSUME Inv, NEW t \in Task, PutStore(t)
    PROVE  Inv'
<1>1. /\ Types /\ FlagsTrue /\ task[t] \in Record /\ Addr(t) \in Address /\ Placed(t, task[t])
      /\ Claims(t, task[t]) /\ Guarded(t, task[t]) /\ Loading(t, task[t]) /\ task[t].pc = "put"
  BY StepFacts DEF PutStore
<1>2. UNCHANGED <<remote, keys, inFlight, landed, flights, job>>
  BY DEF PutStore, writeVars
<1>3. PICK ok \in BOOLEAN :
         /\ task' = [task EXCEPT ![t] = PutDone(t, ok)]
         /\ \/ StoreEntry(t, Addr(t), PutPayload(t), task[t].flag, task[t].force)
            \/ local' = local
  BY DEF PutStore, Set
<1> DEFINE q == PutDone(t, ok)
<1>4. /\ q \in Record /\ Placed(t, q) /\ Guarded(t, q) /\ Loading(t, q) /\ ~Gone(q)
      /\ task[t].fetched = "failed" => q.fetched = "failed"
      /\ job[t].op = "load" /\ q.answer = "failed" => q.fetched = "failed" \/ FailedAt(Addr(t))
      /\ job[t].op = "load" => q.pc = "close"
  BY <1>1, PutDoneIs
<1>5. task' = [task EXCEPT ![t] = q]
  BY <1>3
<1> HIDE DEF q
<1>6. CASE local' = local
  BY <1>2, <1>4, <1>5, <1>6, AnySteps
<1>7. CASE StoreEntry(t, Addr(t), PutPayload(t), task[t].flag, task[t].force)
  <2>1. /\ PutPayload(t) \in Payload \cup {Missing}
        /\ task[t].flag \in BOOLEAN /\ task[t].force \in BOOLEAN
    BY <1>1 DEF PutPayload, Record
  <2>2. PutPayload(t) = Missing => task[t].flag
    BY <1>1 DEF PutPayload, Record, Payload, Missing, Placed
  <2>3. task[t].flag => HeldRemotely(Addr(t))
    BY <1>1 DEF Claims
  <2>4. /\ local' \in [Address -> Entry \cup {NoEntry}] /\ FlagsTrue'
        /\ \A b \in Address, u \in Task : HeldLocally(b)' /\ local'[b].by = u /\ u # t =>
              HeldLocally(b) /\ local[b].by = u
    BY <1>1, <1>2, <1>7, <2>1, <2>2, <2>3, StoreEntryIs, SMT
  <2>5. RemoteKeeps
    BY <1>2 DEF RemoteKeeps, HeldRemotely
  <2>6. Moves(t) /\ ~Gone(task'[t])
    <3>1. task'[t] = q
      BY <1>1, <1>4, <1>5, SetOne
    <3> QED
      BY <1>2, <1>4, <1>5, <2>5, <3>1, AnyMoves
  <2>7. landed' \in Nat /\ landed <= landed'
    BY <1>1, <1>2, SMT DEF Types
  <2>8. \A u \in Task : Known(u)'
    BY <1>1, <1>2, <2>5, <2>6, <2>7, TasksKeep, InvParts DEF Moves
  <2>9. \A u \in Task : Counted(u)'
    <3>1. \A u \in {t} : Gone(task'[u]) => Gone(task[u])
      BY <2>6
    <3>2. \A u \in {t} : job[u].op = "load" /\ task'[u].pc \in {"flying", "compare"} =>
               task[u].pc \in {"flying", "compare"} /\ task'[u].landed = task[u].landed
      BY <2>6 DEF Moves
    <3>3. \A a \in Address, u \in Task : HeldLocally(a)' /\ local'[a].by = u /\ Gone(task'[u]) =>
               HeldLocally(a) /\ local[a].by = u
      BY <2>4, <2>6
    <3>4. {t} \in SUBSET Task /\ Others({t}) /\ \A u \in Task : Counted(u)
      BY <2>6, InvParts DEF Moves
    <3> QED
      BY <1>1, <1>2, <2>7, <3>1, <3>2, <3>3, <3>4, CountedKeeps
  <2>10. Types'
    BY <1>1, <1>2, <2>4, <2>6, <2>7 DEF Types, Moves, Others
  <2>11. JobsAgree' /\ KeysWhole' /\ Flights'
    BY <1>1, <1>2, <2>5, JobsStay, KeysStay, FlightsStay, InvParts
  <2> QED
    BY <2>4, <2>8, <2>9, <2>10, <2>11 DEF Inv, Known
<1> QED
  BY <1>3, <1>6, <1>7

\* Eviction keeps the invariant: what it frees is on the remote.
LEMMA EvictKeeps ==
    ASSUME Inv, NEW a \in Address, Evict(a)
    PROVE  Inv'
<1>1. /\ Types /\ JobsAgree /\ FlagsTrue /\ KeysWhole /\ Flights
      /\ \A t \in Task : Known(t)
      /\ \A t \in Task : Counted(t)
  BY InvParts
<1>2. UNCHANGED <<remote, keys, inFlight, landed, flights, job, task>>
  BY DEF Evict, writeVars
<1>3. \A b \in Address :
         \/ local'[b] = local[b]
         \/ local'[b] = NoEntry
         \/ /\ local[b] # NoEntry /\ local[b].durable
            /\ local'[b] = [local[b] EXCEPT !.payload = Missing]
  <2>1. CASE EvictAged(a)
    <3>1. PICK with \in SUBSET {b \in Same(a) : Evictable(b)
                                              /\ local[b].payload = local[a].payload} :
             local' = [b \in Address |-> IF b \in {a} \cup with
                                         THEN [local[b] EXCEPT !.payload = Missing] ELSE local[b]]
      BY <2>1 DEF EvictAged
    <3>2. \A b \in {a} \cup with : Evictable(b)
      BY <3>1 DEF Evict
    <3> QED
      BY <3>1, <3>2 DEF Evictable
  <2>2. CASE EvictOldest(a)
    BY <1>1, <2>2 DEF EvictOldest, Types
  <2> QED
    BY <2>1, <2>2 DEF Evict
<1>4. local' \in [Address -> Entry \cup {NoEntry}]
  <2>1. DOMAIN local' = Address /\ local' = [b \in Address |-> local'[b]]
    <3>1. CASE EvictAged(a)
      BY <3>1 DEF EvictAged
    <3>2. CASE EvictOldest(a)
      BY <1>1, <3>2 DEF EvictOldest, Types
    <3> QED
      BY <3>1, <3>2 DEF Evict
  <2>2. \A b \in Address : local'[b] \in Entry \cup {NoEntry}
    <3> SUFFICES ASSUME NEW b \in Address PROVE local'[b] \in Entry \cup {NoEntry}
      OBVIOUS
    <3>1. local[b] \in Entry \cup {NoEntry}
      BY <1>1 DEF Types
    <3>2. local[b] # NoEntry => [local[b] EXCEPT !.payload = Missing] \in Entry
      BY <3>1 DEF Entry
    <3> QED
      BY <1>3, <3>1, <3>2
  <2> QED
    BY <2>1, <2>2
<1>5. \A b \in Address : local[b] # NoEntry =>
         /\ [local[b] EXCEPT !.payload = Missing].payload = Missing
         /\ [local[b] EXCEPT !.payload = Missing].durable = local[b].durable
  BY <1>1 DEF Types, Entry
<1>6. FlagsTrue'
  BY <1>1, <1>2, <1>3, <1>5 DEF FlagsTrue, HeldRemotely
<1>7. \A b \in Address, u \in Task : HeldLocally(b)' /\ local'[b].by = u =>
         HeldLocally(b) /\ local[b].by = u
  BY <1>3, <1>5 DEF HeldLocally, Missing
<1>8. RemoteKeeps
  BY <1>2 DEF RemoteKeeps, HeldRemotely
<1>9. landed' \in Nat /\ landed <= landed' /\ Others({}) /\ {} \in SUBSET Task
  BY <1>1, <1>2, SMT DEF Types, Others
<1>10. \A t \in Task : Known(t)'
  BY <1>1, <1>2, <1>8, <1>9, TasksKeep
<1>11. \A t \in Task : Counted(t)'
  BY <1>1, <1>2, <1>7, <1>9, CountedKeeps
<1>12. Types'
  BY <1>1, <1>2, <1>4 DEF Types
<1>13. JobsAgree' /\ KeysWhole' /\ Flights'
  BY <1>1, <1>2, <1>8, JobsStay, KeysStay, FlightsStay
<1> QED
  BY <1>6, <1>10, <1>11, <1>12, <1>13 DEF Inv, Known

\* A dropped task keeps its claims, and a load that is dropped answers nothing.
LEMMA DroppedIs ==
    ASSUME Inv, NEW t \in Task
    PROVE  LET q == Dropped(t, task[t]) IN
           /\ q \in Record /\ Placed(t, q) /\ Guarded(t, q) /\ Loading(t, q)
           /\ Gone(q) => Gone(task[t])
           /\ q.fetched = task[t].fetched
           /\ q.answer = "failed" => task[t].answer = "failed"
           /\ q.pc \in {"flying", "compare"} => q = task[t]
<1>1. /\ Types /\ task[t] \in Record /\ Placed(t, task[t]) /\ Claims(t, task[t])
      /\ Guarded(t, task[t]) /\ Loading(t, task[t])
  BY StepFacts
<1> DEFINE q == Dropped(t, task[t])
<1>2. CASE q = task[t]
  BY <1>1, <1>2
<1>3. CASE q # task[t]
  <2> DEFINE pc == IF task[t].token = "held" THEN "unguard"
                   ELSE IF job[t].op = "load" THEN "close" ELSE "done"
  <2>1. /\ q = [task[t] EXCEPT !.answer = "dropped", !.pc = pc]
        /\ task[t].pc \in Awaits
    BY <1>3 DEF Dropped
  <2>2. /\ pc \in {"unguard", "close", "done"} /\ (pc = "unguard" => task[t].token = "held")
        /\ pc # "close" /\ pc # "unguard" => job[t].op # "load"
        /\ pc = "close" => job[t].op = "load" /\ task[t].token # "held"
    OBVIOUS
  <2>3. pc \in Places
    BY <2>2 DEF Places
  <2> HIDE DEF pc, q
  <2>4. q \in Record
    BY <1>1, <2>1, <2>3 DEF Record, Answers
  <2>5. /\ q.pc = pc /\ q.seen = task[t].seen /\ q.token = task[t].token
        /\ q.durable = task[t].durable /\ q.flag = task[t].flag /\ q.publish = task[t].publish
        /\ q.fetched = task[t].fetched /\ q.reported = task[t].reported /\ q.lead = task[t].lead
        /\ q.landed = task[t].landed /\ q.payload = task[t].payload
        /\ q.channel = task[t].channel /\ q.answer = "dropped"
    BY <1>1, <2>1 DEF Record
  <2>6. Placed(t, q)
    BY <1>1, <2>2, <2>5 DEF Placed, Claims
  <2>7. Guarded(t, q) /\ (Gone(q) => Gone(task[t]))
    BY <1>1, <2>1, <2>2, <2>5 DEF Guarded, Gone, Awaits, Released
  <2>8. Loading(t, q)
    BY <1>1, <2>1, <2>2, <2>5 DEF Loading, Before, Guarded, Awaits
  <2> QED
    BY <2>2, <2>4, <2>5, <2>6, <2>7, <2>8 DEF q
<1> QED
  BY <1>2, <1>3

\* Dropping a call, and the chunks of a list with it, keeps the invariant.
LEMMA DropKeeps ==
    ASSUME Inv, NEW t \in Task, Drop(t)
    PROVE  Inv'
<1>1. /\ Types /\ JobsAgree /\ FlagsTrue /\ KeysWhole /\ Flights
      /\ \A u \in Task : Known(u)
      /\ \A u \in Task : Counted(u)
  BY InvParts
<1>2. UNCHANGED <<local, remote, keys, inFlight, landed, flights, job>>
  BY DEF Drop, storeVars, writeVars
<1> DEFINE D == {t} \cup job[t].leaves
<1>3. D \in SUBSET Task
  BY <1>1 DEF Types, Job
<1>4. /\ task' = [u \in Task |-> task'[u]]
      /\ \A u \in D : task'[u] = Dropped(u, task[u])
      /\ \A u \in Task \ D : task'[u] = task[u]
  BY <1>3 DEF Drop
<1> HIDE DEF D
<1>5. RemoteKeeps
  BY <1>2 DEF RemoteKeeps, HeldRemotely
<1>6. \A u \in Task : task'[u] \in Record
  BY <1>1, <1>3, <1>4, DroppedIs DEF Types
<1>7. Others(D)
  BY <1>4, <1>6 DEF Others
<1>8. \A u \in D : Advances(u)
  <2> SUFFICES ASSUME NEW u \in D PROVE Advances(u)
    OBVIOUS
  <2> DEFINE q == Dropped(u, task[u])
  <2>1. /\ q \in Record /\ Placed(u, q) /\ Guarded(u, q) /\ Loading(u, q)
        /\ Gone(q) => Gone(task[u])
        /\ q.fetched = task[u].fetched
        /\ q.answer = "failed" => task[u].answer = "failed"
    BY <1>3, DroppedIs
  <2>2. task'[u] = q /\ u \in Task
    BY <1>3, <1>4
  <2> HIDE DEF q
  <2>3. Claims(u, task[u])'
    BY <1>1, <1>2, <1>5, <2>1, <2>2, ClaimsStay DEF Placed
  <2>4. Placed(u, task[u])' /\ Guarded(u, task[u])'
    BY <1>2, <2>1, <2>2, <2>3 DEF Placed, Guarded
  <2>5. Loading(u, task[u])'
    <3>1. \A v \in Task : FlightOf(v)' = FlightOf(v)
      BY <1>2 DEF FlightOf, Addr, Key
    <3> QED
      BY <1>2, <2>1, <2>2, <3>1 DEF Loading
  <2>6. job[u].op = "load" /\ q.answer = "failed" => FailedAt(Addr(u))
    BY <1>1, <2>1, <2>2 DEF Known
  <2> QED
    BY <2>1, <2>2, <2>4, <2>5, <2>6 DEF Advances
<1>9. landed' \in Nat /\ landed <= landed'
  BY <1>1, <1>2, SMT DEF Types
<1>10. \A u \in Task : Known(u)'
  BY <1>1, <1>2, <1>3, <1>5, <1>7, <1>8, <1>9, TasksKeep
<1>11. \A u \in Task : Counted(u)'
  <2>1. \A u \in D : Gone(task'[u]) => Gone(task[u])
    BY <1>3, <1>4, DroppedIs
  <2>2. \A u \in D : job[u].op = "load" /\ task'[u].pc \in {"flying", "compare"} =>
               task[u].pc \in {"flying", "compare"} /\ task'[u].landed = task[u].landed
    BY <1>3, <1>4, DroppedIs
  <2>3. \A a \in Address, u \in Task : HeldLocally(a)' /\ local'[a].by = u /\ Gone(task'[u]) =>
               HeldLocally(a) /\ local[a].by = u
    BY <1>2 DEF HeldLocally
  <2> QED
    BY <1>1, <1>2, <1>3, <1>7, <1>9, <2>1, <2>2, <2>3, CountedKeeps
<1>12. Types'
  BY <1>1, <1>2, <1>4, <1>6 DEF Types
<1>13. JobsAgree' /\ FlagsTrue' /\ KeysWhole' /\ Flights'
  BY <1>1, <1>2, <1>5, JobsStay, FlagsStay, KeysStay, FlightsStay
<1> QED
  BY <1>10, <1>11, <1>12, <1>13 DEF Inv, Known

-----------------------------------------------------------------------------
(***************************************************************************)
(* The steps of a load                                                     *)
(***************************************************************************)

\* What the step of a load before its fetch leaves alone.
SameLoad(q, p) ==
    /\ q.seen = p.seen /\ q.token = p.token /\ q.durable = p.durable /\ q.flag = p.flag
    /\ q.publish = p.publish /\ q.fetched = p.fetched /\ q.reported = p.reported
    /\ q.channel = p.channel

\* A load that has not fetched knows nothing it could be wrong about.
LEMMA LoadIs ==
    ASSUME Inv, NEW t \in Task, job[t].op = "load", task[t].pc \in Before, NEW q \in Record,
           SameLoad(q, task[t]), q.landed <= landed,
           q.pc \in {"probe", "flying", "await", "compare", "again", "join", "channel", "fetch",
                     "heal", "alone", "done"},
           q.answer = "failed" => task[t].answer = "failed"
    PROVE  /\ Placed(t, q) /\ Guarded(t, q) /\ Loading(t, q) /\ ~Gone(q)
           /\ task[t].fetched = "failed" => q.fetched = "failed"
           /\ job[t].op = "load" /\ q.answer = "failed" => q.fetched = "failed" \/ FailedAt(Addr(t))
<1>1. /\ Types /\ task[t] \in Record /\ Claims(t, task[t])
      /\ Guarded(t, task[t]) /\ Loading(t, task[t])
  BY StepFacts
<1>2. task[t].fetched = "no" /\ task[t].token = "none" /\ task[t].channel # "sent"
  BY <1>1 DEF Loading, Guarded, Record, Before
<1>3. Placed(t, q) /\ Guarded(t, q) /\ ~Gone(q)
  BY <1>1, <1>2 DEF Placed, Claims, Guarded, Gone, SameLoad
<1>4. Loading(t, q)
  BY <1>2 DEF Loading, SameLoad
<1>5. q.answer = "failed" => FailedAt(Addr(t))
  BY InvParts DEF Known
<1> QED
  BY <1>2, <1>3, <1>4, <1>5 DEF SameLoad

\* A step of such a load.
LEMMA LoadSteps ==
    ASSUME Inv, NEW t \in Task, job[t].op = "load", task[t].pc \in Before, NEW q \in Record,
           task' = [task EXCEPT ![t] = q],
           UNCHANGED <<local, remote, keys, inFlight, landed, flights, job>>,
           SameLoad(q, task[t]), q.landed <= landed,
           q.pc \in {"probe", "flying", "await", "compare", "again", "join", "channel", "fetch",
                     "heal", "alone", "done"},
           q.answer = "failed" => task[t].answer = "failed",
           q.pc \in {"flying", "compare"} =>
               task[t].pc \in {"flying", "compare"} /\ q.landed = task[t].landed
    PROVE  Inv'
<1>1. /\ Placed(t, q) /\ Guarded(t, q) /\ Loading(t, q) /\ ~Gone(q)
      /\ task[t].fetched = "failed" => q.fetched = "failed"
      /\ job[t].op = "load" /\ q.answer = "failed" => q.fetched = "failed" \/ FailedAt(Addr(t))
  BY LoadIs
<1> QED
  BY <1>1, AnySteps

\* A load that only moves.
LEMMA LoadTo ==
    ASSUME Inv, NEW t \in Task, job[t].op = "load", task[t].pc \in Before,
           NEW pc \in {"await", "again", "join", "channel", "fetch", "heal", "alone", "done"}, To(t, pc),
           UNCHANGED <<local, remote, keys, inFlight, landed, flights, job>>
    PROVE  Inv'
<1>1. Types /\ task[t] \in Record /\ Loading(t, task[t]) /\ pc \in Places
  BY StepFacts DEF Places
<1> DEFINE q == [task[t] EXCEPT !.pc = pc]
<1>2. task' = [task EXCEPT ![t] = q]
  BY <1>1 DEF To, Types
<1>3. q \in Record /\ q.pc = pc /\ SameLoad(q, task[t]) /\ q.landed = task[t].landed
      /\ q.answer = task[t].answer
  BY <1>1, PcOnly, SMT DEF SameLoad
<1> HIDE DEF q
<1>4. q.landed <= landed
  BY <1>1, <1>3 DEF Loading
<1> QED
  BY <1>2, <1>3, <1>4, LoadSteps

\* A load reads STORES_LANDED before it probes.
LEMMA LoadBeginKeeps ==
    ASSUME Inv, NEW t \in Task, LoadBegin(t)
    PROVE  Inv'
<1>1. /\ Types /\ task[t] \in Record /\ job[t].op = "load" /\ task[t].pc \in Before
      /\ landed \in Nat
  BY StepFacts DEF LoadBegin, At, Before, Types
<1>2. UNCHANGED <<local, remote, keys, inFlight, landed, flights, job>>
  BY DEF LoadBegin, storeVars, writeVars
<1> DEFINE q == [task[t] EXCEPT !.pc = "probe", !.landed = landed]
<1>3. task' = [task EXCEPT ![t] = q]
  BY <1>1 DEF LoadBegin, Types
<1>4. q \in Record
  BY <1>1 DEF Record, Places
<1>5. q.pc = "probe" /\ SameLoad(q, task[t]) /\ q.answer = task[t].answer /\ q.landed <= landed
  BY <1>1, SMT DEF Record, SameLoad
<1> HIDE DEF q
<1> QED
  BY <1>1, <1>2, <1>3, <1>4, <1>5, LoadSteps

\* The wait for a store in flight ends.
LEMMA LoadAwaitedKeeps ==
    ASSUME Inv, NEW t \in Task, LoadAwaited(t)
    PROVE  Inv'
<1>1. job[t].op = "load" /\ task[t].pc \in Before
  BY DEF LoadAwaited, At, Before
<1>2. UNCHANGED <<local, remote, keys, inFlight, landed, flights, job>>
  BY DEF LoadAwaited, storeVars, writeVars
<1>3. To(t, "again")
  BY DEF LoadAwaited
<1> QED
  BY <1>1, <1>2, <1>3, LoadTo

\* stored_since looks for a store in flight.
LEMMA LoadInFlightKeeps ==
    ASSUME Inv, NEW t \in Task, LoadInFlight(t)
    PROVE  Inv'
<1>1. /\ Types /\ task[t] \in Record /\ Loading(t, task[t]) /\ job[t].op = "load"
      /\ task[t].pc \in Before /\ task[t].pc = "flying" /\ Addr(t) \in Address
  BY StepFacts DEF LoadInFlight, At, Before
<1>2. UNCHANGED <<local, remote, keys, inFlight, landed, flights, job>>
  BY DEF LoadInFlight, storeVars, writeVars
<1>3. CASE inFlight[Addr(t)] # NoTask
  <2> DEFINE u == inFlight[Addr(t)]
             q == [task[t] EXCEPT !.pc = "await", !.lead = u]
  <2>1. task' = [task EXCEPT ![t] = q] /\ u \in Task \cup {NoTask}
    BY <1>1, <1>3 DEF LoadInFlight, Types
  <2> HIDE DEF u
  <2>2. q \in Record
    BY <1>1, <2>1 DEF Record, Places
  <2>3. /\ q.pc = "await" /\ SameLoad(q, task[t]) /\ q.answer = task[t].answer
        /\ q.landed = task[t].landed
    BY <1>1 DEF Record, SameLoad
  <2> HIDE DEF q
  <2>4. q.landed <= landed
    BY <1>1, <2>3 DEF Loading
  <2> QED
    BY <1>1, <1>2, <2>1, <2>2, <2>3, <2>4, LoadSteps
<1>4. CASE inFlight[Addr(t)] = NoTask
  <2> DEFINE q == [task[t] EXCEPT !.pc = "compare"]
  <2>1. task' = [task EXCEPT ![t] = q]
    BY <1>1, <1>4 DEF LoadInFlight, Types
  <2>2. "compare" \in Places
    BY DEF Places
  <2>3. q \in Record /\ q.pc = "compare" /\ SameLoad(q, task[t]) /\ q.landed = task[t].landed
        /\ q.answer = task[t].answer
    BY <1>1, <2>2, PcOnly DEF SameLoad
  <2> HIDE DEF q
  <2>4. q.landed <= landed
    BY <1>1, <2>3 DEF Loading
  <2> QED
    BY <1>1, <1>2, <2>1, <2>3, <2>4, LoadSteps
<1> QED
  BY <1>3, <1>4

\* stored_since compares the count.
LEMMA LoadCompareKeeps ==
    ASSUME Inv, NEW t \in Task, LoadCompare(t)
    PROVE  Inv'
<1>1. /\ Types /\ task[t] \in Record /\ Loading(t, task[t]) /\ job[t].op = "load"
      /\ task[t].pc \in Before
  BY StepFacts DEF LoadCompare, At, Before
<1>2. UNCHANGED <<local, remote, keys, inFlight, landed, flights, job>>
  BY DEF LoadCompare, storeVars, writeVars
<1>3. CASE landed # task[t].landed
  <2>1. To(t, "again")
    BY <1>1, <1>3 DEF LoadCompare, Set, To, Types
  <2> QED
    BY <1>1, <1>2, <2>1, LoadTo
<1>4. CASE landed = task[t].landed
  <2> DEFINE pc == Beyond(t)
             answer == IF pc = "done" THEN "missing" ELSE task[t].answer
             q == [task[t] EXCEPT !.pc = pc, !.answer = answer]
  <2>1. task' = [task EXCEPT ![t] = q]
    BY <1>1, <1>4 DEF LoadCompare, Set, Types, Record
  <2>2. pc \in {"join", "done"} /\ pc \in Places
    BY DEF Beyond, Places
  <2>3. answer \in Answers /\ (answer = "failed" => task[t].answer = "failed")
    BY <1>1 DEF Answers, Record
  <2> HIDE DEF pc, answer
  <2>4. q \in Record
    BY <1>1, <2>2, <2>3 DEF Record
  <2>5. q.pc = pc /\ SameLoad(q, task[t]) /\ q.answer = answer /\ q.landed = task[t].landed
    BY <1>1 DEF Record, SameLoad
  <2> HIDE DEF q
  <2>6. q.landed <= landed
    BY <1>1, <2>5 DEF Loading
  <2> QED
    BY <1>1, <1>2, <2>1, <2>2, <2>3, <2>4, <2>5, <2>6, LoadSteps
<1> QED
  BY <1>3, <1>4

\* A get that misses finds nothing readable at the address itself.
LEMMA GetIs ==
    ASSUME Types, NEW a \in Address, NEW found \in Get(a)
    PROVE  /\ found \in Payload \cup {Missing}
           /\ HeldLocally(a) => found \in {"whole", "wrong"}
<1>1. \A b \in Nearest(a) : local[b] \in Entry
  BY DEF Nearest, Held, Same, Types
<1>2. found \in Payload \cup {Missing}
  BY <1>1 DEF Get, Entry
<1>3. ASSUME HeldLocally(a)
      PROVE  found \in {"whole", "wrong"}
  <2>1. Nearest(a) = {a}
    BY <1>3 DEF Nearest, HeldLocally
  <2> QED
    BY <1>3, <2>1 DEF Get, HeldLocally
<1> QED
  BY <1>2, <1>3

\* A probe hits what the address holds, so that one that misses saw nothing there.
LEMMA ProbedIs ==
    ASSUME Inv, NEW t \in Task, NEW miss \in {"flying", "join", "done"}, Probed(t, miss)
    PROVE  \E q \in Record :
              /\ task' = [task EXCEPT ![t] = q] /\ SameLoad(q, task[t])
              /\ q.landed = task[t].landed /\ q.pc \in {miss, "done"}
              /\ q.answer = "failed" => task[t].answer = "failed"
              /\ q.pc # "done" => ~HeldLocally(Addr(t))
<1>1. Types /\ task[t] \in Record /\ Addr(t) \in Address
  BY StepFacts
<1>2. PICK found \in Get(Addr(t)) :
        Set(t, IF found \in {"whole", "wrong"}
               THEN [task[t] EXCEPT !.pc = "done", !.answer = found]
               ELSE [task[t] EXCEPT !.pc = miss, !.force = found = "broken",
                                    !.answer = IF miss = "done" THEN "missing" ELSE @])
  BY DEF Probed
<1>3. /\ found \in Payload \cup {Missing}
      /\ HeldLocally(Addr(t)) => found \in {"whole", "wrong"}
  BY <1>1, GetIs
<1>4. CASE found \in {"whole", "wrong"}
  <2> DEFINE q == [task[t] EXCEPT !.pc = "done", !.answer = found]
  <2>1. task' = [task EXCEPT ![t] = q]
    BY <1>2, <1>4 DEF Set
  <2>2. q \in Record
    <3>1. found \in Answers /\ "done" \in Places
      BY <1>4 DEF Answers, Payload, Places
    <3> QED
      BY <1>1, <3>1 DEF Record
  <2>3. q.pc = "done" /\ SameLoad(q, task[t]) /\ q.landed = task[t].landed /\ q.answer # "failed"
    BY <1>1, <1>4 DEF Record, SameLoad
  <2> HIDE DEF q
  <2> QED
    BY <2>1, <2>2, <2>3
<1>5. CASE found \notin {"whole", "wrong"}
  <2> DEFINE force == found = "broken"
             answer == IF miss = "done" THEN "missing" ELSE task[t].answer
             q == [task[t] EXCEPT !.pc = miss, !.force = force, !.answer = answer]
  <2>1. task' = [task EXCEPT ![t] = q]
    BY <1>1, <1>2, <1>5 DEF Set, Record
  <2>2. miss \in Places /\ force \in BOOLEAN /\ answer \in Answers
        /\ (answer = "failed" => task[t].answer = "failed")
    BY <1>1 DEF Places, Answers, Record
  <2> HIDE DEF force, answer
  <2>3. q \in Record
    BY <1>1, <2>2 DEF Record
  <2>4. q.pc = miss /\ SameLoad(q, task[t]) /\ q.landed = task[t].landed /\ q.answer = answer
    BY <1>1 DEF Record, SameLoad
  <2> HIDE DEF q
  <2> QED
    BY <1>3, <1>5, <2>1, <2>2, <2>3, <2>4
<1> QED
  BY <1>4, <1>5

\* The second probe keeps the invariant.
LEMMA LoadAgainKeeps ==
    ASSUME Inv, NEW t \in Task, LoadAgain(t)
    PROVE  Inv'
<1>1. /\ Types /\ task[t] \in Record /\ Loading(t, task[t]) /\ job[t].op = "load"
      /\ task[t].pc \in Before
  BY StepFacts DEF LoadAgain, At, Before
<1>2. UNCHANGED <<local, remote, keys, inFlight, landed, flights, job>>
  BY DEF LoadAgain, storeVars, writeVars
<1>3. Probed(t, Beyond(t)) /\ Beyond(t) \in {"join", "done"}
  BY DEF LoadAgain, Beyond
<1>4. PICK q \in Record :
         /\ task' = [task EXCEPT ![t] = q] /\ SameLoad(q, task[t])
         /\ q.landed = task[t].landed /\ q.pc \in {"join", "done"}
         /\ q.answer = "failed" => task[t].answer = "failed"
  BY <1>3, ProbedIs
<1>5. q.landed <= landed
  BY <1>1, <1>4 DEF Loading
<1> QED
  BY <1>1, <1>2, <1>4, <1>5, LoadSteps

\* The first probe keeps the invariant: a load that misses has yet to be passed
\* by a store.
LEMMA LoadProbeKeeps ==
    ASSUME Inv, NEW t \in Task, LoadProbe(t)
    PROVE  Inv'
<1>1. /\ Types /\ task[t] \in Record /\ Loading(t, task[t]) /\ job[t].op = "load"
      /\ task[t].pc \in Before
  BY StepFacts DEF LoadProbe, At, Before
<1>2. UNCHANGED <<local, remote, keys, inFlight, landed, flights, job>>
  BY DEF LoadProbe, storeVars, writeVars
<1>3. PICK q \in Record :
         /\ task' = [task EXCEPT ![t] = q] /\ SameLoad(q, task[t])
         /\ q.landed = task[t].landed /\ q.pc \in {"flying", "done"}
         /\ q.answer = "failed" => task[t].answer = "failed"
         /\ q.pc # "done" => ~HeldLocally(Addr(t))
  <2>1. PICK miss \in {"flying", "done"} : Probed(t, miss)
    BY DEF LoadProbe
  <2> QED
    BY <2>1, ProbedIs
<1>4. q.landed <= landed
  BY <1>1, <1>3 DEF Loading
<1>5. CASE q.pc = "done"
  BY <1>1, <1>2, <1>3, <1>4, <1>5, LoadSteps
<1>6. CASE q.pc = "flying"
  <2>1. RemoteKeeps
    BY <1>2 DEF RemoteKeeps, HeldRemotely
  <2>2. Others({t}) /\ task'[t] = q
    BY <1>1, <1>3, SetOne
  <2>3. /\ Placed(t, q) /\ Guarded(t, q) /\ Loading(t, q) /\ ~Gone(q)
        /\ task[t].fetched = "failed" => q.fetched = "failed"
        /\ job[t].op = "load" /\ q.answer = "failed" => q.fetched = "failed" \/ FailedAt(Addr(t))
    BY <1>1, <1>3, <1>4, LoadIs
  <2>4. Advances(t)
    <3>1. Claims(t, task[t])'
      BY <1>1, <1>2, <2>1, <2>2, <2>3, ClaimsStay DEF Placed
    <3>2. Placed(t, task[t])' /\ Guarded(t, task[t])'
      BY <1>2, <2>2, <2>3, <3>1 DEF Placed, Guarded
    <3>3. Loading(t, task[t])'
      <4>1. \A u \in Task : FlightOf(u)' = FlightOf(u)
        BY <1>2 DEF FlightOf, Addr, Key
      <4> QED
        BY <1>2, <2>2, <2>3, <4>1 DEF Loading
    <3> QED
      BY <1>3, <2>2, <2>3, <3>2, <3>3 DEF Advances
  <2>5. landed' \in Nat /\ landed <= landed'
    BY <1>1, <1>2, SMT DEF Types
  <2>6. \A u \in Task : Known(u)'
    BY <1>1, <1>2, <2>1, <2>2, <2>4, <2>5, TasksKeep, InvParts
  <2>7. \A u \in Task : Counted(u)'
    <3> SUFFICES ASSUME NEW u \in Task PROVE Counted(u)'
      OBVIOUS
    <3>1. CASE u = t
      BY <1>2, <1>3, <1>6, <3>1 DEF Counted, HeldLocally, Addr
    <3>2. CASE u # t
      <4>1. task'[u] = task[u] /\ Counted(u)
        BY <2>2, <3>2, InvParts DEF Others
      <4>2. \A v \in Task : task'[v].token = "cancelled" \/ task'[v].pc = "unlock" =>
               task[v].token = "cancelled" \/ task[v].pc = "unlock"
        BY <2>2, <2>3 DEF Others, Gone
      <4> QED
        BY <1>2, <4>1, <4>2 DEF Counted, HeldLocally, Addr
    <3> QED
      BY <3>1, <3>2
  <2>8. Types'
    BY <1>1, <1>2, <2>2 DEF Types, Others
  <2>9. JobsAgree' /\ FlagsTrue' /\ KeysWhole' /\ Flights'
    BY <1>1, <1>2, <2>1, JobsStay, FlagsStay, KeysStay, FlightsStay, InvParts
  <2> QED
    BY <2>6, <2>7, <2>8, <2>9 DEF Inv, Known
<1> QED
  BY <1>3, <1>5, <1>6

\* The probe of a load that fetches alone keeps the invariant.
LEMMA LoadAloneKeeps ==
    ASSUME Inv, NEW t \in Task, LoadAlone(t)
    PROVE  Inv'
<1>1. /\ Types /\ task[t] \in Record /\ Loading(t, task[t]) /\ job[t].op = "load"
      /\ task[t].pc \in Before /\ Addr(t) \in Address
  BY StepFacts DEF LoadAlone, At, Before
<1>2. UNCHANGED <<local, remote, keys, inFlight, landed, flights, job>>
  BY DEF LoadAlone, storeVars, writeVars
<1>3. PICK found \in Get(Addr(t)) :
        Set(t, IF found \in {"whole", "wrong"}
               THEN [task[t] EXCEPT !.pc = "done", !.answer = found]
               ELSE [task[t] EXCEPT !.pc = "fetch"])
  BY DEF LoadAlone
<1>4. CASE found \in {"whole", "wrong"}
  <2> DEFINE q == [task[t] EXCEPT !.pc = "done", !.answer = found]
  <2>1. task' = [task EXCEPT ![t] = q]
    BY <1>3, <1>4 DEF Set
  <2>2. q \in Record
    <3>1. found \in Answers /\ "done" \in Places
      BY <1>4 DEF Answers, Payload, Places
    <3> QED
      BY <1>1, <3>1 DEF Record
  <2>3. q.pc = "done" /\ SameLoad(q, task[t]) /\ q.landed = task[t].landed /\ q.answer # "failed"
    BY <1>1, <1>4 DEF Record, SameLoad
  <2> HIDE DEF q
  <2>4. q.landed <= landed
    BY <1>1, <2>3 DEF Loading
  <2> QED
    BY <1>1, <1>2, <2>1, <2>2, <2>3, <2>4, LoadSteps
<1>5. CASE found \notin {"whole", "wrong"}
  <2>1. To(t, "fetch")
    BY <1>1, <1>3, <1>5 DEF Set, To, Types
  <2> QED
    BY <1>1, <1>2, <2>1, LoadTo
<1> QED
  BY <1>4, <1>5

\* A load's step that moves its flight.
LEMMA FlightSteps ==
    ASSUME Inv, NEW t \in Task, job[t].op = "load", NEW q \in Record,
           task' = [task EXCEPT ![t] = q],
           UNCHANGED <<local, remote, keys, inFlight, landed, job>>,
           flights' \in [FlightKey -> [leader : Task \cup {NoTask}, open : BOOLEAN]],
           \A k \in FlightKey : (flights'[k].leader = t /\ FlightOf(t) = k)
                                \/ flights'[k].leader \in {flights[k].leader, NoTask},
           Placed(t, q), Guarded(t, q), Loading(t, q), ~Gone(q),
           task[t].fetched = "failed" => q.fetched = "failed",
           q.answer = "failed" => q.fetched = "failed" \/ FailedAt(Addr(t)),
           q.pc \notin {"flying", "compare"}
    PROVE  Inv'
<1>1. Types /\ KeysWhole /\ Flights
  BY DEF Inv
<1>2. RemoteKeeps
  BY DEF RemoteKeeps, HeldRemotely
<1>3. Moves(t)
  BY <1>2, AnyMoves
<1>4. KeysWhole'
  BY <1>1, <1>2, KeysStay
<1>5. Flights'
  <2>1. \A u \in Task : FlightOf(u)' = FlightOf(u)
    BY DEF FlightOf, Addr, Key
  <2> SUFFICES ASSUME NEW k \in FlightKey, flights'[k].leader # NoTask
               PROVE  job[flights'[k].leader].op = "load" /\ FlightOf(flights'[k].leader) = k
    BY <1>1, <2>1 DEF Flights
  <2>2. CASE flights'[k].leader = t /\ FlightOf(t) = k
    BY <2>2
  <2>3. CASE flights'[k].leader = flights[k].leader
    BY <1>1, <2>3 DEF Flights
  <2> QED
    BY <2>2, <2>3
<1> QED
  BY <1>1, <1>2, <1>3, <1>4, <1>5, MovesKeeps DEF Types

\* Every load has a flight to join.
LEMMA FlightKeyIs ==
    ASSUME Types, NEW t \in Task
    PROVE  FlightOf(t) \in FlightKey
<1>1. Addr(t) \in Address /\ job[t].trust \in BOOLEAN
  BY DEF Types, Job, Addr
<1> QED
  BY <1>1, SMT DEF FlightOf, FlightKey

\* join_read_flight: a follower's leader loads the content, as trusting as it.
LEMMA JoinKeeps ==
    ASSUME Inv, NEW t \in Task, Join(t)
    PROVE  Inv'
<1>1. /\ Types /\ Flights /\ task[t] \in Record /\ Claims(t, task[t]) /\ Guarded(t, task[t])
      /\ Loading(t, task[t]) /\ job[t].op = "load" /\ task[t].pc \in Before
      /\ task[t].pc \in {"join", "channel"}
  BY StepFacts DEF Join, Before, Inv
<1>2. UNCHANGED <<local, remote, keys, inFlight, landed, job>>
  BY DEF Join, storeVars, writeVars
<1>3. FlightOf(t) \in FlightKey /\ flights[FlightOf(t)].leader \in Task \cup {NoTask}
  BY <1>1, FlightKeyIs DEF Types
<1>4. task[t].fetched = "no" /\ task[t].token = "none" /\ task[t].channel # "sent"
  BY <1>1 DEF Loading, Guarded, Record, Before
<1>5. task[t].answer = "failed" => FailedAt(Addr(t))
  BY <1>1, InvParts DEF Known
<1>6. CASE /\ flights' = [flights EXCEPT ![FlightOf(t)] = [leader |-> t, open |-> FALSE]]
           /\ task' = [task EXCEPT ![t].pc = "fetch", ![t].channel = "pending"]
  <2> DEFINE q == [task[t] EXCEPT !.pc = "fetch", !.channel = "pending"]
  <2>1. task' = [task EXCEPT ![t] = q]
    BY <1>1, <1>6 DEF Types
  <2>2. q \in Record
    <3>1. "fetch" \in Places
      BY DEF Places
    <3> QED
      BY <1>1, <3>1 DEF Record
  <2>3. /\ q.pc = "fetch" /\ q.seen = task[t].seen /\ q.token = task[t].token
        /\ q.durable = task[t].durable /\ q.flag = task[t].flag /\ q.publish = task[t].publish
        /\ q.fetched = task[t].fetched /\ q.reported = task[t].reported
        /\ q.landed = task[t].landed /\ q.channel = "pending" /\ q.answer = task[t].answer
    BY <1>1 DEF Record
  <2> HIDE DEF q
  <2>4. Placed(t, q) /\ Guarded(t, q) /\ ~Gone(q)
    BY <1>1, <1>4, <2>3 DEF Placed, Claims, Guarded, Gone
  <2>5. Loading(t, q)
    BY <1>1, <1>4, <2>3 DEF Loading
  <2>6. flights' \in [FlightKey -> [leader : Task \cup {NoTask}, open : BOOLEAN]]
    BY <1>1, <1>6 DEF Types
  <2>7. \A k \in FlightKey : (flights'[k].leader = t /\ FlightOf(t) = k)
                             \/ flights'[k].leader \in {flights[k].leader, NoTask}
    BY <1>1, <1>6 DEF Types
  <2> QED
    BY <1>1, <1>2, <1>4, <1>5, <2>1, <2>2, <2>3, <2>4, <2>5, <2>6, <2>7,
       FlightSteps
<1>7. CASE /\ flights[FlightOf(t)].leader # NoTask
           /\ flights' = [flights EXCEPT ![FlightOf(t)].open = TRUE]
           /\ task' = [task EXCEPT ![t].pc = "follow", ![t].lead = flights[FlightOf(t)].leader]
  <2> DEFINE u == flights[FlightOf(t)].leader
             q == [task[t] EXCEPT !.pc = "follow", !.lead = u]
  <2>1. task' = [task EXCEPT ![t] = q]
    BY <1>1, <1>7 DEF Types
  <2>2. u \in Task /\ job[u].op = "load" /\ FlightOf(u) = FlightOf(t)
    BY <1>1, <1>3, <1>7 DEF Flights
  <2> HIDE DEF u
  <2>3. q \in Record
    BY <1>1, <2>2 DEF Record, Places
  <2>4. /\ q.pc = "follow" /\ q.seen = task[t].seen /\ q.token = task[t].token /\ q.lead = u
        /\ q.durable = task[t].durable /\ q.flag = task[t].flag /\ q.publish = task[t].publish
        /\ q.fetched = task[t].fetched /\ q.reported = task[t].reported
        /\ q.landed = task[t].landed /\ q.channel = task[t].channel /\ q.answer = task[t].answer
    BY <1>1 DEF Record
  <2> HIDE DEF q
  <2>5. Placed(t, q) /\ Guarded(t, q) /\ ~Gone(q)
    BY <1>1, <1>4, <2>4 DEF Placed, Claims, Guarded, Gone
  <2>6. Loading(t, q)
    BY <1>1, <1>4, <2>2, <2>4 DEF Loading
  <2>7. flights' \in [FlightKey -> [leader : Task \cup {NoTask}, open : BOOLEAN]]
    BY <1>1, <1>7 DEF Types
  <2>8. \A k \in FlightKey : flights'[k].leader = flights[k].leader
    BY <1>1, <1>7 DEF Types
  <2> QED
    BY <1>1, <1>2, <1>4, <1>5, <2>1, <2>3, <2>4, <2>5, <2>6, <2>7, <2>8,
       FlightSteps
<1>8. CASE To(t, "channel") /\ flights' = flights
  BY <1>1, <1>2, <1>8, LoadTo
<1> QED
  BY <1>6, <1>7, <1>8 DEF Join

\* A fetch that fails fails for its own address.
LEMMA FetchFailedIs ==
    ASSUME Inv, NEW t \in Task, job[t].op = "load", task[t].pc \in {"fetch", "heal"}
    PROVE  LET q == FetchFailed(t) IN
           /\ q \in Record /\ Placed(t, q) /\ Guarded(t, q) /\ Loading(t, q) /\ ~Gone(q)
           /\ q.fetched = "failed" /\ q.pc = "close"
<1>1. /\ Types /\ task[t] \in Record /\ Claims(t, task[t]) /\ Guarded(t, task[t])
      /\ Loading(t, task[t])
  BY StepFacts
<1>2. task[t].token = "none" /\ task[t].channel # "sent"
  BY <1>1 DEF Loading, Guarded, Record
<1> DEFINE q == FetchFailed(t)
<1>3. q \in Record
  <2>1. "close" \in Places /\ "failed" \in Answers
    BY DEF Places, Answers
  <2> QED
    BY <1>1, <2>1 DEF FetchFailed, Record
<1>4. /\ q.pc = "close" /\ q.seen = task[t].seen /\ q.token = task[t].token
      /\ q.durable = task[t].durable /\ q.flag = task[t].flag /\ q.publish = task[t].publish
      /\ q.fetched = "failed" /\ q.reported = task[t].reported
      /\ q.landed = task[t].landed /\ q.channel = task[t].channel /\ q.answer = "failed"
  BY <1>1 DEF FetchFailed, Record
<1> HIDE DEF q
<1>5. Placed(t, q) /\ Guarded(t, q) /\ ~Gone(q)
  BY <1>1, <1>2, <1>4 DEF Placed, Claims, Guarded, Gone
<1>6. Loading(t, q)
  BY <1>1, <1>2, <1>4 DEF Loading, Before
<1> QED
  BY <1>3, <1>4, <1>5, <1>6 DEF q

\* A fetch that a load accepts is of the remote, and checked unless it trusts.
LEMMA FetchedIs ==
    ASSUME Inv, NEW t \in Task, job[t].op = "load", task[t].pc = "fetch",
           NEW payload \in Payload, HeldRemotely(Addr(t)), ~job[t].trust => payload = "whole"
    PROVE  LET q == Fetched(t, payload) IN
           /\ q \in Record /\ Placed(t, q) /\ Guarded(t, q) /\ Loading(t, q) /\ ~Gone(q)
           /\ q.answer # "failed" /\ q.pc \notin {"flying", "compare"}
<1>1. /\ Types /\ task[t] \in Record /\ Claims(t, task[t]) /\ Guarded(t, task[t])
      /\ Loading(t, task[t])
  BY StepFacts
<1>2. task[t].token = "none" /\ task[t].channel # "sent"
  BY <1>1 DEF Loading, Guarded, Record
<1> DEFINE pc == IF task[t].force THEN "put" ELSE IF job[t].cache THEN "find" ELSE "close"
           q == [task[t] EXCEPT !.pc = pc, !.fetched = "ok", !.payload = payload,
                                !.answer = payload, !.durable = TRUE, !.flag = TRUE]
<1>3. Fetched(t, payload) = q
  BY DEF Fetched
<1>4. pc \in {"put", "find", "close"} /\ pc \in Places
  BY DEF Places
<1> HIDE DEF pc
<1>5. q \in Record
  <2>1. payload \in Answers
    BY DEF Answers
  <2> QED
    BY <1>1, <1>4, <2>1 DEF Record
<1>6. /\ q.pc = pc /\ q.seen = task[t].seen /\ q.token = task[t].token
      /\ q.durable = TRUE /\ q.flag = TRUE /\ q.publish = task[t].publish
      /\ q.fetched = "ok" /\ q.reported = task[t].reported /\ q.payload = payload
      /\ q.landed = task[t].landed /\ q.channel = task[t].channel /\ q.answer = payload
  BY <1>1 DEF Record
<1> HIDE DEF q
<1>7. Placed(t, q) /\ Guarded(t, q) /\ ~Gone(q)
  BY <1>1, <1>2, <1>4, <1>6 DEF Placed, Claims, Guarded, Gone
<1>8. Loading(t, q)
  BY <1>1, <1>2, <1>4, <1>6 DEF Loading, Before, Payload
<1>9. q.answer # "failed" /\ q.pc \notin {"flying", "compare"}
  BY <1>4, <1>6 DEF Payload
<1> QED
  BY <1>3, <1>5, <1>7, <1>8, <1>9

\* fetch_remote keeps the invariant.
LEMMA FetchKeeps ==
    ASSUME Inv, NEW t \in Task, Fetch(t)
    PROVE  Inv'
<1>1. /\ Types /\ task[t] \in Record /\ Loading(t, task[t]) /\ job[t].op = "load"
      /\ task[t].pc = "fetch" /\ task[t].pc \in Before /\ Addr(t) \in Address
  BY StepFacts DEF Fetch, At, Before
<1>2. UNCHANGED <<local, remote, keys, inFlight, landed, flights, job>>
  BY DEF Fetch, storeVars, writeVars
<1>3. CASE task' = [task EXCEPT ![t] = FetchFailed(t)]
  <2> DEFINE q == FetchFailed(t)
  <2>1. /\ q \in Record /\ Placed(t, q) /\ Guarded(t, q) /\ Loading(t, q) /\ ~Gone(q)
        /\ q.fetched = "failed" /\ q.pc = "close"
    BY <1>1, FetchFailedIs
  <2>2. task' = [task EXCEPT ![t] = q]
    BY <1>3
  <2> HIDE DEF q
  <2> QED
    BY <1>2, <2>1, <2>2, AnySteps
<1>4. CASE /\ remote[Addr(t)] = "whole" \/ (job[t].trust /\ remote[Addr(t)] = "wrong")
           /\ task' = [task EXCEPT ![t] = Fetched(t, remote[Addr(t)])]
  <2> DEFINE payload == remote[Addr(t)]
             q == Fetched(t, payload)
  <2>1. payload \in Payload /\ HeldRemotely(Addr(t)) /\ (~job[t].trust => payload = "whole")
    BY <1>1, <1>4 DEF Types, HeldRemotely, Payload, Missing
  <2>2. task' = [task EXCEPT ![t] = q]
    BY <1>4
  <2> HIDE DEF payload
  <2>3. /\ q \in Record /\ Placed(t, q) /\ Guarded(t, q) /\ Loading(t, q) /\ ~Gone(q)
        /\ q.answer # "failed" /\ q.pc \notin {"flying", "compare"}
    BY <1>1, <2>1, FetchedIs
  <2> HIDE DEF q
  <2>4. task[t].fetched # "failed"
    BY <1>1 DEF Loading
  <2> QED
    BY <1>2, <2>2, <2>3, <2>4, AnySteps
<1>5. CASE task' = [task EXCEPT ![t] = [task[t] EXCEPT !.pc = "heal"]]
  <2>1. To(t, "heal")
    BY <1>1, <1>5 DEF To, Types
  <2> QED
    BY <1>1, <1>2, <2>1, LoadTo
<1> QED
  BY <1>3, <1>4, <1>5 DEF Fetch, Set

\* heal_on_receipt keeps the invariant.
LEMMA HealKeeps ==
    ASSUME Inv, NEW t \in Task, Heal(t)
    PROVE  Inv'
<1>1. /\ Types /\ task[t] \in Record /\ Loading(t, task[t]) /\ job[t].op = "load"
      /\ task[t].pc = "heal" /\ task[t].pc \in Before /\ Addr(t) \in Address
  BY StepFacts DEF Heal, At, Before
<1>2. UNCHANGED <<local, keys, inFlight, landed, flights, job>>
  BY DEF Heal, writeVars
<1>3. CASE remote' = remote /\ task' = [task EXCEPT ![t] = FetchFailed(t)]
  <2> DEFINE q == FetchFailed(t)
  <2>1. /\ q \in Record /\ Placed(t, q) /\ Guarded(t, q) /\ Loading(t, q) /\ ~Gone(q)
        /\ q.fetched = "failed" /\ q.pc = "close"
    BY <1>1, FetchFailedIs
  <2>2. task' = [task EXCEPT ![t] = q]
    BY <1>3
  <2> HIDE DEF q
  <2> QED
    BY <1>2, <1>3, <2>1, <2>2, AnySteps
<1>4. CASE /\ remote' = [remote EXCEPT ![Addr(t)] = "whole"]
           /\ task' = [task EXCEPT ![t].pc = "fetch", ![t].healed = TRUE]
  <2> DEFINE q == [task[t] EXCEPT !.pc = "fetch", !.healed = TRUE]
  <2>1. task' = [task EXCEPT ![t] = q]
    BY <1>1, <1>4 DEF Types
  <2>2. q \in Record
    <3>1. "fetch" \in Places
      BY DEF Places
    <3> QED
      BY <1>1, <3>1 DEF Record
  <2>3. /\ q.pc = "fetch" /\ SameLoad(q, task[t]) /\ q.answer = task[t].answer
        /\ q.landed = task[t].landed
    BY <1>1 DEF Record, SameLoad
  <2> HIDE DEF q
  <2>4. q.landed <= landed
    BY <1>1, <2>3 DEF Loading
  <2>5. /\ Placed(t, q) /\ Guarded(t, q) /\ Loading(t, q) /\ ~Gone(q)
        /\ task[t].fetched = "failed" => q.fetched = "failed"
        /\ job[t].op = "load" /\ q.answer = "failed" => q.fetched = "failed" \/ FailedAt(Addr(t))
    BY <1>1, <2>2, <2>3, <2>4, LoadIs
  <2>6. RemoteKeeps /\ remote' \in [Address -> Payload \cup {Missing}]
    BY <1>1, <1>4 DEF RemoteKeeps, HeldRemotely, Types, Payload, Missing
  <2>7. Moves(t)
    BY <1>2, <2>1, <2>2, <2>3, <2>5, <2>6, AnyMoves
  <2>8. KeysWhole' /\ Flights'
    BY <1>1, <1>2, <2>6, KeysStay, FlightsStay, InvParts
  <2> QED
    BY <1>1, <1>2, <2>6, <2>7, <2>8, MovesKeeps DEF Types
<1> QED
  BY <1>3, <1>4 DEF Heal, Set

\* The end of a flight: a leader that was dropped has nothing to send.
LEMMA CloseKeeps ==
    ASSUME Inv, NEW t \in Task, Close(t)
    PROVE  Inv'
<1>1. /\ Types /\ task[t] \in Record /\ Claims(t, task[t]) /\ Guarded(t, task[t])
      /\ Loading(t, task[t]) /\ job[t].op = "load" /\ task[t].pc = "close"
  BY StepFacts DEF Close, At
<1>2. UNCHANGED <<local, remote, keys, inFlight, landed, job>>
  BY DEF Close, storeVars, writeVars
<1>3. task[t].token = "none" /\ task[t].channel # "sent"
  BY <1>1 DEF Loading, Guarded, Record
<1>4. task[t].answer = "failed" => FailedAt(Addr(t))
  BY <1>1, InvParts DEF Known
<1>5. CASE Leads(t)
  <2> DEFINE pc == IF task[t].answer # "dropped" /\ flights[FlightOf(t)].open
                   THEN "send" ELSE "done"
             channel == IF task[t].answer = "dropped" THEN "closed" ELSE task[t].channel
             q == [task[t] EXCEPT !.pc = pc, !.channel = channel]
  <2>1. /\ task' = [task EXCEPT ![t] = q]
        /\ flights' = [flights EXCEPT ![FlightOf(t)] = NoFlight]
    BY <1>1, <1>5 DEF Close, Types, Record
  <2>2. /\ pc \in {"send", "done"} /\ pc \in Places /\ (pc = "send" => task[t].answer # "dropped")
        /\ channel \in {"pending", "closed"}
    BY <1>1, <1>3 DEF Places, Record
  <2> HIDE DEF pc, channel
  <2>3. q \in Record
    BY <1>1, <2>2 DEF Record
  <2>4. /\ q.pc = pc /\ q.seen = task[t].seen /\ q.token = task[t].token /\ q.lead = task[t].lead
        /\ q.durable = task[t].durable /\ q.flag = task[t].flag /\ q.publish = task[t].publish
        /\ q.fetched = task[t].fetched /\ q.reported = task[t].reported
        /\ q.payload = task[t].payload
        /\ q.landed = task[t].landed /\ q.channel = channel /\ q.answer = task[t].answer
    BY <1>1 DEF Record
  <2> HIDE DEF q
  <2>5. Placed(t, q) /\ Guarded(t, q) /\ ~Gone(q)
    BY <1>1, <1>3, <2>2, <2>4 DEF Placed, Claims, Guarded, Gone
  <2>6. Loading(t, q)
    BY <1>1, <1>3, <2>2, <2>4 DEF Loading, Before
  <2>7. flights' \in [FlightKey -> [leader : Task \cup {NoTask}, open : BOOLEAN]]
    BY <1>1, <2>1 DEF Types, NoFlight
  <2>8. \A k \in FlightKey : flights'[k].leader \in {flights[k].leader, NoTask}
    BY <1>1, <2>1 DEF Types, NoFlight
  <2> QED
    BY <1>1, <1>2, <1>4, <2>1, <2>2, <2>3, <2>4, <2>5, <2>6, <2>7, <2>8,
       FlightSteps
<1>6. CASE ~Leads(t)
  <2> DEFINE q == [task[t] EXCEPT !.pc = "done"]
  <2>1. task' = [task EXCEPT ![t] = q] /\ flights' = flights
    BY <1>1, <1>6 DEF Close, To, Types
  <2>2. "done" \in Places
    BY DEF Places
  <2>3. /\ q \in Record
        /\ q.pc = "done" /\ q.seen = task[t].seen /\ q.token = task[t].token /\ q.lead = task[t].lead
        /\ q.durable = task[t].durable /\ q.flag = task[t].flag /\ q.publish = task[t].publish
        /\ q.fetched = task[t].fetched /\ q.reported = task[t].reported
        /\ q.payload = task[t].payload
        /\ q.landed = task[t].landed /\ q.channel = task[t].channel /\ q.answer = task[t].answer
    BY <1>1, <2>2, PcOnly
  <2> HIDE DEF q
  <2>4. Placed(t, q) /\ Guarded(t, q) /\ ~Gone(q)
    BY <1>1, <1>3, <2>3 DEF Placed, Claims, Guarded, Gone
  <2>5. Loading(t, q)
    BY <1>1, <1>3, <2>3 DEF Loading, Before
  <2> QED
    BY <1>1, <1>2, <1>4, <2>1, <2>3, <2>4, <2>5, AnySteps
<1> QED
  BY <1>5, <1>6

\* The outcome that is sent is a fetch's.
LEMMA SendKeeps ==
    ASSUME Inv, NEW t \in Task, Send(t)
    PROVE  Inv'
<1>1. /\ Types /\ task[t] \in Record /\ Claims(t, task[t]) /\ Guarded(t, task[t])
      /\ Loading(t, task[t]) /\ job[t].op = "load" /\ task[t].pc = "send"
  BY StepFacts DEF Send, At
<1>2. UNCHANGED <<local, remote, keys, inFlight, landed, flights, job>>
  BY DEF Send, storeVars, writeVars
<1>3. task[t].token = "none" /\ task[t].fetched \in {"ok", "failed"}
  BY <1>1 DEF Loading, Guarded, Record
<1>4. task[t].answer = "failed" => FailedAt(Addr(t))
  BY <1>1, InvParts DEF Known
<1> DEFINE q == [task[t] EXCEPT !.pc = "done", !.channel = "sent"]
<1>5. task' = [task EXCEPT ![t] = q]
  BY <1>1 DEF Send, Types
<1>6. q \in Record
  <2>1. "done" \in Places
    BY DEF Places
  <2> QED
    BY <1>1, <2>1 DEF Record
<1>7. /\ q.pc = "done" /\ q.seen = task[t].seen /\ q.token = task[t].token /\ q.lead = task[t].lead
      /\ q.durable = task[t].durable /\ q.flag = task[t].flag /\ q.publish = task[t].publish
      /\ q.fetched = task[t].fetched /\ q.reported = task[t].reported
      /\ q.payload = task[t].payload
      /\ q.landed = task[t].landed /\ q.channel = "sent" /\ q.answer = task[t].answer
  BY <1>1 DEF Record
<1> HIDE DEF q
<1>8. Placed(t, q) /\ Guarded(t, q) /\ ~Gone(q)
  BY <1>1, <1>3, <1>7 DEF Placed, Claims, Guarded, Gone
<1>9. Loading(t, q)
  BY <1>1, <1>3, <1>7 DEF Loading, Before
<1> QED
  BY <1>1, <1>2, <1>4, <1>5, <1>6, <1>7, <1>8, <1>9, AnySteps

\* A follower takes a checked payload, or an error of its own address.
LEMMA FollowFlightKeeps ==
    ASSUME Inv, NEW t \in Task, FollowFlight(t)
    PROVE  Inv'
<1>1. /\ Types /\ task[t] \in Record /\ Claims(t, task[t]) /\ Guarded(t, task[t])
      /\ Loading(t, task[t]) /\ job[t].op = "load" /\ task[t].pc = "follow" /\ task[t].pc \in Before
  BY StepFacts DEF FollowFlight, At, Before
<1>2. UNCHANGED <<local, remote, keys, inFlight, landed, flights, job>>
  BY DEF FollowFlight, storeVars, writeVars
<1>3. task[t].token = "none" /\ task[t].fetched = "no" /\ task[t].channel # "sent"
  BY <1>1 DEF Loading, Guarded, Record
<1> DEFINE l == task[t].lead
           lead == task[l]
<1>4. /\ l \in Task /\ job[l].op = "load" /\ FlightOf(l) = FlightOf(t)
      /\ lead \in Record /\ Loading(l, lead)
  BY <1>1, StepFacts DEF Loading
<1>5. job[l].trust = job[t].trust
  BY <1>4 DEF FlightOf, Key
<1>6. /\ lead.channel # "pending"
      /\ task' = [task EXCEPT ![t] =
              IF lead.channel = "closed" THEN [task[t] EXCEPT !.pc = "join"]
              ELSE IF lead.fetched = "ok"
                   THEN [task[t] EXCEPT !.pc = "done", !.answer = lead.payload, !.fetched = "shared"]
              ELSE IF Addr(l) = Addr(t) THEN [task[t] EXCEPT !.pc = "done", !.answer = "failed"]
              ELSE [task[t] EXCEPT !.pc = "alone"]]
  BY DEF FollowFlight, Set
<1>7. lead.channel # "closed" => lead.channel = "sent" /\ lead.fetched \in {"ok", "failed"}
  BY <1>4, <1>6 DEF Record, Loading
<1>8. CASE lead.channel = "closed"
  <2>1. To(t, "join")
    BY <1>1, <1>6, <1>8 DEF To, Types
  <2> QED
    BY <1>1, <1>2, <2>1, LoadTo
<1>9. CASE lead.channel # "closed" /\ lead.fetched # "ok" /\ Addr(l) # Addr(t)
  <2>1. To(t, "alone")
    BY <1>1, <1>6, <1>9 DEF To, Types
  <2> QED
    BY <1>1, <1>2, <2>1, LoadTo
<1>10. CASE lead.channel # "closed" /\ lead.fetched = "ok"
  <2> DEFINE payload == lead.payload
             q == [task[t] EXCEPT !.pc = "done", !.answer = payload, !.fetched = "shared"]
  <2>1. task' = [task EXCEPT ![t] = q]
    BY <1>6, <1>10
  <2>2. payload \in Payload /\ (~job[t].trust => payload = "whole")
    BY <1>4, <1>5, <1>10 DEF Record, Loading
  <2> HIDE DEF payload
  <2>3. q \in Record
    <3>1. payload \in Answers /\ "done" \in Places
      BY <2>2 DEF Answers, Places
    <3> QED
      BY <1>1, <3>1 DEF Record
  <2>4. /\ q.pc = "done" /\ q.seen = task[t].seen /\ q.token = task[t].token
        /\ q.durable = task[t].durable /\ q.flag = task[t].flag /\ q.publish = task[t].publish
        /\ q.fetched = "shared" /\ q.reported = task[t].reported
        /\ q.landed = task[t].landed /\ q.channel = task[t].channel /\ q.answer = payload
    BY <1>1 DEF Record
  <2> HIDE DEF q
  <2>5. Placed(t, q) /\ Guarded(t, q) /\ ~Gone(q)
    BY <1>1, <1>3, <2>4 DEF Placed, Claims, Guarded, Gone
  <2>6. Loading(t, q)
    BY <1>1, <1>3, <2>2, <2>4 DEF Loading, Before
  <2>7. q.answer # "failed"
    BY <2>2, <2>4 DEF Payload
  <2> QED
    BY <1>2, <1>3, <2>1, <2>3, <2>4, <2>5, <2>6, <2>7, AnySteps
<1>11. CASE lead.channel # "closed" /\ lead.fetched # "ok" /\ Addr(l) = Addr(t)
  <2> DEFINE q == [task[t] EXCEPT !.pc = "done", !.answer = "failed"]
  <2>1. task' = [task EXCEPT ![t] = q]
    BY <1>6, <1>11
  <2>2. q \in Record
    <3>1. "failed" \in Answers /\ "done" \in Places
      BY DEF Answers, Places
    <3> QED
      BY <1>1, <3>1 DEF Record
  <2>3. /\ q.pc = "done" /\ q.seen = task[t].seen /\ q.token = task[t].token
        /\ q.durable = task[t].durable /\ q.flag = task[t].flag /\ q.publish = task[t].publish
        /\ q.fetched = task[t].fetched /\ q.reported = task[t].reported
        /\ q.landed = task[t].landed /\ q.channel = task[t].channel /\ q.answer = "failed"
    BY <1>1 DEF Record
  <2> HIDE DEF q
  <2>4. Placed(t, q) /\ Guarded(t, q) /\ ~Gone(q)
    BY <1>1, <1>3, <2>3 DEF Placed, Claims, Guarded, Gone
  <2>5. Loading(t, q)
    BY <1>1, <1>3, <2>3 DEF Loading, Before
  <2>6. FailedAt(Addr(t))
    BY <1>4, <1>7, <1>11 DEF FailedAt
  <2> QED
    BY <1>2, <1>3, <2>1, <2>2, <2>3, <2>4, <2>5, <2>6, AnySteps
<1> QED
  BY <1>8, <1>9, <1>10, <1>11

-----------------------------------------------------------------------------
(***************************************************************************)
(* The theorems                                                            *)
(***************************************************************************)

\* The invariant holds of what a behaviour starts from.
LEMMA InitInv == Init => Inv
<1> SUFFICES ASSUME Init PROVE Inv
  OBVIOUS
<1>1. PICK s \in Scenes :
         /\ local = s.local /\ remote = s.remote /\ job = s.job
         /\ keys = [remote |-> {}, local |-> {}]
         /\ inFlight = [a \in Address |-> NoTask]
         /\ landed = 0
         /\ flights = [k \in FlightKey |-> NoFlight]
         /\ task = [t \in Task |-> Fresh]
  BY DEF Init
<1>2. Fresh \in Record
  <2>1. Unseen \in Seen
    BY DEF Unseen, Seen
  <2>2. "start" \in Places /\ "none" \in Answers /\ "whole" \in Payload
    BY DEF Places, Answers, Payload
  <2> QED
    BY <2>1, <2>2 DEF Fresh, Record
<1>3. /\ Fresh.pc = "start" /\ Fresh.token = "none" /\ Fresh.durable = FALSE /\ Fresh.flag = FALSE
      /\ Fresh.publish = FALSE /\ Fresh.reported = {} /\ Fresh.seen.durable = FALSE
      /\ Fresh.fetched = "no" /\ Fresh.channel = "pending" /\ Fresh.answer = "none"
      /\ Fresh.landed = 0
  BY DEF Fresh, Unseen
<1> HIDE DEF Fresh
<1>4. /\ local \in [Address -> Entry \cup {NoEntry}]
      /\ remote \in [Address -> Payload \cup {Missing}]
      /\ job \in [Task -> Job]
      /\ FlagsTrue
  BY <1>1, ScenesAssumption DEF FlagsTrue, HeldRemotely
<1>5. JobsAgree
  <2> DEFINE j == s.job
  <2>1. \A t, u \in {v \in Task : j[v].publish} : j[t].addr = j[u].addr =>
           {j[c].addr : c \in j[t].leaves} = {j[c].addr : c \in j[u].leaves}
    BY <1>1, ScenesAssumption
  <2>2. job = j
    BY <1>1
  <2> HIDE DEF j
  <2>3. {v \in Task : job[v].publish} = {v \in Task : j[v].publish}
    BY <2>2
  <2>4. \A t, u \in {v \in Task : job[v].publish} : job[t].addr = job[u].addr =>
           {job[c].addr : c \in job[t].leaves} = {job[c].addr : c \in job[u].leaves}
    BY ONLY <2>1, <2>2, <2>3, SMT
  <2> QED
    BY <2>4 DEF JobsAgree
<1>6. Types
  BY <1>1, <1>2, <1>4 DEF Types, NoFlight
<1>7. KeysWhole /\ Flights
  BY <1>1 DEF KeysWhole, Flights, NoFlight
<1>8. \A t \in Task : Placed(t, task[t]) /\ Guarded(t, task[t]) /\ Loading(t, task[t])
  BY <1>1, <1>3, SMT DEF Placed, Claims, Guarded, Loading
<1>9. \A t \in Task : task[t].answer # "failed" /\ Counted(t)
  BY <1>1, <1>3 DEF Counted
<1> QED
  BY <1>4, <1>5, <1>6, <1>7, <1>8, <1>9 DEF Inv

\* Every step keeps the invariant.
LEMMA InvNext == Inv /\ [Next]_vars => Inv'
<1> SUFFICES ASSUME Inv, [Next]_vars PROVE Inv'
  OBVIOUS
<1>1. ASSUME NEW t \in Task, StoreStep(t)
      PROVE  Inv'
  BY <1>1, StoreBeginKeeps, StoreQueryKeeps, StoreGuardKeeps, StoreInheritKeeps, DispatchKeeps,
     DispatchResolveKeeps, FollowKeeps, BodyBeginKeeps, BodyCopyKeeps, BodyPrepareKeeps,
     BodyUploadKeeps, GuardCountKeeps, GuardRemoveKeeps, PublishKeeps, PublishLocalKeeps,
     TrackerKeeps DEF StoreStep
<1>2. ASSUME NEW t \in Task, LoadStep(t)
      PROVE  Inv'
  BY <1>2, LoadBeginKeeps, LoadProbeKeeps, LoadInFlightKeeps, LoadAwaitedKeeps, LoadCompareKeeps,
     LoadAgainKeeps, JoinKeeps, FetchKeeps, HealKeeps, CloseKeeps, SendKeeps, FollowFlightKeeps,
     LoadAloneKeeps DEF LoadStep
<1>3. ASSUME NEW w \in Tracker, AwaitStep(w)
      PROVE  Inv'
  <2>1. UNCHANGED <<local, remote, keys, inFlight, landed, flights, job, task>>
    BY <1>3 DEF AwaitStep, AwaitBegin, AwaitCheck, AwaitWake, storeVars
  <2> QED
    BY <2>1, AwaitKeeps
<1>4. CASE UNCHANGED vars
  <2>1. UNCHANGED <<local, remote, keys, inFlight, landed, flights, job, task>>
    BY <1>4 DEF vars, storeVars, writeVars
  <2> QED
    BY <2>1, AwaitKeeps
<1> QED
  BY <1>1, <1>2, <1>3, <1>4, PutFindKeeps, PutStoreKeeps, DropKeeps, EvictKeeps DEF Next, Steps

\* The invariant holds for every number of tasks, addresses and trackers, of every
\* scene and every bound.
THEOREM FragmentInvariant == Spec => []Inv
BY InitInv, InvNext, PTL DEF Spec

\* The durable flag of a local entry is never ahead of the remote, and an entry
\* without it keeps its payload.
THEOREM FlagsAreTrue == Spec => []FlagsTrue
<1>1. Inv => FlagsTrue
  BY DEF Inv
<1> QED
  BY <1>1, FragmentInvariant, PTL

\* A key published on the remote names content the remote holds, with every chunk
\* of a list.
THEOREM KeysAreWhole == Spec => []KeysWhole
<1>1. Inv => KeysWhole
  BY DEF Inv
<1> QED
  BY <1>1, FragmentInvariant, PTL

\* A load that does not trust the remote never gets a fetched payload that was not
\* checked, its own or a shared one.
THEOREM FetchesAreChecked == Spec => []FetchChecked
<1>1. Inv => FetchChecked
  BY DEF Inv, Loading, FetchChecked
<1> QED
  BY <1>1, FragmentInvariant, PTL

\* A load fails only where a fetch of its own address failed.
THEOREM LoadsFailOnTheirOwn == Spec => []FailsOwn
<1>1. Inv => FailsOwn
  BY DEF Inv, FailsOwn, FailedAt
<1> QED
  BY <1>1, FragmentInvariant, PTL

\* A load about to compare the count is moved by that comparison only.
LEMMA CompareAlone ==
    ASSUME Types, NEW t \in Task, At(t, "load", "compare"), Next
    PROVE  task'[t] = task[t] \/ LoadCompare(t)
<1>1. job[t].op = "load" /\ task[t].pc = "compare" /\ task \in [Task -> Record]
  BY DEF At, Types
<1>2. ASSUME NEW u \in Task, StoreStep(u)
      PROVE  task'[t] = task[t]
  <2>1. CASE StoreBegin(u) \/ StoreQuery(u) \/ StoreGuard(u) \/ StoreInherit(u)
    BY <1>1, <2>1 DEF StoreBegin, StoreQuery, StoreGuard, StoreInherit,
       At, Set
  <2>2. CASE Dispatch(u) \/ DispatchResolve(u) \/ Follow(u)
    BY <1>1, <2>2 DEF Dispatch, DispatchResolve, Follow, At, Set
  <2>3. CASE BodyBegin(u) \/ BodyCopy(u) \/ BodyPrepare(u) \/ BodyUpload(u)
    BY <1>1, <2>3 DEF BodyBegin, BodyCopy, BodyPrepare, BodyUpload, At,
       To
  <2>4. CASE GuardCount(u) \/ GuardRemove(u) \/ Publish(u) \/ PublishLocal(u)
    BY <1>1, <2>4 DEF GuardCount, GuardRemove, Publish, PublishLocal, At, To, Set
  <2>5. CASE RecordError(u) \/ Dec(u) \/ Notify(u)
    BY <1>1, <2>5 DEF RecordError, Dec, Notify, At, To
  <2> QED
    BY <1>2, <2>1, <2>2, <2>3, <2>4, <2>5 DEF StoreStep
<1>3. ASSUME NEW u \in Task, LoadStep(u)
      PROVE  task'[t] = task[t] \/ LoadCompare(t)
  <2>1. CASE LoadBegin(u) \/ LoadProbe(u) \/ LoadInFlight(u) \/ LoadAwaited(u) \/ LoadAgain(u)
    BY <1>1, <2>1 DEF LoadBegin, LoadProbe, LoadInFlight, LoadAwaited,
       LoadAgain, Probed, At, To, Set
  <2>2. CASE LoadCompare(u)
    BY <1>1, <2>2 DEF LoadCompare, Set
  <2>3. CASE Join(u) \/ Close(u) \/ Send(u)
    BY <1>1, <2>3 DEF Join, Close, Send, At, To
  <2>4. CASE Fetch(u) \/ Heal(u) \/ FollowFlight(u) \/ LoadAlone(u)
    BY <1>1, <2>4 DEF Fetch, Heal, FollowFlight, LoadAlone, At, Set
  <2> QED
    BY <1>3, <2>1, <2>2, <2>3, <2>4 DEF LoadStep
<1>4. ASSUME NEW u \in Task, PutFind(u) \/ PutStore(u)
      PROVE  task'[t] = task[t]
  BY <1>1, <1>4 DEF PutFind, PutStore, Set
<1>5. ASSUME NEW w \in Tracker, AwaitStep(w)
      PROVE  task'[t] = task[t]
  BY <1>5 DEF AwaitStep, AwaitBegin, AwaitCheck, AwaitWake
<1>6. ASSUME NEW u \in Task, Drop(u)
      PROVE  task'[t] = task[t]
  <2>1. Dropped(t, task[t]) = task[t]
    BY <1>1 DEF Dropped, Awaits
  <2> QED
    BY <1>6, <2>1 DEF Drop
<1>7. ASSUME NEW a \in Address, Evict(a)
      PROVE  task'[t] = task[t]
  BY <1>7 DEF Evict
<1> QED
  BY <1>2, <1>3, <1>4, <1>5, <1>6, <1>7 DEF Next, Steps

\* A load gives up on the local store only when no guarded store has left its
\* payload there.
THEOREM LandedIsSeen == Spec => LandedSeen
<1> DEFINE Sees == \A t \in Task :
              LET a == Addr(t) IN
              /\ At(t, "load", "compare") /\ task'[t].pc \notin {"compare", "again"}
              /\ HeldLocally(a) /\ local[a].by # NoTask
              => task[local[a].by].token # "cancelled"
<1>1. Inv /\ [Next]_vars => [Sees]_vars
  <2> SUFFICES ASSUME Inv, Next, NEW t \in Task, At(t, "load", "compare"),
                      task'[t].pc \notin {"compare", "again"},
                      HeldLocally(Addr(t)), local[Addr(t)].by # NoTask,
                      task[local[Addr(t)].by].token = "cancelled"
               PROVE  FALSE
    OBVIOUS
  <2>1. Types /\ task[t] \in Record /\ Addr(t) \in Address
    BY StepFacts
  <2>2. local[Addr(t)].by \in Task
    BY <2>1 DEF Types, Entry, HeldLocally
  <2>3. task[t].landed < landed
    BY <2>2, InvParts DEF Counted, At
  <2>4. task[t].landed \in Nat /\ landed \in Nat
    BY <2>1 DEF Types, Record
  <2>5. landed # task[t].landed
    BY <2>3, <2>4, SMT
  <2>6. LoadCompare(t)
    BY <2>1, CompareAlone DEF At
  <2>7. task'[t] = [task[t] EXCEPT !.pc = "again"]
    BY <2>1, <2>5, <2>6 DEF LoadCompare, Set, Types
  <2> QED
    BY <2>1, <2>7 DEF Record
<1> QED
  BY <1>1, FragmentInvariant, PTL DEF Spec, LandedSeen
=============================================================================
