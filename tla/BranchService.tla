--------------------------- MODULE BranchService ---------------------------
(***************************************************************************)
(* The branches of one repository on a server, and the requests that work  *)
(* on them at the same time: pushes, lookups of a revision by number, the  *)
(* creation, deletion and protection of branches, and metadata updates     *)
(* (lore-server/src/grpc/handlers/branch_*.rs, grpc/revision/v1,           *)
(* lore-revision/src/branch.rs).                                           *)
(*                                                                         *)
(* All of the shared state is keys of the mutable store.  No lock spans    *)
(* two of them, or two accesses to one: every load, store and              *)
(* compare-and-swap of a handler is a step of its own here, and the reads  *)
(* of immutable revisions between them are part of the step they lead to.  *)
(* What clients upload meanwhile is left out: a revision they have not     *)
(* uploaded in full stays so, which is the worst that can happen.          *)
(* A request may end at any step: the store asks it to slow down, a hook   *)
(* refuses it, its client goes away, or the server stops.                  *)
(***************************************************************************)
EXTENDS BranchHistory

CONSTANTS
    Branch,         \* branch identifiers
    Default,        \* the default branch of the repository
    Request,        \* the requests
    Scenes,         \* what the requests may ask for: functions from Request
    Grown,          \* how many revisions the repository starts with
    Trunk,          \* how many of them are on the default branch
    Uploaded,       \* what clients uploaded of each of them
    MaxBoundary,    \* bound: the highest boundary that is sealed
    MaxEnds,        \* bound: requests that end before they are done, reads that
                    \* fail and are taken for an absent key, and such writes
    Unread          \* a value a request has not read yet

ASSUME BranchAssumption ==
    /\ Default \in Branch
    /\ Trunk \in 1 .. Grown /\ Grown \in Nat
    /\ Uploaded \in [1 .. Grown -> Uploads] /\ \A i \in 1 .. Trunk : Uploaded[i] = "whole"
    /\ MaxBoundary \in Nat /\ MaxEnds \in Nat
    /\ {None, Unread} \cap (Branch \cup Request \cup Nat) = {} /\ None # Unread
    /\ None \notin {"success", "found", "absent"}

VARIABLES
    states,     \* the revisions clients and the server made
    latest,     \* LATEST: the head of each branch
    meta,       \* METADATA: the metadata of each branch, or None
    names,      \* ID: the branch each name maps to, or None
    steps,      \* REVISION_NUMBER_STEP: the revision sealed at each boundary
    lists,      \* REVISION_LIST_STEP: the segment cached for each boundary
    ask,        \* what each request asks for
    call,       \* where each request is
    ends        \* how many of those there were

storeVars == <<states, latest, meta, names, steps, lists>>
vars == <<storeVars, ask, call, ends>>

Name == Branch                      \* one name for each branch to be created under
Boundary == Multiples(1, MaxBoundary)
Metadata == [name : Name, protect : BOOLEAN, note : Request \cup {None}]

\* What a request may ask for.  A push is of a change of one file, committed on
\* top of the head last seen or on any other revision (onto), perhaps merging
\* one more, numbered `off' too high or not uploaded in full; it may repeat a
\* push whose answer was lost (again).  The other revisions are those there were
\* at first and those the clients of other requests commit.  A branch is created
\* at any of the first revisions, uploaded or not, or without a parent; lookups
\* are on the default branch, which has none.
Ask ==
    [kind : {"push"}, branch : Branch, file : File, onto : (0 .. Grown) \cup Request \cup {None},
     merges : (0 .. Grown) \cup Request, off : Nat, upload : Uploads, force : BOOLEAN,
     merge : BOOLEAN, privileged : BOOLEAN, again : Request \cup {None}] \cup
    [kind : {"find"}, branch : {Default}, number : Nat \ {0}] \cup
    [kind : {"create"}, branch : Branch, name : Name, point : 0 .. Grown] \cup
    [kind : {"delete", "annotate"}, branch : Branch] \cup
    [kind : {"protect"}, branch : Branch, on : BOOLEAN]

\* Lookups are of numbers whose boundary may be sealed.
ASSUME ScenesAssumption ==
    /\ Scenes \subseteq [Request -> Ask]
    /\ \A s \in Scenes : \A r \in Request :
          s[r].kind = "find" => BoundaryOf(s[r].number) \in Boundary
    /\ None \notin Metadata /\ Unread \notin Metadata

\* `began' is what a push was called with, and for a lookup, as history, the
\* head when it was called.
NoCall == [pc |-> "idle", began |-> Zero, incoming |-> Zero, head |-> Unread,
           meta |-> Unread, other |-> None, todo |-> {}, status |-> None,
           revision |-> Zero]

Init ==
    /\ states = [i \in 1 .. Grown |->
                    [EmptyState EXCEPT !.self = i - 1, !.number = i, !.upload = Uploaded[i]]]
    /\ latest = [b \in Branch |-> IF b = Default THEN Trunk ELSE Zero]
    /\ meta = [b \in Branch |-> IF b = Default
                                THEN [name |-> b, protect |-> FALSE, note |-> None]
                                ELSE None]
    /\ names = [n \in Name |-> IF n = Default THEN Default ELSE None]
    /\ steps = [b \in Branch |-> [k \in Boundary |-> Zero]]
    /\ lists = [b \in Branch |-> [k \in Boundary |-> {}]]
    /\ ask \in Scenes
    /\ call = [r \in Request |-> NoCall]
    /\ ends = 0

At(r, kind, pc) == ask[r].kind = kind /\ call[r].pc = pc

\* The request moves on with the given call.
Goes(r, c) == call' = [call EXCEPT ![r] = c] /\ UNCHANGED <<ask, ends>>

\* A read failed, and the request moves on as if the key were absent; or a write
\* that only saves later requests work did, and it moves on without it.
Misreads(r, c) ==
    /\ ends < MaxEnds /\ ends' = ends + 1
    /\ call' = [call EXCEPT ![r] = c]
    /\ UNCHANGED ask

To(r, pc) == [call[r] EXCEPT !.pc = pc]

\* The request answers; of what it held only what it began with matters after.
Done(r, status, revision) ==
    [NoCall EXCEPT !.pc = "done", !.began = call[r].began,
                   !.status = status, !.revision = revision]

-----------------------------------------------------------------------------
(***************************************************************************)
(* Push                                                                    *)
(***************************************************************************)

\* One of the first revisions, or the one the client of a request committed.
Committed(x) == IF x \in Request THEN call[x].began ELSE x

\* The revision a client commits, with the number it believes to be next, and
\* uploads, or not, before it pushes.
ClientState(r) ==
    LET base == IF ask[r].onto = None THEN latest[ask[r].branch] ELSE Committed(ask[r].onto)
        other == Committed(ask[r].merges)
    IN  [self |-> base, other |-> other,
         number |-> NextRevisionNumber(Number(states, base), Number(states, other))
                    + ask[r].off,
         tree |-> [Tree(states, base) EXCEPT ![ask[r].file] = r],
         upload |-> ask[r].upload]

\* The handler is entered.  A client that lost the answer of its push sends the
\* same revision again.
PushArrive(r) ==
    /\ At(r, "push", "idle")
    /\ LET sent == IF ask[r].again = None THEN Address(states, ClientState(r))
                   ELSE call[ask[r].again].began
       IN  /\ sent # Zero
           /\ states' = IF ask[r].again = None
                        THEN Serialized(states, ClientState(r)) ELSE states
           /\ Goes(r, [To(r, "load") EXCEPT !.began = sent, !.incoming = sent])
    /\ UNCHANGED <<latest, meta, names, steps, lists>>

\* load_branch_and_head reads the metadata and the head side by side.
PushLoadMetadata(r) ==
    /\ At(r, "push", "load")
    /\ call[r].meta = Unread
    /\ Goes(r, [call[r] EXCEPT !.meta = meta[ask[r].branch]])
    /\ UNCHANGED storeVars

PushLoadHead(r) ==
    /\ At(r, "push", "load")
    /\ call[r].head = Unread
    /\ \/ Goes(r, [call[r] EXCEPT !.head = latest[ask[r].branch]])
       \/ Misreads(r, [call[r] EXCEPT !.head = Zero])
    /\ UNCHANGED storeVars

\* check_push_access
Covered(r) == call[r].meta.protect => ask[r].privileged

\* push_loaded up to the name check, and the read ensure_name_maps_to_branch
\* starts with.
PushReadName(r) ==
    /\ At(r, "push", "load")
    /\ call[r].meta # Unread /\ call[r].head # Unread
    /\ IF call[r].meta = None THEN Goes(r, Done(r, "not_found", Zero))
       ELSE IF ~Covered(r) THEN Goes(r, Done(r, "denied", Zero))
       ELSE LET mapped == names[call[r].meta.name]
            IN  Goes(r, IF mapped = ask[r].branch THEN To(r, "prepare")
                        ELSE IF mapped = None THEN To(r, "reinstate")
                        ELSE [To(r, "claim") EXCEPT !.other = mapped])
    /\ UNCHANGED storeVars

\* other_branch_still_claims_name
StillClaims(b, n) == meta[b] # None /\ meta[b].name = n

PushReadClaim(r) ==
    /\ At(r, "push", "claim")
    /\ \/ Goes(r, IF StillClaims(call[r].other, call[r].meta.name)
                  THEN Done(r, "already_exists", Zero)
                  ELSE [To(r, "reinstate") EXCEPT !.other = None])
       \/ Misreads(r, [To(r, "reinstate") EXCEPT !.other = None])
    /\ UNCHANGED storeVars

\* store_name_to_id: the name of a deleted branch is mapped back.
PushReinstate(r) ==
    /\ At(r, "push", "reinstate")
    /\ names' = [names EXCEPT ![call[r].meta.name] = ask[r].branch]
    /\ Goes(r, To(r, "prepare"))
    /\ UNCHANGED <<states, latest, meta, steps, lists>>

\* decide_head_move
DecideHeadMove(r, current) ==
    IF ask[r].force \/ current = State(states, call[r].incoming).self THEN "store"
    ELSE IF current = Zero THEN "not_found"
    ELSE IF ask[r].merge THEN "merge" ELSE "declined"

\* The incoming revision with the number its parents give it (store_new_head).
Renumbered(r) ==
    LET s == State(states, call[r].incoming)
    IN  [s EXCEPT !.number = NextRevisionNumber(Number(states, s.self),
                                                Number(states, s.other))]

\* Where a decision leads, from prepare_push or from a swap that failed.
Decided(r, current) ==
    LET decision == DecideHeadMove(r, current)
    IN  IF decision \in {"store", "merge"}
        THEN [To(r, decision) EXCEPT !.head = current]
        ELSE Done(r, decision, current)

PushPrepare_Unverified(r) ==
    /\ At(r, "push", "prepare")
    /\ LET next == Decided(r, call[r].head)
       IN  IF next.pc = "store"
           THEN /\ states' = Serialized(states, Renumbered(r))
                /\ Goes(r, [next EXCEPT !.incoming = Address(states, Renumbered(r))])
           ELSE Goes(r, next) /\ UNCHANGED states
    /\ UNCHANGED <<latest, meta, names, steps, lists>>

\* verify_incoming_fragments: both parents of the incoming revision can be read
\* and what it adds to them was uploaded.
Verified(all, v) ==
    /\ State(all, v).upload = "whole"
    /\ Present(all, State(all, v).self)
    /\ Present(all, State(all, v).other)

\* prepare_push, and the renumbering store_new_head starts with.
PushPrepare(r) ==
    /\ At(r, "push", "prepare")
    /\ LET c == call[r]
           next == Decided(r, c.head)
       IN  IF ~Present(states, c.incoming)
           THEN Goes(r, Done(r, "not_found", Zero)) /\ UNCHANGED states
           ELSE IF c.head = c.incoming
           THEN Goes(r, Done(r, "success", c.head)) /\ UNCHANGED states
           ELSE IF next.pc # "done" /\ ~Verified(states, c.incoming)
           THEN Goes(r, Done(r, "missing", Zero)) /\ UNCHANGED states
           ELSE IF next.pc = "store"
           THEN /\ states' = Serialized(states, Renumbered(r))
                /\ Goes(r, [next EXCEPT !.incoming = Address(states, Renumbered(r))])
           ELSE Goes(r, next) /\ UNCHANGED states
    /\ UNCHANGED <<latest, meta, names, steps, lists>>

Moved_Sent(r, older, newer, all) ==
    LET closed == SealedBoundaries(Number(all, older), Number(all, newer))
    IN  IF closed = {} THEN Done(r, "success", call[r].began)
        ELSE [To(r, "seal") EXCEPT !.head = older, !.revision = newer,
                                   !.todo = closed, !.meta = Unread]

\* The head was moved from `older' to `newer': the boundaries to seal.
Moved(r, older, newer, all) ==
    LET closed == SealedBoundaries(Number(all, older), Number(all, newer))
    IN  IF closed = {} THEN Done(r, "success", newer)
        ELSE [To(r, "seal") EXCEPT !.head = older, !.revision = newer,
                                   !.todo = closed, !.meta = Unread]

PushStore_Stale(r) ==
    /\ At(r, "push", "store")
    /\ LET b == ask[r].branch
           c == call[r]
       IN  IF latest[b] = c.head
           THEN /\ latest' = [latest EXCEPT ![b] = c.incoming]
                /\ Goes(r, Moved(r, State(states, c.incoming).self, c.incoming, states))
           ELSE Goes(r, Decided(r, c.head)) /\ UNCHANGED latest
    /\ UNCHANGED <<states, meta, names, steps, lists>>

\* try_store_latest in the loop of store_new_head.
PushStore(r) ==
    /\ At(r, "push", "store")
    /\ LET b == ask[r].branch
           c == call[r]
       IN  IF latest[b] = c.head
           THEN /\ latest' = [latest EXCEPT ![b] = c.incoming]
                /\ Goes(r, Moved(r, State(states, c.incoming).self, c.incoming, states))
           ELSE Goes(r, Decided(r, latest[b])) /\ UNCHANGED latest
    /\ UNCHANGED <<states, meta, names, steps, lists>>

\* The state try_fast_forward_merge makes on top of a head.
MergeState(r, head) ==
    LET incoming == State(states, call[r].incoming)
        base == Tree(states, incoming.self)
    IN  [self |-> head, other |-> call[r].incoming,
         number |-> NextRevisionNumber(Number(states, head), incoming.number),
         tree |-> Merged(base, incoming.tree, Tree(states, head)),
         upload |-> "whole"]

Mergeable(r, head) ==
    LET incoming == State(states, call[r].incoming)
    IN  Conflicts(Tree(states, incoming.self), incoming.tree, Tree(states, head)) = {}

PushMerge_Unchecked(r) ==
    /\ At(r, "push", "merge")
    /\ LET b == ask[r].branch
           merged == MergeState(r, call[r].head)
       IN  /\ states' = Serialized(states, merged)
           /\ IF latest[b] = call[r].head
              THEN /\ latest' = [latest EXCEPT ![b] = Address(states, merged)]
                   /\ Goes(r, Moved(r, call[r].head, Address(states, merged), states'))
              ELSE /\ Goes(r, [call[r] EXCEPT !.head = latest[b]])
                   /\ UNCHANGED latest
    /\ UNCHANGED <<meta, names, steps, lists>>

\* One turn of the loop of try_fast_forward_merge: the merge is made on the
\* head last seen, if it can be read, and swapped in if it still is the head.
PushMerge(r) ==
    /\ At(r, "push", "merge")
    /\ LET b == ask[r].branch
           head == call[r].head
           merged == MergeState(r, head)
       IN  IF ~Present(states, head)
           THEN Goes(r, Done(r, "error", head)) /\ UNCHANGED <<states, latest>>
           ELSE IF ~Mergeable(r, head)
           THEN Goes(r, Done(r, "declined", head)) /\ UNCHANGED <<states, latest>>
           ELSE /\ states' = Serialized(states, merged)
                /\ IF latest[b] = head
                   THEN /\ latest' = [latest EXCEPT ![b] = Address(states, merged)]
                        /\ Goes(r, Moved(r, head, Address(states, merged), states'))
                   ELSE /\ Goes(r, [call[r] EXCEPT !.head = latest[b]])
                        /\ UNCHANGED latest
    /\ UNCHANGED <<meta, names, steps, lists>>

Lowest(boundaries) == CHOOSE k \in boundaries : \A l \in boundaries : k <= l
Highest(boundaries) == CHOOSE k \in boundaries : \A l \in boundaries : k >= l

\* store_history_step: a step key for each boundary that was closed, ...
PushSeal(r) ==
    /\ At(r, "push", "seal")
    /\ LET b == ask[r].branch
           c == call[r]
           k == Lowest(c.todo)
           closed == SealedBoundaries(Number(states, c.head), Number(states, c.revision))
       IN  /\ steps' = [steps EXCEPT ![b][k] = SealedRevision(states, k, c.head, c.revision)]
           /\ Goes(r, IF c.todo = {k} THEN [To(r, "cache") EXCEPT !.todo = closed]
                      ELSE [c EXCEPT !.todo = @ \ {k}])
    /\ UNCHANGED <<states, latest, meta, names, lists>>

\* ... and then the segments they close.
PushCache(r) ==
    /\ At(r, "push", "cache")
    /\ LET b == ask[r].branch
           c == call[r]
           k == Highest(c.todo)
           closed == SealedBoundaries(Number(states, c.head), Number(states, c.revision))
           segment == ClosedSegment(states, c.revision, closed, k)
       IN  /\ lists' = IF segment = {} THEN lists ELSE [lists EXCEPT ![b][k] = segment]
           /\ Goes(r, IF c.todo = {k} THEN Done(r, "success", c.revision)
                      ELSE [c EXCEPT !.todo = @ \ {k}])
    /\ UNCHANGED <<states, latest, meta, names, steps>>

Push(r) ==
    \/ PushArrive(r) \/ PushLoadMetadata(r) \/ PushLoadHead(r)
    \/ PushReadName(r) \/ PushReadClaim(r) \/ PushReinstate(r)
    \/ PushPrepare(r) \/ PushStore(r) \/ PushMerge(r)
    \/ PushSeal(r) \/ PushCache(r)

-----------------------------------------------------------------------------
(***************************************************************************)
(* Lookup of a revision by its number, on a branch with no parent branch:  *)
(* accelerated_start and walk_revisions of revision_list.rs.  A read of    *)
(* what is there to accelerate it that fails is a miss.                    *)
(***************************************************************************)

Wanted(r) == BoundaryOf(ask[r].number)

\* load_cached_list: a segment that holds the number answers it.
FromList(r, otherwise) ==
    LET hit == InSegment(states, lists[ask[r].branch][Wanted(r)], ask[r].number)
    IN  IF hit # Zero THEN Done(r, "found", hit) ELSE otherwise

FindCached(r) ==
    /\ At(r, "find", "idle")
    /\ LET began == latest[ask[r].branch]
           c == FromList(r, To(r, "anchor"))
       IN  \/ Goes(r, [c EXCEPT !.began = began])
           \/ Misreads(r, [To(r, "anchor") EXCEPT !.began = began])
    /\ UNCHANGED storeVars

\* try_backfill_segment: the step key of the next boundary proves the segment
\* closed, ...
FindAnchor(r) ==
    /\ At(r, "find", "anchor")
    /\ LET next == Wanted(r) + Step
           anchor == IF next \in Boundary THEN steps[ask[r].branch][next] ELSE Zero
       IN  \/ Goes(r, IF anchor = Zero THEN To(r, "step")
                      ELSE [To(r, "fill") EXCEPT !.head = anchor])
           \/ Misreads(r, To(r, "step"))
    /\ UNCHANGED storeVars

\* ... the segment is cached, unless its walk or its write fails, ...
FindFill(r) ==
    /\ At(r, "find", "fill")
    /\ LET segment == BackfilledSegment(states, call[r].head, Wanted(r))
           next(pc) == [To(r, pc) EXCEPT !.head = Unread]
       IN  \/ /\ lists' = IF segment = {} THEN lists
                          ELSE [lists EXCEPT ![ask[r].branch][Wanted(r)] = segment]
              /\ Goes(r, next("reload"))
           \/ (Misreads(r, next("reload")) \/ Misreads(r, next("step"))) /\ UNCHANGED lists
    /\ UNCHANGED <<states, latest, meta, names, steps>>

\* ... and loaded.
FindReload(r) ==
    /\ At(r, "find", "reload")
    /\ Goes(r, FromList(r, To(r, "step"))) \/ Misreads(r, To(r, "step"))
    /\ UNCHANGED storeVars

FindStep_Final(r) ==
    /\ At(r, "find", "step")
    /\ LET hit == FromAnchor(states, steps[ask[r].branch][Wanted(r)], ask[r].number)
       IN  Goes(r, Done(r, IF hit # Zero THEN "found" ELSE "absent", hit))
    /\ UNCHANGED storeVars

\* resolve_via_step_key
FindStep(r) ==
    /\ At(r, "find", "step")
    /\ LET hit == FromAnchor(states, steps[ask[r].branch][Wanted(r)], ask[r].number)
       IN  \/ Goes(r, IF hit # Zero THEN Done(r, "found", hit) ELSE To(r, "walk"))
           \/ Misreads(r, To(r, "walk"))
    /\ UNCHANGED storeVars

\* The whole line is walked from the head.  A read of the head or of a revision
\* that fails ends the walk, and the number is answered as not found: as history,
\* `unread'.  Listing the segment from the revision found, which does fail when a
\* revision cannot be read, crosses the boundary below it, which is sealed again.
FindWalk(r) ==
    /\ At(r, "find", "walk")
    /\ LET hit == OnLine(states, latest[ask[r].branch], ask[r].number)
           page == Segment(states, Line(states, hit), Wanted(r))
           newer == CHOOSE p \in page :
                        \A q \in page : Number(states, p) <= Number(states, q)
           older == State(states, newer).self
           crossed == SealedBoundaries(Number(states, older), Number(states, newer))
       IN  \/ Goes(r, IF hit = Zero THEN Done(r, "absent", Zero)
                      ELSE IF \E v \in page \cup {older} : ~Present(states, v)
                      THEN Done(r, "error", Zero)
                      ELSE IF older = Zero \/ crossed = {} THEN Done(r, "found", hit)
                      ELSE [To(r, "reseal") EXCEPT !.incoming = newer, !.head = older,
                                                   !.revision = hit, !.todo = crossed])
           \/ Misreads(r, Done(r, "unread", Zero))
    /\ UNCHANGED storeVars

\* Sealing again skips a boundary whose write fails, and all of them if the
\* metadata that names the branch cannot be read.
FindReseal(r) ==
    /\ At(r, "find", "reseal")
    /\ LET c == call[r]
           k == Lowest(c.todo)
           finished == Done(r, "found", c.revision)
           next == IF c.todo = {k} THEN finished ELSE [c EXCEPT !.todo = @ \ {k}]
       IN  \/ /\ steps' = [steps EXCEPT ![ask[r].branch][k] =
                               SealedRevision(states, k, c.head, c.incoming)]
              /\ Goes(r, next)
           \/ (Misreads(r, next) \/ Misreads(r, finished)) /\ UNCHANGED steps
    /\ UNCHANGED <<states, latest, meta, names, lists>>

Find(r) ==
    \/ FindCached(r) \/ FindAnchor(r) \/ FindFill(r) \/ FindReload(r)
    \/ FindStep(r) \/ FindWalk(r) \/ FindReseal(r)

-----------------------------------------------------------------------------
(***************************************************************************)
(* Creation (branch::create_at)                                            *)
(***************************************************************************)

\* Step 1: the name, ...
CreateReadName(r) ==
    /\ At(r, "create", "idle")
    /\ LET mapped == names[ask[r].name]
       IN  \/ Goes(r, IF mapped = None THEN To(r, "id")
                      ELSE [To(r, "taken") EXCEPT !.other = mapped])
           \/ Misreads(r, To(r, "id"))
    /\ UNCHANGED storeVars

\* ... which is taken if the branch it maps to has metadata.
CreateReadTaken(r) ==
    /\ At(r, "create", "taken")
    /\ \/ Goes(r, IF meta[call[r].other] # None THEN Done(r, "already_exists", Zero)
                  ELSE [To(r, "id") EXCEPT !.other = None])
       \/ Misreads(r, [To(r, "id") EXCEPT !.other = None])
    /\ UNCHANGED storeVars

\* Step 2: the identifier.  Metadata that is there is kept and the branch
\* restored, under the new name if its old one maps to nothing.
CreateReadId(r) ==
    /\ At(r, "create", "id")
    /\ LET found == meta[ask[r].branch]
       IN  \/ Goes(r, IF found = None THEN To(r, "describe")
                      ELSE [To(r, IF found.name = ask[r].name THEN "restore" ELSE "old")
                               EXCEPT !.meta = found])
           \/ Misreads(r, To(r, "describe"))
    /\ UNCHANGED storeVars

CreateReadOld(r) ==
    /\ At(r, "create", "old")
    /\ \/ Goes(r, IF names[call[r].meta.name] # None THEN Done(r, "already_exists", Zero)
                  ELSE To(r, "rename"))
       \/ Misreads(r, To(r, "rename"))
    /\ UNCHANGED storeVars

CreateRename(r) ==
    /\ At(r, "create", "rename")
    /\ meta' = [meta EXCEPT ![ask[r].branch] =
                    [call[r].meta EXCEPT !.name = ask[r].name]]
    /\ Goes(r, To(r, "restore"))
    /\ UNCHANGED <<states, latest, names, steps, lists>>

CreateDescribe_AfterName(r) ==
    /\ At(r, "create", "describe")
    /\ names' = [names EXCEPT ![ask[r].name] = ask[r].branch]
    /\ Goes(r, [To(r, "rename") EXCEPT
                    !.meta = [name |-> ask[r].name, protect |-> FALSE, note |-> None]])
    /\ UNCHANGED <<states, latest, meta, steps, lists>>

\* metadata_store of a branch that is new.
CreateDescribe(r) ==
    /\ At(r, "create", "describe")
    /\ meta' = [meta EXCEPT ![ask[r].branch] =
                    [name |-> ask[r].name, protect |-> FALSE, note |-> None]]
    /\ Goes(r, To(r, "map"))
    /\ UNCHANGED <<states, latest, names, steps, lists>>

\* store_name_to_id; a restored branch keeps its head.
CreateMap(r) ==
    /\ At(r, "create", "map") \/ At(r, "create", "restore")
    /\ names' = [names EXCEPT ![ask[r].name] = ask[r].branch]
    /\ Goes(r, IF call[r].pc = "map" THEN To(r, "point") ELSE Done(r, "success", Zero))
    /\ UNCHANGED <<states, latest, meta, steps, lists>>

\* store_latest: the head is the branch point the client named, of which nothing
\* is verified, unless a head was stored since.
CreatePoint(r) ==
    /\ At(r, "create", "point")
    /\ IF latest[ask[r].branch] = Zero
       THEN /\ latest' = [latest EXCEPT ![ask[r].branch] = ask[r].point]
            /\ Goes(r, Done(r, "success", ask[r].point))
       ELSE Goes(r, Done(r, "advanced", Zero)) /\ UNCHANGED latest
    /\ UNCHANGED <<states, meta, names, steps, lists>>

Create(r) ==
    \/ CreateReadName(r) \/ CreateReadTaken(r) \/ CreateReadId(r) \/ CreateReadOld(r)
    \/ CreateRename(r) \/ CreateDescribe(r) \/ CreateMap(r) \/ CreatePoint(r)

-----------------------------------------------------------------------------
(***************************************************************************)
(* Deletion (branch::delete), protection (set_protect) and metadata        *)
(* updates (branch_metadata_set.rs)                                        *)
(***************************************************************************)

\* A branch is deleted by taking its name away; a protected branch and the
\* default branch are not.
DeleteRead(r) ==
    /\ At(r, "delete", "idle")
    /\ LET found == meta[ask[r].branch]
       IN  Goes(r, IF found = None THEN Done(r, "not_found", Zero)
                   ELSE IF found.protect \/ ask[r].branch = Default
                   THEN Done(r, "refused", Zero)
                   ELSE [To(r, "own") EXCEPT !.meta = found])
    /\ UNCHANGED storeVars

DeleteReadName(r) ==
    /\ At(r, "delete", "own")
    /\ Goes(r, IF names[call[r].meta.name] # ask[r].branch
               THEN Done(r, "not_found", Zero) ELSE To(r, "unmap"))
    /\ UNCHANGED storeVars

DeleteUnmap(r) ==
    /\ At(r, "delete", "unmap")
    /\ names' = [names EXCEPT ![call[r].meta.name] = None]
    /\ Goes(r, Done(r, "success", Zero))
    /\ UNCHANGED <<states, latest, meta, steps, lists>>

ProtectRead(r) ==
    /\ At(r, "protect", "idle")
    /\ LET found == meta[ask[r].branch]
       IN  Goes(r, IF found = None THEN Done(r, "not_found", Zero)
                   ELSE [To(r, "write") EXCEPT !.meta = found])
    /\ UNCHANGED storeVars

ProtectWrite(r) ==
    /\ At(r, "protect", "write")
    /\ meta' = [meta EXCEPT ![ask[r].branch] =
                    [call[r].meta EXCEPT !.protect = ask[r].on]]
    /\ Goes(r, Done(r, "success", Zero))
    /\ UNCHANGED <<states, latest, names, steps, lists>>

\* The client read the metadata it changes; the handler swaps it.
AnnotateRead(r) ==
    /\ At(r, "annotate", "idle")
    /\ meta[ask[r].branch] # None
    /\ Goes(r, [To(r, "swap") EXCEPT !.meta = meta[ask[r].branch]])
    /\ UNCHANGED storeVars

AnnotateSwap(r) ==
    /\ At(r, "annotate", "swap")
    /\ IF meta[ask[r].branch] = call[r].meta
       THEN /\ meta' = [meta EXCEPT ![ask[r].branch].note = r]
            /\ Goes(r, Done(r, "success", Zero))
       ELSE Goes(r, Done(r, "declined", Zero)) /\ UNCHANGED meta
    /\ UNCHANGED <<states, latest, names, steps, lists>>

Administer(r) ==
    \/ DeleteRead(r) \/ DeleteReadName(r) \/ DeleteUnmap(r)
    \/ ProtectRead(r) \/ ProtectWrite(r)
    \/ AnnotateRead(r) \/ AnnotateSwap(r)

\* A request ends where it is: its client went away, a store answered with an
\* error, or the server stopped.
End(r) ==
    /\ call[r].pc \notin {"idle", "done"}
    /\ ends < MaxEnds
    /\ ends' = ends + 1
    /\ call' = [call EXCEPT ![r] = Done(r, "error", Zero)]
    /\ UNCHANGED <<storeVars, ask>>

Handle(r) == Push(r) \/ Find(r) \/ Create(r) \/ Administer(r)

Next == \E r \in Request : Handle(r) \/ End(r)

Spec == Init /\ [][Next]_vars

\* While a handler that was entered has not returned, some such handler is
\* polled and the store operation it awaits answers.
FairSpec ==
    Spec /\ WF_vars(\E r \in Request : call[r].pc # "idle" /\ Handle(r))

-----------------------------------------------------------------------------
(***************************************************************************)
(* Properties                                                              *)
(***************************************************************************)

\* A forced push to the branch was called: it may drop revisions from the line.
Forced(b) == \E r \in Request : /\ ask[r].kind = "push" /\ ask[r].force
                                /\ ask[r].branch = b /\ call[r].pc # "idle"

\* A revision a push was answered with stays on the line of its branch,
\* whatever other pushes raced it, unless a push was forced (try_store_latest,
\* store_new_head, try_fast_forward_merge).
AcknowledgedKept ==
    \A r \in Request :
        ask[r].kind = "push" /\ call[r].status = "success" /\ ~Forced(ask[r].branch)
            => call[r].revision \in Line(states, latest[ask[r].branch])

\* The files of a branch that the push of r changes are as it based them on.
ChangesOwn(r) ==
    LET b == ask[r].branch
        base == State(states, call[r].incoming).self
    IN  /\ ask[r].kind = "push" /\ call[r].pc \in {"store", "merge"}
        /\ call'[r] # call[r] /\ latest'[b] # latest[b] /\ ~ask[r].force
        => \A f \in File :
              Tree(states', latest'[b])[f] # Tree(states, latest[b])[f]
                  => Tree(states, base)[f] = Tree(states, latest[b])[f]

\* A push that is not forced changes a file of the head only from the version
\* its revision was based on: the three-way merge is made against the very head
\* that is swapped out, also after the head moved and the push tried again.
NoLostUpdate == [][\A r \in Request : ChangesOwn(r)]_vars

\* Along the line of a branch every revision is numbered above both of its
\* parents, whatever number the client gave it (next_revision_number).
NumbersGrow ==
    \A b \in Branch : \A v \in Line(states, latest[b]) :
        /\ Number(states, State(states, v).self) < Number(states, v)
        /\ Number(states, State(states, v).other) < Number(states, v)

\* The revisions a client named that the head of the branch, or the base of its
\* head, became unverified: where the branch was created and, of a push that is
\* forced, what it was committed on.
Named(b) ==
    {call[r].revision :
        r \in {q \in Request : ask[q].kind = "create" /\ ask[q].branch = b}} \cup
    {State(states, call[r].began).self :
        r \in {q \in Request : ask[q].kind = "push" /\ ask[q].force /\ ask[q].branch = b}}

\* Nothing a push put on the line of a branch lacks anything: each revision there
\* was verified, parents included, before the head moved to it, also when the
\* push tried again, or is a merge of one that was.  A revision of the line may
\* lack fragments only at or below one a client named: the point the branch was
\* created at, or the base of a forced push (verify_incoming_fragments,
\* load_other_parent_state, try_fast_forward_merge).
LineWhole ==
    \A b \in Branch : \A v \in Line(states, latest[b]) :
        \/ Verified(states, v)
        \/ \E u \in Named(b) : v \in Line(states, u)

\* Unless a push was forced, a step key holds the highest revision on the line
\* that is numbered at or below its boundary, and a cached segment exactly the
\* part of the line in it, though neither is written with the head and a push
\* may end between them (store_history_step, try_backfill_segment).
StepsOnLine ==
    \A b \in Branch : ~Forced(b) => \A k \in Boundary :
        LET line == Line(states, latest[b])
            below == {v \in line : Number(states, v) <= k}
        IN  /\ steps[b][k] # Zero =>
                 /\ steps[b][k] \in below
                 /\ \A v \in below : Number(states, v) <= Number(states, steps[b][k])
            /\ lists[b][k] # {} => lists[b][k] = Segment(states, line, k)

\* A lookup by number finds the revision of the branch with that number, and
\* finds none only if the branch had none when it was called, from whichever of
\* segment, step key or walk it was answered, and whatever reads of the first
\* two fail, unless a push was forced.  Only a failed read of the walk itself
\* (`unread') makes a number that is there be answered as not found.
FindsOnLine ==
    \A r \in Request :
        /\ ask[r].kind = "find" /\ call[r].status \in {"found", "absent"}
        /\ ~Forced(ask[r].branch)
        => IF call[r].revision = Zero
           THEN \A v \in Line(states, call[r].began) : Number(states, v) # ask[r].number
           ELSE /\ call[r].revision \in Line(states, latest[ask[r].branch])
                /\ Number(states, call[r].revision) = ask[r].number

\* A name maps only to a branch that has metadata: create_at writes the metadata
\* first, "so that queries always see consistent state".
MappedDescribed ==
    \A n \in Name : names[n] # None => meta[names[n]] # None

\* Requests that were called are all answered in the end: the swap a push
\* retries fails only when another push succeeded, so pushes that race do not
\* keep each other from ending (the loops of store_new_head and
\* try_fast_forward_merge).
EveryRequestAnswered ==
    <>[](\A r \in Request : call[r].pc \in {"idle", "done"})

=============================================================================
