------------------------ MODULE BranchServiceProofs ------------------------
(***************************************************************************)
(* For any branches, files, requests and steps: no push that is not forced *)
(* overwrites a change it was not based on (NoLostUpdate), and a name maps *)
(* only to a branch with metadata (MappedDescribed).  Then the invariant   *)
(* about the lines of the branches, and that lookups keep it; pushes, and  *)
(* what follows from it, are in BranchLineProofs.                          *)
(***************************************************************************)
EXTENDS BranchService, BranchHistoryProofs

\* The prover of a leaf that names none.
USE ZenonT(30)

-----------------------------------------------------------------------------
(***************************************************************************)
(* The calls of the service.                                               *)
(***************************************************************************)

\* The fields of a call.
CallFields == {"pc", "began", "incoming", "head", "meta", "other", "todo",
               "status", "revision"}

\* Every request asks for one thing, and its call has its fields.
Shaped ==
    /\ ask \in [Request -> Ask]
    /\ DOMAIN call = Request
    /\ \A r \in Request : DOMAIN call[r] = CallFields

\* What a step of r does to the calls.
Calls(r) ==
    /\ ask' = ask
    /\ DOMAIN call' = Request
    /\ \A s \in Request \ {r} : call'[s] = call[s]
    /\ DOMAIN call'[r] = CallFields

-----------------------------------------------------------------------------

\* What a request asks for depends on its kind.
LEMMA AskFields ==
    ASSUME NEW a \in Ask
    PROVE  /\ a.branch \in Branch
           /\ a.kind = "push" => a.again \in Request \cup {None}
           /\ a.kind = "find" => a.branch = Default
           /\ a.kind = "create" => a.name \in Name /\ a.point \in 0 .. Grown
           /\ a.kind = "protect" => a.on \in BOOLEAN
<1>1. CASE a \in [kind : {"find"}, branch : {Default}, number : Nat \ {0}]
  BY <1>1, BranchAssumption
<1>2. CASE a \in [kind : {"push"}, branch : Branch, file : File,
                  onto : (0 .. Grown) \cup Request \cup {None},
                  merges : (0 .. Grown) \cup Request, off : Nat, upload : Uploads,
                  force : BOOLEAN, merge : BOOLEAN, privileged : BOOLEAN,
                  again : Request \cup {None}]
  BY <1>2
<1> QED BY <1>1, <1>2 DEF Ask

\* What a request asks for names a branch, and what its kind goes with.
LEMMA Asks ==
    ASSUME Shaped, NEW r \in Request
    PROVE  /\ ask[r].branch \in Branch
           /\ ask[r].kind = "push" => ask[r].again \in Request \cup {None}
           /\ ask[r].kind = "find" => ask[r].branch = Default
           /\ ask[r].kind = "create" => ask[r].name \in Name /\ ask[r].point \in 0 .. Grown
           /\ ask[r].kind = "protect" => ask[r].on \in BOOLEAN
<1>1. ask[r] \in Ask
  BY DEF Shaped
<1> QED BY <1>1, AskFields

\* A step of a handler is one of a request of its kind.  Only pushes add
\* revisions, and only pushes and creations move heads.
LEMMA Kinds ==
    ASSUME NEW r
    PROVE  /\ Push(r) => ask[r].kind = "push"
           /\ Find(r) => ask[r].kind = "find" /\ UNCHANGED <<states, latest, meta, names>>
           /\ Create(r) => ask[r].kind = "create" /\ states' = states
           /\ Administer(r) => /\ ask[r].kind \notin {"push", "create"}
                               /\ UNCHANGED <<states, latest>>
           /\ End(r) => UNCHANGED <<states, latest, meta, names>>
<1>1. ASSUME Push(r) PROVE ask[r].kind = "push"
  BY <1>1 DEF Push, PushArrive, PushLoadMetadata, PushLoadHead, PushReadName,
     PushReadClaim, PushReinstate, PushPrepare, PushStore, PushMerge, PushSeal, PushCache, At
<1>2. ASSUME Find(r)
      PROVE  ask[r].kind = "find" /\ UNCHANGED <<states, latest, meta, names>>
  BY <1>2 DEF Find, FindCached, FindReload, FindAnchor, FindFill, FindStep,
     FindWalk, FindReseal, At, storeVars
<1>3. ASSUME Create(r) PROVE ask[r].kind = "create" /\ states' = states
  BY <1>3 DEF Create, CreateReadName, CreateReadTaken, CreateReadId,
     CreateReadOld, CreateRename, CreateDescribe, CreateMap, CreatePoint, At, storeVars
<1>4. ASSUME Administer(r)
      PROVE  ask[r].kind \in {"delete", "protect", "annotate"} /\ UNCHANGED <<states, latest>>
  BY <1>4 DEF Administer, DeleteRead, DeleteReadName, DeleteUnmap, ProtectRead,
     ProtectWrite, AnnotateRead, AnnotateSwap, At, storeVars
<1>5. ASSUME End(r) PROVE UNCHANGED <<states, latest, meta, names>>
  BY <1>5 DEF End, storeVars
<1> QED BY <1>1, <1>2, <1>3, <1>4, <1>5

\* A call answered keeps only what it began with.
LEMMA DoneFields ==
    ASSUME NEW r, NEW status, NEW revision
    PROVE  LET d == Done(r, status, revision)
           IN  /\ DOMAIN d = CallFields
               /\ d.pc = "done" /\ d.began = call[r].began /\ d.incoming = Zero
               /\ d.meta = Unread
BY DEF Done, NoCall, CallFields

\* Going on to another step keeps the rest of the call.
LEMMA ToFields ==
    ASSUME Shaped, NEW r \in Request, NEW pc
    PROVE  LET t == To(r, pc)
           IN  /\ DOMAIN t = CallFields
               /\ t.pc = pc /\ t.began = call[r].began /\ t.incoming = call[r].incoming
               /\ t.meta = call[r].meta /\ t.head = call[r].head
BY DEF Shaped, To, CallFields

\* A step that sets one call leaves the others alone.
LEMMA SetCall ==
    ASSUME Shaped, NEW r \in Request, NEW c, DOMAIN c = CallFields,
           Goes(r, c) \/ Misreads(r, c)
    PROVE  Calls(r) /\ call'[r] = c
BY DEF Shaped, Goes, Misreads, Calls

\* A push whose decision is to store is forced or was based on that head.
LEMMA DecidedFields ==
    ASSUME Shaped, NEW r \in Request, NEW current
    PROVE  LET d == Decided(r, current)
           IN  /\ DOMAIN d = CallFields
               /\ d.began = call[r].began
               /\ d.incoming \in {Zero, call[r].incoming}
               /\ d.meta \in {Unread, call[r].meta}
               /\ d.pc \in {"store", "merge", "done"}
               /\ d.pc # "done" => d.head = current /\ d.incoming = call[r].incoming
               /\ d.pc = "store" =>
                     ask[r].force \/ current = State(states, call[r].incoming).self
<1> DEFINE d == Decided(r, current)
<1>1. CASE DecideHeadMove(r, current) \in {"store", "merge"}
  <2>1. d = [To(r, DecideHeadMove(r, current)) EXCEPT !.head = current]
    BY <1>1 DEF Decided
  <2>2. /\ DOMAIN d = CallFields /\ d.pc = DecideHeadMove(r, current) /\ d.head = current
        /\ d.began = call[r].began /\ d.incoming = call[r].incoming /\ d.meta = call[r].meta
    BY <2>1, ToFields, SMT DEF CallFields
  <2>3. DecideHeadMove(r, current) = "store" =>
            ask[r].force \/ current = State(states, call[r].incoming).self
    BY DEF DecideHeadMove
  <2> QED BY <1>1, <2>2, <2>3
<1>2. CASE DecideHeadMove(r, current) \notin {"store", "merge"}
  <2>1. d = Done(r, DecideHeadMove(r, current), current)
    BY <1>2 DEF Decided
  <2> QED BY <2>1, DoneFields, SMT
<1> QED BY <1>1, <1>2

\* After moving a head a push seals or answers.
LEMMA MovedFields ==
    ASSUME Shaped, NEW r \in Request, NEW older, NEW newer, NEW all
    PROVE  LET m == Moved(r, older, newer, all)
           IN  /\ DOMAIN m = CallFields
               /\ m.began = call[r].began
               /\ m.incoming \in {Zero, call[r].incoming}
               /\ m.meta = Unread
               /\ m.pc \in {"seal", "done"}
<1> DEFINE m == Moved(r, older, newer, all)
           closed == SealedBoundaries(Number(all, older), Number(all, newer))
<1>1. \/ m = Done(r, "success", newer)
      \/ m = [To(r, "seal") EXCEPT !.head = older, !.revision = newer, !.todo = closed,
                                   !.meta = Unread]
  BY DEF Moved
<1> HIDE DEF closed
<1>2. CASE m = Done(r, "success", newer)
  BY <1>2, DoneFields, SMT
<1>3. CASE m = [To(r, "seal") EXCEPT !.head = older, !.revision = newer, !.todo = closed,
                                     !.meta = Unread]
  <2>1. /\ DOMAIN m = CallFields /\ m.pc = To(r, "seal").pc /\ m.meta = Unread
        /\ m.began = To(r, "seal").began /\ m.incoming = To(r, "seal").incoming
    BY <1>3, ToFields, SMT DEF CallFields
  <2> QED BY <2>1, ToFields
<1> QED BY <1>1, <1>2, <1>3

\* A step of a request changes its own call alone, and keeps its fields.
LEMMA StepCalls ==
    ASSUME Shaped, NEW r \in Request, Handle(r) \/ End(r)
    PROVE  Calls(r)
<1> USE DoneFields, ToFields, SetCall
<1>0. DOMAIN call[r] = CallFields
  BY DEF Shaped
<1>1. CASE End(r)
  BY <1>0, <1>1 DEF End, Calls, Shaped
<1>2. CASE Push(r)
  <2>1. CASE PushArrive(r)
    <3>1. PICK sent : Goes(r, [To(r, "load") EXCEPT !.began = sent, !.incoming = sent])
      BY <2>1 DEF PushArrive
    <3> DEFINE c == [To(r, "load") EXCEPT !.began = sent, !.incoming = sent]
    <3>2. DOMAIN c = CallFields
      BY ToFields
    <3> QED BY <3>1, <3>2, SetCall
  <2>2. CASE PushLoadMetadata(r) \/ PushLoadHead(r)
    BY <1>0, <2>2, SMT DEF PushLoadMetadata, PushLoadHead
  <2>3. CASE PushReadName(r)
    BY <2>3, SMT DEF PushReadName
  <2>4. CASE PushReadClaim(r) \/ PushReinstate(r)
    BY <2>4, SMT DEF PushReadClaim, PushReinstate
  <2>5. CASE PushPrepare(r)
    BY <2>5, DecidedFields, SMT DEF PushPrepare
  <2>6. CASE PushStore(r)
    BY <2>6, DecidedFields, MovedFields, SMT DEF PushStore
  <2>7. CASE PushMerge(r)
    BY <1>0, <2>7, MovedFields, SMT DEF PushMerge
  <2>8. CASE PushSeal(r)
    <3>1. PICK todo : Goes(r, [To(r, "cache") EXCEPT !.todo = todo])
                      \/ Goes(r, [call[r] EXCEPT !.todo = todo])
      BY <2>8 DEF PushSeal
    <3> QED BY <1>0, <3>1, SMT
  <2>9. CASE PushCache(r)
    <3>1. PICK todo : Goes(r, Done(r, "success", call[r].revision))
                      \/ Goes(r, [call[r] EXCEPT !.todo = todo])
      BY <2>9 DEF PushCache
    <3> QED BY <1>0, <3>1, SMT
  <2> QED BY <1>2, <2>1, <2>2, <2>3, <2>4, <2>5, <2>6, <2>7, <2>8, <2>9 DEF Push
<1>3. CASE Find(r)
  <2>1. CASE FindCached(r) \/ FindReload(r)
    BY <2>1, SMT DEF FindCached, FindReload, FromList
  <2>2. CASE FindAnchor(r) \/ FindFill(r)
    BY <2>2, SMT DEF FindAnchor, FindFill
  <2>3. CASE FindStep(r)
    BY <2>3, SMT DEF FindStep
  <2>4. CASE FindWalk(r)
    <3>1. PICK status, hit, newer, older, crossed :
             \/ Goes(r, Done(r, status, hit)) \/ Misreads(r, Done(r, status, hit))
             \/ Goes(r, [To(r, "reseal") EXCEPT !.incoming = newer, !.head = older,
                                                !.revision = hit, !.todo = crossed])
      BY <2>4 DEF FindWalk
    <3> DEFINE c == [To(r, "reseal") EXCEPT !.incoming = newer, !.head = older,
                                            !.revision = hit, !.todo = crossed]
    <3>2. DOMAIN c = CallFields
      BY ToFields
    <3> HIDE DEF c
    <3>3. Goes(r, Done(r, status, hit)) \/ Misreads(r, Done(r, status, hit)) \/ Goes(r, c)
      BY <3>1 DEF c
    <3> QED BY <3>2, <3>3
  <2>5. CASE FindReseal(r)
    <3>1. PICK c, todo : /\ Goes(r, c) \/ Misreads(r, c)
                         /\ \/ c = Done(r, "found", call[r].revision)
                            \/ c = [call[r] EXCEPT !.todo = todo]
      BY <2>5 DEF FindReseal
    <3> QED BY <1>0, <3>1, SMT
  <2> QED BY <1>3, <2>1, <2>2, <2>3, <2>4, <2>5 DEF Find
<1>4. CASE Create(r)
  <2>1. CASE CreateReadName(r) \/ CreateReadTaken(r)
    BY <2>1, SMT DEF CreateReadName, CreateReadTaken
  <2>2. CASE CreateReadId(r)
    BY <2>2, SMT DEF CreateReadId
  <2>3. CASE CreateReadOld(r) \/ CreateRename(r)
    BY <2>3, SMT DEF CreateReadOld, CreateRename
  <2>4. CASE CreateDescribe(r) \/ CreateMap(r) \/ CreatePoint(r)
    BY <2>4, SMT DEF CreateDescribe, CreateMap, CreatePoint
  <2> QED BY <1>4, <2>1, <2>2, <2>3, <2>4 DEF Create
<1>5. CASE Administer(r)
  <2>1. CASE DeleteRead(r) \/ DeleteReadName(r) \/ DeleteUnmap(r)
    BY <2>1, SMT DEF DeleteRead, DeleteReadName, DeleteUnmap
  <2>2. CASE ProtectRead(r) \/ ProtectWrite(r)
    BY <2>2, SMT DEF ProtectRead, ProtectWrite
  <2>3. CASE AnnotateRead(r) \/ AnnotateSwap(r)
    BY <2>3, SMT DEF AnnotateRead, AnnotateSwap
  <2> QED BY <1>5, <2>1, <2>2, <2>3 DEF Administer
<1> QED BY <1>1, <1>2, <1>3, <1>4, <1>5 DEF Handle

\* A lookup takes down the head once, and no metadata.
LEMMA FindCall ==
    ASSUME Shaped, NEW r \in Request, Find(r)
    PROVE  /\ call'[r].meta \in {Unread, call[r].meta}
           /\ call'[r].began \in {call[r].began, latest[ask[r].branch]}
<1> USE DoneFields, ToFields, SetCall
<1>0. DOMAIN call[r] = CallFields
  BY DEF Shaped
<1>1. CASE FindCached(r)
  <2>1. PICK c, d : /\ Goes(r, d) \/ Misreads(r, d)
                    /\ d = [c EXCEPT !.began = latest[ask[r].branch]]
                    /\ c = To(r, "anchor") \/ \E hit : c = Done(r, "found", hit)
    BY <1>1 DEF FindCached, FromList
  <2>2. DOMAIN c = CallFields /\ c.meta \in {Unread, call[r].meta}
    BY <2>1, SMT
  <2>3. DOMAIN d = CallFields /\ d.meta = c.meta /\ d.began = latest[ask[r].branch]
    BY <2>1, <2>2 DEF CallFields
  <2>4. call'[r] = d
    BY <2>1, <2>3
  <2> QED BY <2>2, <2>3, <2>4
<1>2. CASE FindReload(r) \/ FindStep(r)
  BY <1>2, SMT DEF FindReload, FindStep, FromList
<1>3. CASE FindAnchor(r) \/ FindFill(r)
  <2>1. PICK c, t, head : /\ Goes(r, c) \/ Misreads(r, c)
                          /\ t = To(r, "step") \/ t = To(r, "fill") \/ t = To(r, "reload")
                          /\ c = t \/ c = [t EXCEPT !.head = head]
    BY <1>3 DEF FindAnchor, FindFill
  <2>2. DOMAIN t = CallFields /\ t.meta = call[r].meta /\ t.began = call[r].began
    BY <2>1, SMT
  <2> QED BY <2>1, <2>2, SMT DEF CallFields
<1>4. CASE FindWalk(r)
  <2>1. PICK status, hit, newer, older, crossed :
           \/ Goes(r, Done(r, status, hit)) \/ Misreads(r, Done(r, status, hit))
           \/ Goes(r, [To(r, "reseal") EXCEPT !.incoming = newer, !.head = older,
                                              !.revision = hit, !.todo = crossed])
    BY <1>4 DEF FindWalk
  <2> DEFINE c == [To(r, "reseal") EXCEPT !.incoming = newer, !.head = older,
                                          !.revision = hit, !.todo = crossed]
  <2>2. DOMAIN c = CallFields /\ c.meta = call[r].meta /\ c.began = call[r].began
    BY ToFields, SMT DEF CallFields
  <2> HIDE DEF c
  <2>3. Goes(r, Done(r, status, hit)) \/ Misreads(r, Done(r, status, hit)) \/ Goes(r, c)
    BY <2>1 DEF c
  <2> QED BY <2>2, <2>3, SMT
<1>5. CASE FindReseal(r)
  <2>1. PICK c, todo : /\ Goes(r, c) \/ Misreads(r, c)
                       /\ \/ c = Done(r, "found", call[r].revision)
                          \/ c = [call[r] EXCEPT !.todo = todo]
    BY <1>5 DEF FindReseal
  <2>2. /\ DOMAIN c = CallFields /\ c.meta \in {Unread, call[r].meta}
        /\ c.began = call[r].began
    <3>1. CASE c = Done(r, "found", call[r].revision)
      BY <3>1 DEF Done, NoCall, CallFields
    <3>2. CASE c = [call[r] EXCEPT !.todo = todo]
      BY <1>0, <3>2 DEF CallFields
    <3> QED BY <2>1, <3>1, <3>2
  <2>3. call'[r] = c
    BY <2>1, <2>2
  <2> QED BY <2>2, <2>3
<1> QED BY <1>1, <1>2, <1>3, <1>4, <1>5 DEF Find

\* Init gives every request its call.
LEMMA InitShaped == Init => Shaped
BY ScenesAssumption DEF Init, Shaped, NoCall, CallFields

\* Shaped is inductive.
LEMMA NextShaped == Shaped /\ [Next]_vars => Shaped'
<1> SUFFICES ASSUME Shaped, [Next]_vars PROVE Shaped'
  OBVIOUS
<1>1. CASE UNCHANGED vars
  BY <1>1 DEF Shaped, vars
<1>2. ASSUME NEW r \in Request, Handle(r) \/ End(r) PROVE Shaped'
  BY <1>2, StepCalls DEF Shaped, Calls
<1> QED BY <1>1, <1>2 DEF Next

-----------------------------------------------------------------------------
(***************************************************************************)
(* Names and metadata.  A mapping is written by a push that read metadata  *)
(* of its branch and by a creation that found or wrote it; metadata, once  *)
(* there, is only replaced.                                                *)
(***************************************************************************)

\* What request r knows of metadata where it is going to write.
Knows(r) ==
    LET b == ask[r].branch
        c == call[r]
    IN  /\ c.meta \in Metadata \cup {None, Unread}
        /\ ask[r].kind = "push" =>
              /\ c.meta \in Metadata => meta[b] # None
              /\ c.pc \in {"claim", "reinstate"} => c.meta \in Metadata
        /\ ask[r].kind = "create" =>
              /\ c.pc \in {"old", "rename"} => c.meta \in Metadata
              /\ c.pc \in {"map", "restore"} => meta[b] # None
        /\ ask[r].kind = "protect" /\ c.pc = "write" => c.meta \in Metadata
        /\ ask[r].kind = "annotate" /\ c.pc = "swap" => c.meta \in Metadata

\* What is mapped has metadata, and so has what a request is going to map.
Described ==
    /\ meta \in [Branch -> Metadata \cup {None}]
    /\ names \in [Name -> Branch \cup {None}]
    /\ MappedDescribed
    /\ \A r \in Request : Knows(r)

\* What a step of r does to metadata and names.
Describes(r) ==
    /\ meta' \in [Branch -> Metadata \cup {None}]
    /\ \A b \in Branch : meta[b] # None => meta'[b] # None
    /\ \/ names' = names
       \/ \E n, b : /\ names' = [names EXCEPT ![n] = b]
                    /\ b \in Branch \cup {None} /\ (b # None => meta'[b] # None)
    /\ Knows(r)'

\* A step that describes what it maps keeps the invariant of every request.
LEMMA DescribesKeeps ==
    ASSUME Described, NEW r \in Request, Shaped, Calls(r), Describes(r)
    PROVE  Described'
<1>1. \A s \in Request : ask[s].branch \in Branch
  BY Asks
<1>2. ASSUME NEW s \in Request, s # r PROVE Knows(s)'
  BY <1>1, <1>2 DEF Described, Knows, Calls, Describes
<1>3. names' \in [Name -> Branch \cup {None}] /\ MappedDescribed'
  BY DEF Described, Describes, MappedDescribed
<1> QED BY <1>2, <1>3 DEF Described, Describes

\* A push maps only the branch whose metadata it read (reinstate).
LEMMA PushDescribes ==
    ASSUME Described, Shaped, NEW r \in Request, Push(r)
    PROVE  Describes(r)
<1> DEFINE b == ask[r].branch
<1>0. /\ b \in Branch /\ Knows(r) /\ ask' = ask /\ DOMAIN call[r] = CallFields
      /\ ask[r].kind = "push"
  <2>1. Calls(r)
    BY StepCalls DEF Handle
  <2> QED BY <2>1, Kinds, Asks DEF Shaped, Described, Calls
<1>1. ASSUME NEW c, DOMAIN c = CallFields, Goes(r, c) \/ Misreads(r, c), meta' = meta,
             c.meta \in {Unread, call[r].meta, meta[b]},
             c.pc \in {"claim", "reinstate"} => c.meta \in Metadata
      PROVE  Knows(r)'
  BY <1>0, <1>1, SetCall, ScenesAssumption, SMT DEF Described, Knows
<1>2. ASSUME UNCHANGED <<meta, names>>, Knows(r)' PROVE Describes(r)
  BY <1>2 DEF Described, Describes
<1>3. CASE PushArrive(r)
  <2>1. PICK sent : Goes(r, [To(r, "load") EXCEPT !.began = sent, !.incoming = sent])
    BY <1>3 DEF PushArrive
  <2> DEFINE c == [To(r, "load") EXCEPT !.began = sent, !.incoming = sent]
  <2>2. DOMAIN c = CallFields /\ c.pc = "load" /\ c.meta = call[r].meta
    BY ToFields DEF CallFields
  <2> HIDE DEF c
  <2>3. Goes(r, c)
    BY <2>1 DEF c
  <2> QED BY <1>1, <1>2, <1>3, <2>2, <2>3 DEF PushArrive
<1>4. CASE PushLoadMetadata(r) \/ PushLoadHead(r)
  BY <1>0, <1>1, <1>2, <1>4 DEF PushLoadMetadata, PushLoadHead, At, storeVars, CallFields
<1>5. CASE PushReadName(r)
  <2>1. UNCHANGED <<meta, names>>
    BY <1>5 DEF PushReadName, storeVars
  <2>2. CASE \E status : Goes(r, Done(r, status, Zero))
    BY <1>1, <1>2, <2>1, <2>2, DoneFields
  <2>3. CASE call[r].meta # None /\ call[r].meta # Unread /\
             \E pc : Goes(r, To(r, pc)) \/ \E other : Goes(r, [To(r, pc) EXCEPT !.other = other])
    <3>1. call[r].meta \in Metadata
      BY <1>0, <2>3 DEF Knows
    <3>2. PICK pc, other : Goes(r, To(r, pc)) \/ Goes(r, [To(r, pc) EXCEPT !.other = other])
      BY <2>3
    <3>3. CASE Goes(r, To(r, pc))
      BY <1>1, <1>2, <2>1, <3>1, <3>3, ToFields
    <3>4. CASE Goes(r, [To(r, pc) EXCEPT !.other = other])
      BY <1>1, <1>2, <2>1, <3>1, <3>4, ToFields, SMT DEF CallFields
    <3> QED BY <3>2, <3>3, <3>4
  <2> QED BY <1>5, <2>2, <2>3 DEF PushReadName
<1>6. CASE PushReadClaim(r)
  <2>1. UNCHANGED <<meta, names>> /\ call[r].meta \in Metadata
    BY <1>0, <1>6 DEF PushReadClaim, storeVars, At, Knows
  <2>2. CASE Goes(r, Done(r, "already_exists", Zero))
    BY <1>1, <1>2, <2>1, <2>2, DoneFields
  <2> DEFINE c == [To(r, "reinstate") EXCEPT !.other = None]
  <2>3. CASE Goes(r, c) \/ Misreads(r, c)
    BY <1>1, <1>2, <2>1, <2>3, ToFields, SMT DEF CallFields
  <2> QED BY <1>6, <2>2, <2>3 DEF PushReadClaim
<1>7. CASE PushReinstate(r)
  <2>1. Goes(r, To(r, "prepare")) /\ meta' = meta /\ call[r].meta \in Metadata
        /\ names' = [names EXCEPT ![call[r].meta.name] = b]
    BY <1>0, <1>7 DEF PushReinstate, At, Knows
  <2>2. Knows(r)'
    BY <1>1, <2>1, ToFields
  <2> QED BY <1>0, <2>1, <2>2 DEF Describes, Described, Knows
<1>8. CASE PushPrepare(r)
  <2>1. UNCHANGED <<meta, names>>
    BY <1>8 DEF PushPrepare
  <2>2. CASE \E status, revision : Goes(r, Done(r, status, revision))
    BY <1>1, <1>2, <2>1, <2>2, DoneFields
  <2> DEFINE d == Decided(r, call[r].head)
  <2>3. DOMAIN d = CallFields /\ d.meta \in {Unread, call[r].meta}
        /\ d.pc \in {"store", "merge", "done"}
    BY DecidedFields
  <2> HIDE DEF d
  <2>4. CASE Goes(r, d) \/ \E v : Goes(r, [d EXCEPT !.incoming = v])
    BY <1>1, <1>2, <2>1, <2>3, <2>4 DEF CallFields
  <2> QED BY <1>8, <2>2, <2>4 DEF PushPrepare, d
<1>9. CASE PushStore(r)
  <2>1. UNCHANGED <<meta, names>>
    BY <1>9 DEF PushStore
  <2>2. PICK c : /\ Goes(r, c)
                 /\ \/ \E older, newer, all : c = Moved(r, older, newer, all)
                    \/ \E current : c = Decided(r, current)
    BY <1>9, SMT DEF PushStore
  <2>3. DOMAIN c = CallFields /\ c.meta \in {Unread, call[r].meta}
        /\ c.pc \in {"store", "merge", "seal", "done"}
    BY <2>2, DecidedFields, MovedFields, SMT
  <2> QED BY <1>1, <1>2, <2>1, <2>2, <2>3
<1>10. CASE PushMerge(r)
  <2>1. UNCHANGED <<meta, names>> /\ call[r].pc = "merge"
    BY <1>10 DEF PushMerge, At
  <2>2. PICK c : /\ Goes(r, c)
                 /\ \/ \E older, newer, all : c = Moved(r, older, newer, all)
                    \/ \E status, revision : c = Done(r, status, revision)
                    \/ \E head : c = [call[r] EXCEPT !.head = head]
    BY <1>10, SMT DEF PushMerge
  <2>3. DOMAIN c = CallFields /\ c.meta \in {Unread, call[r].meta}
        /\ c.pc \in {"merge", "seal", "done"}
    BY <1>0, <2>1, <2>2, DoneFields, MovedFields, SMT DEF CallFields
  <2> QED BY <1>1, <1>2, <2>1, <2>2, <2>3
<1>11. CASE PushSeal(r) \/ PushCache(r)
  <2>1. UNCHANGED <<meta, names>> /\ call[r].pc \in {"seal", "cache"}
    BY <1>11 DEF PushSeal, PushCache, At
  <2>2. PICK c : /\ Goes(r, c)
                 /\ \/ \E status, revision : c = Done(r, status, revision)
                    \/ \E todo : c = [To(r, "cache") EXCEPT !.todo = todo]
                    \/ \E todo : c = [call[r] EXCEPT !.todo = todo]
    BY <1>11, SMT DEF PushSeal, PushCache
  <2>3. DOMAIN c = CallFields /\ c.meta \in {Unread, call[r].meta}
        /\ c.pc \in {"seal", "cache", "done"}
    BY <1>0, <2>1, <2>2, DoneFields, ToFields, SMT DEF CallFields
  <2> QED BY <1>1, <1>2, <2>1, <2>2, <2>3
<1> QED BY <1>3, <1>4, <1>5, <1>6, <1>7, <1>8, <1>9, <1>10, <1>11 DEF Push

\* A creation maps a name after it wrote or found the metadata.
LEMMA CreateDescribes ==
    ASSUME Described, Shaped, NEW r \in Request, Create(r)
    PROVE  Describes(r)
<1> DEFINE b == ask[r].branch
<1>0. /\ b \in Branch /\ ask[r].name \in Name /\ Knows(r) /\ ask' = ask
      /\ DOMAIN call[r] = CallFields /\ ask[r].kind = "create"
  <2>1. Calls(r)
    BY StepCalls DEF Handle
  <2> QED BY <2>1, Kinds, Asks DEF Shaped, Described, Calls
<1>1. ASSUME NEW c, DOMAIN c = CallFields, Goes(r, c) \/ Misreads(r, c),
             c.meta \in Metadata \cup {None, Unread},
             c.pc \in {"old", "rename"} => c.meta \in Metadata,
             c.pc \in {"map", "restore"} => meta'[b] # None
      PROVE  Knows(r)'
  BY <1>0, <1>1, SetCall DEF Knows
<1>2. ASSUME UNCHANGED <<meta, names>>, Knows(r)' PROVE Describes(r)
  BY <1>2 DEF Described, Describes
<1>3. CASE CreateReadName(r) \/ CreateReadTaken(r)
  <2>1. UNCHANGED <<meta, names>>
    BY <1>3 DEF CreateReadName, CreateReadTaken, storeVars
  <2>2. PICK c : /\ Goes(r, c) \/ Misreads(r, c)
                 /\ \/ \E status, revision : c = Done(r, status, revision)
                    \/ c = To(r, "id")
                    \/ \E other : c = [To(r, "taken") EXCEPT !.other = other]
                    \/ c = [To(r, "id") EXCEPT !.other = None]
    BY <1>3 DEF CreateReadName, CreateReadTaken
  <2>3. DOMAIN c = CallFields /\ c.meta \in {Unread, call[r].meta}
        /\ c.pc \in {"id", "taken", "done"}
    BY <2>2, DoneFields, ToFields, SMT DEF CallFields
  <2> QED BY <1>0, <1>1, <1>2, <2>1, <2>2, <2>3 DEF Knows
<1>4. CASE CreateReadId(r)
  <2>1. UNCHANGED <<meta, names>>
    BY <1>4 DEF CreateReadId, storeVars
  <2>2. CASE Goes(r, To(r, "describe")) \/ Misreads(r, To(r, "describe"))
    BY <1>0, <1>1, <1>2, <2>1, <2>2, ToFields, SMT DEF Knows
  <2>3. CASE meta[b] # None /\ \E pc \in {"restore", "old"} :
                 Goes(r, [To(r, pc) EXCEPT !.meta = meta[b]])
    <3>1. PICK pc \in {"restore", "old"} : Goes(r, [To(r, pc) EXCEPT !.meta = meta[b]])
      BY <2>3
    <3> DEFINE c == [To(r, pc) EXCEPT !.meta = meta[b]]
    <3>2. DOMAIN c = CallFields /\ c.meta = meta[b] /\ c.pc = pc
      BY ToFields DEF CallFields
    <3>3. meta[b] \in Metadata /\ meta'[b] # None
      BY <1>0, <2>1, <2>3 DEF Described
    <3> QED BY <1>1, <1>2, <2>1, <3>1, <3>2, <3>3
  <2> QED BY <1>4, <2>2, <2>3 DEF CreateReadId
<1>5. CASE CreateReadOld(r)
  <2>1. UNCHANGED <<meta, names>> /\ call[r].meta \in Metadata
    BY <1>0, <1>5 DEF CreateReadOld, storeVars, At, Knows
  <2>2. PICK c : /\ Goes(r, c) \/ Misreads(r, c)
                 /\ c = Done(r, "already_exists", Zero) \/ c = To(r, "rename")
    BY <1>5 DEF CreateReadOld
  <2>3. DOMAIN c = CallFields /\ c.meta \in {Unread, call[r].meta}
        /\ c.pc \in {"done", "rename"} /\ (c.pc = "rename" => c.meta = call[r].meta)
    BY <2>2, DoneFields, ToFields, SMT
  <2> QED BY <1>0, <1>1, <1>2, <2>1, <2>2, <2>3
<1>6. CASE CreateRename(r)
  <2> DEFINE m == [call[r].meta EXCEPT !.name = ask[r].name]
  <2>1. Goes(r, To(r, "restore")) /\ names' = names /\ meta' = [meta EXCEPT ![b] = m]
        /\ call[r].meta \in Metadata
    BY <1>0, <1>6 DEF CreateRename, At, Knows
  <2>2. m \in Metadata
    BY <1>0, <2>1 DEF Metadata
  <2> HIDE DEF m
  <2>3. meta'[b] # None
    BY <1>0, <2>1, <2>2, ScenesAssumption DEF Described
  <2>4. call[r].meta \in Metadata \cup {None, Unread}
    BY <1>0 DEF Knows
  <2>5. DOMAIN To(r, "restore") = CallFields /\ To(r, "restore").pc = "restore"
        /\ To(r, "restore").meta = call[r].meta
    BY ToFields
  <2>6. Knows(r)'
    BY <1>1, <2>1, <2>3, <2>4, <2>5
  <2> QED BY <1>0, <2>1, <2>2, <2>6, ScenesAssumption DEF Described, Describes
<1>7. CASE CreateDescribe(r)
  <2> DEFINE m == [name |-> ask[r].name, protect |-> FALSE, note |-> None]
  <2>1. Goes(r, To(r, "map")) /\ names' = names /\ meta' = [meta EXCEPT ![b] = m]
    BY <1>7 DEF CreateDescribe
  <2>2. m \in Metadata
    BY <1>0 DEF Metadata
  <2> HIDE DEF m
  <2>3. meta'[b] # None
    BY <1>0, <2>1, <2>2, ScenesAssumption DEF Described
  <2>4. call[r].meta \in Metadata \cup {None, Unread}
    BY <1>0 DEF Knows
  <2>5. DOMAIN To(r, "map") = CallFields /\ To(r, "map").pc = "map"
        /\ To(r, "map").meta = call[r].meta
    BY ToFields
  <2>6. Knows(r)'
    BY <1>1, <2>1, <2>3, <2>4, <2>5
  <2> QED BY <1>0, <2>1, <2>2, <2>6, ScenesAssumption DEF Described, Describes
<1>8. CASE CreateMap(r)
  <2>1. meta' = meta /\ names' = [names EXCEPT ![ask[r].name] = b] /\ meta[b] # None
    BY <1>0, <1>8 DEF CreateMap, At, Knows
  <2>2. PICK c : Goes(r, c) /\ (c = To(r, "point") \/ c = Done(r, "success", Zero))
    BY <1>8 DEF CreateMap
  <2>3. DOMAIN c = CallFields /\ c.meta \in {Unread, call[r].meta} /\ c.pc \in {"point", "done"}
    BY <2>2, DoneFields, ToFields, SMT
  <2>4. Knows(r)'
    BY <1>0, <1>1, <2>2, <2>3 DEF Knows
  <2> QED BY <1>0, <2>1, <2>4 DEF Described, Describes
<1>9. CASE CreatePoint(r)
  <2>1. UNCHANGED <<meta, names>>
    BY <1>9 DEF CreatePoint
  <2>2. PICK status, revision : Goes(r, Done(r, status, revision))
    BY <1>9 DEF CreatePoint
  <2> QED BY <1>1, <1>2, <2>1, <2>2, DoneFields
<1> QED BY <1>3, <1>4, <1>5, <1>6, <1>7, <1>8, <1>9 DEF Create

\* Deleting unmaps; protecting and annotating write over metadata.
LEMMA AdministerDescribes ==
    ASSUME Described, Shaped, NEW r \in Request, Administer(r)
    PROVE  Describes(r)
<1> DEFINE b == ask[r].branch
<1>0. /\ b \in Branch /\ Knows(r) /\ ask' = ask /\ DOMAIN call[r] = CallFields
      /\ ask[r].kind \notin {"push", "create"}
  <2>1. Calls(r)
    BY StepCalls DEF Handle
  <2> QED BY <2>1, Kinds, Asks DEF Shaped, Described, Calls
<1>1. ASSUME NEW c, DOMAIN c = CallFields, Goes(r, c),
             c.meta \in Metadata \cup {None, Unread}, 
             c.pc \in {"write", "swap"} => c.meta \in Metadata
      PROVE  Knows(r)'
  BY <1>0, <1>1, SetCall DEF Knows
<1>2. ASSUME UNCHANGED <<meta, names>>, Knows(r)' PROVE Describes(r)
  BY <1>2 DEF Described, Describes
<1>3. ASSUME NEW status, Goes(r, Done(r, status, Zero)) PROVE Knows(r)'
  BY <1>1, <1>3, DoneFields, SMT
<1>4. CASE DeleteRead(r) \/ ProtectRead(r) \/ AnnotateRead(r)
  <2>1. UNCHANGED <<meta, names>>
    BY <1>4 DEF DeleteRead, ProtectRead, AnnotateRead, storeVars
  <2>2. CASE \E status : Goes(r, Done(r, status, Zero))
    BY <1>2, <1>3, <2>1, <2>2
  <2>3. CASE meta[b] # None /\ \E pc : Goes(r, [To(r, pc) EXCEPT !.meta = meta[b]])
    <3>1. PICK pc : Goes(r, [To(r, pc) EXCEPT !.meta = meta[b]])
      BY <2>3
    <3>2. meta[b] \in Metadata
      BY <1>0, <2>3 DEF Described
    <3> QED BY <1>1, <1>2, <2>1, <3>1, <3>2, ToFields DEF CallFields
  <2> QED BY <1>4, <2>2, <2>3 DEF DeleteRead, ProtectRead, AnnotateRead
<1>5. CASE DeleteReadName(r)
  <2>1. UNCHANGED <<meta, names>>
    BY <1>5 DEF DeleteReadName, storeVars
  <2>2. Goes(r, Done(r, "not_found", Zero)) \/ Goes(r, To(r, "unmap"))
    BY <1>5 DEF DeleteReadName
  <2> QED BY <1>0, <1>1, <1>2, <1>3, <2>1, <2>2, ToFields, SMT DEF Knows
<1>6. CASE DeleteUnmap(r)
  <2>1. /\ Goes(r, Done(r, "success", Zero)) /\ meta' = meta
        /\ names' = [names EXCEPT ![call[r].meta.name] = None]
    BY <1>6 DEF DeleteUnmap
  <2>2. Knows(r)'
    BY <1>3, <2>1
  <2> QED BY <2>1, <2>2 DEF Described, Describes
<1>7. CASE ProtectWrite(r)
  <2> DEFINE m == [call[r].meta EXCEPT !.protect = ask[r].on]
  <2>1. names' = names /\ meta' = [meta EXCEPT ![b] = m] /\ call[r].meta \in Metadata
        /\ ask[r].on \in BOOLEAN /\ Goes(r, Done(r, "success", Zero))
    BY <1>0, <1>7, Asks DEF ProtectWrite, At, Knows
  <2>2. m \in Metadata
    BY <2>1 DEF Metadata
  <2> HIDE DEF m
  <2> QED BY <1>0, <1>3, <2>1, <2>2, ScenesAssumption DEF Described, Describes
<1>8. CASE AnnotateSwap(r)
  <2>1. PICK status : Goes(r, Done(r, status, Zero))
    BY <1>8 DEF AnnotateSwap
  <2>2. CASE meta' = meta
    BY <1>2, <1>3, <1>8, <2>1, <2>2 DEF AnnotateSwap
  <2>3. CASE meta' = [meta EXCEPT ![b].note = r] /\ meta[b] \in Metadata
    <3>1. meta'[b] \in Metadata /\ meta' \in [Branch -> Metadata \cup {None}]
      BY <1>0, <2>3 DEF Described, Metadata
    <3> QED BY <1>0, <1>3, <1>8, <2>1, <2>3, <3>1, ScenesAssumption
            DEF AnnotateSwap, Described, Describes
  <2> QED BY <1>0, <1>8, <2>2, <2>3 DEF AnnotateSwap, At, Knows
<1> QED BY <1>4, <1>5, <1>6, <1>7, <1>8 DEF Administer

\* A lookup and the end of a request write neither.
LEMMA OthersDescribe ==
    ASSUME Described, Shaped, NEW r \in Request, Find(r) \/ End(r)
    PROVE  Describes(r)
<1>0. Knows(r) /\ Calls(r)
  BY StepCalls DEF Described, Handle
<1>1. UNCHANGED <<meta, names>>
  BY Kinds
<1>2. CASE End(r)
  <2>1. call'[r] = Done(r, "error", Zero)
    BY <1>2 DEF End, Shaped
  <2>2. Knows(r)'
    BY <1>0, <1>1, <2>1, DoneFields, ScenesAssumption, SMT DEF Calls, Knows
  <2> QED BY <1>1, <2>2 DEF Described, Describes
<1>3. CASE Find(r)
  <2>1. ask[r].kind = "find"
    BY <1>3, Kinds
  <2>2. call'[r].meta \in {Unread, call[r].meta}
    BY <1>3, FindCall
  <2>3. Knows(r)'
    BY <1>0, <2>1, <2>2 DEF Calls, Knows
  <2> QED BY <1>1, <2>3 DEF Described, Describes
<1> QED BY <1>2, <1>3

\* The default branch, which alone has a name at first, has metadata.
LEMMA InitDescribed == Init => Described
<1> SUFFICES ASSUME Init PROVE Described
  OBVIOUS
<1>1. [name |-> Default, protect |-> FALSE, note |-> None] \in Metadata
  BY BranchAssumption DEF Metadata, Name
<1>2. meta \in [Branch -> Metadata \cup {None}] /\ names \in [Name -> Branch \cup {None}]
  BY <1>1, BranchAssumption DEF Init, Name
<1>3. MappedDescribed
  BY <1>1, BranchAssumption, ScenesAssumption DEF Init, MappedDescribed, Name
<1>4. ASSUME NEW r \in Request PROVE Knows(r)
  BY ScenesAssumption DEF Init, Knows, NoCall
<1> QED BY <1>2, <1>3, <1>4 DEF Described

\* Described is inductive with Shaped.
LEMMA NextDescribed == Shaped /\ Described /\ [Next]_vars => Described'
<1> SUFFICES ASSUME Shaped, Described, [Next]_vars PROVE Described'
  OBVIOUS
<1>1. CASE UNCHANGED vars
  BY <1>1 DEF Described, MappedDescribed, Knows, vars, storeVars
<1>2. ASSUME NEW r \in Request, Handle(r) \/ End(r) PROVE Described'
  <2>1. Calls(r)
    BY <1>2, StepCalls
  <2>2. Describes(r)
    BY <1>2, PushDescribes, CreateDescribes, AdministerDescribes, OthersDescribe DEF Handle
  <2> QED BY <2>1, <2>2, DescribesKeeps
<1> QED BY <1>1, <1>2 DEF Next

\* create_at stores metadata before it maps a name, and a push maps its name
\* back only with the metadata it read: whatever else runs, fails or ends, a
\* name maps to a branch that has metadata.
THEOREM NamesDescribed == Spec => []MappedDescribed
<1>1. Init => Shaped /\ Described
  BY InitShaped, InitDescribed
<1>2. Shaped /\ Described /\ [Next]_vars => Shaped' /\ Described'
  BY NextShaped, NextDescribed
<1>3. Described => MappedDescribed
  BY DEF Described
<1> QED BY <1>1, <1>2, <1>3, PTL DEF Spec

-----------------------------------------------------------------------------
(***************************************************************************)
(* Revisions and heads.  Revisions are only added, so what a push that is  *)
(* about to store knows of its revision stays true until it stores it.     *)
(***************************************************************************)

\* What request r knows of its revision.
Based(r) ==
    /\ Held(states, call[r].began)
    /\ ask[r].kind = "push" => Held(states, call[r].incoming)
    /\ ask[r].kind = "push" /\ call[r].pc = "store" /\ ~ask[r].force
          => State(states, call[r].incoming).self = call[r].head

\* Heads, and what requests hold on to, are revisions of the store.
Kept ==
    /\ IsStore(states) /\ Grown <= Len(states)
    /\ DOMAIN latest = Branch
    /\ \A b \in Branch : Held(states, latest[b])
    /\ \A r \in Request : Based(r)

\* What a step of r does to revisions and heads.
Keeps(r) ==
    /\ Extends(states, states')
    /\ DOMAIN latest' = Branch
    /\ \A b \in Branch : latest'[b] = latest[b] \/ Held(states', latest'[b])
    /\ Based(r)'

\* A step that keeps revisions keeps the invariant of every request.
LEMMA KeepsKept ==
    ASSUME Kept, Shaped, NEW r \in Request, Calls(r), Keeps(r)
    PROVE  Kept'
<1>1. ASSUME NEW s \in Request, s # r PROVE Based(s)'
  <2>1. call'[s] = call[s] /\ ask'[s] = ask[s] /\ Based(s)
    BY <1>1 DEF Kept, Calls
  <2> QED BY <2>1 DEF Based, Keeps, Extends
<1>2. \A b \in Branch : Held(states', latest'[b])
  BY DEF Kept, Keeps, Extends
<1>3. Grown <= Len(states')
  <2>1. Len(states) \in Nat /\ Len(states') \in Nat
    BY SMT DEF Kept, Keeps, Extends, IsStore
  <2> QED BY <2>1, BranchAssumption, SMT DEF Kept, Keeps, Extends
<1> QED BY <1>1, <1>2, <1>3 DEF Kept, Keeps, Extends

\* A store extends itself.
LEMMA SameExtends == IsStore(states) => Extends(states, states)
<1> SUFFICES ASSUME IsStore(states) PROVE Extends(states, states)
  OBVIOUS
<1>1. Len(states) \in Nat
  BY SMT DEF IsStore
<1> QED BY <1>1, SMT DEF Extends

\* Requests other than pushes add no revision, and move a head only to the
\* branch point a creation names.
LEMMA OthersKeep ==
    ASSUME Kept, Shaped, NEW r \in Request,
           Find(r) \/ Create(r) \/ Administer(r) \/ End(r)
    PROVE  Keeps(r)
<1>0. Calls(r) /\ ask[r].branch \in Branch /\ Based(r)
  BY StepCalls, Asks DEF Handle, Kept
<1>1. states' = states
  BY Kinds
<1>2. ASSUME latest' = latest, Based(r)' PROVE Keeps(r)
  BY <1>1, <1>2, SameExtends DEF Kept, Keeps
<1>3. CASE End(r)
  <2>1. call'[r] = Done(r, "error", Zero) /\ latest' = latest
    BY <1>3, Kinds DEF End, Shaped
  <2>2. Based(r)'
    BY <1>0, <1>1, <2>1, DoneFields, SMT DEF Based, Held, Zero
  <2> QED BY <1>2, <2>1, <2>2
<1>4. ASSUME ask[r].kind # "push", Held(states, call'[r].began) PROVE Based(r)'
  BY <1>0, <1>1, <1>4 DEF Based, Calls
<1>5. CASE Find(r)
  <2>1. ask[r].kind = "find" /\ latest' = latest
    BY <1>5, Kinds
  <2>2. Held(states, call'[r].began)
    BY <1>0, <1>5, FindCall DEF Kept, Based
  <2> QED BY <1>2, <1>4, <2>1, <2>2
<1>6. CASE Administer(r)
  <2>1. ask[r].kind # "push" /\ latest' = latest
    BY <1>6, Kinds
  <2>2. PICK c : /\ Goes(r, c)
                 /\ \/ \E status, revision : c = Done(r, status, revision)
                    \/ \E pc : c = To(r, pc)
                    \/ \E pc, m : c = [To(r, pc) EXCEPT !.meta = m]
    BY <1>6 DEF Administer, DeleteRead, DeleteReadName, DeleteUnmap, ProtectRead,
       ProtectWrite, AnnotateRead, AnnotateSwap
  <2>3. DOMAIN c = CallFields /\ c.began = call[r].began
    BY <2>2, DoneFields, ToFields, SMT DEF CallFields
  <2>4. Held(states, call'[r].began)
    BY <1>0, <2>2, <2>3, SetCall DEF Based
  <2> QED BY <1>2, <1>4, <2>1, <2>4
<1>7. CASE Create(r)
  <2>1. ask[r].kind = "create"
    BY <1>7, Kinds
  <2>2. PICK c : /\ Goes(r, c) \/ Misreads(r, c)
                 /\ \/ \E status, revision : c = Done(r, status, revision)
                    \/ \E pc : c = To(r, pc)
                    \/ \E pc, m : c = [To(r, pc) EXCEPT !.meta = m]
                    \/ \E pc, other : c = [To(r, pc) EXCEPT !.other = other]
    <3>1. CASE CreateReadName(r) \/ CreateReadTaken(r)
      BY <3>1 DEF CreateReadName, CreateReadTaken
    <3>2. CASE CreateReadId(r)
      BY <3>2 DEF CreateReadId
    <3>3. CASE CreateReadOld(r) \/ CreateRename(r) \/ CreateDescribe(r) \/ CreateMap(r)
               \/ CreatePoint(r)
      BY <3>3, SMT DEF CreateReadOld, CreateRename, CreateDescribe, CreateMap, CreatePoint
    <3> QED BY <1>7, <3>1, <3>2, <3>3 DEF Create
  <2>3. DOMAIN c = CallFields /\ c.began = call[r].began
    BY <2>2, DoneFields, ToFields, SMT DEF CallFields
  <2>4. Based(r)'
    BY <1>0, <1>4, <2>1, <2>2, <2>3, SetCall, SMT DEF Based
  <2>5. CASE latest' = latest
    BY <1>2, <2>4, <2>5
  <2>6. CASE latest' = [latest EXCEPT ![ask[r].branch] = ask[r].point]
    <3>1. ask[r].point \in 0 .. Grown
      BY <2>1, Asks
    <3>2. ask[r].point # Zero => ask[r].point \in DOMAIN states
      <4>1. DOMAIN states = 1 .. Len(states) /\ Len(states) \in Nat /\ Grown <= Len(states)
        BY Addresses DEF Kept
      <4> QED BY <3>1, <4>1, BranchAssumption, SMT DEF Zero
    <3> QED BY <1>0, <1>1, <2>4, <2>6, <3>2, SameExtends DEF Kept, Keeps, Held
  <2> QED BY <1>7, <2>5, <2>6 DEF Create, CreateReadName, CreateReadTaken, CreateReadId,
          CreateReadOld, CreateRename, CreateDescribe, CreateMap, CreatePoint, storeVars
<1> QED BY <1>3, <1>5, <1>6, <1>7

\* What is serialized has the fields of a revision.
LEMMA MadeStates ==
    ASSUME NEW r
    PROVE  /\ DOMAIN ClientState(r) = StateFields
           /\ \A head : DOMAIN MergeState(r, head) = StateFields
           /\ Held(states, call[r].incoming) /\ IsStore(states)
                 => /\ DOMAIN Renumbered(r) = StateFields
                    /\ Renumbered(r).self = State(states, call[r].incoming).self
<1>1. DOMAIN ClientState(r) = StateFields
  BY DEF ClientState, StateFields
<1>2. \A head : DOMAIN MergeState(r, head) = StateFields
  BY DEF MergeState, StateFields
<1>3. ASSUME Held(states, call[r].incoming), IsStore(states)
      PROVE  /\ DOMAIN Renumbered(r) = StateFields
             /\ Renumbered(r).self = State(states, call[r].incoming).self
  <2> DEFINE s == State(states, call[r].incoming)
             n == NextRevisionNumber(Number(states, s.self), Number(states, s.other))
  <2>1. DOMAIN s = StateFields
    BY <1>3, StateFieldsOf
  <2>2. Renumbered(r) = [s EXCEPT !.number = n]
    BY DEF Renumbered
  <2> HIDE DEF s, n
  <2>3. DOMAIN Renumbered(r) = StateFields /\ Renumbered(r).self = s.self
    BY <2>1, <2>2 DEF StateFields
  <2> QED BY <2>3 DEF s
<1> QED BY <1>1, <1>2, <1>3

\* A push keeps what is stored, and what it is based on when it stores.
LEMMA PushKeeps ==
    ASSUME Kept, Shaped, NEW r \in Request, Push(r)
    PROVE  Keeps(r)
<1> DEFINE b == ask[r].branch
<1>0. /\ b \in Branch /\ Based(r) /\ Calls(r) /\ ask[r].kind = "push"
      /\ DOMAIN call[r] = CallFields /\ Held(states, call[r].incoming) /\ IsStore(states)
  <2>1. Calls(r)
    BY StepCalls DEF Handle
  <2> QED BY <2>1, Kinds, Asks DEF Shaped, Kept, Based
<1>1. ASSUME NEW c, DOMAIN c = CallFields, Goes(r, c) \/ Misreads(r, c),
             c.began = call[r].began, c.incoming \in {Zero, call[r].incoming},
             Extends(states, states'),
             c.pc = "store" /\ ~ask[r].force => State(states', c.incoming).self = c.head
      PROVE  Based(r)'
  <2>1. call'[r] = c
    BY <1>1, SetCall
  <2>2. Held(states', c.began) /\ Held(states', c.incoming)
    BY <1>0, <1>1 DEF Based, Extends, Held
  <2> QED BY <1>0, <1>1, <2>1, <2>2 DEF Based, Calls
<1>2. ASSUME UNCHANGED <<states, latest>>, Based(r)' PROVE Keeps(r)
  BY <1>0, <1>2, SameExtends DEF Kept, Keeps
<1>3. CASE PushArrive(r)
  <2> DEFINE sent == IF ask[r].again = None THEN Address(states, ClientState(r))
                     ELSE call[ask[r].again].began
             c == [To(r, "load") EXCEPT !.began = sent, !.incoming = sent]
  <2>1. /\ latest' = latest /\ Goes(r, c)
        /\ states' = IF ask[r].again = None THEN Serialized(states, ClientState(r)) ELSE states
    BY <1>3 DEF PushArrive
  <2>2. Extends(states, states') /\ Held(states', sent)
    <3>1. CASE ask[r].again = None
      BY <1>0, <2>1, <3>1, MadeStates, SerializedExtends
    <3>2. CASE ask[r].again # None
      <4>1. ask[r].again \in Request
        BY <1>0, <3>2, Asks
      <4> QED BY <1>0, <2>1, <3>2, <4>1, SameExtends DEF Kept, Based
    <3> QED BY <3>1, <3>2
  <2> HIDE DEF sent
  <2>3. DOMAIN c = CallFields /\ c.began = sent /\ c.incoming = sent /\ c.pc = "load"
    BY ToFields DEF CallFields
  <2> HIDE DEF c
  <2>4. call'[r] = c
    BY <2>1, <2>3, SetCall
  <2>5. Based(r)'
    BY <2>2, <2>3, <2>4 DEF Based
  <2> QED BY <2>1, <2>2, <2>5 DEF Kept, Keeps
<1>4. CASE PushLoadMetadata(r) \/ PushLoadHead(r)
  <2>1. UNCHANGED <<states, latest>> /\ call[r].pc = "load"
    BY <1>4 DEF PushLoadMetadata, PushLoadHead, At, storeVars
  <2>2. PICK c, x : /\ Goes(r, c) \/ Misreads(r, c)
                    /\ c = [call[r] EXCEPT !.meta = x] \/ c = [call[r] EXCEPT !.head = x]
    BY <1>4 DEF PushLoadMetadata, PushLoadHead
  <2>3. /\ DOMAIN c = CallFields /\ c.began = call[r].began
        /\ c.incoming = call[r].incoming /\ c.pc = "load"
    BY <1>0, <2>1, <2>2 DEF CallFields
  <2>4. Based(r)'
    BY <1>0, <1>1, <2>1, <2>2, <2>3, SameExtends
  <2> QED BY <1>2, <2>1, <2>4
<1>5. CASE PushReadName(r) \/ PushReadClaim(r) \/ PushReinstate(r)
  <2>1. UNCHANGED <<states, latest>>
    BY <1>5 DEF PushReadName, PushReadClaim, PushReinstate, storeVars
  <2>2. PICK c : /\ Goes(r, c) \/ Misreads(r, c)
                 /\ \/ \E status, revision : c = Done(r, status, revision)
                    \/ \E pc \in {"prepare", "reinstate"} : c = To(r, pc)
                    \/ \E pc \in {"claim", "reinstate"} : \E other :
                          c = [To(r, pc) EXCEPT !.other = other]
    <3>1. CASE PushReadName(r)
      BY <3>1 DEF PushReadName
    <3>2. CASE PushReadClaim(r) \/ PushReinstate(r)
      BY <3>2 DEF PushReadClaim, PushReinstate
    <3> QED BY <1>5, <3>1, <3>2
  <2>3. /\ DOMAIN c = CallFields /\ c.began = call[r].began
        /\ c.incoming \in {Zero, call[r].incoming} /\ c.pc # "store"
    BY <2>2, DoneFields, ToFields, SMT DEF CallFields
  <2>4. Based(r)'
    BY <1>0, <1>1, <2>1, <2>2, <2>3, SameExtends
  <2> QED BY <1>2, <2>1, <2>4
<1>6. CASE PushPrepare(r)
  <2> DEFINE d == Decided(r, call[r].head)
             new == Renumbered(r)
  <2>1. latest' = latest
    BY <1>6 DEF PushPrepare
  <2>2. CASE states' = states /\ \E status, revision : Goes(r, Done(r, status, revision))
    <3>1. PICK status, revision : Goes(r, Done(r, status, revision))
      BY <2>2
    <3>2. Based(r)'
      BY <1>0, <1>1, <2>2, <3>1, DoneFields, SameExtends
    <3> QED BY <1>2, <2>1, <2>2, <3>2
  <2>3. CASE states' = states /\ d.pc # "store" /\ Goes(r, d)
    <3>1. Based(r)'
      BY <1>0, <1>1, <2>3, DecidedFields, SameExtends
    <3> QED BY <1>2, <2>1, <2>3, <3>1
  <2>4. CASE /\ d.pc = "store" /\ states' = Serialized(states, new)
             /\ Goes(r, [d EXCEPT !.incoming = Address(states, new)])
    <3>1. /\ DOMAIN d = CallFields /\ d.began = call[r].began /\ d.head = call[r].head
          /\ ask[r].force \/ call[r].head = State(states, call[r].incoming).self
      BY <2>4, DecidedFields
    <3>2. /\ Extends(states, states') /\ Held(states', Address(states, new))
          /\ State(states', Address(states, new)) = new
          /\ new.self = State(states, call[r].incoming).self
      BY <1>0, <2>4, MadeStates, SerializedExtends
    <3> DEFINE c == [d EXCEPT !.incoming = Address(states, new)]
    <3> HIDE DEF d, new
    <3>3. /\ DOMAIN c = CallFields /\ c.began = call[r].began /\ c.head = call[r].head
          /\ c.incoming = Address(states, new)
      BY <3>1 DEF CallFields
    <3> HIDE DEF c
    <3>4. call'[r] = c
      BY <2>4, <3>3, SetCall DEF c
    <3>5. Held(states', call[r].began)
      BY <1>0, <3>2 DEF Based, Extends
    <3>6. Based(r)'
      BY <1>0, <3>1, <3>2, <3>3, <3>4, <3>5 DEF Based, Calls
    <3> QED BY <2>1, <3>2, <3>6 DEF Kept, Keeps
  <2> QED BY <1>6, <2>2, <2>3, <2>4 DEF PushPrepare
<1>7. CASE PushStore(r)
  <2>1. states' = states
    BY <1>7 DEF PushStore
  <2>2. CASE \E older, newer, all : /\ latest' = [latest EXCEPT ![b] = call[r].incoming]
                                    /\ Goes(r, Moved(r, older, newer, all))
    <3>1. PICK older, newer, all : Goes(r, Moved(r, older, newer, all))
      BY <2>2
    <3>2. Based(r)'
      BY <1>0, <1>1, <2>1, <3>1, MovedFields, SameExtends
    <3> QED BY <1>0, <2>1, <2>2, <3>2, SameExtends DEF Kept, Keeps
  <2>3. CASE latest' = latest /\ Goes(r, Decided(r, latest[b]))
    <3> DEFINE d == Decided(r, latest[b])
    <3>1. Goes(r, d) /\ Extends(states, states')
      BY <1>0, <2>1, <2>3, SameExtends
    <3>2. /\ DOMAIN d = CallFields
          /\ d.began = call[r].began
          /\ d.incoming \in {Zero, call[r].incoming}
          /\ d.pc # "done" => d.head = latest[b] /\ d.incoming = call[r].incoming
          /\ d.pc = "store" =>
                ask[r].force \/ latest[b] = State(states, call[r].incoming).self
      BY DecidedFields
    <3> HIDE DEF d
    <3>3. d.pc = "store" /\ ~ask[r].force => State(states, d.incoming).self = d.head
      BY ONLY <3>2
    <3>4. Based(r)'
      BY <1>1, <2>1, <3>1, <3>2, <3>3
    <3> QED BY <1>2, <2>1, <2>3, <3>4
  <2> QED BY <1>7, <2>2, <2>3 DEF PushStore
<1>8. CASE PushMerge(r)
  <2> DEFINE merged == MergeState(r, call[r].head)
  <2>1. CASE UNCHANGED <<states, latest>> /\ \E status : Goes(r, Done(r, status, call[r].head))
    <3>0. PICK status : Goes(r, Done(r, status, call[r].head))
      BY <2>1
    <3> DEFINE d == Done(r, status, call[r].head)
    <3>1. /\ DOMAIN d = CallFields /\ d.began = call[r].began /\ d.incoming = Zero
          /\ d.pc = "done"
      BY DoneFields, SMT
    <3> HIDE DEF d
    <3>2. Goes(r, d) /\ Extends(states, states')
      BY <1>0, <2>1, <3>0, SameExtends DEF d
    <3>3. Based(r)'
      BY <1>1, <3>1, <3>2
    <3> QED BY <1>2, <2>1, <3>3
  <2>2. CASE states' = Serialized(states, merged)
    <3>1. Extends(states, states') /\ Held(states', Address(states, merged))
      BY <1>0, <2>2, MadeStates, SerializedExtends
    <3>2. PICK c : /\ Goes(r, c)
                   /\ \/ \E older, newer, all : c = Moved(r, older, newer, all)
                      \/ \E head : c = [call[r] EXCEPT !.head = head]
                      \/ \E status, revision : c = Done(r, status, revision)
      BY <1>8, SMT DEF PushMerge
    <3>3. call[r].pc = "merge"
      BY <1>8 DEF PushMerge, At
    <3>4. /\ DOMAIN c = CallFields /\ c.began = call[r].began
          /\ c.incoming \in {Zero, call[r].incoming} /\ c.pc # "store"
      BY <1>0, <3>2, <3>3, DoneFields, MovedFields, SMT DEF CallFields
    <3>5. Based(r)'
      BY <1>1, <3>1, <3>2, <3>4
    <3>6. latest' = latest \/ latest' = [latest EXCEPT ![b] = Address(states, merged)]
      BY <1>8 DEF PushMerge
    <3> QED BY <1>0, <3>1, <3>5, <3>6 DEF Kept, Keeps
  <2> QED BY <1>8, <2>1, <2>2 DEF PushMerge
<1>9. CASE PushSeal(r) \/ PushCache(r)
  <2>1. UNCHANGED <<states, latest>> /\ call[r].pc \in {"seal", "cache"}
    BY <1>9 DEF PushSeal, PushCache, At
  <2>2. PICK c : /\ Goes(r, c)
                 /\ \/ \E status, revision : c = Done(r, status, revision)
                    \/ \E todo : c = [To(r, "cache") EXCEPT !.todo = todo]
                    \/ \E todo : c = [call[r] EXCEPT !.todo = todo]
    BY <1>9, SMT DEF PushSeal, PushCache
  <2>3. /\ DOMAIN c = CallFields /\ c.began = call[r].began
        /\ c.incoming \in {Zero, call[r].incoming} /\ c.pc # "store"
    BY <1>0, <2>1, <2>2, DoneFields, ToFields, SMT DEF CallFields
  <2>4. Based(r)'
    BY <1>0, <1>1, <2>1, <2>2, <2>3, SameExtends
  <2> QED BY <1>2, <2>1, <2>4
<1> QED BY <1>3, <1>4, <1>5, <1>6, <1>7, <1>8, <1>9 DEF Push

\* The branches start at revisions of the initial store.
LEMMA InitKept == Init => Kept
<1> SUFFICES ASSUME Init PROVE Kept
  OBVIOUS
<1> DEFINE first(i) == [EmptyState EXCEPT !.self = i - 1, !.number = i, !.upload = Uploaded[i]]
<1>1. \A i : DOMAIN first(i) = StateFields
  BY DEF EmptyState, StateFields
<1> HIDE DEF first
<1>2. states = [i \in 1 .. Grown |-> first(i)]
  BY DEF Init, first
<1>3. DOMAIN states = 1 .. Grown /\ Len(states) = Grown /\ IsStore(states)
  BY <1>1, <1>2, BranchAssumption, SMT DEF IsStore
<1>4. DOMAIN latest = Branch /\ \A b \in Branch : Held(states, latest[b])
  BY <1>3, BranchAssumption DEF Init, Held, Zero
<1>5. ASSUME NEW r \in Request PROVE Based(r)
  BY DEF Init, Based, NoCall, Held, Zero
<1> QED BY <1>3, <1>4, <1>5, BranchAssumption, SMT DEF Kept

\* Kept is inductive with Shaped.
LEMMA NextKept == Shaped /\ Kept /\ [Next]_vars => Kept'
<1> SUFFICES ASSUME Shaped, Kept, [Next]_vars PROVE Kept'
  OBVIOUS
<1>1. CASE UNCHANGED vars
  BY <1>1 DEF Kept, Based, IsStore, Held, State, vars, storeVars
<1>2. ASSUME NEW r \in Request, Handle(r) \/ End(r) PROVE Kept'
  <2>1. Calls(r)
    BY <1>2, StepCalls
  <2>2. Keeps(r)
    BY <1>2, PushKeeps, OthersKeep DEF Handle
  <2> QED BY <2>1, <2>2, KeepsKept
<1> QED BY <1>1, <1>2 DEF Next

\* Where both sides agree, or only one changed a file, a merge has no other
\* file than the source's and the target's.
LEMMA MergedFiles ==
    ASSUME NEW base, NEW source, NEW target, Conflicts(base, source, target) = {},
           NEW f \in File, Merged(base, source, target)[f] # target[f]
    PROVE  base[f] = target[f]
BY DEF Conflicts, Merged

\* A head is moved by a push that was based on it, or merged onto it.
LEMMA StepChangesOwn ==
    ASSUME Shaped, Kept, [Next]_vars, NEW r \in Request
    PROVE  ChangesOwn(r)
<1> DEFINE b == ask[r].branch
           base == State(states, call[r].incoming).self
<1> SUFFICES ASSUME ask[r].kind = "push", call[r].pc \in {"store", "merge"},
                    call'[r] # call[r], latest'[b] # latest[b], ~ask[r].force,
                    NEW f \in File,
                    Tree(states', latest'[b])[f] # Tree(states, latest[b])[f]
             PROVE  Tree(states, base)[f] = Tree(states, latest[b])[f]
  BY DEF ChangesOwn
<1>0. b \in Branch /\ DOMAIN latest = Branch /\ IsStore(states) /\ Based(r)
  BY Asks DEF Kept
<1>1. Handle(r) \/ End(r)
  <2>1. PICK s \in Request : Handle(s) \/ End(s)
    BY DEF Next, vars
  <2>2. Calls(s)
    BY <2>1, StepCalls
  <2> QED BY <2>1, <2>2 DEF Calls
<1>2. PushStore(r) \/ PushMerge(r)
  <2>1. ~ End(r)
    BY Kinds
  <2>2. Push(r)
    BY <1>1, <2>1, Kinds DEF Handle
  <2> QED BY <2>2 DEF Push, PushArrive, PushLoadMetadata, PushLoadHead, PushReadName,
          PushReadClaim, PushReinstate, PushPrepare, PushSeal, PushCache, At
<1>3. CASE PushStore(r)
  <2>1. call[r].pc = "store" /\ latest[b] = call[r].head
    BY <1>3 DEF PushStore, At
  <2>2. base = latest[b]
    BY <1>0, <2>1 DEF Based
  <2> QED BY <2>2
<1>4. CASE PushMerge(r)
  <2> DEFINE head == call[r].head
             merged == MergeState(r, head)
             incoming == State(states, call[r].incoming)
  <2>1. /\ Mergeable(r, head) /\ latest[b] = head
        /\ states' = Serialized(states, merged)
        /\ latest' = [latest EXCEPT ![b] = Address(states, merged)]
    BY <1>4 DEF PushMerge
  <2>2. State(states', latest'[b]) = merged
    BY <1>0, <2>1, MadeStates, SerializedExtends
  <2>3. merged.tree = Merged(Tree(states, base), incoming.tree, Tree(states, head))
    BY DEF MergeState
  <2>4. Conflicts(Tree(states, base), incoming.tree, Tree(states, head)) = {}
    BY <2>1 DEF Mergeable
  <2>5. Merged(Tree(states, base), incoming.tree, Tree(states, head))[f]
            # Tree(states, head)[f]
    BY <2>1, <2>2, <2>3 DEF Tree
  <2> DEFINE mine == Tree(states, base)
             theirs == Tree(states, head)
             source == incoming.tree
  <2>6. Conflicts(mine, source, theirs) = {} /\ Merged(mine, source, theirs)[f] # theirs[f]
    BY <2>4, <2>5
  <2> HIDE DEF mine, theirs, source
  <2>7. f \in File
    OBVIOUS
  <2>8. mine[f] = theirs[f]
    BY ONLY <2>6, <2>7, MergedFiles, SMT
  <2> QED BY <2>1, <2>8 DEF mine, theirs
<1> QED BY <1>2, <1>3, <1>4

\* A push that is not forced swaps in a revision based on the head it swaps
\* out, or a merge made on that head, however often it tried: no change of a
\* file that it did not know is overwritten (store_new_head,
\* try_fast_forward_merge).
THEOREM PushesKeepUpdates == Spec => NoLostUpdate
<1>1. Init => Shaped /\ Kept
  BY InitShaped, InitKept
<1>2. Shaped /\ Kept /\ [Next]_vars => Shaped' /\ Kept'
  BY NextShaped, NextKept
<1>3. Shaped /\ Kept /\ [Next]_vars => [\A r \in Request : ChangesOwn(r)]_vars
  BY StepChangesOwn
<1> QED BY <1>1, <1>2, <1>3, PTL DEF Spec, NoLostUpdate

-----------------------------------------------------------------------------
(***************************************************************************)
(* The lines of the branches                                               *)
(*                                                                         *)
(* What BranchLineProofs shows of them is not inductive: it is about what  *)
(* a call answers, and says nothing of a call halfway.  The invariant says *)
(* what each call has in hand (Fits: the revisions it refers to are there; *)
(* Reaches: they are on the line), of every key what the line says         *)
(* (Keyed), and of the store that every revision is numbered above its     *)
(* parents (Stored).  A step is looked at for its own request (Moves): it  *)
(* moves heads up only, and writes only keys that are right for the line   *)
(* it leaves; what the other requests hold stays on a line that only grew. *)
(* A forced push may take the head off its line, after which nothing is    *)
(* claimed of the keys of the branch (Forced).                             *)
(***************************************************************************)

\* The line of the branch.
Branching(b) == Line(states, latest[b])

\* v is the highest revision of the branch at or below the boundary, which
\* the head has passed.
TopAt(b, k, v) ==
    /\ v \in Branching(b) /\ Number(states, v) <= k
    /\ k < Number(states, latest[b])
    /\ \A w \in Branching(b) : Number(states, w) <= k => Number(states, w) <= Number(states, v)

\* The segment is that of a boundary the head has passed.
ListAt(b, k, segment) ==
    /\ k < Number(states, latest[b])
    /\ segment = Segment(states, Branching(b), k)

\* The boundaries yet to be sealed are closed by the move from older to newer.
Crossing(todo, older, newer) ==
    /\ newer \in DOMAIN states /\ older = states[newer].self
    /\ todo # {}
    /\ todo \subseteq SealedBoundaries(Number(states, older), Number(states, newer))

\* What a push holds while it works.
Working == {"load", "claim", "reinstate", "prepare", "store", "merge"}

\* What the call c of request r refers to is there.
Fitting(r, c) ==
    /\ c.pc # "done" => c.status = None
    /\ ask[r].kind = "push" =>
          /\ c.head # Unread => Held(states, c.head)
          /\ c.pc \in Working \ {"load"} => c.head # Unread
          /\ c.pc \in Working => c.incoming # Zero
          /\ c.pc \in {"seal", "cache"} => Crossing(c.todo, c.head, c.revision)

Fits(r) == Fitting(r, call[r])

\* What a push holds is on the line.
PushHolds(r, c) ==
    LET line == Branching(ask[r].branch)
    IN  /\ c.head # Unread => c.head = Zero \/ c.head \in line
        /\ c.pc \in {"seal", "cache"} \/ c.status = "success" => c.revision \in line

\* So is what a lookup holds.
FindHolds(r, c) ==
    LET b == ask[r].branch
        line == Branching(b)
    IN  /\ c.began = Zero \/ c.began \in line
        /\ c.pc = "fill" => TopAt(b, Wanted(r) + Step, c.head)
        /\ c.pc = "reseal" =>
              /\ Crossing(c.todo, c.head, c.incoming) /\ c.incoming \in line
              /\ c.revision \in line /\ Number(states, c.revision) = ask[r].number
        /\ c.status \in {"found", "absent"} =>
              IF c.revision = Zero
              THEN \A w \in Line(states, c.began) : Number(states, w) # ask[r].number
              ELSE c.revision \in line /\ Number(states, c.revision) = ask[r].number

PushOnLine(r) == PushHolds(r, call[r])
FindOnLine(r) == FindHolds(r, call[r])

\* Unless a push was forced.
Reaches(r) ==
    ~Forced(ask[r].branch) =>
        /\ ask[r].kind = "push" => PushOnLine(r)
        /\ ask[r].kind = "find" => FindOnLine(r)

\* The keys of a branch say what its line does.
Keyed(b) ==
    ~Forced(b) => \A k \in Boundary :
        /\ steps[b][k] # Zero => TopAt(b, k, steps[b][k])
        /\ lists[b][k] # {} => ListAt(b, k, lists[b][k])

\* What is stored is numbered as it should be.
Stored == SoundHistory(states)

Keys ==
    /\ DOMAIN steps = Branch /\ \A b \in Branch : DOMAIN steps[b] = Boundary
    /\ DOMAIN lists = Branch /\ \A b \in Branch : DOMAIN lists[b] = Boundary

\* The inductive invariant.
LineInv ==
    /\ Shaped /\ Kept /\ Stored /\ Keys
    /\ \A r \in Request : ask[r].kind = "find" => Wanted(r) \in Boundary
    /\ \A b \in Branch : Keyed(b)
    /\ \A r \in Request : Fits(r) /\ Reaches(r)

-----------------------------------------------------------------------------
(***************************************************************************)
(* Moving heads to revisions that were added                               *)
(***************************************************************************)

\* The head of the branch stays, is the first, or is put on top of the old.
Advances(b) ==
    \/ latest'[b] = latest[b]
    \/ latest'[b] # Zero /\ (latest[b] = Zero \/ State(states', latest'[b]).self = latest[b])

\* A head that advances only adds to the line, above what was there.
LEMMA LineAdvances ==
    ASSUME SoundHistory(states), SoundHistory(states'), Extends(states, states'),
           NEW b, Held(states, latest[b]), Held(states', latest'[b]), Advances(b)
    PROVE  /\ Branching(b) \subseteq Line(states', latest'[b])
           /\ Number(states, latest[b]) \in Nat /\ Number(states', latest'[b]) \in Nat
           /\ Number(states, latest[b]) <= Number(states', latest'[b])
           /\ \A w \in Branching(b) : Number(states', w) = Number(states, w)
           /\ \A w \in Line(states', latest'[b]) \ Branching(b) :
                 Number(states, latest[b]) < Number(states', w)
<1> DEFINE h == latest[b]
           g == latest'[b]
           line == Line(states, h)
           new == Line(states', g)
<1>1. IsHistory(states) /\ IsHistory(states')
  BY DEF SoundHistory
<1>2. /\ Number(states, h) \in Nat /\ Number(states', g) \in Nat
      /\ Number(states', h) = Number(states, h)
      /\ Line(states', h) = line
  <2>1. Number(states, h) \in Nat /\ Number(states', g) \in Nat
    BY <1>1, Reads
  <2>2. Number(states', h) = Number(states, h)
    BY DEF Extends, Number
  <2>3. Line(states', h) = line
    BY <1>1, LineSame
  <2> QED BY <2>1, <2>2, <2>3
<1>3. ASSUME NEW w \in line PROVE Number(states', w) = Number(states, w)
  <2>1. Held(states, w)
    BY <1>1, OnLineTypes
  <2> QED BY <2>1 DEF Extends, Number
<1>4. CASE g = h
  BY <1>2, <1>3, <1>4, SMT DEF Branching
<1>5. CASE g # Zero /\ State(states', g).self = h
  <2>1. g \in DOMAIN states' /\ State(states', g) = states'[g]
    BY <1>5 DEF Held, State
  <2>2. new = {g} \cup line
    BY <1>1, <1>2, <1>5, <2>1, LineUnfolds, SMT
  <2>3. Number(states', h) < Number(states', g)
    BY <1>5, <2>1 DEF SoundHistory
  <2> HIDE DEF h, g, line, new
  <2>4. /\ line \subseteq new /\ Number(states, h) <= Number(states', g)
        /\ \A w \in new \ line : Number(states, h) < Number(states', w)
    BY <1>2, <2>2, <2>3, SMT
  <2> QED BY <1>2, <1>3, <2>4 DEF h, g, line, new, Branching
<1>6. CASE g # Zero /\ h = Zero
  <2>1. line = {} /\ Number(states, h) = 0
    BY <1>1, <1>6, LineUnfolds, Reads
  <2>2. ASSUME NEW w \in new PROVE 0 < Number(states', w)
    <3>1. w # Zero /\ w \in DOMAIN states' /\ Held(states', w)
      BY <1>1, <2>2, OnLineTypes
    <3>2. Held(states', states'[w].self) /\ Number(states', w) \in Nat
      <4>1. Held(states', State(states', w).self) /\ Number(states', w) \in Nat
        BY <1>1, <3>1, Reads
      <4>2. State(states', w) = states'[w]
        BY <3>1 DEF State
      <4> QED BY <4>1, <4>2
    <3>3. Number(states', states'[w].self) \in Nat
      BY <1>1, <3>2, Reads
    <3>4. Number(states', states'[w].self) < Number(states', w)
      BY <3>1 DEF SoundHistory
    <3> QED BY <3>2, <3>3, <3>4, SMT
  <2> QED BY <1>2, <2>1, <2>2, SMT DEF Branching
<1> QED BY <1>4, <1>5, <1>6 DEF Advances

\* The keys that say what the line does still do when the head advances.
LEMMA KeysAdvance ==
    ASSUME SoundHistory(states), SoundHistory(states'), Extends(states, states'),
           NEW b, Held(states, latest[b]), Held(states', latest'[b]), Advances(b),
           NEW k \in Nat
    PROVE  /\ \A v : TopAt(b, k, v) => TopAt(b, k, v)'
           /\ \A segment : ListAt(b, k, segment) => ListAt(b, k, segment)'
<1> DEFINE line == Branching(b)
           new == Line(states', latest'[b])
           top == Number(states, latest[b])
<1>1. /\ line \subseteq new
      /\ top \in Nat /\ Number(states', latest'[b]) \in Nat
      /\ top <= Number(states', latest'[b])
      /\ \A w \in line : Number(states', w) = Number(states, w)
      /\ \A w \in new \ line : top < Number(states', w)
  BY LineAdvances
<1>2. \A w \in new : Number(states', w) \in Nat
  BY OnLineTypes DEF SoundHistory
<1>3. ASSUME NEW v, TopAt(b, k, v) PROVE TopAt(b, k, v)'
  <2>1. /\ v \in line /\ Number(states, v) <= k /\ k < top
        /\ \A w \in line : Number(states, w) <= k => Number(states, w) <= Number(states, v)
    BY <1>3 DEF TopAt
  <2> HIDE DEF line, new, top
  <2>2. v \in new /\ Number(states', v) <= k /\ k < Number(states', latest'[b])
    BY <1>1, <2>1, SMT
  <2>3. ASSUME NEW w \in new, Number(states', w) <= k
        PROVE  Number(states', w) <= Number(states', v)
    <3>1. w \in line
      BY <1>1, <1>2, <2>1, <2>3, SMT
    <3> QED BY <1>1, <2>1, <2>3, <3>1
  <2> QED BY <2>2, <2>3 DEF TopAt, Branching, new
<1>4. ASSUME NEW segment, ListAt(b, k, segment) PROVE ListAt(b, k, segment)'
  <2>1. k < top /\ segment = Segment(states, line, k)
    BY <1>4 DEF ListAt
  <2> HIDE DEF line, new, top
  <2>2. k < Number(states', latest'[b])
    BY <1>1, <2>1, SMT
  <2>3. ASSUME NEW w \in new, BoundaryOf(Number(states', w)) = k PROVE w \in line
    <3>1. Number(states', w) <= k
      BY <1>2, <2>3, BoundaryBounds
    <3> QED BY <1>1, <1>2, <2>1, <3>1, SMT
  <2>4. Segment(states', new, k) = Segment(states, line, k)
    BY <1>1, <2>3 DEF Segment
  <2> QED BY <2>1, <2>2, <2>4 DEF ListAt, Branching, new
<1> QED BY <1>3, <1>4

-----------------------------------------------------------------------------
(***************************************************************************)
(* What a step of one request may do                                       *)
(***************************************************************************)

\* A request that took a step was called.
Begun(r) == call'[r].pc # "idle"

\* Heads of branches that no forced push was sent to only advance.
HeadsAdvance ==
    /\ Stored'
    /\ \A b \in Branch : ~Forced(b)' => Advances(b)

\* Keys that change say what the line does.
KeysRight ==
    /\ Keys'
    /\ \A b \in Branch : ~Forced(b)' => \A k \in Boundary :
          /\ steps'[b][k] # steps[b][k] =>
                \E v : steps'[b][k] = v /\ (v = Zero \/ TopAt(b, k, v)')
          /\ lists'[b][k] # lists[b][k] =>
                \E segment : lists'[b][k] = segment /\ ListAt(b, k, segment)'

\* What a step of r does.
Moves(r) == Begun(r) /\ HeadsAdvance /\ KeysRight /\ Fits(r)' /\ Reaches(r)'

\* A forced push, once called, was called.
LEMMA ForcedStays ==
    ASSUME Shaped, NEW r \in Request, Calls(r), Begun(r), NEW b, Forced(b)
    PROVE  Forced(b)'
BY DEF Forced, Calls, Begun

\* Boundaries are numbers above zero.
LEMMA Boundaries == Boundary \subseteq Nat /\ \A k \in Boundary : k > 0
BY BranchAssumption, SMT DEF Boundary, Multiples

\* Every step keeps what is stored, and what the calls refer to.
LEMMA StepKeeps ==
    ASSUME LineInv, NEW r \in Request, Handle(r) \/ End(r)
    PROVE  Calls(r) /\ Keeps(r) /\ Kept' /\ Shaped'
<1>1. Calls(r) /\ Shaped /\ Kept
  BY StepCalls DEF LineInv
<1>2. Keeps(r)
  BY <1>1, PushKeeps, OthersKeep DEF Handle
<1> QED BY <1>1, <1>2, KeepsKept DEF Shaped, Calls

\* What every step of a request can rely on.
LEMMA Parts ==
    ASSUME LineInv, NEW r \in Request
    PROVE  /\ Shaped /\ Kept /\ Stored /\ Keys /\ SoundHistory(states) /\ IsHistory(states)
           /\ IsStore(states) /\ ask[r].branch \in Branch
           /\ \A b \in Branch : Held(states, latest[b])
           /\ Fits(r) /\ Reaches(r) /\ Based(r)
           /\ DOMAIN call[r] = CallFields
           /\ ask[r].kind = "find" => Wanted(r) \in Boundary
<1>1. Shaped /\ Kept /\ Stored /\ Keys /\ Fits(r) /\ Reaches(r)
  BY DEF LineInv
<1>2. ask[r].branch \in Branch /\ DOMAIN call[r] = CallFields
  BY <1>1, Asks DEF Shaped
<1> QED BY <1>1, <1>2 DEF LineInv, Kept, Stored, SoundHistory, IsHistory

\* What another request holds is still there.
LEMMA OtherFits ==
    ASSUME LineInv, NEW r \in Request, Calls(r), Extends(states, states'),
           NEW s \in Request, s # r
    PROVE  Fits(s)'
<1> DEFINE c == call[s]
<1>1. call'[s] = c /\ ask'[s] = ask[s]
  BY DEF Calls
<1>2. Fits(s) /\ IsHistory(states) /\ Based(s)
  BY Parts
<1>3. \A v : Held(states, v) => /\ Held(states', v) /\ State(states', v) = State(states, v)
                                /\ Number(states', v) = Number(states, v)
                                /\ (v # Zero => states'[v] = states[v] /\ v \in DOMAIN states')
  BY DEF Extends, Held, State, Number
<1>4. ASSUME ask[s].kind = "push", c.pc \in {"seal", "cache"}
      PROVE  Crossing(c.todo, c.head, c.revision)'
  <2>1. Crossing(c.todo, c.head, c.revision)
    BY <1>2, <1>4 DEF Fits, Fitting
  <2>2. /\ c.revision \in DOMAIN states /\ c.head = states[c.revision].self
        /\ c.todo # {}
        /\ c.todo \subseteq SealedBoundaries(Number(states, c.head), Number(states, c.revision))
    BY <2>1 DEF Crossing
  <2>3. Held(states, c.revision) /\ c.revision # Zero
    BY <1>2, <2>2, Addresses, SMT DEF Held, IsHistory, Zero
  <2>4. Held(states, c.head)
    BY <1>2, <2>2, Parents
  <2>5. /\ c.revision \in DOMAIN states' /\ states'[c.revision] = states[c.revision]
        /\ Number(states', c.revision) = Number(states, c.revision)
        /\ Number(states', c.head) = Number(states, c.head)
    BY <1>3, <2>1, <2>3, <2>4
  <2> QED BY <1>1, <2>2, <2>5 DEF Crossing
<1>5. c.pc # "done" => c.status = None
  BY <1>2 DEF Fits, Fitting
<1>6. ASSUME ask[s].kind = "push"
      PROVE  /\ c.head # Unread => Held(states', c.head)
             /\ c.pc \in Working \ {"load"} => c.head # Unread
             /\ c.pc \in Working => c.incoming # Zero
  <2>1. /\ c.head # Unread => Held(states, c.head)
        /\ c.pc \in Working \ {"load"} => c.head # Unread
        /\ c.pc \in Working => c.incoming # Zero
    BY <1>2, <1>6 DEF Fits, Fitting
  <2> HIDE DEF c
  <2> QED BY <1>3, <2>1
<1> QED BY <1>1, <1>4, <1>5, <1>6 DEF Fits, Fitting

\* What another request holds is still on the line.
LEMMA OtherReaches ==
    ASSUME LineInv, NEW r \in Request, Calls(r), Extends(states, states'), Begun(r),
           HeadsAdvance, Kept', NEW s \in Request, s # r
    PROVE  Reaches(s)'
<1>0. PICK c, b : c = call[s] /\ b = ask[s].branch
  OBVIOUS
<1> DEFINE line == Branching(b)
           new == Line(states', latest'[b])
<1>1. call'[s] = c /\ ask'[s] = ask[s] /\ ask'[s].branch = b
  BY <1>0 DEF Calls
<1>2. /\ Reaches(s) /\ SoundHistory(states) /\ IsHistory(states) /\ b \in Branch /\ Shaped
      /\ Held(states, latest[b])
      /\ ask[s].kind = "find" => Wanted(s) \in Boundary
  BY <1>0, Parts
<1> SUFFICES ASSUME ~Forced(b)'
             PROVE  /\ ask[s].kind = "push" => PushOnLine(s)'
                    /\ ask[s].kind = "find" => FindOnLine(s)'
  BY <1>1 DEF Reaches
<1>3. ~Forced(b) /\ Advances(b)
  BY <1>2, ForcedStays DEF HeadsAdvance
<1>4. /\ SoundHistory(states') /\ IsHistory(states')
      /\ Held(states', latest'[b])
  BY <1>2 DEF HeadsAdvance, Stored, SoundHistory, Kept
<1>5. line \subseteq new /\ \A w \in line : Number(states', w) = Number(states, w)
  BY <1>2, <1>3, <1>4, LineAdvances
<1>6. \A k \in Nat : \A v : TopAt(b, k, v) => TopAt(b, k, v)'
  BY <1>2, <1>3, <1>4, KeysAdvance
<1>7. Branching(b)' = new
  BY DEF Branching
<1>8. ASSUME ask[s].kind = "push" PROVE PushOnLine(s)'
  <2>1. PushOnLine(s)
    BY <1>0, <1>2, <1>3, <1>8 DEF Reaches
  <2>2. /\ c.head # Unread => c.head = Zero \/ c.head \in line
        /\ c.pc \in {"seal", "cache"} \/ c.status = "success" => c.revision \in line
    BY <1>0, <2>1 DEF PushOnLine, PushHolds
  <2> HIDE DEF line, new
  <2>3. /\ c.head # Unread => c.head = Zero \/ c.head \in new
        /\ c.pc \in {"seal", "cache"} \/ c.status = "success" => c.revision \in new
    BY <1>5, <2>2
  <2> QED BY <1>1, <1>7, <2>3 DEF PushOnLine, PushHolds, Branching
<1>9. ASSUME ask[s].kind = "find" PROVE FindOnLine(s)'
  <2>1. FindOnLine(s)
    BY <1>0, <1>2, <1>3, <1>9 DEF Reaches
  <2>2. PICK n, k : n = ask[s].number /\ k = Wanted(s)
    OBVIOUS
  <2>3. ask'[s].number = n /\ Wanted(s)' = k /\ k + Step \in Nat
    <3>1. ask'[s].number = n /\ Wanted(s)' = k
      BY <1>1, <2>2 DEF Wanted, BoundaryOf
    <3>2. k \in Nat /\ Step \in Nat
      BY <1>2, <1>9, <2>2, Boundaries, StepAssumption
    <3> QED BY <3>1, <3>2, SMT
  <2>4. /\ c.began = Zero \/ c.began \in line
        /\ c.pc = "fill" => TopAt(b, k + Step, c.head)
        /\ c.pc = "reseal" => /\ Crossing(c.todo, c.head, c.incoming) /\ c.incoming \in line
                              /\ c.revision \in line /\ Number(states, c.revision) = n
        /\ c.status \in {"found", "absent"} =>
              IF c.revision = Zero
              THEN \A w \in Line(states, c.began) : Number(states, w) # n
              ELSE c.revision \in line /\ Number(states, c.revision) = n
    BY <1>0, <2>1, <2>2 DEF FindOnLine, FindHolds
  <2>5. Held(states, c.began)
    <3>1. CASE c.began = Zero
      BY <3>1 DEF Held
    <3>2. CASE c.began \in line
      BY <1>2, <3>2, OnLineTypes DEF Branching
    <3> QED BY <2>4, <3>1, <3>2
  <2>6. /\ Line(states', c.began) = Line(states, c.began)
        /\ \A w \in Line(states, c.began) : Number(states', w) = Number(states, w)
    <3>1. Line(states', c.began) = Line(states, c.began)
      BY <1>2, <1>4, <2>5, LineSame
    <3>2. ASSUME NEW w \in Line(states, c.began) PROVE Number(states', w) = Number(states, w)
      <4>1. Held(states, w)
        BY <1>2, <2>5, OnLineTypes
      <4> QED BY <4>1 DEF Extends, Number
    <3> QED BY <3>1, <3>2
  <2>7. c.pc = "fill" => TopAt(b, k + Step, c.head)'
    BY <1>6, <2>3, <2>4
  <2>8. ASSUME c.pc = "reseal" PROVE Crossing(c.todo, c.head, c.incoming)'
    <3>1. Crossing(c.todo, c.head, c.incoming) /\ c.incoming \in line
      BY <2>4, <2>8
    <3>2. Held(states, c.incoming) /\ c.incoming # Zero
      BY <1>2, <3>1, OnLineTypes DEF Branching
    <3>3. c.head = states[c.incoming].self /\ c.incoming \in DOMAIN states
      BY <3>1 DEF Crossing
    <3>4. Held(states, c.head)
      BY <1>2, <3>3, Parents
    <3>5. /\ states'[c.incoming] = states[c.incoming] /\ c.incoming \in DOMAIN states'
          /\ Number(states', c.incoming) = Number(states, c.incoming)
          /\ Number(states', c.head) = Number(states, c.head)
      <4>1. /\ State(states', c.incoming) = State(states, c.incoming)
            /\ State(states', c.head) = State(states, c.head) /\ Held(states', c.incoming)
        BY <3>2, <3>4 DEF Extends
      <4> QED BY <3>2, <4>1 DEF State, Number, Held
    <3> QED BY <1>0, <1>1, <3>1, <3>5 DEF Crossing
  <2> DEFINE quiet == \A w \in Line(states, c.began) : Number(states, w) # n
             quiet2 == \A w \in Line(states', c.began) : Number(states', w) # n
  <2>9. quiet => quiet2
    BY <2>6
  <2> HIDE DEF line, new
  <2>10. /\ c.began = Zero \/ c.began \in new
         /\ c.pc = "reseal" => /\ c.incoming \in new
                               /\ c.revision \in new /\ Number(states', c.revision) = n
         /\ c.status \in {"found", "absent"} =>
               IF c.revision = Zero THEN quiet2
               ELSE c.revision \in new /\ Number(states', c.revision) = n
    <3> HIDE DEF quiet2
    <3> QED BY <1>5, <2>4, <2>9
  <2> QED BY <1>1, <1>7, <2>3, <2>7, <2>8, <2>10 DEF FindOnLine, FindHolds
<1> QED BY <1>8, <1>9

\* A step that moves as it may keeps the invariant.
LEMMA MovesKeep ==
    ASSUME LineInv, NEW r \in Request, Handle(r) \/ End(r), Moves(r)
    PROVE  LineInv'
<1>1. Calls(r) /\ Extends(states, states') /\ Kept' /\ Shaped' /\ ask' = ask
  BY StepKeeps DEF Keeps, Calls
<1>2. \A s \in Request : Fits(s)' /\ Reaches(s)'
  BY <1>1, OtherFits, OtherReaches DEF Moves
<1>3. Stored' /\ Keys'
  BY DEF Moves, HeadsAdvance, KeysRight
<1>4. \A s \in Request : ask'[s].kind = "find" => Wanted(s)' \in Boundary
  BY <1>1 DEF LineInv, Wanted
<1>5. ASSUME NEW b \in Branch PROVE Keyed(b)'
  <2> SUFFICES ASSUME ~Forced(b)', NEW k \in Boundary
               PROVE  /\ steps'[b][k] # Zero => TopAt(b, k, steps[b][k])'
                      /\ lists'[b][k] # {} => ListAt(b, k, lists[b][k])'
    BY DEF Keyed
  <2>1. ~Forced(b) /\ Advances(b)
    BY <1>1, ForcedStays DEF Moves, HeadsAdvance, LineInv
  <2>2. /\ SoundHistory(states) /\ SoundHistory(states')
        /\ Held(states, latest[b]) /\ Held(states', latest'[b])
    BY <1>1, <1>3 DEF LineInv, Kept, Stored
  <2>3. k \in Nat
    BY Boundaries
  <2>4. /\ \A v : TopAt(b, k, v) => TopAt(b, k, v)'
        /\ \A segment : ListAt(b, k, segment) => ListAt(b, k, segment)'
    BY <1>1, <2>1, <2>2, <2>3, KeysAdvance
  <2>5. PICK v, w, x, y : v = steps[b][k] /\ w = steps'[b][k] /\ x = lists[b][k] /\ y = lists'[b][k]
    OBVIOUS
  <2>6. (v # Zero => TopAt(b, k, v)) /\ (x # {} => ListAt(b, k, x))
    BY <2>1, <2>5 DEF LineInv, Keyed
  <2>7. (w # v => w = Zero \/ TopAt(b, k, w)') /\ (y # x => ListAt(b, k, y)')
    BY <2>5 DEF Moves, KeysRight
  <2>8. (w # Zero => TopAt(b, k, w)') /\ (y # {} => ListAt(b, k, y)')
    BY <2>4, <2>6, <2>7
  <2> QED BY <2>5, <2>8 DEF TopAt, ListAt
<1> QED BY <1>1, <1>2, <1>3, <1>4, <1>5 DEF LineInv

-----------------------------------------------------------------------------
(***************************************************************************)
(* Steps that leave heads and keys alone, creations and ends               *)
(***************************************************************************)

\* The rest of a call that was answered.
LEMMA DoneAll ==
    ASSUME NEW r, NEW status, NEW revision
    PROVE  LET d == Done(r, status, revision)
           IN  /\ DOMAIN d = CallFields
               /\ d.pc = "done" /\ d.began = call[r].began /\ d.incoming = Zero
               /\ d.head = Unread /\ d.status = status /\ d.revision = revision
BY DEF Done, NoCall, CallFields

\* The rest of a call that goes on.
LEMMA ToAll ==
    ASSUME Shaped, NEW r \in Request, NEW pc
    PROVE  LET t == To(r, pc)
           IN  /\ DOMAIN t = CallFields
               /\ t.pc = pc /\ t.began = call[r].began /\ t.incoming = call[r].incoming
               /\ t.head = call[r].head /\ t.todo = call[r].todo /\ t.status = call[r].status
               /\ t.revision = call[r].revision /\ t.meta = call[r].meta
BY DEF Shaped, To, CallFields

\* Where heads and keys stay, only the call is of interest.
LEMMA QuietMoves ==
    ASSUME LineInv, NEW r \in Request, UNCHANGED <<states, latest, steps, lists>>,
           Begun(r), Fits(r)', Reaches(r)'
    PROVE  Moves(r)
<1>1. Stored' /\ Keys'
  BY DEF LineInv, Stored, Keys
<1>2. HeadsAdvance
  BY <1>1 DEF HeadsAdvance, Advances
<1>3. KeysRight
  BY <1>1 DEF KeysRight
<1> QED BY <1>2, <1>3 DEF Moves

\* A request that is answered otherwise than with a revision.
LEMMA DoneMoves ==
    ASSUME LineInv, NEW r \in Request, Calls(r), UNCHANGED <<states, latest, steps, lists>>,
           NEW status, NEW revision, status \notin {"success", "found", "absent"},
           call'[r] = Done(r, status, revision)
    PROVE  Moves(r)
<1> DEFINE d == Done(r, status, revision)
<1>1. /\ d.pc = "done" /\ d.began = call[r].began /\ d.head = Unread /\ d.status = status
  BY DoneAll, SMT
<1> HIDE DEF d
<1>2. call'[r] = d /\ ask' = ask
  BY DEF d, Calls
<1>3. Begun(r)
  BY <1>1, <1>2 DEF Begun
<1>4. Fits(r)'
  BY <1>1, <1>2 DEF Fits, Fitting, Working
<1>5. Reaches(r)'
  <2>1. Forced(ask[r].branch) => Forced(ask[r].branch)'
    BY <1>2, <1>3, ForcedStays, SMT DEF LineInv, Forced, Calls, Begun
  <2>2. Reaches(r)
    BY DEF LineInv
  <2>3. ASSUME ask[r].kind = "find", ~Forced(ask[r].branch) PROVE FindOnLine(r)'
    <3>1. call[r].began = Zero \/ call[r].began \in Branching(ask[r].branch)
      BY <2>2, <2>3 DEF Reaches, FindOnLine, FindHolds
    <3> QED BY <1>1, <1>2, <3>1 DEF FindOnLine, FindHolds, Branching
  <2>4. PushOnLine(r)'
    BY <1>1, <1>2 DEF PushOnLine, PushHolds
  <2> QED BY <1>2, <2>1, <2>3, <2>4 DEF Reaches
<1> QED BY <1>3, <1>4, <1>5, QuietMoves

\* A request that ends.
LEMMA EndMoves ==
    ASSUME LineInv, NEW r \in Request, End(r)
    PROVE  Moves(r)
<1>1. Calls(r) /\ Shaped
  BY StepKeeps DEF LineInv
<1>2. call'[r] = Done(r, "error", Zero) /\ UNCHANGED <<states, latest, steps, lists>>
  BY <1>1 DEF End, Shaped, storeVars
<1> QED BY <1>1, <1>2, DoneMoves

\* A creation, deletion, protection or update on its way.
Admin == {"id", "taken", "describe", "restore", "old", "rename", "map", "point", "own",
          "unmap", "write", "swap"}

\* The call of a request that creates or administers branches.
LEMMA AdminCall ==
    ASSUME Shaped, NEW r \in Request, Create(r) \/ Administer(r)
    PROVE  /\ ask[r].kind \notin {"push", "find"}
           /\ call[r].pc # "done" /\ call'[r].pc # "idle"
           /\ call'[r].pc = "done" \/ call'[r].status = call[r].status
           /\ CreatePoint(r) \/ call'[r].revision \in {call[r].revision, Zero}
<1>0. ask[r].kind \notin {"push", "find"} /\ call[r].pc # "done"
  <2>1. CASE Create(r)
    BY <2>1 DEF Create, CreateReadName, CreateReadTaken, CreateReadId,
       CreateReadOld, CreateRename, CreateDescribe, CreateMap, CreatePoint, At
  <2>2. CASE Administer(r)
    BY <2>2 DEF Administer, DeleteRead, DeleteReadName, DeleteUnmap, ProtectRead,
       ProtectWrite, AnnotateRead, AnnotateSwap, At
  <2> QED BY <2>1, <2>2
<1>1. PICK c : /\ Goes(r, c) \/ Misreads(r, c)
               /\ \/ \E status, revision : /\ c = Done(r, status, revision)
                                           /\ CreatePoint(r) \/ revision = Zero
                  \/ \E pc \in Admin : c = To(r, pc)
                  \/ \E pc \in Admin : \E m : c = [To(r, pc) EXCEPT !.meta = m]
                  \/ \E pc \in Admin : \E other : c = [To(r, pc) EXCEPT !.other = other]
  <2> USE DEF Admin
  <2>1. CASE CreateReadName(r) \/ CreateReadTaken(r)
    BY <2>1, SMT DEF CreateReadName, CreateReadTaken
  <2>2. CASE CreateReadId(r)
    BY <2>2 DEF CreateReadId
  <2>3. CASE CreateReadOld(r) \/ CreateRename(r) \/ CreateDescribe(r) \/ CreateMap(r)
             \/ CreatePoint(r)
    BY <2>3, SMT DEF CreateReadOld, CreateRename, CreateDescribe, CreateMap, CreatePoint
  <2>4. CASE DeleteRead(r) \/ DeleteReadName(r) \/ DeleteUnmap(r)
    BY <2>4, SMT DEF DeleteRead, DeleteReadName, DeleteUnmap
  <2>5. CASE ProtectRead(r) \/ ProtectWrite(r)
    BY <2>5, SMT DEF ProtectRead, ProtectWrite
  <2>6. CASE AnnotateRead(r) \/ AnnotateSwap(r)
    BY <2>6, SMT DEF AnnotateRead, AnnotateSwap
  <2> QED BY <2>1, <2>2, <2>3, <2>4, <2>5, <2>6 DEF Create, Administer
<1>2. CASE \E status, revision : /\ c = Done(r, status, revision)
                                 /\ CreatePoint(r) \/ revision = Zero
  <2>1. PICK status, revision : /\ c = Done(r, status, revision)
                                /\ CreatePoint(r) \/ revision = Zero
    BY <1>2
  <2>2. DOMAIN c = CallFields /\ c.pc = "done" /\ c.revision = revision
    BY <2>1 DEF Done, NoCall, CallFields
  <2>3. call'[r] = c
    BY <1>1, <2>2, SetCall
  <2> QED BY <1>0, <2>1, <2>2, <2>3
<1>3. ASSUME NEW pc \in Admin, \/ c = To(r, pc) \/ \E m : c = [To(r, pc) EXCEPT !.meta = m]
                               \/ \E other : c = [To(r, pc) EXCEPT !.other = other]
      PROVE  /\ DOMAIN c = CallFields /\ c.pc = pc /\ c.status = call[r].status
             /\ c.revision = call[r].revision
  <2> DEFINE t == To(r, pc)
  <2>1. /\ DOMAIN t = CallFields /\ t.pc = pc /\ t.status = call[r].status
        /\ t.revision = call[r].revision
    BY ToAll
  <2> HIDE DEF t
  <2>2. \/ c = t \/ \E m : c = [t EXCEPT !.meta = m] \/ \E other : c = [t EXCEPT !.other = other]
    BY <1>3 DEF t
  <2> QED BY <2>1, <2>2 DEF CallFields
<1>4. CASE \E pc \in Admin : \/ c = To(r, pc) \/ \E m : c = [To(r, pc) EXCEPT !.meta = m]
                              \/ \E other : c = [To(r, pc) EXCEPT !.other = other]
  <2>1. PICK pc \in Admin : \/ c = To(r, pc) \/ \E m : c = [To(r, pc) EXCEPT !.meta = m]
                            \/ \E other : c = [To(r, pc) EXCEPT !.other = other]
    BY <1>4
  <2>2. /\ DOMAIN c = CallFields /\ c.pc = pc /\ c.status = call[r].status
        /\ c.revision = call[r].revision
    BY <1>3, <2>1
  <2>3. call'[r] = c
    BY <1>1, <2>2, SetCall
  <2> QED BY <1>0, <2>2, <2>3 DEF Admin
<1> QED BY <1>1, <1>2, <1>4

\* A creation moves a head only from nowhere.
LEMMA AdminMoves ==
    ASSUME LineInv, NEW r \in Request, Create(r) \/ Administer(r)
    PROVE  Moves(r)
<1>0. /\ Calls(r) /\ Shaped /\ Kept /\ Stored /\ Keys /\ Fits(r) /\ ask' = ask
      /\ ask[r].branch \in Branch /\ DOMAIN latest = Branch
  BY StepKeeps, Parts DEF Handle, Calls, Kept
<1>1. /\ ask[r].kind \notin {"push", "find"}
      /\ call[r].pc # "done" /\ call'[r].pc # "idle"
      /\ call'[r].pc = "done" \/ call'[r].status = call[r].status
  BY <1>0, AdminCall
<1>2. Begun(r) /\ Fits(r)' /\ Reaches(r)'
  BY <1>0, <1>1 DEF Begun, Fits, Fitting, Reaches
<1>3. states' = states /\ UNCHANGED <<steps, lists>>
  <2>1. CASE Create(r)
    BY <2>1 DEF Create, CreateReadName, CreateReadTaken, CreateReadId, CreateReadOld, CreateRename,
       CreateDescribe, CreateMap, CreatePoint, storeVars
  <2>2. CASE Administer(r)
    BY <2>2 DEF Administer, DeleteRead, DeleteReadName, DeleteUnmap, ProtectRead, ProtectWrite,
       AnnotateRead, AnnotateSwap, storeVars
  <2> QED
    BY <2>1, <2>2
<1>4. CASE latest' = latest
  BY <1>2, <1>3, <1>4, QuietMoves
<1>5. CASE latest' # latest
  <2>1. /\ ask[r].kind = "create" /\ latest[ask[r].branch] = Zero
        /\ latest' = [latest EXCEPT ![ask[r].branch] = ask[r].point]
    <3>1. Create(r)
      BY <1>5, Kinds
    <3>2. CreatePoint(r)
      BY <1>5, <3>1 DEF Create, CreateReadName, CreateReadTaken, CreateReadId,
         CreateReadOld, CreateRename, CreateDescribe, CreateMap, storeVars
    <3> QED BY <1>5, <3>2 DEF CreatePoint, At
  <2>2. \A b \in Branch : Advances(b)
    BY <1>0, <2>1 DEF Advances
  <2>3. Stored'
    BY <1>0, <1>3 DEF Stored
  <2>4. Keys' /\ KeysRight
    BY <1>0, <1>3 DEF Keys, KeysRight
  <2> QED BY <1>2, <2>2, <2>3, <2>4 DEF Moves, HeadsAdvance
<1> QED BY <1>4, <1>5

-----------------------------------------------------------------------------
(***************************************************************************)
(* Writing keys, and looking revisions up                                  *)
(***************************************************************************)

\* One key of one branch is set.
LEMMA KeySet ==
    ASSUME NEW f, DOMAIN f = Branch, \A a \in Branch : DOMAIN f[a] = Boundary,
           NEW b \in Branch, NEW k, NEW x, NEW g, g = [f EXCEPT ![b][k] = x]
    PROVE  /\ DOMAIN g = Branch /\ \A a \in Branch : DOMAIN g[a] = Boundary
           /\ \A a \in Branch, l \in Boundary :
                 g[a][l] = f[a][l] \/ (a = b /\ l = k /\ g[a][l] = x)
OBVIOUS

\* While heads stay, so does what is true of their keys.
LEMMA TopSame ==
    ASSUME UNCHANGED <<states, latest>>, NEW b, NEW k
    PROVE  /\ \A v : TopAt(b, k, v)' <=> TopAt(b, k, v)
           /\ \A segment : ListAt(b, k, segment)' <=> ListAt(b, k, segment)
BY DEF TopAt, ListAt, Branching

\* A step key may be set to the highest revision below it.
LEMMA StepsSet ==
    ASSUME LineInv, UNCHANGED <<states, latest, lists>>, NEW b \in Branch, NEW k, NEW v,
           steps' = [steps EXCEPT ![b][k] = v],
           ~Forced(b)' => v = Zero \/ TopAt(b, k, v)
    PROVE  KeysRight
<1>1. Keys
  BY DEF LineInv
<1>2. /\ DOMAIN steps' = Branch /\ \A a \in Branch : DOMAIN steps'[a] = Boundary
      /\ \A a \in Branch, l \in Boundary :
            steps'[a][l] = steps[a][l] \/ (a = b /\ l = k /\ steps'[a][l] = v)
  BY <1>1, KeySet DEF Keys
<1>3. Keys'
  BY <1>1, <1>2 DEF Keys
<1>4. ~Forced(b)' => v = Zero \/ TopAt(b, k, v)'
  BY TopSame
<1>5. ASSUME NEW a \in Branch, ~Forced(a)', NEW l \in Boundary, steps'[a][l] # steps[a][l]
      PROVE  \E u : steps'[a][l] = u /\ (u = Zero \/ TopAt(a, l, u)')
  <2>1. a = b /\ l = k /\ steps'[a][l] = v
    BY <1>2, <1>5
  <2>2. v = Zero \/ TopAt(a, l, v)'
    BY <1>4, <1>5, <2>1
  <2> QED BY <2>1, <2>2
<1> QED BY <1>3, <1>5 DEF KeysRight

\* A segment may be cached if it is that of the line.
LEMMA ListsSet ==
    ASSUME LineInv, UNCHANGED <<states, latest, steps>>, NEW b \in Branch, NEW k, NEW segment,
           \/ lists' = lists
           \/ /\ lists' = [lists EXCEPT ![b][k] = segment]
              /\ ~Forced(b)' => ListAt(b, k, segment)
    PROVE  KeysRight
<1>1. Keys
  BY DEF LineInv
<1>2. CASE lists' = lists
  BY <1>1, <1>2 DEF KeysRight, Keys
<1>3. CASE lists' = [lists EXCEPT ![b][k] = segment] /\ (~Forced(b)' => ListAt(b, k, segment))
  <2>1. /\ DOMAIN lists' = Branch /\ \A a \in Branch : DOMAIN lists'[a] = Boundary
        /\ \A a \in Branch, l \in Boundary :
              lists'[a][l] = lists[a][l] \/ (a = b /\ l = k /\ lists'[a][l] = segment)
    BY <1>1, <1>3, KeySet DEF Keys
  <2>2. Keys'
    BY <1>1, <2>1 DEF Keys
  <2>3. ~Forced(b)' => ListAt(b, k, segment)'
    BY <1>3, TopSame
  <2>4. ASSUME NEW a \in Branch, ~Forced(a)', NEW l \in Boundary, lists'[a][l] # lists[a][l]
        PROVE  \E u : lists'[a][l] = u /\ ListAt(a, l, u)'
    <3>1. a = b /\ l = k /\ lists'[a][l] = segment
      BY <2>1, <2>4
    <3>2. ListAt(a, l, segment)'
      BY <2>3, <2>4, <3>1
    <3> QED BY <3>1, <3>2
  <2> QED BY <2>2, <2>4 DEF KeysRight
<1> QED BY <1>2, <1>3

\* While heads stay they advance.
LEMMA HeadsStay ==
    ASSUME LineInv, UNCHANGED <<states, latest>>
    PROVE  HeadsAdvance
<1>1. Stored'
  BY DEF LineInv, Stored
<1> QED BY <1>1 DEF HeadsAdvance, Advances

\* What a lookup moves on with.
LEMMA FindMoves ==
    ASSUME LineInv, NEW r \in Request, Calls(r), ask[r].kind = "find",
           UNCHANGED <<states, latest>>, KeysRight, NEW d, call'[r] = d,
           d.pc # "idle", d.pc # "done" => d.status = None,
           ~Forced(ask[r].branch) => FindHolds(r, d)
    PROVE  Moves(r)
<1>1. ask' = ask /\ Begun(r) /\ Shaped
  BY DEF Calls, Begun, LineInv
<1>2. Fits(r)'
  BY <1>1 DEF Fits, Fitting
<1>3. PICK b : b = ask[r].branch
  OBVIOUS
<1>4. ~Forced(b)' => ~Forced(b)
  BY <1>1, ForcedStays
<1>5. FindHolds(r, d) => FindHolds(r, call[r])'
  BY <1>1 DEF FindHolds, TopAt, Branching, Crossing, Wanted
<1>6. Reaches(r)'
  BY <1>1, <1>3, <1>4, <1>5 DEF Reaches, FindOnLine
<1> QED BY <1>1, <1>2, <1>6, HeadsStay DEF Moves

\* What the head of a branch is on.
LEMMA HeadOnLine ==
    ASSUME LineInv, NEW b \in Branch
    PROVE  latest[b] = Zero \/ latest[b] \in Branching(b)
<1>1. IsHistory(states) /\ Held(states, latest[b])
  BY DEF LineInv, Kept, Stored, SoundHistory
<1>2. latest[b] # Zero => latest[b] \in DOMAIN states
  BY <1>1 DEF Held
<1> QED BY <1>1, <1>2, LineUnfolds, SMT DEF Branching

\* What a cached segment answers.
LEMMA ListHits ==
    ASSUME LineInv, NEW r \in Request, ask[r].kind = "find", ~Forced(ask[r].branch),
           NEW hit, hit = InSegment(states, lists[ask[r].branch][Wanted(r)], ask[r].number),
           hit # Zero
    PROVE  hit \in Branching(ask[r].branch) /\ Number(states, hit) = ask[r].number
<1> DEFINE b == ask[r].branch
           segment == lists[b][Wanted(r)]
<1>1. b \in Branch /\ Wanted(r) \in Boundary /\ IsHistory(states) /\ Held(states, latest[b])
  BY Parts
<1>2. segment # {} => ListAt(b, Wanted(r), segment)
  BY <1>1 DEF LineInv, Keyed
<1>3. segment \subseteq Branching(b)
  BY <1>2 DEF ListAt, Segment
<1>4. Zero \notin segment
  BY <1>1, <1>3, OnLineTypes DEF Branching
<1> HIDE DEF segment
<1>5. hit \in segment /\ Number(states, hit) = ask[r].number
  BY <1>4, Hits, SMT DEF segment
<1> QED BY <1>3, <1>5

\* What the step key answers.
LEMMA StepHits ==
    ASSUME LineInv, NEW r \in Request, ask[r].kind = "find", ~Forced(ask[r].branch),
           NEW hit, hit = FromAnchor(states, steps[ask[r].branch][Wanted(r)], ask[r].number),
           hit # Zero
    PROVE  hit \in Branching(ask[r].branch) /\ Number(states, hit) = ask[r].number
<1> DEFINE b == ask[r].branch
           anchor == steps[b][Wanted(r)]
           line == Walked(states, anchor)
<1>1. b \in Branch /\ Wanted(r) \in Boundary /\ IsHistory(states) /\ Held(states, latest[b])
  BY Parts
<1>2. anchor # Zero => anchor \in Branching(b)
  BY <1>1 DEF LineInv, Keyed, TopAt
<1>3. line \subseteq Branching(b)
  <2>1. CASE anchor = Zero
    BY <1>1, <2>1, LineUnfolds, WalkedLine
  <2>2. CASE anchor # Zero
    <3>1. Line(states, anchor) \subseteq Branching(b)
      BY <1>1, <1>2, <2>2, LineTail, SMT DEF Branching
    <3> QED BY <3>1, WalkedLine
  <2> QED BY <2>1, <2>2
<1>4. Zero \notin line
  BY <1>1, <1>3, OnLineTypes DEF Branching
<1>5. hit = InSegment(states, line, ask[r].number)
  BY DEF FromAnchor, OnLine
<1> HIDE DEF line
<1>6. hit \in line /\ Number(states, hit) = ask[r].number
  BY <1>4, <1>5, Hits, SMT
<1> QED BY <1>3, <1>6

\* What a lookup that is called, loads, anchors or tries the step key goes on with.
LEMMA LookupMoves ==
    ASSUME LineInv, NEW r \in Request,
           FindCached(r) \/ FindAnchor(r) \/ FindReload(r) \/ FindStep(r)
    PROVE  Moves(r)
<1> DEFINE b == ask[r].branch
           c == call[r]
           n == ask[r].number
<1>0. /\ Calls(r) /\ Shaped /\ Fits(r) /\ Reaches(r) /\ b \in Branch
      /\ IsHistory(states) /\ Held(states, latest[b]) /\ DOMAIN c = CallFields
  BY StepKeeps, Parts DEF Handle, Find
<1>1. ask[r].kind = "find" /\ c.pc # "done" /\ UNCHANGED <<states, latest, steps, lists>>
  BY DEF FindCached, FindAnchor, FindReload, FindStep, At, storeVars
<1>2. KeysRight
  BY <1>1 DEF KeysRight, Keys, LineInv
<1>3. c.status = None
  BY <1>0, <1>1 DEF Fits, Fitting
<1>4. ~Forced(b) => c.began = Zero \/ c.began \in Branching(b)
  BY <1>0, <1>1 DEF Reaches, FindOnLine, FindHolds
<1>5. None \notin {"found", "absent"}
  BY BranchAssumption
\* The call d either goes on or was answered with a hit on the line.
<1>6. ASSUME NEW d, call'[r] = d, d.pc # "idle",
             ~Forced(b) => d.began = Zero \/ d.began \in Branching(b),
             \/ d.pc \in {"anchor", "step", "walk"} /\ d.status = None
             \/ /\ d.pc = "fill" /\ d.status = None
                /\ ~Forced(b) => TopAt(b, Wanted(r) + Step, d.head)
             \/ /\ d.pc = "done" /\ d.status = "found" /\ d.revision # Zero
                /\ ~Forced(b) => d.revision \in Branching(b) /\ Number(states, d.revision) = n
      PROVE  Moves(r)
  <2>1. ~Forced(b) => FindHolds(r, d)
    BY <1>5, <1>6 DEF FindHolds
  <2>2. d.pc # "done" => d.status = None
    BY <1>6
  <2> QED BY <1>0, <1>1, <1>2, <1>6, <2>1, <2>2, FindMoves
<1>7. ASSUME NEW d, FromList(r, d) # d
      PROVE  LET hit == InSegment(states, lists[b][Wanted(r)], n)
             IN  FromList(r, d) = Done(r, "found", hit) /\ hit # Zero
  BY <1>7 DEF FromList
<1>8. CASE FindCached(r)
  <2> DEFINE hit == InSegment(states, lists[b][Wanted(r)], n)
             t == To(r, "anchor")
  <2>1. PICK f, d : /\ Goes(r, d) \/ Misreads(r, d)
                    /\ d = [f EXCEPT !.began = latest[b]] /\ (f = t \/ f = FromList(r, t))
    BY <1>8 DEF FindCached
  <2>2. DOMAIN t = CallFields /\ t.pc = "anchor" /\ t.status = None
    BY <1>0, <1>3, ToAll
  <2>3. \/ f = t
        \/ /\ DOMAIN f = CallFields /\ f.pc = "done" /\ f.status = "found" /\ f.revision = hit
           /\ hit # Zero
    <3> HIDE DEF t, hit
    <3>1. f # t => f = Done(r, "found", hit) /\ hit # Zero
      BY <1>7, <2>1 DEF hit
    <3> QED BY <3>1, DoneAll, SMT
  <2>4. hit # Zero /\ ~Forced(b) => hit \in Branching(b) /\ Number(states, hit) = n
    BY <1>1, ListHits
  <2> HIDE DEF t, hit
  <2>5. /\ DOMAIN d = CallFields /\ d.pc = f.pc /\ d.status = f.status /\ d.revision = f.revision
        /\ d.began = latest[b] /\ DOMAIN f = CallFields
    BY <2>1, <2>2, <2>3 DEF CallFields
  <2>6. call'[r] = d
    BY <1>0, <2>1, <2>5, SetCall
  <2>7. d.began = Zero \/ d.began \in Branching(b)
    BY <1>0, <2>5, HeadOnLine
  <2>8. CASE f = t
    BY <1>6, <2>2, <2>5, <2>6, <2>7, <2>8
  <2>9. CASE f # t
    BY <1>6, <2>3, <2>4, <2>5, <2>6, <2>7, <2>9
  <2> QED BY <2>8, <2>9
<1>9. CASE FindReload(r)
  <2> DEFINE hit == InSegment(states, lists[b][Wanted(r)], n)
             t == To(r, "step")
  <2>1. PICK f : (Goes(r, f) \/ Misreads(r, f)) /\ (f = t \/ f = FromList(r, t))
    BY <1>9 DEF FindReload
  <2>2. DOMAIN t = CallFields /\ t.pc = "step" /\ t.status = None /\ t.began = c.began
    BY <1>0, <1>3, ToAll
  <2>3. \/ f = t
        \/ /\ DOMAIN f = CallFields /\ f.pc = "done" /\ f.status = "found" /\ f.revision = hit
           /\ hit # Zero /\ f.began = c.began
    <3> HIDE DEF t, hit
    <3>1. f # t => f = Done(r, "found", hit) /\ hit # Zero
      BY <1>7, <2>1 DEF hit
    <3> QED BY <3>1, DoneAll, SMT
  <2>4. hit # Zero /\ ~Forced(b) => hit \in Branching(b) /\ Number(states, hit) = n
    BY <1>1, ListHits
  <2> HIDE DEF t, hit
  <2>5. call'[r] = f
    BY <1>0, <2>1, <2>2, <2>3, SetCall
  <2>6. CASE f = t
    BY <1>4, <1>6, <2>2, <2>5, <2>6
  <2>7. CASE f # t
    BY <1>4, <1>6, <2>3, <2>4, <2>5, <2>7
  <2> QED BY <2>6, <2>7
<1>10. CASE FindAnchor(r)
  <2> DEFINE next == Wanted(r) + Step
             anchor == IF next \in Boundary THEN steps[b][next] ELSE Zero
             s == To(r, "step")
             t == To(r, "fill")
             f == [t EXCEPT !.head = anchor]
  <2>1. Goes(r, s) \/ Misreads(r, s) \/ (anchor # Zero /\ Goes(r, f))
    BY <1>10 DEF FindAnchor
  <2>2. /\ DOMAIN s = CallFields /\ s.pc = "step" /\ s.status = None /\ s.began = c.began
        /\ DOMAIN t = CallFields /\ t.pc = "fill" /\ t.status = None /\ t.began = c.began
    BY <1>0, <1>3, ToAll
  <2>3. anchor # Zero /\ ~Forced(b) => TopAt(b, next, anchor)
    BY <1>0 DEF LineInv, Keyed
  <2> HIDE DEF s, t, anchor
  <2>4. /\ DOMAIN f = CallFields /\ f.pc = "fill" /\ f.status = None /\ f.began = c.began
        /\ f.head = anchor
    BY <2>2 DEF CallFields
  <2> HIDE DEF f
  <2>5. CASE Goes(r, s) \/ Misreads(r, s)
    <3>1. call'[r] = s
      BY <1>0, <2>2, <2>5, SetCall
    <3> QED BY <1>4, <1>6, <2>2, <3>1
  <2>6. CASE anchor # Zero /\ Goes(r, f)
    <3>1. call'[r] = f
      BY <1>0, <2>4, <2>6, SetCall
    <3> QED BY <1>4, <1>6, <2>3, <2>4, <2>6, <3>1
  <2> QED BY <2>1, <2>5, <2>6
<1>11. CASE FindStep(r)
  <2> DEFINE hit == FromAnchor(states, steps[b][Wanted(r)], n)
             t == To(r, "walk")
             f == Done(r, "found", hit)
  <2>1. Goes(r, t) \/ Misreads(r, t) \/ (hit # Zero /\ Goes(r, f))
    BY <1>11 DEF FindStep
  <2>2. /\ DOMAIN t = CallFields /\ t.pc = "walk" /\ t.status = None /\ t.began = c.began
    BY <1>0, <1>3, ToAll
  <2>3. hit # Zero /\ ~Forced(b) => hit \in Branching(b) /\ Number(states, hit) = n
    BY <1>1, StepHits
  <2> HIDE DEF hit
  <2>4. /\ DOMAIN f = CallFields /\ f.pc = "done" /\ f.status = "found" /\ f.revision = hit
        /\ f.began = c.began
    BY DoneAll, SMT
  <2> HIDE DEF t, f
  <2>5. CASE Goes(r, t) \/ Misreads(r, t)
    <3>1. call'[r] = t
      BY <1>0, <2>2, <2>5, SetCall
    <3> QED BY <1>4, <1>6, <2>2, <3>1
  <2>6. CASE hit # Zero /\ Goes(r, f)
    <3>1. call'[r] = f
      BY <1>0, <2>4, <2>6, SetCall
    <3> QED BY <1>4, <1>6, <2>3, <2>4, <2>6, <3>1
  <2> QED BY <2>1, <2>5, <2>6
<1> QED BY <1>8, <1>9, <1>10, <1>11

\* What is left of the boundaries to seal, after the one that is sealed.
LEMMA CrossingOn ==
    ASSUME SoundHistory(states), NEW todo, NEW older, NEW newer, Crossing(todo, older, newer)
    PROVE  /\ Lowest(todo) \in todo /\ Highest(todo) \in todo
           /\ \A k : todo # {k} => Crossing(todo \ {k}, older, newer)
           /\ \A k \in todo : k \in SealedBoundaries(Number(states, older), Number(states, newer))
<1>1. /\ newer \in DOMAIN states /\ older = states[newer].self /\ todo # {}
      /\ todo \in SUBSET SealedBoundaries(Number(states, older), Number(states, newer))
  BY DEF Crossing
<1>2. Number(states, newer) \in Nat /\ Held(states, older)
  BY <1>1, Parents DEF SoundHistory
<1>3. Number(states, older) \in Nat
  BY <1>2, Reads DEF SoundHistory
<1>4. Lowest(todo) \in todo /\ Highest(todo) \in todo
  BY <1>1, <1>2, <1>3, Extremes DEF Lowest, Highest
<1>5. ASSUME NEW k, todo # {k} PROVE Crossing(todo \ {k}, older, newer)
  BY <1>1, <1>5 DEF Crossing
<1> QED BY <1>1, <1>4, <1>5

\* The segment a lookup caches is that of the line.
LEMMA FillMoves ==
    ASSUME LineInv, NEW r \in Request, FindFill(r)
    PROVE  Moves(r)
<1>0. PICK b, c, k : b = ask[r].branch /\ c = call[r] /\ k = Wanted(r)
  OBVIOUS
<1>1. /\ Calls(r) /\ Shaped /\ Fits(r) /\ Reaches(r) /\ b \in Branch /\ Kept
      /\ SoundHistory(states) /\ Held(states, latest[b])
      /\ DOMAIN c = CallFields
  BY <1>0, StepKeeps, Parts DEF Handle, Find
<1> DEFINE segment == BackfilledSegment(states, c.head, k)
<1>2. /\ ask[r].kind = "find" /\ c.pc = "fill" /\ UNCHANGED <<states, latest, steps>>
      /\ \/ lists' = lists
         \/ segment # {} /\ lists' = [lists EXCEPT ![b][k] = segment]
  BY <1>0 DEF FindFill, At
<1>3. PICK pc, t, d : /\ Goes(r, d) \/ Misreads(r, d)
                      /\ pc \in {"reload", "step"} /\ t = To(r, pc)
                      /\ d = [t EXCEPT !.head = Unread]
  BY DEF FindFill
<1>4. c.status = None /\ k \in Boundary
  BY <1>0, <1>1, <1>2 DEF Fits, Fitting, LineInv
<1>5. /\ DOMAIN d = CallFields /\ d.pc \in {"reload", "step"} /\ d.status = None
      /\ d.began = c.began
  <2>1. DOMAIN t = CallFields /\ t.pc = pc /\ t.status = None /\ t.began = c.began
    BY <1>0, <1>1, <1>4, <1>3, ToAll
  <2> QED BY <1>3, <2>1 DEF CallFields
<1>6. call'[r] = d
  BY <1>1, <1>5, <1>3, SetCall
<1>7. ~Forced(b) => FindHolds(r, c)
  BY <1>0, <1>1, <1>2 DEF Reaches, FindOnLine
<1>8. ASSUME ~Forced(b), segment # {} PROVE ListAt(b, k, segment)
  <2>1. TopAt(b, k + Step, c.head) /\ k \in Nat /\ k > 0 /\ Step \in Nat
    BY <1>0, <1>2, <1>4, <1>7, <1>8, Boundaries, StepAssumption DEF FindHolds
  <2>2. segment \in {{}, Segment(states, Line(states, latest[b]), k)}
    BY <1>1, <2>1, FilledIs DEF TopAt, Branching
  <2>3. Number(states, latest[b]) \in Nat
    BY <1>1, Reads DEF SoundHistory
  <2>4. k < Number(states, latest[b])
    BY <2>1, <2>3, SMT DEF TopAt
  <2> QED BY <1>8, <2>2, <2>4 DEF ListAt, Branching
<1>9. KeysRight
  <2>1. ~Forced(b)' => ~Forced(b)
    BY <1>1, <1>5, <1>6, ForcedStays DEF Begun
  <2> HIDE DEF segment
  <2>2. \/ lists' = lists
        \/ /\ lists' = [lists EXCEPT ![b][k] = segment]
           /\ ~Forced(b)' => ListAt(b, k, segment)
    BY <1>2, <1>8, <2>1
  <2>3. PICK seg : seg = segment
    OBVIOUS
  <2> QED BY <1>1, <1>2, <2>2, <2>3, ListsSet
<1>10. ~Forced(b) => FindHolds(r, d)
  BY <1>0, <1>7, <1>5, BranchAssumption DEF FindHolds
<1>11. d.pc # "idle" /\ (d.pc # "done" => d.status = None)
  BY <1>5
<1> QED BY <1>0, <1>1, <1>2, <1>9, <1>10, <1>11, <1>6, FindMoves

\* A boundary a lookup crossed is sealed as the push that closed it did.
LEMMA ResealMoves ==
    ASSUME LineInv, NEW r \in Request, FindReseal(r)
    PROVE  Moves(r)
<1>0. PICK b, c, k : b = ask[r].branch /\ c = call[r] /\ k = Lowest(call[r].todo)
  OBVIOUS
<1>1. /\ Calls(r) /\ Shaped /\ Fits(r) /\ Reaches(r) /\ b \in Branch /\ Kept
      /\ SoundHistory(states) /\ Held(states, latest[b])
      /\ DOMAIN c = CallFields
  BY <1>0, StepKeeps, Parts DEF Handle, Find
<1>2. PICK v : v = SealedRevision(states, k, c.head, c.incoming)
  OBVIOUS
<1> DEFINE f == Done(r, "found", c.revision)
           g == [c EXCEPT !.todo = c.todo \ {k}]
<1>3. /\ ask[r].kind = "find" /\ c.pc = "reseal" /\ UNCHANGED <<states, latest, lists>>
      /\ steps' = [steps EXCEPT ![b][k] = v] \/ steps' = steps
  BY <1>0, <1>2 DEF FindReseal, At
<1>4. PICK d : /\ Goes(r, d) \/ Misreads(r, d)
               /\ d = f \/ (d = g /\ c.todo # {k})
  BY <1>0 DEF FindReseal
<1>5. c.status = None
  BY <1>0, <1>1, <1>3 DEF Fits, Fitting
<1>6. ~Forced(b) => FindHolds(r, c)
  BY <1>0, <1>1, <1>3 DEF Reaches, FindOnLine
<1>7. ASSUME ~Forced(b)
      PROVE  /\ Crossing(c.todo, c.head, c.incoming) /\ c.incoming \in Branching(b)
             /\ c.revision \in Branching(b) /\ Number(states, c.revision) = ask[r].number
             /\ c.began = Zero \/ c.began \in Branching(b)
  BY <1>0, <1>3, <1>6, <1>7 DEF FindHolds
<1>8. /\ DOMAIN f = CallFields /\ f.pc = "done" /\ f.status = "found"
      /\ f.revision = c.revision /\ f.began = c.began
  BY <1>0, DoneAll, SMT
<1>9. /\ DOMAIN g = CallFields /\ g.pc = "reseal" /\ g.status = None /\ g.began = c.began
      /\ g.head = c.head /\ g.incoming = c.incoming /\ g.revision = c.revision
      /\ g.todo = c.todo \ {k}
  BY <1>1, <1>3, <1>5 DEF CallFields
<1>10. d = f \/ (d = g /\ c.todo # {k})
  BY <1>4
<1> HIDE DEF f, g
<1>11. call'[r] = d
  BY <1>1, <1>4, <1>8, <1>9, SetCall, SMT
<1>12. d.pc # "idle" /\ (d.pc # "done" => d.status = None)
  BY <1>8, <1>9, <1>10
<1>13. ~Forced(b)' => ~Forced(b)
  BY <1>1, <1>11, <1>12, ForcedStays DEF Begun
<1>14. ASSUME ~Forced(b) PROVE v = Zero \/ TopAt(b, k, v)
  <2>1. Crossing(c.todo, c.head, c.incoming) /\ c.incoming \in Branching(b)
    BY <1>7, <1>14
  <2>2. c.incoming \in DOMAIN states /\ c.head = states[c.incoming].self
    BY <2>1 DEF Crossing
  <2>3. k \in SealedBoundaries(Number(states, c.head), Number(states, c.incoming))
    BY <1>0, <1>1, <2>1, CrossingOn
  <2>4. v = c.head
    BY <1>1, <1>2, <2>2, <2>3, SealsParent
  <2>5. /\ k < Number(states, latest[b]) /\ Number(states, c.head) <= k
        /\ c.head # Zero => c.head \in Line(states, latest[b])
        /\ \A w \in Line(states, latest[b]) :
              Number(states, w) <= k => Number(states, w) <= Number(states, c.head)
    BY <1>1, <2>1, <2>2, <2>3, ParentTops DEF Branching
  <2> QED BY <2>4, <2>5 DEF TopAt, Branching
<1>15. KeysRight
  <2>1. CASE steps' = steps
    BY <1>3, <2>1 DEF KeysRight, Keys, LineInv
  <2>2. CASE steps' = [steps EXCEPT ![b][k] = v]
    BY <1>1, <1>3, <1>13, <1>14, <2>2, StepsSet
  <2> QED BY <1>3, <2>1, <2>2
<1>16. ~Forced(b) => FindHolds(r, d)
  <2> SUFFICES ASSUME ~Forced(b) PROVE FindHolds(r, d)
    OBVIOUS
  <2>1. CASE d = f
    <3>1. c.revision # Zero
      BY <1>1, <1>7, OnLineTypes DEF Branching, SoundHistory
    <3> QED BY <1>0, <1>7, <1>8, <2>1, <3>1 DEF FindHolds
  <2>2. CASE d = g /\ c.todo # {k}
    <3>0. Crossing(c.todo \ {k}, c.head, c.incoming)
      BY <1>1, <1>7, <2>2, CrossingOn
    <3>1. Crossing(g.todo, g.head, g.incoming)
      BY <1>9, <3>0
    <3> QED BY <1>0, <1>7, <1>9, <2>2, <3>1, BranchAssumption
               DEF FindHolds
  <2> QED BY <1>10, <2>1, <2>2
<1> QED BY <1>0, <1>1, <1>3, <1>11, <1>12, <1>15, <1>16, FindMoves

\* Unless a push was forced, the whole line of the default branch can be read.
Intact == ~Forced(Default) => \A v \in Branching(Default) : Present(states, v)

\* A lookup that walks the line answers from it, or seals what it crossed.
LEMMA WalkMoves ==
    ASSUME LineInv, Intact, NEW r \in Request, FindWalk(r)
    PROVE  Moves(r)
<1>0. PICK b, c, n : b = ask[r].branch /\ c = call[r] /\ n = ask[r].number
  OBVIOUS
<1>1. /\ Calls(r) /\ Shaped /\ Fits(r) /\ Reaches(r) /\ b \in Branch /\ Kept /\ Keys
      /\ SoundHistory(states) /\ IsHistory(states)
      /\ Held(states, latest[b])
      /\ DOMAIN c = CallFields
  BY <1>0, StepKeeps, Parts DEF Handle, Find
<1>2. PICK hit : hit = OnLine(states, latest[b], n)
  OBVIOUS
<1>3. PICK page : page = Segment(states, Line(states, hit), Wanted(r))
  OBVIOUS
<1>4. PICK newer : newer = CHOOSE p \in page :
                              \A q \in page : Number(states, p) <= Number(states, q)
  OBVIOUS
<1>5. PICK older : older = State(states, newer).self
  OBVIOUS
<1>6. PICK crossed : crossed = SealedBoundaries(Number(states, older), Number(states, newer))
  OBVIOUS
<1> DEFINE t == To(r, "reseal")
           a == Done(r, "absent", Zero)
           f == Done(r, "found", hit)
           g == [t EXCEPT !.incoming = newer, !.head = older,
                          !.revision = hit, !.todo = crossed]
<1>7. ask[r].kind = "find" /\ c.pc = "walk" /\ UNCHANGED <<states, latest, steps, lists>>
  BY <1>0 DEF FindWalk, At, storeVars
<1>8. PICK d, status : /\ Goes(r, d) \/ Misreads(r, d)
                       /\ \/ d = a /\ hit = Zero
                          \/ d = f /\ hit # Zero
                          \/ d = g /\ hit # Zero /\ crossed # {}
                          \/ d = Done(r, status, Zero) /\ status \in {"error", "unread"}
  BY <1>0, <1>2, <1>3, <1>4, <1>5, <1>6 DEF FindWalk
<1>9. CASE d = Done(r, status, Zero) /\ status \in {"error", "unread"}
  <2>1. DOMAIN d = CallFields
    BY <1>9, DoneFields
  <2>2. call'[r] = d
    BY <1>1, <1>8, <2>1, SetCall
  <2>3. call'[r] = Done(r, status, Zero) /\ status \notin {"success", "found", "absent"}
    BY <1>9, <2>2
  <2> QED BY <1>1, <1>7, <2>3, DoneMoves
<1> SUFFICES ASSUME ~(d = Done(r, status, Zero) /\ status \in {"error", "unread"})
             PROVE  Moves(r)
  BY <1>9
<1>10. c.status = None
  BY <1>0, <1>1, <1>7 DEF Fits, Fitting
<1>11. ~Forced(b) => FindHolds(r, c)
  BY <1>0, <1>1, <1>7 DEF Reaches, FindOnLine
<1>12. KeysRight
  BY <1>1, <1>7 DEF KeysRight, Keys
<1>13. /\ DOMAIN a = CallFields /\ a.pc = "done" /\ a.status = "absent" /\ a.revision = Zero
       /\ a.began = c.began
       /\ DOMAIN f = CallFields /\ f.pc = "done" /\ f.status = "found" /\ f.revision = hit
       /\ f.began = c.began
  BY <1>0, DoneAll, SMT
<1>14. DOMAIN t = CallFields /\ t.pc = "reseal" /\ t.status = None /\ t.began = c.began
  BY <1>0, <1>1, <1>10, ToAll
<1> HIDE DEF t, a, f
<1>15. /\ DOMAIN g = CallFields /\ g.pc = "reseal" /\ g.status = None /\ g.began = c.began
       /\ g.incoming = newer /\ g.head = older /\ g.revision = hit /\ g.todo = crossed
  BY <1>14 DEF CallFields
<1> HIDE DEF g
<1>16. \/ d = a /\ hit = Zero
       \/ d = f /\ hit # Zero
       \/ d = g /\ hit # Zero /\ crossed # {}
  BY <1>8
<1>17. call'[r] = d
  BY <1>1, <1>8, <1>13, <1>15, <1>16, SetCall
<1>18. d.pc # "idle" /\ (d.pc # "done" => d.status = None)
  BY <1>13, <1>15, <1>16
<1>19. Zero \notin Line(states, latest[b])
  BY <1>1, OnLineTypes
<1>20. ASSUME ~Forced(b)
       PROVE  IF hit = Zero THEN \A v \in Branching(b) : Number(states, v) # n
              ELSE hit \in Branching(b) /\ Number(states, hit) = n
  <2>1. b = Default
    BY <1>0, <1>1, <1>7, Asks
  <2>2. Walked(states, latest[b]) = Line(states, latest[b])
    BY <1>20, <2>1, WalkedLine DEF Intact, Branching
  <2> QED BY <1>2, <1>19, <2>2, Hits DEF OnLine, Branching
<1>21. ~Forced(b) => FindHolds(r, d)
  <2> SUFFICES ASSUME ~Forced(b) PROVE FindHolds(r, d)
    OBVIOUS
  <2>1. c.began = Zero \/ c.began \in Branching(b)
    BY <1>0, <1>11 DEF FindHolds
  <2>2. CASE d = a /\ hit = Zero
    <3>1. Line(states, c.began) \subseteq Branching(b)
      BY <1>1, <2>1, LineTail, LineUnfolds DEF Branching
    <3>2. \A w \in Line(states, d.began) : Number(states, w) # n
      BY <1>13, <1>20, <2>2, <3>1
    <3> QED BY <1>0, <1>13, <2>1, <2>2, <3>2 DEF FindHolds
  <2>3. CASE d = f /\ hit # Zero
    BY <1>0, <1>13, <1>20, <2>1, <2>3 DEF FindHolds
  <2>4. CASE d = g /\ hit # Zero /\ crossed # {}
    <3>1. hit \in Line(states, latest[b]) /\ Number(states, hit) = n
      BY <1>20, <2>4 DEF Branching
    <3>2. hit \in Line(states, hit) /\ Line(states, hit) \subseteq Line(states, latest[b])
      BY <1>1, <3>1, LineTail
    <3>3. hit \in page /\ page \subseteq Line(states, latest[b])
      BY <1>0, <1>3, <3>1, <3>2 DEF Segment, Wanted
    <3>4. \A p \in page : Number(states, p) \in Nat
      BY <1>1, <3>3, OnLineTypes
    <3>5. newer \in page
      BY <1>1, <1>4, <3>3, <3>4, PageLowest
    <3>6. newer \in Line(states, latest[b]) /\ newer \in DOMAIN states
      BY <1>1, <3>3, <3>5, OnLineTypes
    <3>7. older = states[newer].self
      BY <1>1, <1>5, <3>6, Parents
    <3>8. Crossing(crossed, older, newer)
      BY <1>6, <2>4, <3>6, <3>7 DEF Crossing
    <3>9. Crossing(g.todo, g.head, g.incoming)
      BY <1>15, <3>8
    <3> QED BY <1>0, <1>15, <2>1, <2>4, <3>1, <3>6, <3>9, BranchAssumption
            DEF FindHolds, Branching
  <2> QED BY <1>16, <2>2, <2>3, <2>4
<1> QED BY <1>0, <1>1, <1>7, <1>12, <1>17, <1>18, <1>21, FindMoves

\* What a lookup holds and writes is of the line.
LEMMA FindsMove ==
    ASSUME LineInv, Intact, NEW r \in Request, Find(r)
    PROVE  Moves(r)
BY LookupMoves, FillMoves, WalkMoves, ResealMoves DEF Find

=============================================================================
