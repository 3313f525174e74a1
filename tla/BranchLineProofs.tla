-------------------------- MODULE BranchLineProofs --------------------------
(***************************************************************************)
(* The line of a branch, for any branches, requests, scenes and bounds:    *)
(* numbers grow along it (NumbersGrow), it lacks fragments only at or      *)
(* below a revision a client named (LineWhole), a push that was            *)
(* acknowledged stays on it (AcknowledgedKept), and the step keys and the  *)
(* segments kept beside it, and the lookups by number that read them, say  *)
(* what it says (StepsOnLine, FindsOnLine).  From LineInv of               *)
(* BranchServiceProofs, of which it remains that pushes keep it, and       *)
(* WholeInv, which says of a push on its way what it has verified: a       *)
(* lookup that walks the line finds all of it because no revision of it    *)
(* is missing.                                                             *)
(***************************************************************************)
EXTENDS BranchServiceProofs

\* The prover of a leaf that names none.
USE ZenonT(30)

-----------------------------------------------------------------------------
(***************************************************************************)
(* What lines lack                                                         *)
(***************************************************************************)

\* What the call c of request r has verified: a push that stores or merges, its
\* revision, which is based on what the client committed on.  A creation that
\* has not moved a head names no revision, nor one of the default branch.
Checking(r, c) ==
    /\ ask[r].kind = "push" =>
          /\ c.pc = "idle" => c.began = Zero
          /\ c.pc \in Working => State(states, c.incoming).self = State(states, c.began).self
          /\ c.pc \in {"store", "merge"} => Verified(states, c.incoming)
    /\ ask[r].kind = "create" =>
          /\ Held(states, c.revision)
          /\ c.pc # "done" \/ ask[r].branch = Default => c.revision = Zero

Checks(r) == Checking(r, call[r])

\* The inductive invariant, beside LineInv.
WholeInv == LineWhole /\ latest[Default] # Zero /\ \A r \in Request : Checks(r)

\* What is new on the line of the branch was verified, or is named.
Covers(b) ==
    \A v \in Line(states', latest'[b]) :
        \/ v \in Line(states, latest[b]) \/ Verified(states', v)
        \/ \E u \in Named(b)' : v \in Line(states', u)

\* What a step of r does.
Completes(r) ==
    /\ Checks(r)'
    /\ ask[r].kind = "push" => call'[r].began = call[r].began \/ call[r].began = Zero
    /\ ask[r].kind = "create" => call'[r].revision = call[r].revision \/ call[r].revision = Zero
    /\ latest'[Default] # Zero
    /\ \A b \in Branch : latest'[b] = latest[b] \/ Covers(b)

\* What was verified stays so, and nothing else of what was there is.
LEMMA SameVerified ==
    ASSUME NEW st, IsHistory(st), NEW new, Extends(st, new), NEW v, Held(st, v)
    PROVE  Verified(new, v) <=> Verified(st, v)
<1>1. PICK s : s = State(st, v)
  OBVIOUS
<1>2. State(new, v) = s /\ Held(st, s.self) /\ Held(st, s.other)
  <2>1. State(new, v) = s
    BY <1>1 DEF Extends
  <2>2. Held(st, State(st, v).self) /\ Held(st, State(st, v).other)
    BY Reads
  <2> QED BY <1>1, <2>1, <2>2
<1>3. State(new, s.self) = State(st, s.self) /\ State(new, s.other) = State(st, s.other)
  BY <1>2 DEF Extends
<1> QED BY <1>1, <1>2, <1>3 DEF Verified, Present

\* A revision below one that is named stays below one.
LEMMA NamedStays ==
    ASSUME LineInv, WholeInv, IsHistory(states'), Extends(states, states'),
           NEW r \in Request, Calls(r), Completes(r),
           NEW b, NEW u \in Named(b), NEW v \in Line(states, u)
    PROVE  \E w \in Named(b)' : v \in Line(states', w)
<1>1. IsHistory(states) /\ ask' = ask
  BY DEF LineInv, Stored, SoundHistory, Calls
<1>2. Line(states, Zero) = {} /\ State(states, Zero).self = Zero
  BY <1>1, LineUnfolds DEF State, EmptyState
<1>3. u # Zero
  BY <1>2
<1>4. Held(states, u) /\ u \in Named(b)'
  <2>1. CASE \E q \in Request : /\ ask[q].kind = "create" /\ ask[q].branch = b
                                /\ u = call[q].revision
    <3>1. PICK q \in Request : /\ ask[q].kind = "create" /\ ask[q].branch = b
                               /\ u = call[q].revision
      BY <2>1
    <3>2. Held(states, u)
      BY <3>1 DEF WholeInv, Checks, Checking
    <3>3. call'[q].revision = u
      BY <1>3, <3>1 DEF Calls, Completes
    <3>4. u \in Named(b)'
      BY <1>1, <3>1, <3>3 DEF Named
    <3> QED BY <3>2, <3>4
  <2>2. CASE \E q \in Request : /\ ask[q].kind = "push" /\ ask[q].force /\ ask[q].branch = b
                                /\ u = State(states, call[q].began).self
    <3>1. PICK q \in Request : /\ ask[q].kind = "push" /\ ask[q].force /\ ask[q].branch = b
                               /\ u = State(states, call[q].began).self
      BY <2>2
    <3>2. Held(states, call[q].began)
      BY DEF LineInv, Kept, Based
    <3>3. Held(states, u) /\ State(states', call[q].began).self = u
      <4>1. PICK w : w = call[q].began
        OBVIOUS
      <4>2. Held(states, State(states, w).self)
        BY <1>1, <3>2, <4>1, Reads
      <4>3. State(states', w) = State(states, w)
        BY <3>2, <4>1 DEF Extends
      <4> QED BY <3>1, <4>1, <4>2, <4>3
    <3>4. call'[q].began = call[q].began
      BY <1>2, <1>3, <3>1 DEF Calls, Completes
    <3>5. u \in Named(b)'
      BY <1>1, <3>1, <3>3, <3>4 DEF Named
    <3> QED BY <3>3, <3>5
  <2> QED BY <2>1, <2>2 DEF Named
<1>5. Line(states', u) = Line(states, u)
  BY <1>1, <1>4, LineSame
<1> QED BY <1>4, <1>5

\* A step that completes what it adds keeps the invariant.
LEMMA CompletesKeep ==
    ASSUME LineInv, WholeInv, IsHistory(states'), Extends(states, states'),
           NEW r \in Request, Calls(r), Completes(r)
    PROVE  WholeInv'
<1>1. IsHistory(states) /\ ask' = ask
  BY DEF LineInv, Stored, SoundHistory, Calls
<1>2. ASSUME NEW s \in Request, s # r PROVE Checks(s)'
  <2>1. PICK c : c = call[s] /\ c = call'[s]
    BY <1>2 DEF Calls
  <2>2. Checking(s, c) /\ Held(states, c.began)
        /\ (ask[s].kind = "push" => Held(states, c.incoming))
    BY <2>1 DEF WholeInv, Checks, LineInv, Kept, Based
  <2>3. ASSUME ask[s].kind = "push"
        PROVE  /\ Verified(states', c.incoming) <=> Verified(states, c.incoming)
               /\ State(states', c.incoming) = State(states, c.incoming)
               /\ State(states', c.began) = State(states, c.began)
    <3>1. PICK v : v = c.incoming
      OBVIOUS
    <3>2. Held(states, v)
      BY <2>2, <2>3, <3>1
    <3>3. Verified(states', v) <=> Verified(states, v)
      BY <1>1, <3>2, SameVerified
    <3>4. State(states', v) = State(states, v) /\ State(states', c.began) = State(states, c.began)
      BY <2>2, <3>2 DEF Extends
    <3> QED BY <3>1, <3>3, <3>4
  <2>4. Held(states, c.revision) => Held(states', c.revision)
    BY DEF Extends
  <2> QED BY <1>1, <2>1, <2>2, <2>3, <2>4 DEF Checks, Checking
<1>3. ASSUME NEW b \in Branch, NEW v \in Line(states, latest[b])
      PROVE  Verified(states', v) \/ \E u \in Named(b)' : v \in Line(states', u)
  <2>1. Held(states, v)
    BY <1>1, <1>3, OnLineTypes DEF LineInv, Kept
  <2>2. Verified(states, v) \/ \E u \in Named(b) : v \in Line(states, u)
    BY DEF WholeInv, LineWhole
  <2>3. CASE Verified(states, v)
    BY <1>1, <2>1, <2>3, SameVerified
  <2>4. CASE \E u \in Named(b) : v \in Line(states, u)
    BY <2>4, NamedStays
  <2> QED BY <2>2, <2>3, <2>4
<1>4. ASSUME NEW b \in Branch, NEW v \in Line(states', latest'[b])
      PROVE  Verified(states', v) \/ \E u \in Named(b)' : v \in Line(states', u)
  <2>1. CASE latest'[b] = latest[b]
    <3>1. Line(states', latest[b]) = Line(states, latest[b])
      BY <1>1, LineSame DEF LineInv, Kept
    <3> QED BY <1>3, <1>4, <2>1, <3>1
  <2>2. CASE Covers(b)
    BY <1>3, <1>4, <2>2 DEF Covers
  <2> QED BY <2>1, <2>2 DEF Completes
<1>5. LineWhole'
  BY <1>4 DEF LineWhole
<1> QED BY <1>2, <1>5 DEF WholeInv, Completes

\* A request answered where it is, or with no revision.
LEMMA DoneCompletes ==
    ASSUME WholeInv, NEW r \in Request, Calls(r), UNCHANGED <<states, latest>>,
           NEW status, NEW revision, call'[r] = Done(r, status, revision),
           ask[r].kind = "create" => call[r].pc # "done" /\ revision = Zero
    PROVE  Completes(r)
<1>1. PICK d : d = Done(r, status, revision)
  OBVIOUS
<1>2. d.pc = "done" /\ d.began = call[r].began /\ d.revision = revision
  BY <1>1 DEF Done, NoCall
<1>3. call'[r] = d /\ ask' = ask /\ Checks(r)
  BY <1>1 DEF Calls, WholeInv
<1>4. Checks(r)'
  BY <1>2, <1>3 DEF Checks, Checking, Working, Held
<1>5. ask[r].kind = "create" => call'[r].revision = call[r].revision
  BY <1>2, <1>3 DEF Checks, Checking
<1> QED BY <1>2, <1>3, <1>4, <1>5 DEF Completes, WholeInv

\* A request that ends.
LEMMA EndCompletes ==
    ASSUME LineInv, WholeInv, NEW r \in Request, End(r)
    PROVE  Completes(r)
<1>1. Calls(r) /\ Shaped
  BY StepKeeps DEF LineInv
<1>2. /\ call'[r] = Done(r, "error", Zero) /\ UNCHANGED <<states, latest>>
      /\ call[r].pc # "done"
  BY <1>1 DEF End, Shaped, storeVars
<1> QED BY <1>1, <1>2, DoneCompletes

\* Lookups, deletions, protections and metadata updates add nothing.
LEMMA OthersComplete ==
    ASSUME LineInv, WholeInv, NEW r \in Request, Find(r) \/ Administer(r)
    PROVE  Completes(r)
<1>1. Calls(r) /\ ask' = ask /\ ask[r].kind \notin {"push", "create"} /\ latest' = latest
  BY StepKeeps, Kinds DEF Handle, Calls
<1> QED BY <1>1 DEF Completes, Checks, Checking, WholeInv

\* A creation moves a head only to the revision it is answered with, and not
\* that of the default branch, which has one.
LEMMA CreateCompletes ==
    ASSUME LineInv, WholeInv, NEW r \in Request, Create(r)
    PROVE  Completes(r)
<1>0. PICK b, p : b = ask[r].branch /\ p = ask[r].point
  OBVIOUS
<1>1. /\ Calls(r) /\ ask' = ask /\ ask[r].kind = "create" /\ states' = states
      /\ b \in Branch /\ DOMAIN latest = Branch /\ Shaped /\ p \in 0 .. Grown
      /\ call[r].pc # "done"
      /\ CreatePoint(r) \/ call'[r].revision \in {call[r].revision, Zero}
  <2>1. Calls(r) /\ Shaped /\ Kept
    BY StepKeeps DEF Handle, LineInv
  <2> QED BY <1>0, <2>1, Kinds, Asks, AdminCall DEF Calls, Kept
<1>2. call[r].revision = Zero /\ latest[Default] # Zero
  BY <1>1 DEF WholeInv, Checks, Checking
<1>3. CASE ~CreatePoint(r)
  <2>1. call'[r].revision = Zero
    BY <1>1, <1>2, <1>3
  <2>2. latest' = latest
    BY <1>3 DEF Create, CreateReadName, CreateReadTaken, CreateReadId, CreateReadOld,
       CreateRename, CreateDescribe, CreateMap, storeVars
  <2>3. Checks(r)'
    BY <1>1, <2>1 DEF Checks, Checking, Held
  <2> QED BY <1>1, <1>2, <2>1, <2>2, <2>3 DEF Completes
<1>4. CASE latest[b] = Zero /\ latest' = [latest EXCEPT ![b] = p]
           /\ Goes(r, Done(r, "success", p))
  <2>1. PICK d : d = Done(r, "success", p)
    OBVIOUS
  <2>2. DOMAIN d = CallFields /\ d.pc = "done" /\ d.revision = p
    BY <2>1 DEF Done, NoCall, CallFields
  <2>3. call'[r] = d
    BY <1>1, <1>4, <2>1, <2>2, SetCall
  <2>4. b # Default /\ latest'[b] = p /\ \A a \in Branch : a # b => latest'[a] = latest[a]
    BY <1>1, <1>2, <1>4
  <2>5. Held(states, p)
    BY <1>1, Addresses, BranchAssumption, SMT DEF LineInv, Kept
  <2>6. Checks(r)'
    BY <1>0, <1>1, <2>2, <2>3, <2>4, <2>5 DEF Checks, Checking
  <2>7. p \in Named(b)'
    BY <1>0, <1>1, <2>2, <2>3 DEF Named
  <2>8. Covers(b)
    BY <2>4, <2>7 DEF Covers
  <2>9. latest'[Default] # Zero
    BY <1>2, <2>4, BranchAssumption
  <2> QED BY <1>1, <1>2, <2>4, <2>6, <2>8, <2>9 DEF Completes
<1>5. CASE Goes(r, Done(r, "advanced", Zero)) /\ UNCHANGED latest
  <2>1. DOMAIN Done(r, "advanced", Zero) = CallFields
    BY DoneFields
  <2>2. call'[r] = Done(r, "advanced", Zero)
    BY <1>1, <1>5, <2>1, SetCall
  <2> QED BY <1>1, <1>5, <2>2, DoneCompletes
<1> QED BY <1>0, <1>3, <1>4, <1>5 DEF CreatePoint

\* Unless a push was forced, no revision of the default branch is missing: it
\* was not created, and no push named the base of its line.
LEMMA WholeIsIntact ==
    ASSUME LineInv, WholeInv
    PROVE  Intact
<1> SUFFICES ASSUME ~Forced(Default), NEW v \in Branching(Default)
             PROVE  Present(states, v)
  BY DEF Intact
<1>1. Line(states, Zero) = {} /\ State(states, Zero).self = Zero
  BY LineUnfolds DEF LineInv, Stored, SoundHistory, State, EmptyState
<1>2. ASSUME NEW u \in Named(Default) PROVE u = Zero
  <2>1. CASE \E q \in Request : /\ ask[q].kind = "create" /\ ask[q].branch = Default
                                /\ u = call[q].revision
    BY <2>1 DEF WholeInv, Checks, Checking
  <2>2. CASE \E q \in Request : /\ ask[q].kind = "push" /\ ask[q].force
                                /\ ask[q].branch = Default
                                /\ u = State(states, call[q].began).self
    <3>1. PICK q \in Request : /\ ask[q].kind = "push" /\ ask[q].force
                               /\ ask[q].branch = Default
                               /\ u = State(states, call[q].began).self
      BY <2>2
    <3>2. call[q].pc = "idle"
      BY <3>1 DEF Forced
    <3>3. call[q].began = Zero
      BY <3>1, <3>2 DEF WholeInv, Checks, Checking
    <3> QED BY <1>1, <3>1, <3>3
  <2> QED BY <1>2, <2>1, <2>2 DEF Named
<1>3. Verified(states, v) \/ \E u \in Named(Default) : v \in Line(states, u)
  BY BranchAssumption DEF WholeInv, LineWhole, Branching
<1>4. Verified(states, v)
  BY <1>1, <1>2, <1>3
<1> QED BY <1>4 DEF Verified, Present

-----------------------------------------------------------------------------
(***************************************************************************)
(* Pushing                                                                 *)
(***************************************************************************)

\* What a push moves on with, where heads stay.
LEMMA PushQuiet ==
    ASSUME LineInv, WholeInv, NEW r \in Request, Calls(r), ask[r].kind = "push",
           UNCHANGED <<states, latest>>, KeysRight, NEW d, call'[r] = d,
           d.pc # "idle", Fitting(r, d), ~Forced(ask[r].branch) => PushHolds(r, d),
           d.began = call[r].began, Checking(r, d)
    PROVE  Moves(r) /\ Completes(r)
<1>1. ask' = ask /\ Begun(r) /\ Shaped
  BY DEF Calls, Begun, LineInv
<1>2. Fits(r)'
  BY <1>1 DEF Fits, Fitting, Number, State, Held, Crossing
<1>3. PICK b : b = ask[r].branch
  OBVIOUS
<1>4. ~Forced(b)' => ~Forced(b)
  BY <1>1, ForcedStays
<1>5. PushHolds(r, d) => PushHolds(r, call[r])'
  BY <1>1 DEF PushHolds, Branching
<1>6. Reaches(r)'
  BY <1>1, <1>3, <1>4, <1>5 DEF Reaches, PushOnLine
<1>7. Checks(r)'
  BY <1>1 DEF Checks, Checking, Verified, Present, State
<1>8. Completes(r)
  BY <1>7 DEF Completes, WholeInv
<1> QED BY <1>1, <1>2, <1>6, <1>8, HeadsStay DEF Moves

\* Keys that are left alone stay right.
LEMMA KeysStay ==
    ASSUME LineInv, UNCHANGED <<steps, lists>>
    PROVE  KeysRight
BY DEF LineInv, KeysRight, Keys

\* What a push that works holds.
LEMMA PushHas ==
    ASSUME LineInv, NEW r \in Request, ask[r].kind = "push", call[r].pc \in Working
    PROVE  /\ call[r].status = None /\ call[r].incoming # Zero
           /\ Held(states, call[r].incoming) /\ call[r].incoming \in DOMAIN states
           /\ call[r].pc # "load" => call[r].head # Unread
           /\ call[r].head # Unread =>
                 /\ Held(states, call[r].head)
                 /\ ~Forced(ask[r].branch) =>
                       call[r].head = Zero \/ call[r].head \in Branching(ask[r].branch)
<1>1. Fits(r) /\ Reaches(r) /\ Based(r)
  BY Parts
<1>2. call[r].pc # "done"
  BY DEF Working
<1>3. /\ call[r].status = None /\ call[r].incoming # Zero
      /\ call[r].pc # "load" => call[r].head # Unread
      /\ call[r].head # Unread => Held(states, call[r].head)
  BY <1>1, <1>2 DEF Fits, Fitting
<1>4. Held(states, call[r].incoming) /\ call[r].incoming \in DOMAIN states
  BY <1>1, <1>3 DEF Based, Held
<1>5. call[r].head # Unread /\ ~Forced(ask[r].branch) =>
          call[r].head = Zero \/ call[r].head \in Branching(ask[r].branch)
  BY <1>1 DEF Reaches, PushOnLine, PushHolds
<1> QED BY <1>3, <1>4, <1>5

\* A push reads the metadata and the head, which may be taken for absent.
LEMMA LoadMoves ==
    ASSUME LineInv, WholeInv, NEW r \in Request, PushLoadMetadata(r) \/ PushLoadHead(r)
    PROVE  Moves(r) /\ Completes(r)
<1>0. PICK b, c : b = ask[r].branch /\ c = call[r]
  OBVIOUS
<1>1. /\ Calls(r) /\ Shaped /\ b \in Branch /\ DOMAIN c = CallFields
      /\ Held(states, latest[b])
  BY <1>0, StepKeeps, Parts DEF Handle, Push
<1>2. /\ ask[r].kind = "push" /\ c.pc = "load" /\ UNCHANGED <<states, latest, steps, lists>>
  BY <1>0 DEF PushLoadMetadata, PushLoadHead, At, storeVars
<1>3. /\ c.status = None /\ c.incoming # Zero
      /\ c.head # Unread => /\ Held(states, c.head)
                            /\ ~Forced(b) => c.head = Zero \/ c.head \in Branching(b)
  BY <1>0, <1>2, PushHas DEF Working
<1>4. PICK d : /\ Goes(r, d) \/ Misreads(r, d)
               /\ \/ d = [c EXCEPT !.meta = meta[b]]
                  \/ d = [c EXCEPT !.head = latest[b]]
                  \/ d = [c EXCEPT !.head = Zero]
  BY <1>0 DEF PushLoadMetadata, PushLoadHead
<1>5. /\ DOMAIN d = CallFields /\ d.pc = "load" /\ d.status = None /\ d.incoming # Zero
      /\ d.head \in {c.head, latest[b], Zero} /\ d.began = c.began /\ d.incoming = c.incoming
  BY <1>1, <1>2, <1>3, <1>4 DEF CallFields
<1>6. call'[r] = d
  BY <1>1, <1>4, <1>5, SetCall
<1>7. Held(states, Zero)
  BY DEF Held
<1>8. Fitting(r, d)
  BY <1>1, <1>3, <1>5, <1>7 DEF Fitting, Working
<1>9. ~Forced(b) => PushHolds(r, d)
  <2>1. latest[b] = Zero \/ latest[b] \in Branching(b)
    BY <1>1, HeadOnLine
  <2> QED BY <1>0, <1>3, <1>5, <2>1, BranchAssumption DEF PushHolds
<1>10. Checking(r, d)
  BY <1>0, <1>2, <1>5 DEF WholeInv, Checks, Checking, Working
<1>11. d.pc # "idle" /\ d.began = call[r].began
  BY <1>0, <1>5
<1> QED BY <1>0, <1>1, <1>2, <1>6, <1>8, <1>9, <1>10, <1>11, KeysStay, PushQuiet

\* A push makes sure of its name.
LEMMA NameMoves ==
    ASSUME LineInv, WholeInv, NEW r \in Request,
           PushReadName(r) \/ PushReadClaim(r) \/ PushReinstate(r)
    PROVE  Moves(r) /\ Completes(r)
<1>0. PICK b, c : b = ask[r].branch /\ c = call[r]
  OBVIOUS
<1>1. /\ Calls(r) /\ Shaped /\ b \in Branch /\ DOMAIN c = CallFields
  BY <1>0, StepKeeps, Parts DEF Handle, Push
<1>2. /\ ask[r].kind = "push" /\ c.pc \in {"load", "claim", "reinstate"}
      /\ UNCHANGED <<states, latest, steps, lists>>
      /\ c.pc = "load" => c.head # Unread
  <2>1. CASE PushReadName(r)
    BY <1>0, <2>1 DEF PushReadName, At, storeVars
  <2>2. CASE PushReadClaim(r) \/ PushReinstate(r)
    BY <1>0, <2>2 DEF PushReadClaim, PushReinstate, At, storeVars
  <2> QED BY <2>1, <2>2
<1>3. /\ c.status = None /\ c.incoming # Zero /\ c.head # Unread
      /\ Held(states, c.head)
      /\ ~Forced(b) => c.head = Zero \/ c.head \in Branching(b)
  BY <1>0, <1>2, PushHas DEF Working
<1>4. PICK d : /\ Goes(r, d) \/ Misreads(r, d)
               /\ \/ \E status \in {"not_found", "denied", "already_exists"} :
                        d = Done(r, status, Zero)
                  \/ \E pc \in {"prepare", "reinstate"} : d = To(r, pc)
                  \/ \E pc \in {"claim", "reinstate"} : \E other :
                        d = [To(r, pc) EXCEPT !.other = other]
  <2>1. CASE PushReadName(r)
    BY <2>1 DEF PushReadName
  <2>2. CASE PushReadClaim(r) \/ PushReinstate(r)
    BY <2>2 DEF PushReadClaim, PushReinstate
  <2> QED BY <2>1, <2>2
<1>5. CASE \E status \in {"not_found", "denied", "already_exists"} : d = Done(r, status, Zero)
  <2>1. PICK status \in {"not_found", "denied", "already_exists"} : d = Done(r, status, Zero)
    BY <1>5
  <2>2. call'[r] = d
    BY <1>1, <1>4, <2>1, DoneAll, SetCall, SMT
  <2> QED BY <1>1, <1>2, <2>1, <2>2, DoneMoves, DoneCompletes
<1>6. CASE \/ \E pc \in {"prepare", "reinstate"} : d = To(r, pc)
           \/ \E pc \in {"claim", "reinstate"} : \E other :
                 d = [To(r, pc) EXCEPT !.other = other]
  <2>1. PICK pc, other : /\ pc \in {"prepare", "claim", "reinstate"}
                         /\ d = To(r, pc) \/ d = [To(r, pc) EXCEPT !.other = other]
    BY <1>6, SMT
  <2>2. PICK t : t = To(r, pc)
    OBVIOUS
  <2>3. /\ DOMAIN t = CallFields /\ t.pc = pc /\ t.incoming = c.incoming /\ t.head = c.head
        /\ t.status = c.status /\ t.began = c.began
    BY <1>0, <1>1, <2>2, ToAll
  <2>4. d = t \/ d = [t EXCEPT !.other = other]
    BY <2>1, <2>2
  <2>5. /\ DOMAIN d = CallFields /\ d.pc = pc /\ d.incoming = c.incoming /\ d.head = c.head
        /\ d.status = c.status /\ d.began = c.began
    BY <2>3, <2>4 DEF CallFields
  <2>6. call'[r] = d
    BY <1>1, <1>4, <2>5, SetCall
  <2>7. Fitting(r, d)
    BY <1>3, <2>1, <2>5 DEF Fitting, Working
  <2>8. ~Forced(b) => PushHolds(r, d)
    BY <1>0, <1>3, <2>1, <2>5, BranchAssumption DEF PushHolds
  <2>9. d.pc # "idle" /\ d.began = call[r].began
    BY <1>0, <2>1, <2>5
  <2>10. Checking(r, d)
    BY <1>0, <1>2, <2>1, <2>5 DEF WholeInv, Checks, Checking, Working
  <2> QED BY <1>0, <1>1, <1>2, <2>6, <2>7, <2>8, <2>9, <2>10, KeysStay, PushQuiet
<1> QED BY <1>4, <1>5, <1>6

\* What a push asks for.
LEMMA PushAsks ==
    ASSUME Shaped, NEW r \in Request, ask[r].kind = "push"
    PROVE  /\ ask[r].onto \in (0 .. Grown) \cup Request \cup {None}
           /\ ask[r].merges \in (0 .. Grown) \cup Request /\ ask[r].off \in Nat
           /\ ask[r].again \in Request \cup {None}
<1>1. \A a \in Ask : a.kind = "push" =>
          /\ a.onto \in (0 .. Grown) \cup Request \cup {None}
          /\ a.merges \in (0 .. Grown) \cup Request /\ a.off \in Nat
  BY DEF Ask
<1>2. ask[r] \in Ask
  BY DEF Shaped
<1> QED BY <1>1, <1>2, Asks

\* What a client commits on, and merges, is there.
LEMMA CommittedHeld ==
    ASSUME Kept, NEW x \in (0 .. Grown) \cup Request
    PROVE  Held(states, Committed(x))
<1>1. CASE x \in Request
  BY <1>1 DEF Kept, Based, Committed
<1>2. CASE x \notin Request
  <2>1. Committed(x) = x /\ x \in 0 .. Grown
    BY <1>2 DEF Committed
  <2>2. Held(states, x)
    BY <2>1, Addresses, BranchAssumption, SMT DEF Kept
  <2> QED BY <2>1, <2>2
<1> QED BY <1>1, <1>2

\* A push that was forced is known to be.
LEMMA ForcedBy ==
    ASSUME NEW r \in Request, Calls(r), Begun(r), ask[r].kind = "push", ask[r].force
    PROVE  Forced(ask[r].branch)'
BY DEF Forced, Calls, Begun

\* What a push moves on with, where revisions are added and heads stay.
LEMMA PushGrows ==
    ASSUME LineInv, WholeInv, NEW r \in Request, Calls(r), ask[r].kind = "push",
           SoundHistory(states'), Extends(states, states'),
           UNCHANGED <<latest, steps, lists>>, NEW d, call'[r] = d,
           d.pc # "idle", Fitting(r, d)', ~Forced(ask[r].branch) => PushHolds(r, d),
           d.began = call[r].began \/ call[r].began = Zero, Checking(r, d)'
    PROVE  Moves(r) /\ Completes(r)
<1>0. PICK b : b = ask[r].branch
  OBVIOUS
<1>1. ask' = ask /\ Begun(r) /\ Shaped
  BY DEF Calls, Begun, LineInv
<1>2. Fits(r)'
  BY <1>1 DEF Fits, Fitting
<1>3. HeadsAdvance
  BY DEF HeadsAdvance, Advances, Stored
<1>4. ~Forced(b)' => ~Forced(b)
  BY <1>1, ForcedStays
<1>5. Line(states', latest[b]) = Line(states, latest[b])
  <2>1. IsHistory(states) /\ IsHistory(states') /\ Held(states, latest[b])
    BY <1>0, Parts DEF SoundHistory
  <2> QED BY <2>1, LineSame
<1>6. PushHolds(r, d) => PushHolds(r, call[r])'
  BY <1>0, <1>1, <1>5 DEF PushHolds, Branching
<1>7. Reaches(r)'
  BY <1>0, <1>1, <1>4, <1>6 DEF Reaches, PushOnLine
<1>8. Checks(r)'
  BY <1>1 DEF Checks, Checking
<1>9. Completes(r)
  BY <1>8 DEF Completes, WholeInv
<1> QED BY <1>1, <1>2, <1>3, <1>7, <1>9, KeysStay DEF Moves

\* What a client commits is numbered above what it commits on and merges.
LEMMA ArriveMoves ==
    ASSUME LineInv, WholeInv, NEW r \in Request, PushArrive(r)
    PROVE  Moves(r) /\ Completes(r)
<1>0. PICK b, c, s : b = ask[r].branch /\ c = call[r] /\ s = ClientState(r)
  OBVIOUS
<1>1. /\ Calls(r) /\ Shaped /\ b \in Branch /\ DOMAIN c = CallFields /\ Kept /\ Stored
      /\ SoundHistory(states) /\ IsHistory(states) /\ IsStore(states) /\ Fits(r) /\ Reaches(r)
      /\ Held(states, latest[b])
  BY <1>0, StepKeeps, Parts DEF Handle, Push
<1>2. PICK sent : sent = IF ask[r].again = None THEN Address(states, ClientState(r))
                         ELSE call[ask[r].again].began
  OBVIOUS
<1> DEFINE t == To(r, "load")
           d == [t EXCEPT !.began = sent, !.incoming = sent]
<1>3. /\ ask[r].kind = "push" /\ c.pc = "idle" /\ UNCHANGED <<latest, steps, lists>>
      /\ states' = IF ask[r].again = None THEN Serialized(states, s) ELSE states
      /\ sent # Zero /\ Goes(r, d)
  BY <1>0, <1>2 DEF PushArrive, At
<1>4. SoundHistory(states') /\ Extends(states, states')
  <2>1. CASE ask[r].again # None
    BY <1>1, <1>3, <2>1, SameExtends
  <2>2. CASE ask[r].again = None
    <3>1. PICK h, m : /\ h = IF ask[r].onto = None THEN latest[b] ELSE Committed(ask[r].onto)
                      /\ m = Committed(ask[r].merges)
      OBVIOUS
    <3>2. Held(states, h) /\ Held(states, m) /\ ask[r].off \in Nat
      BY <1>1, <1>3, <3>1, PushAsks, CommittedHeld
    <3>3. Number(states, h) \in Nat /\ Number(states, m) \in Nat
      BY <1>1, <3>2, Reads
    <3>4. PICK n : n = NextRevisionNumber(Number(states, h), Number(states, m))
      OBVIOUS
    <3>5. n \in Nat /\ Number(states, h) < n /\ Number(states, m) < n
      BY <3>3, <3>4, NextNumber
    <3>6. /\ DOMAIN s = StateFields /\ s.self = h /\ s.other = m
          /\ s.number = n + ask[r].off
      BY <1>0, <3>1, <3>4 DEF ClientState, StateFields
    <3>7. s.number \in Nat /\ Number(states, h) < s.number /\ Number(states, m) < s.number
      BY <3>2, <3>3, <3>5, <3>6, SMT
    <3>8. /\ Held(states, s.self) /\ Held(states, s.other)
          /\ Number(states, s.self) < s.number /\ Number(states, s.other) < s.number
      BY <3>2, <3>6, <3>7
    <3> QED BY <1>1, <1>3, <2>2, <3>6, <3>7, <3>8, Appended
  <2> QED BY <2>1, <2>2
<1>5. c.status = None
  BY <1>0, <1>1, <1>3 DEF Fits, Fitting
<1>6. DOMAIN t = CallFields /\ t.pc = "load" /\ t.status = None /\ t.head = c.head
  BY <1>0, <1>1, <1>5, ToAll
<1> HIDE DEF t
<1>7. /\ DOMAIN d = CallFields /\ d.pc = "load" /\ d.status = None /\ d.head = c.head
      /\ d.incoming = sent /\ d.began = sent
  BY <1>6 DEF CallFields
<1> HIDE DEF d
<1>8. PICK e : e = d
  OBVIOUS
<1>9. call'[r] = e
  BY <1>1, <1>3, <1>7, <1>8, SetCall
<1>10. c.head # Unread => Held(states, c.head)
  BY <1>0, <1>1, <1>3 DEF Fits, Fitting
<1>11. c.head # Unread => Held(states', c.head)
  BY <1>4, <1>10 DEF Extends
<1>12. Fitting(r, e)'
  BY <1>3, <1>7, <1>8, <1>11 DEF Fitting, Working
<1>13. ~Forced(b) => PushHolds(r, e)
  <2>1. ~Forced(b) => (c.head # Unread => c.head = Zero \/ c.head \in Branching(b))
    BY <1>0, <1>1, <1>3 DEF Reaches, PushOnLine, PushHolds
  <2> QED BY <1>0, <1>7, <1>8, <2>1, BranchAssumption DEF PushHolds
<1>14. e.pc # "idle"
  BY <1>7, <1>8
<1>15. Checking(r, e)' /\ call[r].began = Zero
  <2>1. ask'[r].kind = "push"
    BY <1>1, <1>3 DEF Calls
  <2>2. Checking(r, e)'
    BY <1>7, <1>8, <2>1 DEF Checking
  <2> QED BY <1>0, <1>3, <2>2 DEF WholeInv, Checks, Checking
<1> QED BY <1>0, <1>1, <1>3, <1>4, <1>9, <1>12, <1>13, <1>14, <1>15, PushGrows

\* A revision that can be read is not taken for one that was not read.
LEMMA HeldRead ==
    ASSUME LineInv, NEW v, Held(states, v)
    PROVE  v # Unread
<1>1. v \in Nat
  BY Addresses, SMT DEF LineInv, Kept
<1> QED BY <1>1, BranchAssumption

\* Where a decision leads: to another attempt on the head, or to an answer
\* that is not a success.
LEMMA DecidedAll ==
    ASSUME Shaped, NEW r \in Request, NEW current
    PROVE  LET d == Decided(r, current)
           IN  \/ \E status \in {"not_found", "declined"} : d = Done(r, status, current)
               \/ /\ d.pc \in {"store", "merge"} /\ d.head = current
                  /\ DOMAIN d = CallFields /\ d.incoming = call[r].incoming
                  /\ d.status = call[r].status /\ d.began = call[r].began
<1> DEFINE d == Decided(r, current)
           p == DecideHeadMove(r, current)
<1>1. p \in {"store", "merge", "not_found", "declined"}
  BY DEF DecideHeadMove
<1>2. CASE p \in {"store", "merge"}
  <2>1. d = [To(r, p) EXCEPT !.head = current]
    BY <1>2 DEF Decided
  <2>2. PICK t : t = To(r, p)
    OBVIOUS
  <2>3. /\ DOMAIN t = CallFields /\ t.pc = p /\ t.incoming = call[r].incoming
        /\ t.status = call[r].status /\ t.began = call[r].began
    BY <2>2, ToAll
  <2> HIDE DEF p
  <2>4. d = [t EXCEPT !.head = current]
    BY <2>1, <2>2
  <2> HIDE DEF d
  <2>5. /\ DOMAIN d = CallFields /\ d.pc = p /\ d.incoming = call[r].incoming
        /\ d.status = call[r].status /\ d.head = current /\ d.began = call[r].began
    BY <2>3, <2>4 DEF CallFields
  <2> QED BY <1>2, <2>5 DEF d
<1>3. CASE p \in {"not_found", "declined"}
  <2>1. d = Done(r, p, current)
    BY <1>3 DEF Decided
  <2> QED BY <1>3, <2>1
<1> QED BY <1>1, <1>2, <1>3

\* A push that decided tries on the head it decided on.
LEMMA DecidedMoves ==
    ASSUME LineInv, WholeInv, NEW r \in Request, Calls(r), ask[r].kind = "push",
           call[r].pc \in Working, UNCHANGED <<states, latest, steps, lists>>,
           NEW current, Held(states, current),
           ~Forced(ask[r].branch) => current = Zero \/ current \in Branching(ask[r].branch),
           NEW d, d = Decided(r, current), call'[r] = d,
           d.pc # "done" => Verified(states, call[r].incoming)
    PROVE  Moves(r) /\ Completes(r)
<1>1. Shaped
  BY DEF LineInv
<1>2. call[r].status = None /\ call[r].incoming # Zero
  BY PushHas
<1>3. CASE \E status \in {"not_found", "declined"} : d = Done(r, status, current)
  <2>1. PICK status \in {"not_found", "declined"} : d = Done(r, status, current)
    BY <1>3
  <2> QED BY <2>1, DoneMoves, DoneCompletes
<1>4. CASE /\ d.pc \in {"store", "merge"} /\ d.head = current
           /\ DOMAIN d = CallFields /\ d.incoming = call[r].incoming
           /\ d.status = call[r].status /\ d.began = call[r].began
  <2>1. Fitting(r, d)
    <3>1. d.pc \notin {"done", "seal", "cache"} /\ d.pc \in Working
      BY <1>4 DEF Working
    <3>2. d.incoming # Zero /\ Held(states, d.head)
      BY <1>2, <1>4
    <3>3. d.head # Unread
      BY <1>4, HeldRead
    <3> QED BY <1>2, <1>4, <3>1, <3>2, <3>3 DEF Fitting
  <2>2. ~Forced(ask[r].branch) => PushHolds(r, d)
    BY <1>2, <1>4, BranchAssumption DEF PushHolds
  <2>3. d.pc # "idle" /\ d.pc # "done" /\ KeysRight
    BY <1>4, KeysStay
  <2>4. Checking(r, d)
    <3>1. State(states, call[r].incoming).self = State(states, call[r].began).self
      BY DEF WholeInv, Checks, Checking
    <3> QED BY <1>4, <2>3, <3>1 DEF Checking
  <2> QED BY <1>4, <2>1, <2>2, <2>3, <2>4, PushQuiet
<1> QED BY <1>1, <1>3, <1>4, DecidedAll, SMT

\* What a push is renumbered to differs only in its number, which is above those
\* of its parents.
LEMMA RenumberedIs ==
    ASSUME LineInv, NEW r \in Request, NEW v, v = call[r].incoming, v \in DOMAIN states
    PROVE  LET new == Serialized(states, Renumbered(r))
               a == Address(states, Renumbered(r))
           IN  /\ SoundHistory(new) /\ Extends(states, new)
               /\ a \in DOMAIN new /\ a # Zero /\ State(new, a).self = states[v].self
               /\ State(new, a).other = states[v].other
               /\ State(new, a).upload = states[v].upload
<1>1. SoundHistory(states) /\ IsHistory(states) /\ IsStore(states)
  BY DEF LineInv, Stored, SoundHistory, Kept
<1>2. /\ State(states, v) = states[v] /\ Held(states, v)
      /\ Held(states, states[v].self) /\ Held(states, states[v].other)
      /\ DOMAIN states[v] = StateFields
  BY <1>1, Parents DEF IsStore
<1>3. /\ Number(states, states[v].self) \in Nat /\ Number(states, states[v].other) \in Nat
  BY <1>1, <1>2, Reads
<1>4. PICK n : n = NextRevisionNumber(Number(states, states[v].self),
                                      Number(states, states[v].other))
  OBVIOUS
<1>5. /\ n \in Nat
      /\ Number(states, states[v].self) < n /\ Number(states, states[v].other) < n
  BY <1>3, <1>4, NextNumber
<1>6. PICK s : s = Renumbered(r)
  OBVIOUS
<1>7. s = [states[v] EXCEPT !.number = n]
  BY <1>2, <1>4, <1>6 DEF Renumbered
<1>8. /\ DOMAIN s = StateFields /\ s.self = states[v].self /\ s.other = states[v].other
      /\ s.number = n /\ s.upload = states[v].upload
  BY <1>2, <1>7 DEF StateFields
<1>9. /\ Held(states, s.self) /\ Held(states, s.other) /\ s.number \in Nat
      /\ Number(states, s.self) < s.number /\ Number(states, s.other) < s.number
  BY <1>2, <1>5, <1>8
<1>10. PICK new, a : new = Serialized(states, s) /\ a = Address(states, s)
  OBVIOUS
<1>11. /\ SoundHistory(new) /\ Extends(states, new)
       /\ a \in DOMAIN new /\ a # Zero /\ State(new, a) = s
  BY <1>1, <1>8, <1>9, <1>10, Appended
<1> QED BY <1>6, <1>8, <1>10, <1>11

\* A push prepares.
LEMMA PrepareMoves ==
    ASSUME LineInv, WholeInv, NEW r \in Request, PushPrepare(r)
    PROVE  Moves(r) /\ Completes(r)
<1>0. PICK b, c, next : b = ask[r].branch /\ c = call[r] /\ next = Decided(r, call[r].head)
  OBVIOUS
<1>1. /\ Calls(r) /\ Shaped /\ b \in Branch /\ DOMAIN c = CallFields
      /\ IsHistory(states)
  BY <1>0, StepKeeps, Parts DEF Handle, Push
<1>2. ask[r].kind = "push" /\ c.pc = "prepare" /\ UNCHANGED <<latest, steps, lists>>
  BY <1>0 DEF PushPrepare, At
<1>3. /\ c.status = None /\ c.incoming # Zero /\ c.head # Unread /\ c.incoming \in DOMAIN states
      /\ Held(states, c.head)
      /\ ~Forced(b) => c.head = Zero \/ c.head \in Branching(b)
  BY <1>0, <1>2, PushHas DEF Working
<1>4. CASE c.head = c.incoming /\ Goes(r, Done(r, "success", c.head)) /\ UNCHANGED states
  <2>1. PICK d : d = Done(r, "success", c.head)
    OBVIOUS
  <2>2. /\ DOMAIN d = CallFields /\ d.pc = "done" /\ d.head = Unread /\ d.status = "success"
        /\ d.revision = c.head /\ d.began = call[r].began
    BY <2>1, DoneAll, SMT
  <2>3. call'[r] = d
    BY <1>1, <1>4, <2>1, <2>2, SetCall
  <2>4. Fitting(r, d)
    BY <2>2 DEF Fitting, Working
  <2>5. ~Forced(b) => PushHolds(r, d)
    BY <1>0, <1>3, <1>4, <2>2 DEF PushHolds
  <2>6. d.pc # "idle" /\ KeysRight
    BY <1>2, <2>2, KeysStay
  <2>7. Checking(r, d)
    BY <1>2, <2>2 DEF Checking, Working
  <2> QED BY <1>0, <1>1, <1>2, <1>4, <2>2, <2>3, <2>4, <2>5, <2>6, <2>7, PushQuiet
<1>5. CASE /\ Goes(r, Done(r, "missing", Zero)) \/ Goes(r, Done(r, "not_found", Zero))
           /\ UNCHANGED states
  <2>1. PICK status \in {"missing", "not_found"} : Goes(r, Done(r, status, Zero))
    BY <1>5
  <2>2. DOMAIN Done(r, status, Zero) = CallFields
    BY DoneFields
  <2>3. call'[r] = Done(r, status, Zero)
    BY <1>1, <2>1, <2>2, SetCall
  <2> QED BY <1>1, <1>2, <1>5, <2>3, DoneMoves, DoneCompletes
<1>6. CASE /\ next.pc = "store" /\ Verified(states, c.incoming)
           /\ states' = Serialized(states, Renumbered(r))
           /\ Goes(r, [next EXCEPT !.incoming = Address(states, Renumbered(r))])
  <2>1. PICK a, v : a = Address(states, Renumbered(r)) /\ v = c.incoming
    OBVIOUS
  <2>2. /\ SoundHistory(states') /\ Extends(states, states')
        /\ a \in DOMAIN states' /\ a # Zero /\ State(states', a).self = states[v].self
        /\ State(states', a).other = states[v].other
        /\ State(states', a).upload = states[v].upload
    BY <1>0, <1>3, <1>6, <2>1, RenumberedIs
  <2>3. PICK d : d = [next EXCEPT !.incoming = a]
    OBVIOUS
  <2>4. /\ DOMAIN next = CallFields /\ next.head = c.head /\ next.status = c.status
        /\ next.began = c.began
    <3>1. next.pc # "done"
      BY <1>6
    <3>2. ~ \E status \in {"not_found", "declined"} : next = Done(r, status, c.head)
      BY <3>1, DoneAll, SMT
    <3> QED BY <1>0, <1>1, <3>2, DecidedAll
  <2>5. /\ DOMAIN d = CallFields /\ d.pc = "store" /\ d.head = c.head /\ d.status = None
        /\ d.incoming = a /\ d.began = c.began
    BY <1>3, <1>6, <2>3, <2>4 DEF CallFields
  <2>6. call'[r] = d
    BY <1>1, <1>6, <2>1, <2>3, <2>5, SetCall
  <2>7. Held(states', c.head)
    BY <1>3, <2>2 DEF Extends
  <2>8. Fitting(r, d)'
    BY <1>3, <2>2, <2>5, <2>7 DEF Fitting, Working
  <2>9. ~Forced(b) => PushHolds(r, d)
    BY <1>0, <1>3, <2>5, BranchAssumption DEF PushHolds
  <2>10. d.pc # "idle" /\ d.began = call[r].began
    BY <1>0, <2>5
  <2>11. Verified(states', a) /\ State(states', a).self = State(states', c.began).self
    <3>1. Held(states, v) /\ State(states, v) = states[v]
      BY <1>1, <1>3, <2>1, Parents
    <3>2. Verified(states', v)
      <4>1. Verified(states', v) <=> Verified(states, v)
        BY <1>1, <2>2, <3>1, SameVerified
      <4> QED BY <1>6, <2>1, <4>1
    <3>3. State(states', v) = states[v]
      BY <2>2, <3>1 DEF Extends
    <3>4. Verified(states', a)
      BY <2>2, <3>2, <3>3 DEF Verified
    <3>5. State(states, v).self = State(states, c.began).self /\ Held(states, c.began)
      <4>1. Held(states, c.began)
        BY <1>0 DEF LineInv, Kept, Based
      <4> QED BY <1>0, <1>2, <2>1, <4>1 DEF WholeInv, Checks, Checking, Working
    <3>6. State(states', c.began) = State(states, c.began)
      BY <2>2, <3>5 DEF Extends
    <3> QED BY <2>2, <3>1, <3>4, <3>5, <3>6
  <2>12. Checking(r, d)'
    <3>1. ask'[r].kind = "push"
      BY <1>1, <1>2 DEF Calls
    <3> QED BY <2>5, <2>11, <3>1 DEF Checking
  <2> QED BY <1>0, <1>1, <1>2, <2>2, <2>6, <2>8, <2>9, <2>10, <2>12, PushGrows
<1>7. CASE /\ next.pc # "store" /\ (next.pc # "done" => Verified(states, c.incoming))
           /\ Goes(r, next) /\ UNCHANGED states
  <2>1. DOMAIN next = CallFields
    BY <1>0, <1>1, DecidedFields
  <2>2. call'[r] = next
    BY <1>1, <1>7, <2>1, SetCall
  <2>3. call[r].pc \in Working
    BY <1>0, <1>2 DEF Working
  <2>4. next.pc # "done" => Verified(states, call[r].incoming)
    BY <1>0, <1>7
  <2> QED BY <1>0, <1>1, <1>2, <1>3, <1>7, <2>2, <2>3, <2>4, DecidedMoves
<1>8. \/ c.head = c.incoming /\ Goes(r, Done(r, "success", c.head)) /\ UNCHANGED states
      \/ /\ Goes(r, Done(r, "missing", Zero)) \/ Goes(r, Done(r, "not_found", Zero))
         /\ UNCHANGED states
      \/ /\ next.pc = "store" /\ Verified(states, c.incoming)
         /\ states' = Serialized(states, Renumbered(r))
         /\ Goes(r, [next EXCEPT !.incoming = Address(states, Renumbered(r))])
      \/ /\ next.pc # "store" /\ (next.pc # "done" => Verified(states, c.incoming))
         /\ Goes(r, next) /\ UNCHANGED states
  <2>1. next.pc = "store" => next.pc # "done"
    OBVIOUS
  <2> QED BY <1>0, <2>1 DEF PushPrepare
<1> QED BY <1>4, <1>5, <1>6, <1>7, <1>8

\* After moving a head a push is answered with it, or seals what it closed.
LEMMA MovedAll ==
    ASSUME Shaped, NEW r \in Request, NEW older, NEW newer, NEW all
    PROVE  LET m == Moved(r, older, newer, all)
               closed == SealedBoundaries(Number(all, older), Number(all, newer))
           IN  /\ DOMAIN m = CallFields
               /\ m.began = call[r].began
               /\ \/ /\ m.pc = "done" /\ m.head = Unread /\ m.status = "success"
                     /\ m.revision = newer
                  \/ /\ m.pc = "seal" /\ m.head = older /\ m.status = call[r].status
                     /\ m.revision = newer /\ m.todo = closed /\ closed # {}
<1> DEFINE m == Moved(r, older, newer, all)
<1>1. PICK closed : closed = SealedBoundaries(Number(all, older), Number(all, newer))
  OBVIOUS
<1>2. \/ m = Done(r, "success", newer)
      \/ /\ m = [To(r, "seal") EXCEPT !.head = older, !.revision = newer, !.todo = closed,
                                      !.meta = Unread]
         /\ closed # {}
  BY <1>1 DEF Moved
<1> HIDE DEF m
<1>3. CASE m = Done(r, "success", newer)
  BY <1>1, <1>3, DoneAll, SMT DEF m
<1>4. CASE /\ m = [To(r, "seal") EXCEPT !.head = older, !.revision = newer, !.todo = closed,
                                        !.meta = Unread]
           /\ closed # {}
  <2>1. PICK t : t = To(r, "seal")
    OBVIOUS
  <2>2. /\ DOMAIN t = CallFields /\ t.pc = "seal" /\ t.status = call[r].status
        /\ t.began = call[r].began
    BY <2>1, ToAll
  <2>3. /\ DOMAIN m = CallFields /\ m.pc = "seal" /\ m.head = older /\ m.status = call[r].status
        /\ m.revision = newer /\ m.todo = closed /\ m.began = call[r].began
    BY <1>4, <2>1, <2>2 DEF CallFields
  <2> QED BY <1>1, <1>4, <2>3 DEF m
<1> QED BY <1>2, <1>3, <1>4

\* A head that is moved on top of the old one, or by force.
LEMMA HeadMoves ==
    ASSUME LineInv, SoundHistory(states'), Extends(states, states'),
           NEW b \in Branch, NEW v, v # Zero,
           latest' = [latest EXCEPT ![b] = v],
           ~Forced(b)' => State(states', v).self = latest[b]
    PROVE  HeadsAdvance /\ latest'[b] = v /\ \A a \in Branch : a # b => latest'[a] = latest[a]
<1>1. DOMAIN latest = Branch
  BY DEF LineInv, Kept
<1>2. latest'[b] = v /\ \A a \in Branch : a # b => latest'[a] = latest[a]
  BY <1>1
<1>3. Stored'
  BY DEF Stored
<1>4. ASSUME NEW a \in Branch, ~Forced(a)' PROVE Advances(a)
  BY <1>2, <1>4 DEF Advances
<1> QED BY <1>2, <1>3, <1>4 DEF HeadsAdvance

\* A push that moved the head.
LEMMA MovedMoves ==
    ASSUME LineInv, WholeInv, NEW r \in Request, Calls(r), ask[r].kind = "push",
           call[r].status = None,
           SoundHistory(states'), Extends(states, states'), UNCHANGED <<steps, lists>>,
           NEW older, NEW v, v \in DOMAIN states', v # Zero, Verified(states', v),
           older = states'[v].self,
           latest' = [latest EXCEPT ![ask[r].branch] = v],
           call'[r] = Moved(r, older, v, states'),
           \/ older = latest[ask[r].branch]
           \/ ask[r].force /\ older = State(states, call[r].began).self
    PROVE  Moves(r) /\ Completes(r)
<1>0. PICK b, d : b = ask[r].branch /\ d = Moved(r, older, v, states')
  OBVIOUS
<1>1. PICK closed : closed = SealedBoundaries(Number(states', older), Number(states', v))
  OBVIOUS
<1>2. /\ DOMAIN d = CallFields /\ d.began = call[r].began
      /\ \/ /\ d.pc = "done" /\ d.head = Unread /\ d.status = "success" /\ d.revision = v
         \/ /\ d.pc = "seal" /\ d.head = older /\ d.status = None
            /\ d.revision = v /\ d.todo = closed /\ closed # {}
  BY <1>0, <1>1, MovedAll, SMT DEF LineInv
<1>3. call'[r] = d /\ Begun(r) /\ ask' = ask /\ b \in Branch
  BY <1>0, <1>2, Parts DEF Begun, Calls
<1>4. IsHistory(states') /\ State(states', v) = states'[v] /\ Held(states', v)
      /\ Held(states', older)
  BY Parents DEF SoundHistory
<1>5. ~Forced(b)' => older = latest[b]
  BY <1>0, <1>3, ForcedBy
<1>6. HeadsAdvance /\ latest'[b] = v /\ \A a \in Branch : a # b => latest'[a] = latest[a]
  BY <1>0, <1>3, <1>4, <1>5, HeadMoves
<1>7. Line(states', v) = {v} \cup Line(states', older)
  BY <1>4, LineUnfolds
<1>8. older = Zero \/ older \in Line(states', v)
  <2>1. older # Zero => older \in DOMAIN states'
    BY <1>4 DEF Held
  <2>2. older # Zero => older \in Line(states', older)
    BY <1>4, <2>1, LineUnfolds, SMT
  <2> QED BY <1>7, <2>2
<1>9. Fitting(r, d)'
  <2>1. d.pc = "seal" => Crossing(d.todo, d.head, d.revision)'
    BY <1>1, <1>2 DEF Crossing
  <2>2. CASE d.pc = "done"
    BY <1>2, <2>2 DEF Fitting, Working
  <2>3. CASE d.pc = "seal"
    BY <1>2, <1>4, <2>1, <2>3 DEF Fitting, Working
  <2> QED BY <1>2, <2>2, <2>3
<1>10. PushHolds(r, d)'
  <2>1. ask'[r].branch = b /\ Branching(b)' = Line(states', v)
    BY <1>0, <1>3, <1>6 DEF Branching
  <2>2. v \in Line(states', v)
    BY <1>7
  <2> QED BY <1>2, <1>8, <2>1, <2>2 DEF PushHolds
<1>11. Fits(r)' /\ Reaches(r)'
  BY <1>3, <1>9, <1>10 DEF Fits, Reaches, PushOnLine
<1>12. Covers(b)
  <2>1. CASE older = latest[b]
    <3>1. Line(states', older) = Line(states, latest[b])
      <4>1. IsHistory(states) /\ Held(states, older)
        BY <1>3, <2>1, Parts
      <4>2. Line(states', older) = Line(states, older)
        BY <1>4, <4>1, LineSame
      <4> QED BY <2>1, <4>2
    <3> QED BY <1>6, <1>7, <3>1 DEF Covers
  <2>2. CASE ask[r].force /\ older = State(states, call[r].began).self
    <3>1. State(states', call[r].began).self = older
      BY <2>2, Parts DEF Based, Extends
    <3>2. older \in Named(b)'
      BY <1>0, <1>2, <1>3, <2>2, <3>1 DEF Named
    <3> QED BY <1>6, <1>7, <3>2 DEF Covers
  <2> QED BY <1>0, <2>1, <2>2
<1>13. Checks(r)'
  BY <1>2, <1>3 DEF Checks, Checking, Working
<1>14. latest'[Default] # Zero
  BY <1>6, BranchAssumption DEF WholeInv
<1>15. Completes(r)
  BY <1>2, <1>3, <1>6, <1>12, <1>13, <1>14 DEF Completes
<1> QED BY <1>3, <1>6, <1>11, <1>15, KeysStay DEF Moves

\* A push stores its revision, based on the head it swaps out, or tries again.
LEMMA StoreMoves ==
    ASSUME LineInv, WholeInv, NEW r \in Request, PushStore(r)
    PROVE  Moves(r) /\ Completes(r)
<1>0. PICK b, c, older, v : /\ b = ask[r].branch /\ c = call[r] /\ v = call[r].incoming
                            /\ older = State(states, call[r].incoming).self
  OBVIOUS
<1>1. /\ Calls(r) /\ Shaped /\ b \in Branch /\ DOMAIN c = CallFields /\ Fits(r) /\ Based(r)
      /\ IsHistory(states) /\ SoundHistory(states) /\ IsStore(states)
      /\ Held(states, latest[b])
  BY <1>0, StepKeeps, Parts DEF Handle, Push
<1>2. ask[r].kind = "push" /\ c.pc = "store" /\ UNCHANGED <<states, steps, lists>>
  BY <1>0 DEF PushStore, At
<1>3. /\ c.status = None /\ v # Zero /\ v \in DOMAIN states /\ call[r].pc \in Working
  BY <1>0, <1>2, PushHas DEF Working
<1>4. /\ State(states, v) = states[v] /\ Verified(states, v)
      /\ older = c.head \/ (ask[r].force /\ older = State(states, c.began).self)
  <2>1. Verified(states, v) /\ older = State(states, c.began).self
    BY <1>0, <1>2, <1>3 DEF WholeInv, Checks, Checking
  <2>2. ask[r].force \/ older = c.head
    BY <1>0, <1>1, <1>2 DEF Based
  <2> QED BY <1>1, <1>3, <2>1, <2>2, Parents
<1>5. CASE /\ latest[b] = c.head /\ latest' = [latest EXCEPT ![b] = v]
           /\ Goes(r, Moved(r, older, v, states))
  <2>1. PICK d : d = Moved(r, older, v, states)
    OBVIOUS
  <2>2. DOMAIN d = CallFields
    BY <1>1, <2>1, MovedAll
  <2>3. call'[r] = Moved(r, older, v, states')
    BY <1>1, <1>2, <1>5, <2>1, <2>2, SetCall
  <2>4. SoundHistory(states') /\ Extends(states, states') /\ v \in DOMAIN states'
        /\ Verified(states', v) /\ older = states'[v].self
    BY <1>0, <1>1, <1>2, <1>3, <1>4, SameExtends
  <2>5. \/ older = latest[ask[r].branch]
        \/ ask[r].force /\ older = State(states, call[r].began).self
    BY <1>0, <1>4, <1>5
  <2>6. latest' = [latest EXCEPT ![ask[r].branch] = v] /\ call[r].status = None
    BY <1>0, <1>3, <1>5
  <2> QED BY <1>1, <1>2, <1>3, <2>3, <2>4, <2>5, <2>6, MovedMoves
<1>6. CASE Goes(r, Decided(r, latest[b])) /\ UNCHANGED latest
  <2>1. PICK d, current : d = Decided(r, latest[b]) /\ current = latest[b]
    OBVIOUS
  <2>2. DOMAIN d = CallFields
    BY <1>1, <2>1, DecidedFields
  <2>3. call'[r] = d /\ d = Decided(r, current)
    BY <1>1, <1>6, <2>1, <2>2, SetCall
  <2>4. current = Zero \/ current \in Branching(b)
    BY <1>1, <2>1, HeadOnLine
  <2>5. Held(states, current) /\ Verified(states, call[r].incoming)
    BY <1>0, <1>1, <1>4, <2>1
  <2> QED BY <1>0, <1>1, <1>2, <1>3, <1>6, <2>3, <2>4, <2>5, DecidedMoves
<1> QED BY <1>0, <1>5, <1>6 DEF PushStore

\* A push merges onto the head, or tries again on the one that is there now.
LEMMA MergeMoves ==
    ASSUME LineInv, WholeInv, NEW r \in Request, PushMerge(r)
    PROVE  Moves(r) /\ Completes(r)
<1>0. PICK b, c, v, head : /\ b = ask[r].branch /\ c = call[r] /\ v = call[r].incoming
                           /\ head = call[r].head
  OBVIOUS
<1>1. /\ Calls(r) /\ Shaped /\ b \in Branch /\ DOMAIN c = CallFields /\ Fits(r)
      /\ IsHistory(states) /\ Held(states, latest[b])
  BY <1>0, StepKeeps, Parts DEF Handle, Push
<1>2. ask[r].kind = "push" /\ c.pc = "merge" /\ UNCHANGED <<steps, lists>>
  BY <1>0 DEF PushMerge, At
<1>3. /\ c.status = None /\ v # Zero /\ v \in DOMAIN states /\ head # Unread
      /\ Held(states, head)
  BY <1>0, <1>2, PushHas DEF Working
<1>4. Verified(states, v)
  BY <1>0, <1>2 DEF WholeInv, Checks, Checking
<1>5. PICK a : a = Address(states, MergeState(r, head))
  OBVIOUS
<1>6. ASSUME NEW new, new = Serialized(states, MergeState(r, head))
      PROVE  /\ SoundHistory(new) /\ Extends(states, new)
             /\ a \in DOMAIN new /\ a # Zero /\ new[a] = State(new, a)
             /\ new[a].self = head /\ new[a].other = v /\ new[a].upload = "whole"
  <2>1. SoundHistory(states)
    BY DEF LineInv, Stored
  <2>2. Held(states, v) /\ Number(states, head) \in Nat /\ Number(states, v) \in Nat
    BY <1>1, <1>3, Parents, Reads
  <2>3. PICK n, s : /\ n = NextRevisionNumber(Number(states, head), Number(states, v))
                    /\ s = MergeState(r, head)
    OBVIOUS
  <2>4. n \in Nat /\ Number(states, head) < n /\ Number(states, v) < n
    BY <2>2, <2>3, NextNumber
  <2>5. /\ DOMAIN s = StateFields /\ s.self = head /\ s.other = v /\ s.upload = "whole"
        /\ s.number = n
    BY <1>0, <2>3 DEF MergeState, StateFields, Number
  <2>6. /\ Held(states, s.self) /\ Held(states, s.other) /\ s.number \in Nat
        /\ Number(states, s.self) < s.number /\ Number(states, s.other) < s.number
    BY <1>3, <2>2, <2>4, <2>5
  <2>7. new = Serialized(states, s) /\ a = Address(states, s)
    BY <1>5, <1>6, <2>3
  <2>8. /\ SoundHistory(new) /\ Extends(states, new)
        /\ a \in DOMAIN new /\ a # Zero /\ new[a] = s /\ State(new, a) = s
    BY <2>1, <2>5, <2>6, <2>7, Appended
  <2> QED BY <2>5, <2>8
<1>7. CASE /\ Goes(r, Done(r, "error", head)) \/ Goes(r, Done(r, "declined", head))
           /\ UNCHANGED <<states, latest>>
  <2>1. PICK status \in {"error", "declined"} : Goes(r, Done(r, status, head))
    BY <1>7
  <2>2. DOMAIN Done(r, status, head) = CallFields
    BY DoneFields
  <2>3. call'[r] = Done(r, status, head)
    BY <1>1, <2>1, <2>2, SetCall
  <2> QED BY <1>1, <1>2, <1>7, <2>3, DoneMoves, DoneCompletes
<1>8. CASE /\ Present(states, head) /\ states' = Serialized(states, MergeState(r, head))
           /\ latest[b] = head /\ latest' = [latest EXCEPT ![b] = a]
           /\ Goes(r, Moved(r, head, a, states'))
  <2>1. /\ SoundHistory(states') /\ Extends(states, states')
        /\ a \in DOMAIN states' /\ a # Zero /\ states'[a] = State(states', a)
        /\ states'[a].self = head /\ states'[a].other = v /\ states'[a].upload = "whole"
    BY <1>6, <1>8
  <2>2. PICK d : d = Moved(r, head, a, states')
    OBVIOUS
  <2>3. DOMAIN d = CallFields
    BY <1>1, <2>2, MovedAll
  <2>4. call'[r] = d
    BY <1>1, <1>8, <2>2, <2>3, SetCall
  <2>5. /\ latest' = [latest EXCEPT ![ask[r].branch] = a] /\ call[r].status = None
        /\ head = latest[ask[r].branch]
    BY <1>0, <1>3, <1>8
  <2>6. Verified(states', a)
    <3>1. Held(states, v) /\ Present(states, v)
      BY <1>3, <1>4 DEF Held, Verified, Present
    <3>2. State(states', v) = State(states, v) /\ State(states', head) = State(states, head)
      BY <1>3, <2>1, <3>1 DEF Extends
    <3>3. Present(states', v) /\ Present(states', head)
      BY <1>8, <3>1, <3>2 DEF Present
    <3> QED BY <2>1, <3>3 DEF Verified
  <2> QED BY <1>1, <1>2, <2>1, <2>2, <2>4, <2>5, <2>6, MovedMoves
<1>9. CASE /\ states' = Serialized(states, MergeState(r, head))
           /\ Goes(r, [c EXCEPT !.head = latest[b]]) /\ UNCHANGED latest
  <2>1. SoundHistory(states') /\ Extends(states, states')
    BY <1>6, <1>9
  <2>2. PICK d, h : d = [c EXCEPT !.head = latest[b]] /\ h = latest[b]
    OBVIOUS
  <2>3. /\ DOMAIN d = CallFields /\ d.pc = "merge" /\ d.head = h /\ d.incoming = v
        /\ d.status = None /\ d.began = c.began
    BY <1>0, <1>1, <1>2, <1>3, <2>2 DEF CallFields
  <2>4. call'[r] = d
    BY <1>1, <1>9, <2>2, <2>3, SetCall
  <2>5. Held(states', h) /\ h # Unread
    BY <1>1, <2>1, <2>2, HeldRead DEF Extends
  <2>6. Fitting(r, d)'
    BY <1>3, <2>3, <2>5 DEF Fitting, Working
  <2>7. ~Forced(b) => PushHolds(r, d)
    <3>1. h = Zero \/ h \in Branching(b)
      BY <1>1, <2>2, HeadOnLine
    <3> QED BY <1>0, <2>3, <3>1, BranchAssumption DEF PushHolds
  <2>8. d.pc # "idle" /\ d.began = call[r].began
    BY <1>0, <2>3
  <2>9. /\ Verified(states', v) /\ ask'[r].kind = "push"
        /\ State(states', v).self = State(states', c.began).self
    <3>1. Held(states, v) /\ Held(states, c.began)
      BY <1>0, <1>3 DEF Held, LineInv, Kept, Based
    <3>2. State(states, v).self = State(states, c.began).self
      BY <1>0, <1>2 DEF WholeInv, Checks, Checking, Working
    <3>3. State(states', v) = State(states, v) /\ State(states', c.began) = State(states, c.began)
      BY <2>1, <3>1 DEF Extends
    <3>4. Verified(states', v)
      BY <1>1, <1>4, <2>1, <3>1, SameVerified
    <3> QED BY <1>1, <1>2, <3>2, <3>3, <3>4 DEF Calls
  <2>10. Checking(r, d)'
    BY <2>3, <2>9 DEF Checking
  <2> QED BY <1>0, <1>1, <1>2, <1>9, <2>1, <2>4, <2>6, <2>7, <2>8, <2>10, PushGrows
<1> QED BY <1>0, <1>5, <1>7, <1>8, <1>9 DEF PushMerge

\* What a push that seals or caches holds.
LEMMA SealHas ==
    ASSUME LineInv, NEW r \in Request, ask[r].kind = "push", call[r].pc \in {"seal", "cache"}
    PROVE  /\ call[r].status = None
           /\ call[r].head # Unread => Held(states, call[r].head)
           /\ Crossing(call[r].todo, call[r].head, call[r].revision)
           /\ ~Forced(ask[r].branch) =>
                 /\ call[r].head # Unread =>
                       call[r].head = Zero \/ call[r].head \in Branching(ask[r].branch)
                 /\ call[r].revision \in Branching(ask[r].branch)
<1>1. Fits(r) /\ Reaches(r)
  BY Parts
<1>2. call[r].pc # "done"
  OBVIOUS
<1>3. /\ call[r].status = None
      /\ call[r].head # Unread => Held(states, call[r].head)
      /\ Crossing(call[r].todo, call[r].head, call[r].revision)
  BY <1>1, <1>2 DEF Fits, Fitting
<1>4. ~Forced(ask[r].branch) =>
         /\ call[r].head # Unread =>
               call[r].head = Zero \/ call[r].head \in Branching(ask[r].branch)
         /\ call[r].revision \in Branching(ask[r].branch)
  BY <1>1 DEF Reaches, PushOnLine, PushHolds
<1> QED BY <1>3, <1>4

\* What a push that seals or caches goes on with.
LEMMA SealGoes ==
    ASSUME LineInv, WholeInv, NEW r \in Request, Calls(r), ask[r].kind = "push",
           call[r].pc \in {"seal", "cache"}, UNCHANGED <<states, latest>>,
           NEW d, call'[r] = d, KeysRight,
           \/ d = Done(r, "success", call[r].revision)
           \/ /\ DOMAIN d = CallFields /\ d.pc \in {"seal", "cache"}
              /\ d.head = call[r].head /\ d.revision = call[r].revision
              /\ d.status = call[r].status /\ d.began = call[r].began
              /\ Crossing(d.todo, call[r].head, call[r].revision)
    PROVE  Moves(r) /\ Completes(r)
<1>0. PICK b, c : b = ask[r].branch /\ c = call[r]
  OBVIOUS
<1>1. /\ c.status = None
      /\ c.head # Unread => Held(states, c.head)
      /\ ~Forced(b) => /\ c.head # Unread => c.head = Zero \/ c.head \in Branching(b)
                       /\ c.revision \in Branching(b)
  BY <1>0, SealHas
<1>2. CASE d = Done(r, "success", c.revision)
  <2>1. /\ d.pc = "done" /\ d.head = Unread /\ d.status = "success" /\ d.revision = c.revision
        /\ d.began = call[r].began
    BY <1>2, DoneAll, SMT
  <2>2. Fitting(r, d)
    BY <2>1 DEF Fitting, Working
  <2>3. ~Forced(b) => PushHolds(r, d)
    BY <1>0, <1>1, <2>1 DEF PushHolds
  <2>4. d.pc # "idle" /\ Checking(r, d)
    BY <2>1 DEF Checking, Working
  <2> QED BY <1>0, <2>1, <2>2, <2>3, <2>4, PushQuiet
<1>3. CASE /\ DOMAIN d = CallFields /\ d.pc \in {"seal", "cache"}
           /\ d.head = c.head /\ d.revision = c.revision /\ d.status = c.status
           /\ d.began = c.began
           /\ Crossing(d.todo, c.head, c.revision)
  <2>1. Fitting(r, d)
    BY <1>1, <1>3 DEF Fitting, Working
  <2>2. ~Forced(b) => PushHolds(r, d)
    BY <1>0, <1>1, <1>3 DEF PushHolds
  <2>3. d.pc # "idle" /\ Checking(r, d)
    BY <1>3 DEF Checking, Working
  <2> QED BY <1>0, <1>3, <2>1, <2>2, <2>3, PushQuiet
<1> QED BY <1>0, <1>2, <1>3

\* A push that moved the head seals the boundaries it closed.
LEMMA SealMoves ==
    ASSUME LineInv, WholeInv, NEW r \in Request, PushSeal(r)
    PROVE  Moves(r) /\ Completes(r)
<1>0. PICK b, c, k : b = ask[r].branch /\ c = call[r] /\ k = Lowest(call[r].todo)
  OBVIOUS
<1>1. /\ Calls(r) /\ Shaped /\ b \in Branch /\ DOMAIN c = CallFields
      /\ SoundHistory(states) /\ Held(states, latest[b])
  BY <1>0, StepKeeps, Parts DEF Handle, Push
<1>2. PICK v, closed :
          /\ v = SealedRevision(states, k, c.head, c.revision)
          /\ closed = SealedBoundaries(Number(states, c.head), Number(states, c.revision))
  OBVIOUS
<1> DEFINE t == To(r, "cache")
           f == [t EXCEPT !.todo = closed]
           g == [c EXCEPT !.todo = c.todo \ {k}]
           d == IF c.todo = {k} THEN f ELSE g
<1>3. /\ ask[r].kind = "push" /\ c.pc = "seal" /\ UNCHANGED <<states, latest, lists>>
      /\ steps' = [steps EXCEPT ![b][k] = v] /\ Goes(r, d)
  BY <1>0, <1>2 DEF PushSeal, At
<1>4. /\ Crossing(c.todo, c.head, c.revision)
      /\ ~Forced(b) => c.revision \in Branching(b)
  BY <1>0, <1>3, SealHas
<1>5. /\ k \in closed /\ Crossing(closed, c.head, c.revision)
      /\ c.todo # {k} => Crossing(c.todo \ {k}, c.head, c.revision)
  <2>1. k \in closed /\ (c.todo # {k} => Crossing(c.todo \ {k}, c.head, c.revision))
    BY <1>0, <1>1, <1>2, <1>4, CrossingOn
  <2> QED BY <1>2, <1>4, <2>1 DEF Crossing
<1>6. /\ DOMAIN t = CallFields /\ t.pc = "cache" /\ t.head = c.head /\ t.revision = c.revision
      /\ t.status = c.status /\ t.began = c.began
  BY <1>0, <1>1, ToAll
<1> HIDE DEF t
<1>7. /\ DOMAIN f = CallFields /\ f.pc = "cache" /\ f.head = c.head /\ f.revision = c.revision
      /\ f.status = c.status /\ f.todo = closed /\ f.began = c.began
      /\ DOMAIN g = CallFields /\ g.pc = "seal" /\ g.head = c.head /\ g.revision = c.revision
      /\ g.status = c.status /\ g.todo = c.todo \ {k} /\ g.began = c.began
  BY <1>1, <1>3, <1>6 DEF CallFields
<1>8. d = f \/ (d = g /\ c.todo # {k})
  OBVIOUS
<1> HIDE DEF f, g, d
<1>9. /\ DOMAIN d = CallFields /\ d.pc \in {"seal", "cache"} /\ d.head = c.head
      /\ d.revision = c.revision /\ d.status = c.status /\ d.began = c.began
      /\ Crossing(d.todo, c.head, c.revision)
  BY <1>5, <1>7, <1>8
<1>10. call'[r] = d
  BY <1>1, <1>3, <1>9, SetCall
<1>11. ~Forced(b)' => ~Forced(b)
  BY <1>1, <1>9, <1>10, ForcedStays DEF Begun
<1>12. ASSUME ~Forced(b) PROVE v = Zero \/ TopAt(b, k, v)
  <2>1. c.revision \in Line(states, latest[b])
    BY <1>4, <1>12 DEF Branching
  <2>2. c.revision \in DOMAIN states /\ c.head = states[c.revision].self
    BY <1>4 DEF Crossing
  <2>3. v = c.head
    BY <1>1, <1>2, <1>5, <2>2, SealsParent
  <2>4. /\ k < Number(states, latest[b]) /\ Number(states, c.head) <= k
        /\ c.head # Zero => c.head \in Line(states, latest[b])
        /\ \A w \in Line(states, latest[b]) :
              Number(states, w) <= k => Number(states, w) <= Number(states, c.head)
    BY <1>1, <1>2, <1>5, <2>1, <2>2, ParentTops
  <2> QED BY <2>3, <2>4 DEF TopAt, Branching
<1>13. KeysRight
  BY <1>1, <1>3, <1>11, <1>12, StepsSet
<1>14. PICK e : e = d
  OBVIOUS
<1> QED BY <1>0, <1>1, <1>3, <1>9, <1>10, <1>13, <1>14, SealGoes

\* It then caches the segments it closed.
LEMMA CacheMoves ==
    ASSUME LineInv, WholeInv, NEW r \in Request, PushCache(r)
    PROVE  Moves(r) /\ Completes(r)
<1>0. PICK b, c, k : b = ask[r].branch /\ c = call[r] /\ k = Highest(call[r].todo)
  OBVIOUS
<1>1. /\ Calls(r) /\ Shaped /\ b \in Branch /\ DOMAIN c = CallFields
      /\ SoundHistory(states) /\ Held(states, latest[b])
  BY <1>0, StepKeeps, Parts DEF Handle, Push
<1>2. PICK closed :
          closed = SealedBoundaries(Number(states, c.head), Number(states, c.revision))
  OBVIOUS
<1>3. PICK segment : segment = ClosedSegment(states, c.revision, closed, k)
  OBVIOUS
<1> DEFINE f == Done(r, "success", c.revision)
           g == [c EXCEPT !.todo = c.todo \ {k}]
           d == IF c.todo = {k} THEN f ELSE g
<1>4. /\ ask[r].kind = "push" /\ c.pc = "cache" /\ UNCHANGED <<states, latest, steps>>
      /\ lists' = IF segment = {} THEN lists ELSE [lists EXCEPT ![b][k] = segment]
      /\ Goes(r, d)
  BY <1>0, <1>2, <1>3 DEF PushCache, At
<1>5. /\ Crossing(c.todo, c.head, c.revision)
      /\ ~Forced(b) => c.revision \in Branching(b)
  BY <1>0, <1>4, SealHas
<1>6. k \in closed /\ (c.todo # {k} => Crossing(c.todo \ {k}, c.head, c.revision))
  BY <1>0, <1>1, <1>2, <1>5, CrossingOn
<1>7. DOMAIN f = CallFields /\ f.pc = "done"
  BY DoneAll, SMT
<1>8. /\ DOMAIN g = CallFields /\ g.pc = "cache" /\ g.head = c.head /\ g.revision = c.revision
      /\ g.status = c.status /\ g.todo = c.todo \ {k} /\ g.began = c.began
  BY <1>1, <1>4 DEF CallFields
<1>9. d = f \/ (d = g /\ c.todo # {k})
  OBVIOUS
<1> HIDE DEF g, d
<1>10. \/ d = Done(r, "success", c.revision)
       \/ /\ DOMAIN d = CallFields /\ d.pc \in {"seal", "cache"} /\ d.head = c.head
          /\ d.revision = c.revision /\ d.status = c.status /\ d.began = c.began
          /\ Crossing(d.todo, c.head, c.revision)
  BY <1>6, <1>8, <1>9
<1> HIDE DEF f
<1>11. call'[r] = d /\ d.pc # "idle"
  BY <1>1, <1>4, <1>7, <1>8, <1>9, SetCall
<1>12. ~Forced(b)' => ~Forced(b)
  BY <1>1, <1>11, ForcedStays DEF Begun
<1>13. ASSUME ~Forced(b), segment # {} PROVE ListAt(b, k, segment)
  <2>1. c.revision \in Line(states, latest[b])
    BY <1>5, <1>13 DEF Branching
  <2>2. c.revision \in DOMAIN states /\ c.head = states[c.revision].self
    BY <1>5 DEF Crossing
  <2>3. segment \in {{}, Segment(states, Line(states, latest[b]), k)}
    BY <1>1, <1>2, <1>3, <1>6, <2>1, <2>2, ClosedIs
  <2>4. k < Number(states, latest[b])
    BY <1>1, <1>2, <1>6, <2>1, <2>2, ParentTops
  <2> QED BY <1>13, <2>3, <2>4 DEF ListAt, Branching
<1>14. \/ lists' = lists
       \/ /\ lists' = [lists EXCEPT ![b][k] = segment]
          /\ ~Forced(b)' => ListAt(b, k, segment)
  BY <1>4, <1>12, <1>13
<1>15. KeysRight
  BY <1>1, <1>4, <1>14, ListsSet
<1>16. PICK e : e = d
  OBVIOUS
<1> QED BY <1>0, <1>1, <1>4, <1>10, <1>11, <1>15, <1>16, SealGoes

\* What a push does keeps to the line, and adds to it what was verified.
LEMMA PushesMove ==
    ASSUME LineInv, WholeInv, NEW r \in Request, Push(r)
    PROVE  Moves(r) /\ Completes(r)
BY ArriveMoves, LoadMoves, NameMoves, PrepareMoves, StoreMoves, MergeMoves, SealMoves,
   CacheMoves DEF Push

-----------------------------------------------------------------------------
(***************************************************************************)
(* The theorems                                                            *)
(***************************************************************************)

\* Every step of every request keeps the invariants.
LEMMA NextLineInv == LineInv /\ WholeInv /\ [Next]_vars => LineInv' /\ WholeInv'
<1> SUFFICES ASSUME LineInv, WholeInv, [Next]_vars PROVE LineInv' /\ WholeInv'
  OBVIOUS
<1>1. CASE Next
  <2>1. PICK r \in Request : Handle(r) \/ End(r)
    BY <1>1 DEF Next
  <2>2. Moves(r) /\ Completes(r)
    <3>1. CASE Push(r)
      BY <3>1, PushesMove
    <3>2. CASE Find(r)
      BY <3>2, WholeIsIntact, FindsMove, OthersComplete
    <3>3. CASE Create(r)
      BY <3>3, AdminMoves, CreateCompletes
    <3>4. CASE Administer(r)
      BY <3>4, AdminMoves, OthersComplete
    <3>5. CASE End(r)
      BY <3>5, EndMoves, EndCompletes
    <3> QED BY <2>1, <3>1, <3>2, <3>3, <3>4, <3>5 DEF Handle
  <2>3. LineInv'
    BY <2>1, <2>2, MovesKeep
  <2>4. Calls(r) /\ Extends(states, states') /\ IsHistory(states')
    BY <2>1, <2>3, StepKeeps DEF Keeps, LineInv, Stored, SoundHistory
  <2> QED BY <2>2, <2>3, <2>4, CompletesKeep
<1>2. CASE UNCHANGED vars
  <2>1. UNCHANGED <<states, latest, meta, names, steps, lists, ask, call, ends>>
    BY <1>2 DEF vars, storeVars
  <2>2. Shaped' /\ Kept'
    BY <1>2, NextShaped, NextKept DEF LineInv
  <2>3. Stored' /\ Keys'
    BY <2>1 DEF LineInv, Stored, Keys
  <2>4. \A r \in Request : ask'[r].kind = "find" => Wanted(r)' \in Boundary
    BY <2>1 DEF LineInv, Wanted
  <2>5. \A b \in Branch : Keyed(b)'
    BY <2>1 DEF LineInv, Keyed, Forced, TopAt, ListAt, Branching
  <2>6. ASSUME NEW r \in Request PROVE Fits(r)' /\ Reaches(r)'
    <3>1. Fits(r) /\ Reaches(r)
      BY DEF LineInv
    <3>2. Fits(r)'
      BY <2>1, <3>1 DEF Fits, Fitting, Crossing
    <3>3. /\ Forced(ask[r].branch)' <=> Forced(ask[r].branch)
          /\ PushOnLine(r)' <=> PushOnLine(r)
      BY <2>1 DEF Forced, PushOnLine, PushHolds, Branching
    <3>4. FindOnLine(r)' <=> FindOnLine(r)
      BY <2>1 DEF FindOnLine, FindHolds, TopAt, Branching, Wanted, Crossing
    <3>5. ask'[r] = ask[r]
      BY <2>1
    <3> QED BY <3>1, <3>2, <3>3, <3>4, <3>5 DEF Reaches
  <2>7. WholeInv'
    <3>1. \A r \in Request : Checks(r)'
      BY <2>1 DEF WholeInv, Checks, Checking
    <3>2. \A b \in Branch : Named(b)' = Named(b)
      BY <2>1 DEF Named
    <3>3. LineWhole'
      BY <2>1, <3>2 DEF WholeInv, LineWhole
    <3> QED BY <2>1, <3>1, <3>3 DEF WholeInv
  <2> QED BY <2>2, <2>3, <2>4, <2>5, <2>6, <2>7 DEF LineInv
<1> QED BY <1>1, <1>2

\* What the repository starts with: each revision is based on the one before.
LEMMA InitStates ==
    ASSUME Init
    PROVE  /\ DOMAIN states = 1 .. Grown
           /\ \A i \in 1 .. Grown :
                 /\ states[i].self = i - 1 /\ states[i].other = Zero /\ states[i].number = i
                 /\ states[i].upload = Uploaded[i]
           /\ \A v \in 0 .. Grown : Number(states, v) = v
<1>1. Grown \in Nat
  BY BranchAssumption
<1>2. DOMAIN states = 1 .. Grown
  BY DEF Init
<1>3. ASSUME NEW i \in 1 .. Grown
      PROVE  /\ states[i].self = i - 1 /\ states[i].other = Zero /\ states[i].number = i
             /\ states[i].upload = Uploaded[i]
  <2> DEFINE first == [EmptyState EXCEPT !.self = i - 1, !.number = i, !.upload = Uploaded[i]]
  <2>1. states[i] = first
    BY DEF Init
  <2>2. /\ first.self = i - 1 /\ first.other = Zero /\ first.number = i
        /\ first.upload = Uploaded[i]
    BY DEF EmptyState
  <2> QED BY <2>1, <2>2
<1>4. \A v \in 0 .. Grown : Number(states, v) = v
  BY <1>1, <1>3, SMT DEF Number, State, EmptyState, Zero
<1> QED BY <1>2, <1>3, <1>4

\* The repository starts with one line of revisions, and no keys.
LEMMA InitLineInv == Init => LineInv
<1> SUFFICES ASSUME Init PROVE LineInv
  OBVIOUS
<1>1. Shaped /\ Kept
  BY InitShaped, InitKept
<1>2. IsStore(states) /\ Grown \in Nat /\ Trunk \in 1 .. Grown
  BY <1>1, BranchAssumption DEF Kept
<1>3. /\ DOMAIN states = 1 .. Grown
      /\ \A i \in 1 .. Grown :
            states[i].self = i - 1 /\ states[i].other = Zero /\ states[i].number = i
      /\ \A v \in 0 .. Grown : Number(states, v) = v
  BY InitStates
<1>4. IsHistory(states)
  BY <1>2, <1>3, SMT DEF IsHistory, Zero
<1>5. SoundHistory(states)
  <2>1. ASSUME NEW i \in 1 .. Grown
        PROVE  /\ Number(states, states[i].self) < Number(states, i)
               /\ Number(states, states[i].other) < Number(states, i)
    BY <1>2, <1>3, SMT DEF Zero
  <2> QED BY <1>3, <1>4, <2>1 DEF SoundHistory
<1>6. Stored
  BY <1>5 DEF Stored
<1>7. Keys /\ \A b \in Branch : Keyed(b)
  BY DEF Init, Keys, Keyed
<1>8. ASSUME NEW r \in Request, ask[r].kind = "find" PROVE Wanted(r) \in Boundary
  BY <1>8, ScenesAssumption DEF Init, Wanted
<1>9. ASSUME NEW r \in Request PROVE Fits(r) /\ Reaches(r)
  <2>1. /\ call[r].pc = "idle" /\ call[r].status = None /\ call[r].head = Unread
        /\ call[r].began = Zero
    BY DEF Init, NoCall
  <2>2. Fits(r)
    BY <2>1 DEF Fits, Fitting, Working
  <2>3. PushOnLine(r) /\ FindOnLine(r)
    BY <2>1, BranchAssumption DEF PushOnLine, PushHolds, FindOnLine, FindHolds
  <2> QED BY <2>2, <2>3 DEF Reaches
<1> QED BY <1>1, <1>6, <1>7, <1>8, <1>9 DEF LineInv

\* The default branch starts with revisions that are all there.
LEMMA InitWholeInv == Init => WholeInv
<1> SUFFICES ASSUME Init PROVE WholeInv
  OBVIOUS
<1>1. LineInv
  BY InitLineInv
<1>2. /\ IsHistory(states) /\ Grown \in Nat /\ Trunk \in 1 .. Grown /\ Default \in Branch
      /\ \A i \in 1 .. Trunk : Uploaded[i] = "whole"
  BY <1>1, BranchAssumption DEF LineInv, Stored, SoundHistory
<1>3. ASSUME NEW r \in Request
      PROVE  call[r].pc = "idle" /\ call[r].began = Zero /\ call[r].revision = Zero
  BY DEF Init, NoCall
<1>4. \A r \in Request : Checks(r)
  BY <1>3 DEF Checks, Checking, Working, Held
<1>5. latest[Default] = Trunk /\ \A b \in Branch : b # Default => latest[b] = Zero
  BY <1>2 DEF Init
<1>6. ASSUME NEW b \in Branch, NEW v \in Line(states, latest[b]) PROVE Verified(states, v)
  <2>1. Line(states, Zero) = {}
    BY <1>2, LineUnfolds
  <2>2. b = Default
    BY <1>5, <1>6, <2>1
  <2>3. Held(states, Trunk)
    BY <1>1, <1>2, <1>5 DEF LineInv, Kept
  <2>4. v \in 1 .. Trunk
    BY <1>2, <1>5, <1>6, <2>2, <2>3, LineBound
  <2>5. \A w \in 0 .. Trunk : State(states, w).upload = "whole"
    <3>1. \A i \in 1 .. Grown : states[i].upload = Uploaded[i]
      BY InitStates
    <3> QED BY <1>2, <3>1, SMT DEF State, EmptyState, Zero
  <2>6. State(states, v).self \in 0 .. Trunk /\ State(states, v).other \in 0 .. Trunk
    <3>1. \A i \in 1 .. Grown : states[i].self = i - 1 /\ states[i].other = Zero
      BY InitStates
    <3> QED BY <1>2, <2>4, <3>1, SMT DEF State, Zero
  <2>7. v \in 0 .. Trunk
    BY <2>4, SMT
  <2> QED BY <2>5, <2>6, <2>7 DEF Verified, Present
<1>7. latest[Default] # Zero
  BY <1>2, <1>5, SMT DEF Zero
<1> QED BY <1>4, <1>6, <1>7 DEF WholeInv, LineWhole

\* Whatever the requests do, in whatever order, and wherever they end: revisions
\* are numbered above their parents, what lines lack is at or below a revision
\* that was named, and, unless a push was forced, what requests hold and what the
\* keys say is of the line.
THEOREM LineInvariant == Spec => [](LineInv /\ WholeInv)
BY InitLineInv, InitWholeInv, NextLineInv, PTL DEF Spec

\* The number a client gave its revision is replaced before the head is moved
\* to it, and a merge is numbered above both sides: down every line the numbers
\* get smaller (store_new_head, try_fast_forward_merge).
THEOREM NumbersOnLinesGrow == Spec => []NumbersGrow
<1>1. LineInv => NumbersGrow
  <2> SUFFICES ASSUME LineInv, NEW b \in Branch, NEW v \in Line(states, latest[b])
               PROVE  /\ Number(states, State(states, v).self) < Number(states, v)
                      /\ Number(states, State(states, v).other) < Number(states, v)
    BY DEF NumbersGrow
  <2>1. SoundHistory(states) /\ IsHistory(states) /\ Held(states, latest[b])
    BY DEF LineInv, Stored, Kept, SoundHistory
  <2>2. v \in DOMAIN states
    BY <2>1, OnLineTypes
  <2>3. State(states, v) = states[v]
    BY <2>1, <2>2, Parents
  <2> QED BY <2>1, <2>2, <2>3 DEF SoundHistory
<1> QED BY <1>1, LineInvariant, PTL

\* A push moves a head only to a revision that it verified, parents included, or
\* to a merge of one, whatever branches were created at, whatever was pushed
\* before it and however often it tries: what a line lacks is at or below a
\* revision a client named (verify_incoming_fragments, load_other_parent_state,
\* try_fast_forward_merge).
THEOREM LinesAreWhole == Spec => []LineWhole
<1>1. WholeInv => LineWhole
  BY DEF WholeInv
<1> QED BY <1>1, LineInvariant, PTL

\* A push is answered with a revision that is and stays on the line of its
\* branch: the head is only swapped for one on top of it (try_store_latest).
THEOREM AcknowledgedStays == Spec => []AcknowledgedKept
<1>1. LineInv => AcknowledgedKept
  BY DEF LineInv, AcknowledgedKept, Reaches, PushOnLine, PushHolds, Branching
<1> QED BY <1>1, LineInvariant, PTL

\* Step keys and cached segments say what the line says, though each is written
\* some time after the head moved, while it moves on and others write them too:
\* what a move closed never changes (store_history_step, try_backfill_segment,
\* walk_revisions).
THEOREM KeysAreOnLine == Spec => []StepsOnLine
<1>1. LineInv => StepsOnLine
  <2> SUFFICES ASSUME LineInv, NEW b \in Branch, ~Forced(b), NEW k \in Boundary
               PROVE  LET line == Line(states, latest[b])
                          below == {v \in line : Number(states, v) <= k}
                      IN  /\ steps[b][k] # Zero =>
                               /\ steps[b][k] \in below
                               /\ \A v \in below : Number(states, v)
                                                       <= Number(states, steps[b][k])
                          /\ lists[b][k] # {} => lists[b][k] = Segment(states, line, k)
    BY DEF StepsOnLine
  <2>1. /\ steps[b][k] # Zero => TopAt(b, k, steps[b][k])
        /\ lists[b][k] # {} => ListAt(b, k, lists[b][k])
    BY DEF LineInv, Keyed
  <2> QED BY <2>1 DEF TopAt, ListAt, Branching
<1> QED BY <1>1, LineInvariant, PTL

\* A lookup by number is answered right from whichever of segment, step key and
\* walk answers it, while the head moves, the keys are written, and reads and
\* writes of them fail (accelerated_start, resolve_via_step_key, walk_revisions).
THEOREM LookupsAreRight == Spec => []FindsOnLine
<1>1. LineInv => FindsOnLine
  <2> SUFFICES ASSUME LineInv, NEW r \in Request, ask[r].kind = "find",
                      call[r].status \in {"found", "absent"}, ~Forced(ask[r].branch)
               PROVE  IF call[r].revision = Zero
                      THEN \A v \in Line(states, call[r].began) : Number(states, v) # ask[r].number
                      ELSE /\ call[r].revision \in Line(states, latest[ask[r].branch])
                           /\ Number(states, call[r].revision) = ask[r].number
    BY DEF FindsOnLine
  <2>1. FindHolds(r, call[r])
    BY DEF LineInv, Reaches, FindOnLine
  <2>2. IF call[r].revision = Zero
        THEN \A w \in Line(states, call[r].began) : Number(states, w) # ask[r].number
        ELSE /\ call[r].revision \in Branching(ask[r].branch)
             /\ Number(states, call[r].revision) = ask[r].number
    BY <2>1 DEF FindHolds
  <2> QED BY <2>2 DEF Branching
<1> QED BY <1>1, LineInvariant, PTL
=============================================================================
