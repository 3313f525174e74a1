-------------------------- MODULE MCFragmentStore --------------------------
(***************************************************************************)
(* Instances of FragmentStore.  x and y are one content in two contexts,   *)
(* z is another, the root of a list where a scene has one.                 *)
(***************************************************************************)
EXTENDS FragmentStore, TLC

CONSTANTS x, y, z, X, Z, t1, t2, t3, t4, w1

Contents == x :> X @@ y :> X @@ z :> Z

None == [op |-> "none", addr |-> x, session |-> FALSE, cache |-> FALSE, publish |-> FALSE,
         tracker |-> NoTracker, leaves |-> {}, trust |-> FALSE, wait |-> FALSE]
Store(a) == [None EXCEPT !.op = "store", !.addr = a, !.session = TRUE]
LocalStore(a) == [Store(a) EXCEPT !.session = FALSE]
Track(j) == [j EXCEPT !.tracker = w1]
Cached(j) == [j EXCEPT !.cache = TRUE]
Key1(j) == [j EXCEPT !.publish = TRUE]
Load(a) == [None EXCEPT !.op = "load", !.addr = a, !.session = TRUE, !.wait = TRUE]
Trusting(j) == [j EXCEPT !.trust = TRUE]
LocalLoad(a) == [Load(a) EXCEPT !.session = FALSE]
ImpatientLoad(a) == [Load(a) EXCEPT !.wait = FALSE]

Jobs(j1, j2, j3, j4) == t1 :> j1 @@ t2 :> j2 @@ t3 :> j3 @@ t4 :> j4

Nowhere == [a \in Address |-> NoEntry]
Absent == [a \in Address |-> "none"]
Have(payload, durable) == [payload |-> payload, durable |-> durable, by |-> NoTask]
Scene(l, r, j, n) == [local |-> l, remote |-> r, job |-> j, mishaps |-> n]

\* Stores of one address, tracked and inline, and a load of it.
Writes ==
    {Scene(Nowhere, Absent, Jobs(j[1], j[2], j[3], None), j[4])
        : j \in {<<Track(Store(x)), Track(Store(x)), None, 2>>,
                 <<Track(Store(x)), LocalStore(x), LocalLoad(x), 1>>,
                 <<Key1(Store(x)), Store(x), None, 2>>}}

\* Stores of a content that the remote has in another context.
Copies ==
    {Scene([Nowhere EXCEPT ![y] = Have("whole", TRUE)], [Absent EXCEPT ![y] = "whole"],
           Jobs(j[1], j[2], None, None), 1)
        : j \in {<<Track(Store(x)), Cached(Store(x))>>, <<Track(Store(x)), LocalStore(x)>>,
                 <<None, Key1(Store(y))>>}}

\* A published list of two identical chunks, and another store of the chunk.
Lists ==
    {Scene(Nowhere, Absent,
           Jobs(Store(x), Store(x), [Key1(Store(z)) EXCEPT !.leaves = {t1, t2}], j), 1)
        : j \in {None, LocalStore(x)}}

\* Loads of one content, over what the remote may have of it.
Loads ==
    {Scene([Nowhere EXCEPT ![x] = s[1]], [Absent EXCEPT ![x] = s[2], ![y] = s[3]],
           Jobs(Load(x), s[4], s[5], None), 1)
        : s \in {<<NoEntry, "none", "whole", Cached(Load(y)), Load(x)>>,
                 <<NoEntry, "wrong", "none", Cached(Trusting(Load(x))), Load(x)>>,
                 <<NoEntry, "broken", "none", Trusting(Load(x)), None>>,
                 <<Have("broken", TRUE), "wrong", "whole", Load(y), ImpatientLoad(x)>>}}

AllScenes == Writes \cup Copies \cup Lists \cup Loads

=============================================================================
