-------------------------- MODULE MCBranchService --------------------------
(***************************************************************************)
(* Instances of BranchService for TLC: scenes of three requests, some of   *)
(* which race on the head, some on the names and the metadata.             *)
(***************************************************************************)
EXTENDS BranchService, TLC

CONSTANTS main, side, fork, r1, r2, r3, fa, fb

\* A push of a change of file fa to the default branch.
Plain == [kind |-> "push", branch |-> main, file |-> fa, onto |-> None,
          merges |-> Zero, off |-> 0, upload |-> "whole", force |-> FALSE,
          merge |-> FALSE, privileged |-> FALSE, again |-> None]
Merging == [Plain EXCEPT !.merge = TRUE]
OfB(push) == [push EXCEPT !.file = fb]
Again(push, r) == [push EXCEPT !.again = r]

Lookup(n) == [kind |-> "find", branch |-> main, number |-> n]
Creation(id, n) == [kind |-> "create", branch |-> id, name |-> n, point |-> 1]
CreationAt(id, v) == [Creation(id, id) EXCEPT !.point = v]
Deletion(id) == [kind |-> "delete", branch |-> id]
Protection(id, on) == [kind |-> "protect", branch |-> id, on |-> on]
Annotation(id) == [kind |-> "annotate", branch |-> id]

Scene(x, y, z) == r1 :> x @@ r2 :> y @@ r3 :> z

\* Pushes that race on the head.
Races ==
    {Scene(Plain, OfB(Merging), z) : z \in {Merging, Again(Merging, r1)}} \cup
    {Scene([OfB(Merging) EXCEPT !.off = 1], OfB(Merging), Merging),
     Scene([OfB(Merging) EXCEPT !.off = 1], [Merging EXCEPT !.merges = Grown],
           Again(OfB(Merging), r1)),
     Scene(Plain, [Merging EXCEPT !.merges = Grown],
           [OfB(Merging) EXCEPT !.upload = "part"])}

\* A lookup among pushes that close segments.
Lookups ==
    {Scene([Merging EXCEPT !.merges = m], OfB(Merging), Lookup(n)) :
        m \in {Zero, Grown}, n \in 1 .. 3}

\* Requests that work on names and metadata.
OnSide == [Plain EXCEPT !.branch = side]
Naming ==
    {Scene(Creation(side, n), Creation(c, n), z) :
        n \in {side, fork}, c \in {side, fork}, z \in {Deletion(side), OnSide}} \cup
    {Scene(Creation(side, side), Deletion(side), z) :
        z \in {OnSide, Creation(side, fork), Creation(fork, side)}} \cup
    {Scene(Protection(main, TRUE), Annotation(main), z) :
        z \in {Plain, [Plain EXCEPT !.privileged = TRUE], Protection(main, FALSE),
               Deletion(main)}}

\* The second and third of the first revisions were not uploaded in full.
FirstUploads == <<"whole", "none", "part", "whole">>

\* Branches created at revisions that are not there or lack fragments, and
\* pushes based on them, merging them, or based on what another request pushes.
Partial ==
    {Scene(CreationAt(side, v), [OnSide EXCEPT !.onto = v],
           [OfB(OnSide) EXCEPT !.onto = 1, !.merge = TRUE]) : v \in 2 .. 3} \cup
    {Scene(CreationAt(side, Zero), [OnSide EXCEPT !.onto = Zero],
           [OfB(OnSide) EXCEPT !.onto = r2]),
     Scene([Plain EXCEPT !.merges = 2], [OfB(Merging) EXCEPT !.onto = r1],
           [OfB(Plain) EXCEPT !.merges = r2]),
     Scene([Plain EXCEPT !.merges = 3, !.upload = "none"], [OfB(Plain) EXCEPT !.onto = r1],
           [OfB(Merging) EXCEPT !.merges = r1])}

\* A push that closes a segment, and a forced push that takes the branch back
\* to before it.
Rewound ==
    {Scene(Merging, [OfB(Plain) EXCEPT !.force = TRUE], Lookup(1))} \cup
    {Scene(Merging, [OfB(Plain) EXCEPT !.force = TRUE, !.onto = 3], Lookup(n)) : n \in {1, 3}}

Busy == Races \cup Lookups \cup Naming \cup Partial \cup Rewound

=============================================================================
