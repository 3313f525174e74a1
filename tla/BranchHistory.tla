--------------------------- MODULE BranchHistory ---------------------------
(***************************************************************************)
(* Revisions, the line of revisions a branch consists of, and the data a   *)
(* server keeps to find a revision by its number without walking the line  *)
(* (lore-server/src/cache/revision.rs, lore-revision/src/find.rs).         *)
(*                                                                         *)
(* The revisions ever serialized, by a client or the server, are a         *)
(* sequence `states'; the address of a revision is its index, 0 the zero   *)
(* hash.  Serializing a state that is already there gives the address it   *)
(* has.  A revision keeps its parents, its number and its tree as who last *)
(* wrote each file.  Its `upload' is what of it is in the immutable store  *)
(* of the server: none of it, its state but not every fragment it adds to  *)
(* its parents, or the whole of it.                                        *)
(***************************************************************************)
EXTENDS Integers, Sequences, FiniteSets

CONSTANTS
    File,       \* the paths of the tree
    Step,       \* history_step_size
    None        \* an absent value

ASSUME StepAssumption == Step \in Nat \ {0}

Zero == 0

\* What State::deserialize returns for the zero hash.
EmptyState == [self |-> Zero, other |-> Zero, number |-> 0,
               tree |-> [f \in File |-> None], upload |-> "whole"]

State(states, r) == IF r = Zero THEN EmptyState ELSE states[r]
Number(states, r) == State(states, r).number
Tree(states, r) == State(states, r).tree

Uploads == {"none", "part", "whole"}

\* The state of r can be read.
Present(states, r) == State(states, r).upload # "none"

\* State::serialize: the store with the state in it, and its address.
Serialized(states, s) ==
    IF \E i \in DOMAIN states : states[i] = s THEN states ELSE Append(states, s)
Address(states, s) ==
    IF \E i \in DOMAIN states : states[i] = s
    THEN CHOOSE i \in DOMAIN states : states[i] = s
    ELSE Len(states) + 1

NextRevisionNumber_First(parent, other) == parent + 1

\* next_revision_number
NextRevisionNumber(parent, other) == (IF parent > other THEN parent ELSE other) + 1

\* The revisions reached from r through parent_self, r itself included.
Line(states, r) ==
    LET line[v \in 0 .. Len(states)] ==
            IF v = Zero THEN {} ELSE {v} \cup line[states[v].self]
    IN  line[r]

-----------------------------------------------------------------------------
(***************************************************************************)
(* Boundaries, sealed step keys and cached segments                        *)
(***************************************************************************)

\* The boundary whose segment holds the number (revision_step_key).
BoundaryOf(number) == ((number + Step - 1) \div Step) * Step

Multiples(low, high) == {b \in low .. high : b % Step = 0}

\* sealed_boundaries: the boundaries a move from `older' to `newer' closes.
\* Nothing is closed by the first revision of a line, whatever its number.
SealedBoundaries(older, newer) ==
    LET lowest == BoundaryOf(older)
        highest == IF newer > 0 THEN ((newer - 1) \div Step) * Step ELSE 0
    IN  IF lowest = 0 \/ lowest > highest THEN {} ELSE Multiples(lowest, highest)

SealedRevision_Newer(states, boundary, older, newer) == newer

\* seal_boundary_revision_number: what the step key of the boundary is set to.
SealedRevision(states, boundary, older, newer) ==
    IF Number(states, newer) <= boundary THEN newer ELSE older

\* walk_segment_revisions: the line from the anchor down to the first revision
\* numbered at most `stopBelow', and whether the walk got there, or to the end
\* of the line, within `most' revisions, all of which it could read.
WalkSegment(states, anchor, stopBelow, most) ==
    LET line == Line(states, anchor)
        low == {r \in line : Number(states, r) <= stopBelow}
        stop == {r \in low : \A s \in low : Number(states, s) <= Number(states, r)}
        items == (line \ low) \cup stop
    IN  [items |-> items,
         reachedTerminator |->
             /\ \A r \in items : Present(states, r)
             /\ IF low = {} THEN Cardinality(items) < most ELSE Cardinality(items) <= most]

\* partition_into_segments: the part of a walk in the segment of a boundary.
Segment(states, items, boundary) ==
    {r \in items : BoundaryOf(Number(states, r)) = boundary}

Floor(number, by) == IF number > by THEN number - by ELSE 0

\* What store_history_step caches for the boundaries a move to `newer' closed:
\* nothing when the walk was cut short.
ClosedSegment(states, newer, boundaries, boundary) ==
    LET lowest == CHOOSE b \in boundaries : \A c \in boundaries : b <= c
        walk == WalkSegment(states, newer, Floor(lowest, Step),
                            Cardinality(boundaries) * Step + Step + 1)
    IN  IF walk.reachedTerminator THEN Segment(states, walk.items, boundary) ELSE {}

\* What try_backfill_segment caches for a boundary, from the step key of the
\* one above it.
BackfilledSegment(states, anchor, boundary) ==
    LET walk == WalkSegment(states, anchor, Floor(boundary, Step), 2 * Step + 2)
    IN  IF walk.reachedTerminator THEN Segment(states, walk.items, boundary) ELSE {}

\* The revision of a cached segment with the number, or zero.
InSegment(states, segment, number) ==
    IF \E r \in segment : Number(states, r) = number
    THEN CHOOSE r \in segment : Number(states, r) = number
    ELSE Zero

\* The revisions of the line from r that a walk of it reads: it ends at the
\* first it cannot.
Walked(states, r) ==
    {v \in Line(states, r) :
        \A w \in Line(states, r) : v \in Line(states, w) => Present(states, w)}

\* revision_by_number: the revision with the number on the line from r.
OnLine(states, r, number) == InSegment(states, Walked(states, r), number)

\* The walk of resolve_via_step_key, which gives up after a segment and one.
FromAnchor(states, anchor, number) ==
    IF Cardinality({r \in Line(states, anchor) : Number(states, r) >= number}) <= Step + 1
    THEN OnLine(states, anchor, number) ELSE Zero

-----------------------------------------------------------------------------
(***************************************************************************)
(* Three-way merge (revision::diff3_collect, state::apply_tree_changes)    *)
(***************************************************************************)

\* A file both sides changed conflicts unless they agree on it
\* (change::is_conflict).
Conflicts(base, source, target) ==
    {f \in File : /\ base[f] # source[f]
                  /\ base[f] # target[f]
                  /\ source[f] # target[f]}

\* The target with the changes of the source.
Merged(base, source, target) ==
    [f \in File |-> IF base[f] # source[f] THEN source[f] ELSE target[f]]

=============================================================================
