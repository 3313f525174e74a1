---------------------------- MODULE MCStoreLock ----------------------------
(***************************************************************************)
(* Instances of StoreLock for TLC: which process each store object is in,  *)
(* and which uses it has.                                                  *)
(***************************************************************************)
EXTENDS StoreLock, TLC

CONSTANTS p1, p2, s1, s2, u1, u2

\* Two processes with a store object each, and a use each.
ApartProcOf == s1 :> p1 @@ s2 :> p2
ApartStoreOf == u1 :> s1 @@ u2 :> s2
ApartSymmetry == {p1 :> p2 @@ p2 :> p1 @@ s1 :> s2 @@ s2 :> s1 @@ u1 :> u2 @@ u2 :> u1}

\* One process with one store object, and two uses of it.
SharedProcOf == s1 :> p1
SharedStoreOf == u1 :> s1 @@ u2 :> s1

\* One process with two store objects, and a use each.
SiblingProcOf == s1 :> p1 @@ s2 :> p1
SiblingStoreOf == u1 :> s1 @@ u2 :> s2

\* Every store keeps its state across holds, or none does.
Reusing == [x \in Store |-> TRUE]
Reloading == [x \in Store |-> FALSE]

=============================================================================
