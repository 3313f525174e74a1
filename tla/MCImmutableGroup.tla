-------------------------- MODULE MCImmutableGroup --------------------------
(* Instances of ImmutableGroup for TLC. *)
EXTENDS ImmutableGroup, TLC

CONSTANTS a1, a2, b1, g, h, r1, s1, s2, o1, o2, fl, co, nobody

(* two associations of one hash, in two partitions, and one of another hash *)
TheOrder == <<a1, a2, b1>>
TheHash == (a1 :> g) @@ (a2 :> g) @@ (b1 :> h)
ThePartition == (a1 :> 1) @@ (a2 :> 2) @@ (b1 :> 1)
TheHome == (g :> 1) @@ (h :> 2)

(* what puts, an obliterate or a lost race leave: slots nobody references,   *)
(* and payloads entries point at                                             *)
Spread == [pack |-> << <<g, g>>, <<h>> >>,
           entry |-> (a1 :> <<1, 2>>) @@ (a2 :> None) @@ (b1 :> <<2, 1>>)]
Shared == [pack |-> << <<h, g>>, <<>> >>,
           entry |-> (a1 :> <<1, 2>>) @@ (a2 :> <<1, 2>>) @@ (b1 :> None)]
Both == [pack |-> << <<g, h>>, <<g>> >>,
         entry |-> (a1 :> <<2, 1>>) @@ (a2 :> None) @@ (b1 :> <<1, 2>>)]
Tight == [Spread EXCEPT !.pack = << <<g>>, <<h>> >>, !.entry[a1] = <<1, 1>>]
Unused == [pack |-> << <<g, g>>, <<>> >>,
           entry |-> (a1 :> None) @@ (a2 :> None) @@ (b1 :> None)]
Fresh == [Unused EXCEPT !.pack = << <<>> >>]

Scene(contents, actors, puts, passes, evictions, faults, stops) ==
    [pack |-> contents.pack, entry |-> contents.entry, actors |-> actors,
     left |-> [puts |-> puts, passes |-> passes, evictions |-> evictions, faults |-> faults,
               stops |-> stops, faulted |-> FALSE]]

TheScenes ==
    {Scene(Both, {r1, co}, 0, 1, 1, 1, 1),
     Scene(Spread, {r1, co}, 0, 2, 0, 1, 1),
     Scene(Spread, {r1, s1, co}, 1, 1, 0, 1, 0),
     Scene(Both, {s1, co, fl}, 1, 1, 0, 1, 1),
     Scene(Shared, {o1, r1, co}, 2, 1, 0, 0, 1),
     Scene(Spread, {o1, s1, fl}, 2, 0, 0, 1, 1),
     Scene(Spread, {o1, r1, fl}, 1, 0, 1, 1, 1),
     Scene(Shared, {s1, s2, co}, 2, 1, 0, 1, 0),
     Scene(Both, {s1, fl}, 1, 0, 0, 2, 1),
     Scene(Both, {s1, co, fl}, 1, 1, 1, 0, 0),
     Scene(Shared, {o1, s1, co}, 2, 1, 0, 1, 1),
     Scene(Both, {o1, co, fl}, 1, 1, 0, 1, 1),
     Scene(Shared, {o1, o2, s1}, 3, 0, 0, 1, 1),
     Scene(Tight, {s1, co, fl}, 2, 1, 0, 0, 0),
     Scene(Unused, {s1, co}, 1, 1, 0, 1, 0)}

(* two associations of a hash, recorded and then stored *)
OneStore == {Scene(Fresh, {s1}, 3, 0, 0, 0, 0)}
=============================================================================
