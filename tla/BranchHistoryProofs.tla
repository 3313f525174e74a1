------------------------ MODULE BranchHistoryProofs ------------------------
(***************************************************************************)
(* What the line of a branch, its boundaries and its segments are, for any *)
(* history in which the parents of a revision are stored before it.        *)
(*                                                                         *)
(* Line is a recursive function on addresses.  A lemma about it is proved  *)
(* by least counterexample: the least address at which it fails is not     *)
(* that of a parent, which is smaller, so the unfolding of the line gives  *)
(* a contradiction.                                                        *)
(***************************************************************************)
EXTENDS BranchHistory, WellFoundedInduction, TLAPS

\* The prover of a leaf that names none.
USE ZenonT(30)

\* The fields of a revision.
StateFields == {"self", "other", "number", "tree", "upload"}

\* A sequence of revisions with their fields.
IsStore(st) ==
    /\ st \in Seq({st[i] : i \in DOMAIN st})
    /\ \A i \in DOMAIN st : DOMAIN st[i] = StateFields

\* Revision v can be read.
Held(st, v) == v = Zero \/ v \in DOMAIN st

\* The store of old with perhaps more revisions.
Extends(old, new) ==
    /\ IsStore(new) /\ Len(old) <= Len(new)
    /\ \A v : Held(old, v) => Held(new, v) /\ State(new, v) = State(old, v)

\* Serializing a state adds it under its address, and changes no other.
LEMMA SerializedExtends ==
    ASSUME NEW st, IsStore(st), NEW s, DOMAIN s = StateFields
    PROVE  /\ Extends(st, Serialized(st, s))
           /\ Held(Serialized(st, s), Address(st, s))
           /\ State(Serialized(st, s), Address(st, s)) = s
<1> DEFINE S == {st[i] : i \in DOMAIN st}
<1>0. st \in Seq(S) /\ DOMAIN st = 1 .. Len(st) /\ Len(st) \in Nat
  BY SMT DEF IsStore
<1>1. CASE \E i \in DOMAIN st : st[i] = s
  <2>1. Serialized(st, s) = st
    BY <1>1 DEF Serialized
  <2>2. Address(st, s) \in DOMAIN st /\ st[Address(st, s)] = s
    BY <1>1 DEF Address
  <2>3. Address(st, s) # Zero
    BY <1>0, <2>2, SMT DEF Zero
  <2> QED BY <1>0, <2>1, <2>2, <2>3, SMT DEF Extends, Held, State
<1>2. CASE ~ \E i \in DOMAIN st : st[i] = s
  <2> DEFINE new == Append(st, s)
             T == S \cup {s}
  <2>1. Serialized(st, s) = new /\ Address(st, s) = Len(st) + 1
    BY <1>2 DEF Serialized, Address
  <2>2. st \in Seq(T)
    BY <1>0, SMT
  <2>3. /\ new \in Seq(T) /\ Len(new) = Len(st) + 1
        /\ \A i \in 1 .. Len(st) : new[i] = st[i]
        /\ new[Len(st) + 1] = s
    BY <2>2, SMT
  <2>4. DOMAIN new = 1 .. Len(st) + 1
    BY <1>0, <2>3, SMT
  <2> HIDE DEF new, T
  <2>5. new \in Seq({new[i] : i \in DOMAIN new})
    BY <1>0, <2>3, <2>4, SMT
  <2>6. IsStore(new)
    <3>1. ASSUME NEW i \in DOMAIN new PROVE DOMAIN new[i] = StateFields
      <4>1. CASE i \in DOMAIN st
        BY <1>0, <2>3, <4>1 DEF IsStore
      <4>2. CASE i = Len(st) + 1
        BY <2>3, <4>2
      <4> QED BY <1>0, <2>4, <4>1, <4>2, SMT
    <3> QED BY <2>5, <3>1 DEF IsStore
  <2>7. \A v : Held(st, v) => Held(new, v) /\ State(new, v) = State(st, v)
    BY <1>0, <2>3, <2>4, SMT DEF Held, State
  <2>8. Held(new, Len(st) + 1) /\ State(new, Len(st) + 1) = s
    BY <1>0, <2>3, <2>4, SMT DEF Held, State, Zero
  <2> QED BY <1>0, <2>1, <2>3, <2>6, <2>7, <2>8, SMT DEF Extends
<1> QED BY <1>1, <1>2

\* What is read has the fields of a revision.
LEMMA StateFieldsOf ==
    ASSUME NEW st, IsStore(st), NEW v, Held(st, v)
    PROVE  DOMAIN State(st, v) = StateFields
BY SMT DEF IsStore, Held, State, EmptyState, StateFields

-----------------------------------------------------------------------------
(***************************************************************************)
(* Lines                                                                   *)
(***************************************************************************)

\* A store in which the parents of a revision are stored before it.
IsHistory(st) ==
    /\ IsStore(st)
    /\ \A i \in DOMAIN st :
          /\ st[i].self \in 0 .. i - 1 /\ st[i].other \in 0 .. i - 1
          /\ st[i].number \in Nat

\* The order of the naturals, as a relation.
Below == {p \in Nat \X Nat : p[1] < p[2]}

\* A set of naturals that is not empty has a least element.
LEMMA Least ==
    ASSUME NEW S \in SUBSET Nat, S # {}
    PROVE  \E m \in S : \A n \in S : m <= n
<1>1. IsWellFoundedOn(Below, Nat)
  BY NatLessThanWellFounded DEF OpToRel, Below
<1>2. PICK m \in S : \A n \in S : ~(<<n, m>> \in Below)
  BY <1>1, WFMin
<1>3. ASSUME NEW n \in S PROVE m <= n
  <2>1. m \in Nat /\ n \in Nat
    OBVIOUS
  <2>2. ~(n < m)
    BY <1>2, <2>1 DEF Below
  <2> QED BY <2>1, <2>2, SMT
<1> QED BY <1>3

\* The addresses of a store.
LEMMA Addresses ==
    ASSUME NEW st, IsStore(st)
    PROVE  /\ Len(st) \in Nat /\ DOMAIN st = 1 .. Len(st)
           /\ \A v : Held(st, v) <=> v \in 0 .. Len(st)
<1>1. Len(st) \in Nat /\ DOMAIN st = 1 .. Len(st)
  BY SMT DEF IsStore
<1> QED BY <1>1, SMT DEF Held, Zero

\* The line of a revision is it and the line of its parent: Line has the
\* function its definition asks for, since parents come first.
LEMMA LineUnfolds ==
    ASSUME NEW st, IsHistory(st)
    PROVE  /\ Line(st, Zero) = {}
           /\ \A v \in DOMAIN st : Line(st, v) = {v} \cup Line(st, st[v].self)
<1> DEFINE N == 0 .. Len(st)
           self(v) == st[v].self
           Closed(S) == \A v \in S : v \in 1 .. Len(st) /\ (self(v) # Zero => self(v) \in S)
           G == [v \in N |-> {w \in N : v # Zero /\ \A S \in SUBSET N : v \in S /\ Closed(S) => w \in S}]
           Is(f) == f = [v \in N |-> IF v = Zero THEN {} ELSE {v} \cup f[st[v].self]]
           line == CHOOSE f : Is(f)
<1>1. /\ Len(st) \in Nat /\ DOMAIN st = 1 .. Len(st)
      /\ \A v \in 1 .. Len(st) : self(v) \in 0 .. v - 1
  BY Addresses DEF IsHistory
<1>2. /\ Zero \in N /\ \A v \in N : v # Zero => v \in 1 .. Len(st) /\ self(v) \in N
      /\ 1 .. Len(st) \subseteq N
  BY <1>1, SMT DEF Zero
<1>3. Is(G)
  <2>1. G[Zero] = {}
    BY <1>2
  <2>2. ASSUME NEW v \in N, v # Zero PROVE G[v] = {v} \cup G[self(v)]
    <3> DEFINE p == self(v)
    <3>0. p \in N /\ v \in 1 .. Len(st)
      BY <1>2, <2>2
    <3> HIDE DEF self, N
    <3>1. v \in G[v]
      BY <2>2
    <3>2. ASSUME NEW w \in G[p] PROVE w \in G[v]
      <4>1. p # Zero /\ w \in N
        BY <3>0, <3>2
      <4>2. ASSUME NEW S \in SUBSET N, v \in S, Closed(S) PROVE w \in S
        <5>1. p \in S
          BY <4>1, <4>2
        <5> QED BY <3>0, <3>2, <4>2, <5>1
      <4> QED BY <2>2, <4>1, <4>2
    <3>3. ASSUME NEW w \in G[v] PROVE w \in {v} \cup G[p]
      <4> DEFINE T == {v} \cup G[p]
      <4>1. T \in SUBSET N
        BY <3>0
      <4>2. ASSUME NEW x \in T PROVE x \in 1 .. Len(st) /\ (self(x) # Zero => self(x) \in T)
        <5>1. CASE x = v
          <6>1. p # Zero => p \in G[p]
            BY <3>0
          <6> QED BY <3>0, <5>1, <6>1
        <5>2. CASE x \in G[p]
          <6>1. p # Zero /\ x \in N /\ p \in 1 .. Len(st)
            BY <1>2, <3>0, <5>2
          <6>2. ASSUME NEW S \in SUBSET N, p \in S, Closed(S)
                PROVE  x \in S /\ (self(x) # Zero => self(x) \in S)
            <7>1. x \in S
              BY <3>0, <5>2, <6>2
            <7> QED BY <6>2, <7>1
          <6>3. x # Zero
            <7> DEFINE U == 1 .. Len(st)
            <7>1. U \in SUBSET N /\ Closed(U) /\ Zero \notin U
              BY <1>1, <1>2, SMT DEF Zero, self, N
            <7> HIDE DEF U
            <7>2. p \in U
              BY <6>1 DEF U
            <7>3. x \in U
              BY <3>0, <5>2, <7>1, <7>2
            <7> QED BY <7>1, <7>3
          <6>4. self(x) \in N /\ x \in 1 .. Len(st)
            BY <1>2, <6>1, <6>3
          <6>5. self(x) # Zero => self(x) \in G[p]
            BY <3>0, <6>1, <6>2, <6>4
          <6> QED BY <6>4, <6>5
        <5> QED BY <5>1, <5>2
      <4>3. v \in T /\ Closed(T)
        BY <4>2
      <4> HIDE DEF T
      <4>4. w \in T
        BY <2>2, <3>3, <4>1, <4>3
      <4> QED BY <4>4 DEF T
    <3> QED BY <3>1, <3>2, <3>3
  <2> DEFINE H == [v \in N |-> IF v = Zero THEN {} ELSE {v} \cup G[st[v].self]]
  <2>3. ASSUME NEW v \in N PROVE G[v] = H[v]
    <3> HIDE DEF G
    <3> QED BY <2>1, <2>2, <2>3
  <2>4. DOMAIN G = N /\ G = [v \in N |-> G[v]]
    OBVIOUS
  <2>5. G = H
    <3> HIDE DEF N
    <3>1. G = [v \in N |-> H[v]]
      <4> HIDE DEF H, G
      <4> QED BY <2>3, <2>4
    <3> QED BY <3>1
  <2> QED BY <2>5
<1>4. Is(line)
  <2> HIDE DEF G, Is
  <2> QED BY <1>3
<1>5. \A v : Line(st, v) = line[v]
  BY DEF Line
<1> HIDE DEF line
<1>6. line[Zero] = {} /\ \A v \in 1 .. Len(st) : line[v] = {v} \cup line[st[v].self]
  BY <1>1, <1>2, <1>4, SMT DEF Zero
<1> QED BY <1>1, <1>5, <1>6

\* A line holds revisions stored no later than the one it starts at.
LEMMA LineBound ==
    ASSUME NEW st, IsHistory(st), NEW v, Held(st, v)
    PROVE  Line(st, v) \subseteq 1 .. v /\ Line(st, v) \subseteq DOMAIN st
<1> DEFINE B == {u \in 0 .. Len(st) : ~(Line(st, u) \subseteq 1 .. u)}
<1>1. /\ Len(st) \in Nat /\ DOMAIN st = 1 .. Len(st) /\ v \in 0 .. Len(st)
      /\ \A u \in 1 .. Len(st) : st[u].self \in 0 .. u - 1
  BY Addresses DEF IsHistory
<1>2. Line(st, Zero) = {} /\ \A u \in 1 .. Len(st) : Line(st, u) = {u} \cup Line(st, st[u].self)
  BY <1>1, LineUnfolds
<1>3. ASSUME NEW u \in B, \A w \in B : u <= w PROVE FALSE
  <2>1. u # Zero
    BY <1>2, <1>3
  <2>2. u \in 1 .. Len(st)
    BY <1>1, <1>3, <2>1, SMT DEF Zero
  <2> DEFINE p == st[u].self
  <2>3. p \in 0 .. u - 1 /\ p \in 0 .. Len(st) /\ ~(u <= p)
    BY <1>1, <2>2, SMT
  <2>4. Line(st, p) \subseteq 1 .. p
    BY <1>3, <2>3
  <2>5. Line(st, u) = {u} \cup Line(st, p)
    BY <1>2, <2>2
  <2> HIDE DEF p
  <2>6. Line(st, u) \subseteq 1 .. u
    BY <2>2, <2>3, <2>4, <2>5, SMT
  <2> QED BY <1>3, <2>6
<1>4. B = {}
  <2>1. B \in SUBSET Nat
    BY <1>1, SMT
  <2> HIDE DEF B
  <2> QED BY <1>3, <2>1, Least
<1> QED BY <1>1, <1>4, SMT

\* The line of a revision on a line is part of it.
LEMMA LineTail ==
    ASSUME NEW st, IsHistory(st), NEW v, Held(st, v), NEW w \in Line(st, v)
    PROVE  /\ w \in Line(st, w) /\ Line(st, w) \subseteq Line(st, v)
           /\ w \in DOMAIN st /\ w # Zero
           /\ st[w].self # Zero => st[w].self \in Line(st, v)
<1> DEFINE B == {u \in 0 .. Len(st) : \E x \in Line(st, u) : ~(Line(st, x) \subseteq Line(st, u))}
<1>1. /\ Len(st) \in Nat /\ DOMAIN st = 1 .. Len(st) /\ v \in 0 .. Len(st)
      /\ \A u \in 1 .. Len(st) : st[u].self \in 0 .. u - 1
  BY Addresses DEF IsHistory
<1>2. Line(st, Zero) = {} /\ \A u \in 1 .. Len(st) : Line(st, u) = {u} \cup Line(st, st[u].self)
  BY <1>1, LineUnfolds
<1>3. ASSUME NEW u \in B, \A x \in B : u <= x PROVE FALSE
  <2>1. u # Zero
    BY <1>2, <1>3
  <2>2. u \in 1 .. Len(st)
    BY <1>1, <1>3, <2>1, SMT DEF Zero
  <2> DEFINE p == st[u].self
  <2>3. p \in 0 .. Len(st) /\ ~(u <= p)
    BY <1>1, <2>2, SMT
  <2>4. \A x \in Line(st, p) : Line(st, x) \subseteq Line(st, p)
    BY <1>3, <2>3
  <2>5. Line(st, u) = {u} \cup Line(st, p)
    BY <1>2, <2>2
  <2> HIDE DEF p
  <2> QED BY <1>3, <2>4, <2>5
<1>4. B = {}
  <2>1. B \in SUBSET Nat
    BY <1>1, SMT
  <2> HIDE DEF B
  <2> QED BY <1>3, <2>1, Least
<1>5. Line(st, w) \subseteq Line(st, v)
  BY <1>1, <1>4
<1>6. w \in 1 .. Len(st) /\ w # Zero
  BY <1>1, LineBound, SMT DEF Zero
<1>7. st[w].self # Zero => st[w].self \in Line(st, st[w].self)
  <2>1. st[w].self # Zero => st[w].self \in 1 .. Len(st)
    BY <1>1, <1>6, SMT DEF Zero
  <2> QED BY <1>2, <2>1
<1> QED BY <1>1, <1>2, <1>5, <1>6, <1>7

\* Adding revisions changes no line.
LEMMA LineSame ==
    ASSUME NEW st, IsHistory(st), NEW new, IsHistory(new), Extends(st, new), NEW v, Held(st, v)
    PROVE  Line(new, v) = Line(st, v)
<1> DEFINE B == {u \in 0 .. Len(st) : Line(new, u) # Line(st, u)}
<1>1. /\ Len(st) \in Nat /\ DOMAIN st = 1 .. Len(st) /\ v \in 0 .. Len(st)
      /\ \A u \in 1 .. Len(st) : st[u].self \in 0 .. u - 1
  BY Addresses DEF IsHistory
<1>2. /\ Line(st, Zero) = {} /\ Line(new, Zero) = {}
      /\ \A u \in DOMAIN st : Line(st, u) = {u} \cup Line(st, st[u].self)
      /\ \A u \in DOMAIN new : Line(new, u) = {u} \cup Line(new, new[u].self)
  BY LineUnfolds
<1>3. \A u \in 1 .. Len(st) : u \in DOMAIN new /\ new[u] = st[u]
  BY <1>1, SMT DEF Extends, Held, State, Zero
<1>4. ASSUME NEW u \in B, \A x \in B : u <= x PROVE FALSE
  <2>1. u # Zero
    BY <1>2, <1>4
  <2>2. u \in 1 .. Len(st)
    BY <1>1, <1>4, <2>1, SMT DEF Zero
  <2> DEFINE p == st[u].self
  <2>3. p \in 0 .. Len(st) /\ ~(u <= p)
    BY <1>1, <2>2, SMT
  <2>4. Line(new, p) = Line(st, p)
    BY <1>4, <2>3
  <2>5. Line(st, u) = {u} \cup Line(st, p) /\ Line(new, u) = {u} \cup Line(new, p)
    BY <1>1, <1>2, <1>3, <2>2
  <2> HIDE DEF p
  <2> QED BY <1>4, <2>4, <2>5
<1>5. B = {}
  <2>1. B \in SUBSET Nat
    BY <1>1, SMT
  <2> HIDE DEF B
  <2> QED BY <1>4, <2>1, Least
<1> QED BY <1>1, <1>5

\* A history in which every revision is numbered above its parents.
SoundHistory(st) ==
    /\ IsHistory(st)
    /\ \A i \in DOMAIN st : /\ Number(st, st[i].self) < Number(st, i)
                            /\ Number(st, st[i].other) < Number(st, i)

\* What is read of a revision.
LEMMA Reads ==
    ASSUME NEW st, IsHistory(st), NEW v, Held(st, v)
    PROVE  /\ Number(st, v) \in Nat
           /\ v # Zero => /\ v \in DOMAIN st /\ State(st, v) = st[v]
                          /\ Number(st, v) = st[v].number
           /\ Held(st, State(st, v).self) /\ Held(st, State(st, v).other)
           /\ Number(st, Zero) = 0 /\ State(st, Zero).self = Zero /\ State(st, Zero).other = Zero
           /\ State(st, Zero).upload = "whole"
<1>1. /\ Len(st) \in Nat /\ DOMAIN st = 1 .. Len(st)
      /\ \A u : Held(st, u) <=> u \in 0 .. Len(st)
  BY Addresses DEF IsHistory
<1>2. /\ State(st, Zero).number = 0 /\ State(st, Zero).self = Zero
      /\ State(st, Zero).other = Zero /\ State(st, Zero).upload = "whole"
  BY DEF State, EmptyState
<1>3. CASE v = Zero
  BY <1>1, <1>2, <1>3, SMT DEF Number, Held
<1>4. CASE v # Zero
  <2>1. v \in DOMAIN st /\ State(st, v) = st[v]
    BY <1>4 DEF Held, State
  <2>2. st[v].self \in 0 .. Len(st) /\ st[v].other \in 0 .. Len(st) /\ st[v].number \in Nat
    BY <1>1, <2>1, SMT DEF IsHistory
  <2> QED BY <1>1, <1>2, <1>4, <2>1, <2>2 DEF Number
<1> QED BY <1>3, <1>4

\* Down a line the numbers get smaller.
LEMMA LineNumbers ==
    ASSUME NEW st, SoundHistory(st), NEW v, Held(st, v)
    PROVE  \A w \in Line(st, v) : w # v => Number(st, w) < Number(st, v)
<1> DEFINE B == {u \in 0 .. Len(st) :
                    \E w \in Line(st, u) : w # u /\ ~(Number(st, w) < Number(st, u))}
<1>1. /\ Len(st) \in Nat /\ DOMAIN st = 1 .. Len(st) /\ v \in 0 .. Len(st)
      /\ \A u \in 1 .. Len(st) : st[u].self \in 0 .. u - 1
      /\ \A u : Held(st, u) <=> u \in 0 .. Len(st)
  BY Addresses DEF IsHistory, SoundHistory
<1>2. Line(st, Zero) = {} /\ \A u \in 1 .. Len(st) : Line(st, u) = {u} \cup Line(st, st[u].self)
  BY <1>1, LineUnfolds DEF SoundHistory
<1>3. ASSUME NEW u \in B, \A x \in B : u <= x PROVE FALSE
  <2>1. u # Zero
    BY <1>2, <1>3
  <2>2. u \in 1 .. Len(st)
    BY <1>1, <1>3, <2>1, SMT DEF Zero
  <2> DEFINE p == st[u].self
  <2>3. p \in 0 .. Len(st) /\ ~(u <= p)
    BY <1>1, <2>2, SMT
  <2>4. \A w \in Line(st, p) : w # p => Number(st, w) < Number(st, p)
    BY <1>3, <2>3
  <2>5. Line(st, u) = {u} \cup Line(st, p)
    BY <1>2, <2>2
  <2>6. Number(st, p) < Number(st, u)
    BY <1>1, <2>2 DEF SoundHistory
  <2> HIDE DEF p
  <2>7. ASSUME NEW w \in Line(st, u), w # u PROVE Number(st, w) < Number(st, u)
    <3>1. w \in Line(st, p)
      BY <2>5, <2>7
    <3>2. Held(st, w) /\ Held(st, p) /\ Held(st, u)
      <4>1. Held(st, p) /\ Held(st, u)
        BY <1>1, <2>2, <2>3
      <4> QED BY <3>1, <4>1, LineBound DEF SoundHistory, Held
    <3>3. Number(st, w) \in Nat /\ Number(st, p) \in Nat /\ Number(st, u) \in Nat
      BY <3>2, Reads DEF SoundHistory
    <3> QED BY <2>4, <2>6, <3>1, <3>3, SMT
  <2> QED BY <1>3, <2>7
<1>4. B = {}
  <2>1. B \in SUBSET Nat
    BY <1>1, SMT
  <2> HIDE DEF B
  <2> QED BY <1>3, <2>1, Least
<1> QED BY <1>1, <1>4

\* Of two revisions on a line, the line of the higher has the other.
LEMMA LineOrder ==
    ASSUME NEW st, SoundHistory(st), NEW v, Held(st, v),
           NEW w \in Line(st, v), NEW x \in Line(st, v), Number(st, x) <= Number(st, w)
    PROVE  x \in Line(st, w)
<1> DEFINE Bad(u, y, z) == /\ y \in Line(st, u) /\ z \in Line(st, u)
                           /\ Number(st, z) <= Number(st, y) /\ z \notin Line(st, y)
           B == {u \in 0 .. Len(st) : \E y, z : Bad(u, y, z)}
<1>1. /\ Len(st) \in Nat /\ DOMAIN st = 1 .. Len(st) /\ v \in 0 .. Len(st)
      /\ \A u \in 1 .. Len(st) : st[u].self \in 0 .. u - 1
      /\ \A u : Held(st, u) <=> u \in 0 .. Len(st)
  BY Addresses DEF IsHistory, SoundHistory
<1>2. Line(st, Zero) = {} /\ \A u \in 1 .. Len(st) : Line(st, u) = {u} \cup Line(st, st[u].self)
  BY <1>1, LineUnfolds DEF SoundHistory
<1>3. ASSUME NEW u \in B, \A t \in B : u <= t PROVE FALSE
  <2>0. PICK y, z : Bad(u, y, z)
    BY <1>3
  <2>1. u # Zero
    BY <1>2, <2>0
  <2>2. u \in 1 .. Len(st)
    BY <1>1, <1>3, <2>1, SMT DEF Zero
  <2> DEFINE p == st[u].self
  <2>3. p \in 0 .. Len(st) /\ ~(u <= p)
    BY <1>1, <2>2, SMT
  <2>4. ~ \E i, j : Bad(p, i, j)
    BY <1>3, <2>3
  <2>5. Line(st, u) = {u} \cup Line(st, p)
    BY <1>2, <2>2
  <2> HIDE DEF p
  <2>6. CASE y = u
    BY <2>0, <2>6
  <2>7. CASE y # u
    <3>1. y \in Line(st, p)
      BY <2>0, <2>5, <2>7
    <3>2. z \notin Line(st, p)
      BY <2>0, <2>4, <3>1
    <3>3. z = u
      BY <2>0, <2>5, <3>2
    <3>4. Number(st, y) < Number(st, u)
      BY <1>1, <1>3, <2>0, <2>7, LineNumbers
    <3>5. Held(st, y) /\ Held(st, u)
      BY <1>1, <1>3, <2>0, LineBound DEF SoundHistory, Held
    <3>6. Number(st, y) \in Nat /\ Number(st, u) \in Nat
      BY <3>5, Reads DEF SoundHistory
    <3> QED BY <2>0, <3>3, <3>4, <3>6, SMT
  <2> QED BY <2>6, <2>7
<1>4. B = {}
  <2>1. B \in SUBSET Nat
    BY <1>1, SMT
  <2> HIDE DEF B
  <2> QED BY <1>3, <2>1, Least
<1>5. ~Bad(v, w, x)
  BY <1>1, <1>4
<1> QED BY <1>5

-----------------------------------------------------------------------------
(***************************************************************************)
(* Boundaries, segments and lookups                                        *)
(***************************************************************************)

\* Division by the step.
LEMMA Divides ==
    ASSUME NEW x \in Nat
    PROVE  /\ (x \div Step) * Step \in Nat
           /\ (x \div Step) * Step <= x /\ x < (x \div Step) * Step + Step
<1>1. Step \in Nat /\ Step > 0
  BY StepAssumption, SMT
<1> DEFINE q == x \div Step
           m == x % Step
<1>2. q \in Nat /\ m \in 0 .. Step - 1 /\ x = Step * q + m
  BY <1>1, SMT
<1> HIDE DEF q, m
<1>3. q * Step = Step * q /\ q * Step \in Nat
  BY <1>1, <1>2, SMT
<1> DEFINE p == q * Step
<1>4. x = p + m /\ p \in Nat
  BY <1>2, <1>3
<1> HIDE DEF p
<1>5. p <= x /\ x < p + Step
  BY <1>1, <1>2, <1>4, SMT
<1> QED BY <1>4, <1>5 DEF p, q

\* A number is at or below its boundary, by less than a step.
LEMMA BoundaryBounds ==
    ASSUME NEW n \in Nat
    PROVE  /\ BoundaryOf(n) \in Nat
           /\ n <= BoundaryOf(n) /\ BoundaryOf(n) < n + Step
           /\ n = 0 => BoundaryOf(n) = 0
<1>1. Step \in Nat /\ Step > 0 /\ n + Step - 1 \in Nat
  BY StepAssumption, SMT
<1> DEFINE x == n + Step - 1
           y == (x \div Step) * Step
<1>2. y \in Nat /\ y <= x /\ x < y + Step
  BY <1>1, Divides
<1>3. BoundaryOf(n) = y
  BY DEF BoundaryOf
<1> HIDE DEF y
<1>4. n <= y /\ y < n + Step
  BY <1>1, <1>2, SMT
<1>5. n = 0 => x \div Step = 0
  BY <1>1, SMT
<1>6. n = 0 => y = 0
  BY <1>1, <1>5, SMT DEF y
<1> QED BY <1>2, <1>3, <1>4, <1>6

\* A move closes boundaries from where it starts to below where it ends.
LEMMA SealedBounds ==
    ASSUME NEW older \in Nat, NEW newer \in Nat
    PROVE  \A k \in SealedBoundaries(older, newer) :
              k \in Nat /\ k > 0 /\ older <= k /\ k < newer
<1> DEFINE lowest == BoundaryOf(older)
           highest == IF newer > 0 THEN ((newer - 1) \div Step) * Step ELSE 0
<1>1. lowest \in Nat /\ older <= lowest
  BY BoundaryBounds
<1>2. highest \in Nat /\ (newer > 0 => highest <= newer - 1) /\ (newer = 0 => highest = 0)
  <2>1. CASE newer > 0
    <3>1. newer - 1 \in Nat
      BY <2>1, SMT
    <3> QED BY <2>1, <3>1, Divides, SMT
  <2>2. CASE newer = 0
    BY <2>2, SMT
  <2> QED BY <2>1, <2>2
<1>3. SealedBoundaries(older, newer) =
          IF lowest = 0 \/ lowest > highest THEN {} ELSE Multiples(lowest, highest)
  BY DEF SealedBoundaries
<1> HIDE DEF lowest, highest
<1>4. ASSUME NEW k \in SealedBoundaries(older, newer)
      PROVE  k \in Nat /\ k > 0 /\ older <= k /\ k < newer
  <2>1. lowest # 0 /\ ~(lowest > highest) /\ k \in lowest .. highest
    BY <1>3, <1>4 DEF Multiples
  <2> QED BY <1>1, <1>2, <2>1, SMT
<1> QED BY <1>4

\* A set of naturals that is not empty and has a bound has a greatest element.
LEMMA Greatest ==
    ASSUME NEW S \in SUBSET Nat, S # {}, NEW m \in Nat, \A n \in S : n <= m
    PROVE  \E g \in S : \A n \in S : n <= g
<1> DEFINE T == {m - n : n \in S}
<1>1. T \in SUBSET Nat /\ T # {}
  <2>1. \A n \in S : m - n \in Nat
    BY SMT
  <2> QED BY <2>1
<1>2. PICK d \in T : \A e \in T : d <= e
  <2> HIDE DEF T
  <2> QED BY <1>1, Least
<1>3. PICK g \in S : d = m - g
  BY <1>2
<1>4. ASSUME NEW n \in S PROVE n <= g
  <2>1. m - n \in T
    OBVIOUS
  <2>2. m - g <= m - n
    BY <1>2, <1>3, <2>1
  <2>3. m \in Nat /\ n \in Nat /\ g \in Nat
    OBVIOUS
  <2> QED BY ONLY <2>2, <2>3, SMT
<1> QED BY <1>4

\* The boundaries a move closes have a lowest and a highest.
LEMMA Extremes ==
    ASSUME NEW older \in Nat, NEW newer \in Nat,
           NEW S \in SUBSET SealedBoundaries(older, newer), S # {}
    PROVE  /\ (CHOOSE k \in S : \A l \in S : k >= l) \in S
           /\ (CHOOSE k \in S : \A l \in S : k <= l) \in S
           /\ \A l \in S : (CHOOSE k \in S : \A m \in S : k <= m) <= l
<1>1. S \in SUBSET Nat /\ \A k \in S : k <= newer
  BY SealedBounds, SMT
<1>2. \E k \in S : \A l \in S : k <= l
  BY <1>1, Least
<1>3. \E k \in S : \A l \in S : k >= l
  <2>1. PICK g \in S : \A l \in S : l <= g
    BY <1>1, Greatest
  <2>2. \A l \in S : g >= l
    BY <1>1, <2>1
  <2> QED BY <2>2
<1> QED BY <1>2, <1>3

\* What is found in a segment is in it, with the number.
LEMMA Hits ==
    ASSUME NEW st, NEW segment, Zero \notin segment, NEW number
    PROVE  LET hit == InSegment(st, segment, number)
           IN  IF hit = Zero THEN \A v \in segment : Number(st, v) # number
               ELSE hit \in segment /\ Number(st, hit) = number
BY DEF InSegment

\* What a walk reads is on the line, and all of it where every revision of the
\* line can be read.
LEMMA WalkedLine ==
    ASSUME NEW st, NEW v
    PROVE  /\ Walked(st, v) \subseteq Line(st, v)
           /\ (\A w \in Line(st, v) : Present(st, w)) => Walked(st, v) = Line(st, v)
BY DEF Walked

\* A walk from v that reached its end has all of the segment, whatever the
\* floor below it.
LEMMA WalkHas ==
    ASSUME NEW st, SoundHistory(st), NEW v, Held(st, v), NEW k \in Nat, k > 0,
           NEW low \in Nat, low <= k, NEW most
    PROVE  Segment(st, WalkSegment(st, v, Floor(low, Step), most).items, k)
               = Segment(st, Line(st, v), k)
<1> DEFINE stopBelow == Floor(low, Step)
           line == Line(st, v)
           under == {r \in line : Number(st, r) <= stopBelow}
           stop == {r \in under : \A s \in under : Number(st, s) <= Number(st, r)}
           items == WalkSegment(st, v, stopBelow, most).items
<1>1. items = (line \ under) \cup stop
  BY DEF WalkSegment
<1>2. stopBelow \in Nat /\ (stopBelow = 0 \/ stopBelow = low - Step)
  BY StepAssumption, SMT DEF Floor
<1>3. ASSUME NEW w \in line, BoundaryOf(Number(st, w)) = k PROVE w \notin under
  <2>1. Held(st, w)
    BY LineBound DEF SoundHistory, Held
  <2>2. Number(st, w) \in Nat
    BY <2>1, Reads DEF SoundHistory
  <2>3. /\ BoundaryOf(Number(st, w)) < Number(st, w) + Step
        /\ Number(st, w) = 0 => BoundaryOf(Number(st, w)) = 0
    BY <2>2, BoundaryBounds
  <2> DEFINE n == Number(st, w)
  <2>4. k < n + Step /\ n # 0 /\ n \in Nat
    BY <1>3, <2>2, <2>3, SMT
  <2> HIDE DEF n, stopBelow
  <2>5. ~(n <= stopBelow)
    BY <1>2, <2>4, StepAssumption, SMT
  <2> QED BY <2>5 DEF n
<1> HIDE DEF line, items, stopBelow
<1>4. items \subseteq line /\ \A w \in line : w \notin under => w \in items
  BY <1>1
<1> HIDE DEF under
<1>5. Segment(st, items, k) = Segment(st, line, k)
  BY <1>3, <1>4 DEF Segment
<1> QED BY <1>5 DEF items, line, stopBelow

\* The numbers on a line.
LEMMA OnLineTypes ==
    ASSUME NEW st, IsHistory(st), NEW h, Held(st, h), NEW w \in Line(st, h)
    PROVE  Held(st, w) /\ Number(st, w) \in Nat /\ w \in DOMAIN st /\ w # Zero
<1>1. w \in DOMAIN st /\ w # Zero
  BY LineTail
<1>2. Held(st, w)
  BY <1>1 DEF Held
<1> QED BY <1>1, <1>2, Reads

\* A revision of a line at or above all that are within a boundary has the
\* segment of the boundary.
LEMMA SegmentBelow ==
    ASSUME NEW st, SoundHistory(st), NEW h, Held(st, h), NEW x \in Line(st, h),
           NEW k \in Nat,
           \A w \in Line(st, h) : Number(st, w) <= k => Number(st, w) <= Number(st, x)
    PROVE  Segment(st, Line(st, x), k) = Segment(st, Line(st, h), k)
<1>1. Line(st, x) \subseteq Line(st, h)
  BY LineTail DEF SoundHistory
<1>2. ASSUME NEW w \in Line(st, h), BoundaryOf(Number(st, w)) = k PROVE w \in Line(st, x)
  <2>1. Number(st, w) \in Nat
    BY OnLineTypes DEF SoundHistory
  <2>2. Number(st, w) <= k
    BY <1>2, <2>1, BoundaryBounds
  <2>3. Number(st, w) <= Number(st, x)
    BY <2>2
  <2> QED BY <2>3, LineOrder
<1> QED BY <1>1, <1>2 DEF Segment

\* The parent is the highest revision on the line at or below a boundary that
\* the move to its child closes.
LEMMA ParentTops ==
    ASSUME NEW st, SoundHistory(st), NEW h, Held(st, h),
           NEW newer \in Line(st, h), NEW older, older = st[newer].self,
           NEW k \in SealedBoundaries(Number(st, older), Number(st, newer))
    PROVE  /\ k \in Nat /\ k > 0 /\ k < Number(st, newer) /\ k < Number(st, h)
           /\ Number(st, older) <= k /\ Held(st, older)
           /\ older # Zero => older \in Line(st, h)
           /\ \A w \in Line(st, h) : Number(st, w) <= k => Number(st, w) <= Number(st, older)
<1>1. /\ Held(st, newer) /\ Number(st, newer) \in Nat /\ newer \in DOMAIN st /\ newer # Zero
      /\ Number(st, h) \in Nat /\ IsHistory(st)
  BY OnLineTypes, Reads, SMT DEF SoundHistory
<1>2. Held(st, older) /\ Number(st, older) \in Nat
  BY <1>1, Reads
<1>3. k \in Nat /\ k > 0 /\ Number(st, older) <= k /\ k < Number(st, newer)
  BY <1>1, <1>2, SealedBounds
<1>4. newer # h => Number(st, newer) < Number(st, h)
  BY LineNumbers
<1>5. k < Number(st, h)
  BY <1>1, <1>3, <1>4, SMT
<1>6. older # Zero => older \in Line(st, h)
  BY <1>1, LineTail
<1>7. ASSUME NEW w \in Line(st, h), Number(st, w) <= k
      PROVE  Number(st, w) <= Number(st, older)
  <2>1. Number(st, w) \in Nat /\ Number(st, w) <= Number(st, newer) /\ w # newer
    BY <1>1, <1>3, <1>7, OnLineTypes, SMT
  <2>2. w \in Line(st, newer)
    BY <2>1, LineOrder
  <2>3. w \in Line(st, older)
    BY <1>1, <2>1, <2>2, LineUnfolds, SMT
  <2>5. w # older => Number(st, w) < Number(st, older)
    BY <1>2, <2>3, LineNumbers
  <2> QED BY <1>2, <2>1, <2>5, SMT
<1> QED BY <1>2, <1>3, <1>5, <1>6, <1>7

\* What store_history_step caches is the segment, or nothing.
LEMMA ClosedIs ==
    ASSUME NEW st, SoundHistory(st), NEW h, Held(st, h),
           NEW newer \in Line(st, h), NEW older, older = st[newer].self,
           NEW k \in SealedBoundaries(Number(st, older), Number(st, newer))
    PROVE  LET closed == SealedBoundaries(Number(st, older), Number(st, newer))
           IN  ClosedSegment(st, newer, closed, k) \in {{}, Segment(st, Line(st, h), k)}
<1> DEFINE closed == SealedBoundaries(Number(st, older), Number(st, newer))
           lowest == CHOOSE b \in closed : \A c \in closed : b <= c
           most == Cardinality(closed) * Step + Step + 1
           walk == WalkSegment(st, newer, Floor(lowest, Step), most)
<1>0. k \in closed
  OBVIOUS
<1>1. /\ Held(st, newer) /\ Number(st, newer) \in Nat /\ newer \in DOMAIN st /\ newer # Zero
      /\ IsHistory(st)
  BY OnLineTypes DEF SoundHistory
<1>2. Number(st, older) \in Nat
  BY <1>1, Reads
<1>3. /\ k \in Nat /\ k > 0 /\ k < Number(st, newer)
  BY ParentTops
<1>4. lowest \in Nat /\ lowest <= k
  <2>1. lowest \in closed /\ lowest <= k
    <3> HIDE DEF closed
    <3>1. closed \in SUBSET SealedBoundaries(Number(st, older), Number(st, newer)) /\ closed # {}
      BY <1>0 DEF closed
    <3> QED BY <1>0, <1>2, <1>1, <3>1, Extremes
  <2>2. lowest \in Nat
    BY <1>1, <1>2, <2>1, SealedBounds
  <2> QED BY <2>1, <2>2
<1>5. ClosedSegment(st, newer, closed, k) \in {{}, Segment(st, walk.items, k)}
  BY DEF ClosedSegment
<1> HIDE DEF closed, most
<1>6. Segment(st, walk.items, k) = Segment(st, Line(st, newer), k)
  <2> HIDE DEF lowest
  <2> QED BY <1>1, <1>3, <1>4, WalkHas, SMT
<1>7. ASSUME NEW w \in Line(st, h), Number(st, w) <= k PROVE Number(st, w) <= Number(st, newer)
  BY <1>1, <1>3, <1>7, OnLineTypes, SMT
<1>8. Segment(st, Line(st, newer), k) = Segment(st, Line(st, h), k)
  BY <1>3, <1>7, SegmentBelow
<1> HIDE DEF walk
<1> QED BY <1>5, <1>6, <1>8 DEF closed

\* So is what try_backfill_segment caches from the step key above.
LEMMA FilledIs ==
    ASSUME NEW st, SoundHistory(st), NEW h, Held(st, h),
           NEW anchor \in Line(st, h), NEW k \in Nat, k > 0,
           \A w \in Line(st, h) : Number(st, w) <= k + Step => Number(st, w) <= Number(st, anchor)
    PROVE  BackfilledSegment(st, anchor, k) \in {{}, Segment(st, Line(st, h), k)}
<1> DEFINE walk == WalkSegment(st, anchor, Floor(k, Step), 2 * Step + 2)
<1>1. Held(st, anchor) /\ IsHistory(st)
  BY OnLineTypes DEF SoundHistory
<1>2. BackfilledSegment(st, anchor, k) \in {{}, Segment(st, walk.items, k)}
  BY DEF BackfilledSegment
<1>3. Segment(st, walk.items, k) = Segment(st, Line(st, anchor), k)
  BY <1>1, WalkHas, SMT
<1>4. ASSUME NEW w \in Line(st, h), Number(st, w) <= k PROVE Number(st, w) <= Number(st, anchor)
  <2>1. Number(st, w) <= k + Step
    BY <1>1, <1>4, OnLineTypes, StepAssumption, SMT
  <2> QED BY <2>1
<1>5. Segment(st, Line(st, anchor), k) = Segment(st, Line(st, h), k)
  BY <1>4, SegmentBelow
<1> HIDE DEF walk
<1> QED BY <1>2, <1>3, <1>5

-----------------------------------------------------------------------------
(***************************************************************************)
(* Adding revisions                                                        *)
(***************************************************************************)

\* A revision that is there stays as it is.
LEMMA StaysSame ==
    ASSUME NEW st, IsHistory(st), NEW new, Extends(st, new), NEW v, Held(st, v)
    PROVE  /\ Held(new, v) /\ State(new, v) = State(st, v) /\ Number(new, v) = Number(st, v)
           /\ v # Zero => new[v] = st[v] /\ v \in DOMAIN new
BY DEF Extends, Held, State, Number

\* A revision numbered above its parents can be added.
LEMMA Appended ==
    ASSUME NEW st, SoundHistory(st), NEW s, DOMAIN s = StateFields,
           Held(st, s.self), Held(st, s.other), s.number \in Nat,
           Number(st, s.self) < s.number, Number(st, s.other) < s.number
    PROVE  LET new == Serialized(st, s)
               a == Address(st, s)
           IN  /\ SoundHistory(new) /\ Extends(st, new)
               /\ a \in DOMAIN new /\ a # Zero /\ new[a] = s /\ State(new, a) = s
<1> DEFINE new == Serialized(st, s)
           a == Address(st, s)
<1>1. Extends(st, new) /\ Held(new, a) /\ State(new, a) = s /\ IsStore(st) /\ IsHistory(st)
  BY SerializedExtends DEF SoundHistory, IsHistory
<1>2. /\ Len(st) \in Nat /\ DOMAIN st = 1 .. Len(st)
      /\ \A v : Held(st, v) <=> v \in 0 .. Len(st)
  BY <1>1, Addresses
<1>3. \A i \in DOMAIN new : i \in DOMAIN st \/ (i = Len(st) + 1 /\ a = i)
  <2>1. CASE \E i \in DOMAIN st : st[i] = s
    BY <2>1 DEF Serialized
  <2>2. CASE ~ \E i \in DOMAIN st : st[i] = s
    <3>1. new = Append(st, s) /\ a = Len(st) + 1
      BY <2>2 DEF Serialized, Address
    <3>2. st \in Seq({st[i] : i \in DOMAIN st})
      BY <1>1 DEF IsStore
    <3>3. Len(Append(st, s)) = Len(st) + 1
      BY <3>2, SMT
    <3>4. DOMAIN new = 1 .. Len(new)
      <4>1. IsStore(new)
        BY <1>1 DEF Extends
      <4> HIDE DEF new
      <4> QED BY <4>1, Addresses
    <3>5. DOMAIN new = 1 .. Len(st) + 1
      BY <3>1, <3>3, <3>4
    <3> QED BY <1>2, <3>1, <3>5, SMT
  <2> QED BY <2>1, <2>2
<1>4. a \in DOMAIN new /\ a # Zero /\ new[a] = s
  <2>1. a # Zero
    <3>1. CASE \E i \in DOMAIN st : st[i] = s
      BY <1>2, <3>1, SMT DEF Address, Zero
    <3>2. CASE ~ \E i \in DOMAIN st : st[i] = s
      BY <1>2, <3>2, SMT DEF Address, Zero
    <3> QED BY <3>1, <3>2
  <2> QED BY <1>1, <2>1 DEF Held, State
<1> HIDE DEF new, a
<1>5. \A v : Held(st, v) => /\ State(new, v) = State(st, v) /\ Number(new, v) = Number(st, v)
  BY <1>1 DEF Extends, Number
<1>6. ASSUME NEW i \in DOMAIN new
      PROVE  /\ new[i].self \in 0 .. i - 1 /\ new[i].other \in 0 .. i - 1 /\ new[i].number \in Nat
             /\ Number(new, new[i].self) < Number(new, i)
             /\ Number(new, new[i].other) < Number(new, i)
  <2>1. CASE i \in DOMAIN st
    <3>1. new[i] = st[i]
      BY <1>1, <1>2, <2>1, StaysSame, SMT DEF SoundHistory, Held, Zero
    <3>2. st[i].self \in 0 .. i - 1 /\ st[i].other \in 0 .. i - 1 /\ st[i].number \in Nat
      BY <2>1 DEF SoundHistory, IsHistory
    <3>3. Held(st, st[i].self) /\ Held(st, st[i].other)
      BY <1>2, <2>1, <3>2, SMT
    <3>4. Number(st, st[i].self) < Number(st, i) /\ Number(st, st[i].other) < Number(st, i)
      BY <2>1 DEF SoundHistory
    <3>5. /\ Number(new, i) = Number(st, i)
          /\ Number(new, st[i].self) = Number(st, st[i].self)
          /\ Number(new, st[i].other) = Number(st, st[i].other)
      BY <1>5, <2>1, <3>3 DEF Held
    <3> QED BY <3>1, <3>2, <3>4, <3>5
  <2>2. CASE i = Len(st) + 1 /\ a = i
    <3>1. new[i] = s /\ s.self \in 0 .. i - 1 /\ s.other \in 0 .. i - 1
      BY <1>2, <1>4, <2>2, SMT
    <3>2. Number(new, i) = s.number
      BY <1>1, <2>2 DEF Number
    <3> QED BY <1>5, <3>1, <3>2
  <2> QED BY <1>3, <2>1, <2>2
<1>7. SoundHistory(new)
  <2>1. IsStore(new)
    BY <1>1 DEF Extends
  <2> QED BY <1>6, <2>1 DEF SoundHistory, IsHistory
<1> QED BY <1>1, <1>4, <1>7 DEF new, a

\* The parents of a revision can be read.
LEMMA Parents ==
    ASSUME NEW st, IsHistory(st), NEW v \in DOMAIN st
    PROVE  /\ v # Zero /\ Held(st, v) /\ State(st, v) = st[v]
           /\ Held(st, st[v].self) /\ Held(st, st[v].other)
           /\ Number(st, v) = st[v].number /\ st[v].number \in Nat
<1>1. v # Zero /\ Held(st, v)
  BY Addresses, SMT DEF IsHistory, Held, Zero
<1>2. State(st, v) = st[v]
  BY <1>1 DEF State
<1>3. Held(st, State(st, v).self) /\ Held(st, State(st, v).other)
  BY <1>1, Reads
<1>4. Held(st, st[v].self) /\ Held(st, st[v].other)
  BY <1>2, <1>3
<1> QED BY <1>1, <1>2, <1>4 DEF Number, IsHistory

\* The next number is above those of the parents.
LEMMA NextNumber ==
    ASSUME NEW m \in Nat, NEW n \in Nat
    PROVE  /\ NextRevisionNumber(m, n) \in Nat
           /\ m < NextRevisionNumber(m, n) /\ n < NextRevisionNumber(m, n)
BY SMT DEF NextRevisionNumber

\* A step key that is sealed is set to the parent.
LEMMA SealsParent ==
    ASSUME NEW st, SoundHistory(st), NEW newer \in DOMAIN st, NEW older, older = st[newer].self,
           NEW k \in SealedBoundaries(Number(st, older), Number(st, newer))
    PROVE  SealedRevision(st, k, older, newer) = older
<1>1. Number(st, newer) \in Nat /\ Held(st, older)
  BY Parents DEF SoundHistory
<1>2. Number(st, older) \in Nat
  BY <1>1, Reads DEF SoundHistory
<1>3. k \in Nat /\ k < Number(st, newer)
  BY <1>1, <1>2, SealedBounds
<1> QED BY <1>1, <1>3, SMT DEF SealedRevision

\* The lowest revision of a page that is not empty is one of it.
LEMMA PageLowest ==
    ASSUME NEW st, IsHistory(st), NEW page, page # {},
           \A p \in page : Number(st, p) \in Nat
    PROVE  (CHOOSE p \in page : \A q \in page : Number(st, p) <= Number(st, q)) \in page
<1> DEFINE S == {Number(st, p) : p \in page}
<1>1. S \in SUBSET Nat /\ S # {}
  OBVIOUS
<1>2. PICK m \in S : \A n \in S : m <= n
  <2> HIDE DEF S
  <2> QED BY <1>1, Least
<1>3. \E p \in page : \A q \in page : Number(st, p) <= Number(st, q)
  BY <1>2
<1> QED BY <1>3

=============================================================================
